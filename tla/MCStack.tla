------------------------------- MODULE MCStack -------------------------------
(* The stack of src/stack.rs for TLC, on small instances.                     *)
EXTENDS Stack

\* Applications that meet one remote host, and ones that meet all of them.
CONSTANTS OneHost, AllHosts

Applications ==
  UNION {[calls : OneHost, remotes : {{r}}] : r \in {CHOOSE r \in Remote : TRUE}}
    \cup [calls : AllHosts, remotes : {Remote}]

=============================================================================
