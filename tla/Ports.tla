-------------------------------- MODULE Ports --------------------------------
(* Port numbers, shared by the TCP table, the UDP table and the sockets.      *)
(* Every local endpoint has the one address the stack was started with, so a  *)
(* local (address, port) pair is a port.                                      *)
EXTENDS Integers

CONSTANT PortSpace   \* how many ports there are (2^16)

ASSUME PortAssumption == PortSpace \in Nat \ {0}

Port == 0 .. (PortSpace - 1)

\* "No port": the None of an Option holding one.
NoPort == -1

\* Mutated forms: the counter stays where it is; it runs past the last port.
StayPort(p) == p
PastLastPort(p) == p + 1

\* What both ephemeral port counters do after handing out p: wrapping_add(1).
NextPort(p) == (p + 1) % PortSpace

=============================================================================
