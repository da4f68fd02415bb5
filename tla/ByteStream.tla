------------------------------ MODULE ByteStream ------------------------------
(***************************************************************************)
(* What a connection promises the applications at its two ends: a stream   *)
(* of bytes each way, in order, each ended at most once and only when it   *)
(* is complete.  Nothing here speaks of segments, windows or timers.       *)
(***************************************************************************)
EXTENDS Naturals, Sequences

CONSTANTS Client, Server

VARIABLES
  sent,    \* sent[h]: how many bytes the application at h has handed over
  got,     \* got[h]: the bytes that have arrived for it
  ended,   \* ended[h]: it has been told that no more will come
  linked   \* the two ends belong to the same connection

streams == <<sent, got, ended, linked>>

Host == {Client, Server}
Peer(h) == IF h = Client THEN Server ELSE Client

Init ==
  /\ sent = [h \in Host |-> 0]
  /\ got = [h \in Host |-> <<>>]
  /\ ended = [h \in Host |-> FALSE]
  /\ linked \in BOOLEAN

\* An end starts afresh; it belongs to no connection yet.
Open(h) ==
  /\ sent' = [sent EXCEPT ![h] = 0]
  /\ got' = [got EXCEPT ![h] = <<>>]
  /\ ended' = [ended EXCEPT ![h] = FALSE]
  /\ linked' \in BOOLEAN
  /\ linked' => \A g \in Host : got'[g] = <<>> /\ ~ ended'[g]

\* The ends find each other before anything has arrived at either.
Link ==
  /\ ~ linked /\ \A h \in Host : got[h] = <<>> /\ ~ ended[h]
  /\ linked' = TRUE
  /\ UNCHANGED <<sent, got, ended>>

\* The application hands bytes over, but not after the end of its stream.
Write(h) ==
  /\ linked => ~ ended[Peer(h)]
  /\ sent'[h] > sent[h] /\ sent' = [sent EXCEPT ![h] = sent'[h]]
  /\ UNCHANGED <<got, ended, linked>>

\* More of the peer's stream arrives, and perhaps its end.
Arrive(h) ==
  /\ linked /\ ~ ended[h]
  /\ \E n \in Len(got[h]) .. sent[Peer(h)] :
       /\ got' = [got EXCEPT ![h] = [i \in 1 .. n |-> i]]
       /\ \/ UNCHANGED ended
          \/ n = sent[Peer(h)] /\ ended' = [ended EXCEPT ![h] = TRUE]
  /\ UNCHANGED <<sent, linked>>

Next == Link \/ \E h \in Host : Open(h) \/ Write(h) \/ Arrive(h)

Spec == Init /\ [][Next]_streams

=============================================================================
