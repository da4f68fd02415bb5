------------------------------ MODULE MCTcpPair ------------------------------
(* Small instances of TcpPair for TLC. *)
EXTENDS TcpPair

CONSTANTS ClientIss, ServerIss, ClientBytes, ServerBytes

PairISS == [h \in Host |-> IF h = Client THEN ClientIss ELSE ServerIss]
PairBytes == [h \in Host |-> IF h = Client THEN ClientBytes ELSE ServerBytes]

=============================================================================
