------------------------------- MODULE TcpPair -------------------------------
(***************************************************************************)
(* Two MiniTCP hosts joined by a network, the way tests/retransmission.rs  *)
(* joins two TcpTables: Client opens one connection to the port Server     *)
(* listens on.  The handlers are those of TcpConnection; this module adds  *)
(* the table around the connection (open, demultiplex, reap, accept), the  *)
(* socket calls of src/stack.rs, and the network.                          *)
(*                                                                         *)
(* The network is external.  wire[h] holds the segments on their way to h, *)
(* oldest first; it may lose, duplicate or overtake a segment, each such   *)
(* fault taking one of MaxFaults.                                          *)
(***************************************************************************)
EXTENDS TcpConnection

CONSTANTS
  Client, Server,
  ISS,            \* ISS[h]: the values generate_iss may draw at host h
  AppBytes,       \* AppBytes[h]: how many bytes the application at h sends
  SendSizes,      \* sizes of the application's send() calls
  RecvSizes,      \* sizes of the application's recv() buffers
  RcvBufs,        \* values the applications give SO_RCVBUF
  SndBufs,        \* values the applications give SO_SNDBUF
  FaultKinds,     \* the faults of the network, out of AllFaults
  MaxFaults,      \* bound: how many faults happen
  MaxWire,        \* bound: a timer fires only below this many segments in flight
  PromptNetwork   \* whether every segment arrives or is lost before a timer fires

Host == {Client, Server}
AllFaults == {"lose", "duplicate", "reorder"}

ASSUME PairAssumption ==
  /\ Client # Server
  /\ ISS \in [Host -> SUBSET SeqNum]
  /\ AppBytes \in [Host -> Nat]
  /\ SendSizes \subseteq Nat \ {0}
  /\ RecvSizes \subseteq Nat \ {0}
  /\ RcvBufs \subseteq SeqNum \ {0}
  /\ SndBufs \subseteq Nat \ {0}
  /\ FaultKinds \subseteq AllFaults
  /\ MaxFaults \in Nat
  /\ MaxWire \in Nat
  /\ PromptNetwork \in BOOLEAN

VARIABLES
  conn,          \* conn[h]: the table's entry for the connection at h
  accept_queue,  \* accept_queue[h]: how often the connection is queued for accept()
  sock,          \* sock[h]: the application's socket: "none", "open" or "closed"
  wire,          \* wire[h]: segments in flight to h
  faults,        \* how many faults the network has made
  iss_pool,      \* iss_pool[h]: initial sequence numbers not drawn yet
  sent,          \* history: bytes send() has accepted at h
  read,          \* history: what recv() has returned at h
  eof,           \* history: recv() has returned 0 at h
  aborted        \* history: the connection at h ended by reset, by give-up, or unopened

vars == <<conn, accept_queue, sock, wire, faults, iss_pool, sent, read, eof, aborted>>

Peer(h) == IF h = Client THEN Server ELSE Client
Live(h) == conn[h].state # "GONE"

TypeOK ==
  /\ conn \in [Host -> Conn]
  /\ \A h \in Host : IsFiniteSet(conn[h].ooo_buffer) /\ conn[h].tun = <<>>
  /\ accept_queue \in [Host -> Nat]
  /\ sock \in [Host -> {"none", "open", "closed"}]
  /\ wire \in [Host -> Seq(Segment)]
  /\ faults \in 0 .. MaxFaults
  /\ iss_pool \in [Host -> SUBSET SeqNum]
  /\ sent \in [Host -> Nat]
  /\ read \in [Host -> Seq(Byte)]
  /\ eof \in [Host -> BOOLEAN]
  /\ aborted \in [Host -> BOOLEAN]

Init ==
  /\ conn = [h \in Host |-> [new EXCEPT !.state = "GONE"]]
  /\ accept_queue = [h \in Host |-> 0]
  /\ sock = [h \in Host |-> "none"]
  /\ wire = [h \in Host |-> <<>>]
  /\ faults = 0
  /\ iss_pool = ISS
  /\ sent = [h \in Host |-> 0]
  /\ read = [h \in Host |-> <<>>]
  /\ eof = [h \in Host |-> FALSE]
  /\ aborted = [h \in Host |-> FALSE]

----------------------------------------------------------------------------
(* The network *)

Without(s, i) == SubSeq(s, 1, i - 1) \o SubSeq(s, i + 1, Len(s))

\* The connection at h becomes c, and what c wrote to the TUN device leaves for
\* the peer behind the segments w[Peer(h)].
Put(h, c, w) ==
  /\ conn' = [conn EXCEPT ![h] = [c EXCEPT !.tun = <<>>]]
  /\ wire' = [w EXCEPT ![Peer(h)] = @ \o c.tun]

Fault(kind) == kind \in FaultKinds /\ faults < MaxFaults /\ faults' = faults + 1

Lose(h) ==
  /\ Fault("lose")
  /\ \E i \in DOMAIN wire[h] : wire' = [wire EXCEPT ![h] = Without(@, i)]
  /\ UNCHANGED <<conn, accept_queue, sock, iss_pool, sent, read, eof, aborted>>

Duplicate(h) ==
  /\ Fault("duplicate")
  /\ \E i \in DOMAIN wire[h] : wire' = [wire EXCEPT ![h] = Append(@, @[i])]
  /\ UNCHANGED <<conn, accept_queue, sock, iss_pool, sent, read, eof, aborted>>

----------------------------------------------------------------------------
(* handle_segment: the segment is the i-th in flight to h, and w the network  *)
(* without it.                                                                *)

Existing(h, seg, w) ==
  LET c == process_segment(conn[h], seg)
  IN  /\ Live(h)
      /\ Put(h, cleanup(c), w)
      /\ accept_queue' = [accept_queue EXCEPT ![h] =
                            @ + IF Completes(conn[h], seg) THEN 1 ELSE 0]
      /\ aborted' = [aborted EXCEPT ![h] =
                       @ \/ ("RST" \in seg.flags /\ conn[h].state # "CLOSED")]
      /\ UNCHANGED <<iss_pool, sent, read, eof>>

WantsPassiveOpen(h, seg) ==
  h = Server /\ "SYN" \in seg.flags /\ "ACK" \notin seg.flags

\* generate_iss is taken to draw a value not used before.
Passive(h, seg, w) ==
  /\ ~ Live(h) /\ WantsPassiveOpen(h, seg)
  /\ \E iss \in iss_pool[h] :
       /\ Put(h, PassiveOpen(seg, iss), w)
       /\ iss_pool' = [iss_pool EXCEPT ![h] = @ \ {iss}]
  /\ sent' = [sent EXCEPT ![h] = 0]
  /\ read' = [read EXCEPT ![h] = <<>>]
  /\ eof' = [eof EXCEPT ![h] = FALSE]
  /\ aborted' = [aborted EXCEPT ![h] = FALSE]
  /\ UNCHANGED accept_queue

send_rst_for_unknown(h, seg, w) ==
  /\ ~ Live(h) /\ ~ WantsPassiveOpen(h, seg)
  /\ wire' = [w EXCEPT ![Peer(h)] =
                @ \o IF "RST" \in seg.flags THEN <<>> ELSE <<RstFor(seg)>>]
  /\ UNCHANGED <<conn, accept_queue, iss_pool, sent, read, eof, aborted>>

handle_segment(h) ==
  /\ \E i \in DOMAIN wire[h] :
       LET seg == wire[h][i]
           w == [wire EXCEPT ![h] = Without(@, i)]
       IN  /\ IF i = 1 THEN UNCHANGED faults ELSE Fault("reorder")
           /\ \/ Existing(h, seg, w)
              \/ Passive(h, seg, w)
              \/ send_rst_for_unknown(h, seg, w)
  /\ UNCHANGED sock

----------------------------------------------------------------------------
(* tick *)

\* When a deadline passes relative to the arrival of segments is left open,
\* unless PromptNetwork says that the network is faster than every timer.
MayFire ==
  /\ Len(wire[Client]) + Len(wire[Server]) < MaxWire
  /\ PromptNetwork => \A g \in Host : wire[g] = <<>>

tick(h, due) ==
  /\ due \subseteq Armed(conn[h])
  /\ due # {} => MayFire
  /\ IF Live(h) THEN Put(h, cleanup(TickConn(conn[h], due)), wire)
     ELSE UNCHANGED <<conn, wire>>
  /\ aborted' = [aborted EXCEPT ![h] = @ \/ (Live(h) /\ GivesUp(conn[h], due))]
  /\ UNCHANGED <<accept_queue, sock, faults, iss_pool, sent, read, eof>>

----------------------------------------------------------------------------
(* Socket calls *)

\* c with the buffer options its socket may have had set; an unset option
\* leaves the cap as it is.
WithOptions(c) ==
  {set_send_cap(set_recv_cap(c, r), s) :
     r \in RcvBufs \cup {c.recv_buffer_cap}, s \in SndBufs \cup {c.send_pending_cap}}

\* Stack::connect up to its waiting loop; the SYN leaves before the options apply.
Connect ==
  /\ sock[Client] = "none"
  /\ sock' = [sock EXCEPT ![Client] = "open"]
  /\ \E iss \in iss_pool[Client] : \E c \in WithOptions(connect(iss)) :
       /\ Put(Client, c, wire)
       /\ iss_pool' = [iss_pool EXCEPT ![Client] = @ \ {iss}]
  /\ UNCHANGED <<accept_queue, faults, sent, read, eof, aborted>>

\* Stack::accept takes one connection off the queue, whatever became of it, and
\* gives it the listener's options.  The server works on one at a time.
Accept ==
  /\ accept_queue[Server] > 0 /\ sock[Server] # "open"
  /\ sock' = [sock EXCEPT ![Server] = "open"]
  /\ accept_queue' = [accept_queue EXCEPT ![Server] = @ - 1]
  /\ IF Live(Server) THEN \E c \in WithOptions(conn[Server]) : Put(Server, c, wire)
     ELSE UNCHANGED <<conn, wire>>
  /\ UNCHANGED <<faults, iss_pool, sent, read, eof, aborted>>

\* setsockopt(RcvBuf) and setsockopt(SndBuf) on a connected socket.
setsockopt(h) ==
  /\ sock[h] = "open" /\ Live(h)
  /\ \E c \in WithOptions(conn[h]) : Put(h, c, wire)
  /\ UNCHANGED <<accept_queue, sock, faults, iss_pool, sent, read, eof, aborted>>

\* The call goes through when the table still has the connection.
Send(h, n) ==
  /\ sock[h] = "open" /\ Live(h)
  /\ sent[h] + n <= AppBytes[h]
  /\ Put(h, send(conn[h], [i \in 1 .. n |-> sent[h] + i]), wire)
  /\ sent' = [sent EXCEPT ![h] = @ + Accepted(conn[h], n)]
  /\ UNCHANGED <<accept_queue, sock, faults, iss_pool, read, eof, aborted>>

Recv(h, n) ==
  /\ sock[h] = "open" /\ Live(h) /\ conn[h].recv_buffer # <<>>
  /\ Put(h, recv(conn[h], n), wire)
  /\ read' = [read EXCEPT ![h] =
                @ \o SubSeq(conn[h].recv_buffer, 1, MinOf(n, Len(conn[h].recv_buffer)))]
  /\ UNCHANGED <<accept_queue, sock, faults, iss_pool, sent, eof, aborted>>

tcp_remote_closed_no_more_data(h) ==
  conn[h].state \in {"CLOSE_WAIT", "LAST_ACK", "CLOSED", "TIME_WAIT", "GONE"}

\* Stack::recv returns 0: nothing to read, and nothing can come.
RecvEof(h) ==
  /\ sock[h] = "open"
  /\ Live(h) => conn[h].recv_buffer = <<>>
  /\ tcp_remote_closed_no_more_data(h)
  /\ eof' = [eof EXCEPT ![h] = TRUE]
  /\ UNCHANGED <<conn, accept_queue, sock, wire, faults, iss_pool, sent, read, aborted>>

\* Stack::close frees the socket whether or not the connection is still there.
Close(h) ==
  /\ sock[h] = "open"
  /\ sock' = [sock EXCEPT ![h] = "closed"]
  /\ IF Live(h) THEN Put(h, close(conn[h]), wire) ELSE UNCHANGED <<conn, wire>>
  /\ aborted' = [aborted EXCEPT ![h] = @ \/ conn[h].state = "SYN_SENT"]
  /\ UNCHANGED <<accept_queue, faults, iss_pool, sent, read, eof>>

----------------------------------------------------------------------------
Next ==
  \/ Connect
  \/ Accept
  \/ \E h \in Host :
       \/ handle_segment(h)
       \/ \E due \in SUBSET {"time_wait", "probe", "retransmit"} : tick(h, due)
       \/ \E n \in SendSizes : Send(h, n)
       \/ \E n \in RecvSizes : Recv(h, n)
       \/ RecvEof(h)
       \/ setsockopt(h)
       \/ Close(h)
       \/ Lose(h)
       \/ Duplicate(h)

Spec == Init /\ [][Next]_vars

\* A segment in flight to h is read or lost: weak fairness of handle_segment(h),
\* which is enabled whenever one is there, with ENABLED written out.
Reads(h) == []<>(wire[h] = <<>>) \/ []<><<handle_segment(h)>>_vars

\* Every blocking call and the event loop pump: an arrived segment is read, tick
\* runs at least every 200 ms, and a deadline that keeps coming due is acted on
\* (strong fairness: segments in flight may hold a timer back for a while).  The
\* applications take what accept() and recv() offer.  Nothing makes an
\* application send or close, nor the network make a fault.
Fairness ==
  /\ WF_vars(Accept)
  /\ \A h \in Host :
       /\ Reads(h)
       /\ WF_vars(tick(h, {}))
       /\ SF_vars(tick(h, Armed(conn[h])))
       /\ WF_vars(\E n \in RecvSizes : Recv(h, n))

FairSpec == Spec /\ Fairness

----------------------------------------------------------------------------
(* Correctness *)

\* All the bytes the connection at h has taken in, in order: those the
\* application has read and those still in the receive buffer.
Delivered(h) == read[h] \o conn[h].recv_buffer

\* Both records belong to one connection: each has seen the other's SYN.  They do
\* not when a late duplicate SYN has opened a second connection at the server.
Paired == \A h \in Host : conn[h].irs = conn[Peer(h)].iss

RemoteFinConsumed(h) ==
  conn[h].state \in {"CLOSE_WAIT", "LAST_ACK", "CLOSING", "TIME_WAIT"}

\* The connection at h has gone through its whole teardown: the acknowledgement
\* of its FIN is in, and it did not end by reset or give-up.
OwnFinAcked(h) ==
  \/ conn[h].state \in {"FIN_WAIT_2", "TIME_WAIT"}
  \/ /\ conn[h].state = "GONE" /\ ~ aborted[h]
     /\ conn[h].iss # conn[h].snd_nxt /\ conn[h].snd_una = conn[h].snd_nxt

\* What recv() hands out is a prefix of what the peer's send() accepted: nothing
\* missing, repeated, reordered or corrupted, and no persist probe byte, whatever
\* the network loses, duplicates or reorders.
InOrderDelivery ==
  Paired => \A h \in Host :
    /\ Len(Delivered(h)) <= sent[Peer(h)]
    /\ \A i \in DOMAIN Delivered(h) : Delivered(h)[i] = i

\* An acknowledged byte has been received: process_ack never moves snd_una past
\* what the peer's receive side has taken in, which never passes snd_nxt.
AckedIsReceived ==
  Paired => \A h \in Host :
    /\ conn[h].snd_una <= conn[Peer(h)].rcv_nxt
    /\ conn[Peer(h)].rcv_nxt <= conn[h].snd_nxt

\* A FIN comes after every byte: once the peer's FIN is consumed, all that its
\* application was told had been accepted has arrived (close() defers the FIN
\* until send_pending is empty).
FinAfterAllData ==
  Paired => \A h \in Host :
    RemoteFinConsumed(h) => Len(Delivered(h)) = sent[Peer(h)]

\* A host whose FIN was acknowledged, up to the end of TIME_WAIT or LAST_ACK, has
\* delivered its whole stream: graceful close loses nothing.
GracefulCloseDelivers ==
  Paired => \A h \in Host :
    OwnFinAcked(h) => Len(Delivered(Peer(h))) = sent[h]

\* A connection that a late duplicate SYN opens after the first is gone stays half
\* open until it is given up or reset: no segment of the first acknowledges its SYN,
\* and the socket of the first, which has the same key, does not bring it further.
LateSynStaysHalfOpen ==
  ~ Paired /\ Live(Server) => conn[Server].state = "SYN_RCVD"

\* The out-of-order buffer holds nothing the receive side has passed: the splice
\* loop leaves no entry behind that would shut the window for good.
NoStaleOutOfOrder ==
  \A h \in Host : Live(h) =>
    \A e \in conn[h].ooo_buffer :
      /\ e.seq > conn[h].rcv_nxt
      /\ \A f \in conn[h].ooo_buffer : f.seq = e.seq => f = e

\* Whatever is sent and not acknowledged can be sent again: the retransmit queue
\* covers exactly the sequence numbers from snd_una up to snd_nxt, in order.
QueueCoversInFlight ==
  \A h \in Host : Live(h) =>
    LET q == conn[h].retransmit_queue
    IN  IF q = <<>> THEN conn[h].snd_una = conn[h].snd_nxt
        ELSE /\ q[1].seq = conn[h].snd_una
             /\ EndSeq(q[Len(q)]) = conn[h].snd_nxt
             /\ \A i \in 1 .. (Len(q) - 1) : EndSeq(q[i]) = q[i + 1].seq

\* Receive memory stays below the configured cap: in-order data is taken in
\* without a check, so this rests on the sender keeping to the advertised window.
RecvBufferBounded ==
  \A h \in Host : buffered_bytes(conn[h]) <= conn[h].recv_buffer_cap

\* Out-of-order data never grows past the cap in force when it arrives: a stored
\* segment leaves buffered_bytes at or below recv_buffer_cap.
OooGrowsWithinCap ==
  [][\A h \in Host :
       OooBytes(conn'[h].ooo_buffer) > OooBytes(conn[h].ooo_buffer)
         => buffered_bytes(conn'[h]) <= conn'[h].recv_buffer_cap]_vars

\* Within one connection acknowledgements and the receive side only advance, so a
\* late or repeated segment never takes back what a newer one established.
SequenceNeverRegresses ==
  [][\A h \in Host : conn'[h].iss = conn[h].iss =>
       /\ conn'[h].snd_una >= conn[h].snd_una
       /\ conn'[h].rcv_nxt >= conn[h].rcv_nxt]_vars

\* On a network without faults that is faster than the timers no connection that
\* was established is reset or given up.
NoAbortWithoutFaults ==
  faults = 0 /\ PromptNetwork =>
    \A h \in Host : aborted[h] => conn[h].snd_una = conn[h].iss

\* The peer's FIN has been counted into rcv_nxt; holds of a reaped record too.
FinTaken(h) ==
  wrapping_sub(conn[h].rcv_nxt, conn[h].irs) = Len(Delivered(h)) + 2

\* The pair implements two byte streams: bytes arrive in order and once, nothing
\* arrives or is accepted after the end of a stream, and the end comes last.
Streams == INSTANCE ByteStream WITH
  got <- [h \in Host |-> Delivered(h)],
  ended <- [h \in Host |-> FinTaken(h)],
  linked <- Paired
ImplementsByteStream == Streams!Spec

\* No byte is stuck: what send() accepted is read by the peer's application,
\* unless that application stops reading or the sender's connection is aborted.
\* A shut window reopens only through persist probes, since recv() sends no
\* window update.
SentIsRead ==
  \A h \in Host : \A n \in 1 .. AppBytes[h] :
    sent[h] >= n ~> \/ Len(read[Peer(h)]) >= n
                    \/ sock[Peer(h)] = "closed"
                    \/ aborted[h]

\* Teardown ends: once both applications have closed, both tables are empty.
TeardownEnds ==
  (\A h \in Host : sock[h] = "closed") ~> (\A h \in Host : ~ Live(h))

\* The handshake completes: a client that keeps its connection gets it accepted.
HandshakeCompletes ==
  sock[Client] = "open" ~> (sock[Server] # "none" \/ sock[Client] = "closed")

----------------------------------------------------------------------------
(* What the repository says of the code and the code does not do: each of the *)
(* following is refuted by a run of its own.                                  *)

\* End of file means the whole stream: recv() returns 0 only when all that the
\* peer's send() accepted has been read.
CleanEof ==
  Paired => \A h \in Host : eof[h] => Len(read[h]) = sent[Peer(h)]

\* A FIN whose acknowledgement was lost is acknowledged again when it is
\* retransmitted: with fewer losses than retries no host gives up on a peer that
\* has taken its FIN and still holds the connection.
FinIsReacked ==
  faults < MaxRetries =>
    ~ \E h \in Host : aborted[h] /\ conn[Peer(h)].state = "CLOSE_WAIT"

=============================================================================
