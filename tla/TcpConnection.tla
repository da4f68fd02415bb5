--------------------------- MODULE TcpConnection ---------------------------
(***************************************************************************)
(* One TCP connection control block and the functions of src/tcp.rs that   *)
(* work on it.  Every operator takes a connection record and returns the   *)
(* updated one; the segments a call writes to the TUN device are collected *)
(* in its field tun, which the caller empties onto the network.            *)
(*                                                                         *)
(* Data: a payload is a sequence of bytes, and the byte an application     *)
(* sends as the i-th of its stream is the number i.  ProbeByte is the zero *)
(* byte of a persist probe, which belongs to no stream.  Time: a deadline  *)
(* is not a number; which armed timers have run out is a parameter of tick.*)
(***************************************************************************)
EXTENDS Integers, Sequences, FiniteSets

CONSTANTS
  SeqSpace,     \* how many sequence numbers there are (2^32)
  MSS,          \* largest payload of one segment
  MaxWindow,    \* largest window the 16-bit header field can carry (65535)
  MaxRetries,   \* MAX_RETRIES
  RecvCap,      \* DEFAULT_RECV_BUFFER_CAP
  SendCap       \* DEFAULT_SEND_BUFFER_CAP

ASSUME ConnectionAssumption ==
  /\ SeqSpace \in Nat /\ SeqSpace > 1
  /\ MSS \in Nat \ {0}
  /\ MaxWindow \in Nat \ {0}
  /\ MaxRetries \in Nat
  /\ RecvCap \in 0 .. (SeqSpace - 1)
  /\ SendCap \in Nat

SeqNum == 0 .. (SeqSpace - 1)
Byte == Nat
ProbeByte == 0

Flag == {"SYN", "ACK", "FIN", "RST"}

\* "GONE" is a connection the table no longer holds: never opened, or reaped.
\* The record of a reaped connection is kept as history and never read back.
TcpState == {"CLOSED", "LISTEN", "SYN_SENT", "SYN_RCVD", "ESTABLISHED",
             "FIN_WAIT_1", "FIN_WAIT_2", "CLOSE_WAIT", "CLOSING", "LAST_ACK",
             "TIME_WAIT", "GONE"}

Segment == [flags : SUBSET Flag, seq : SeqNum, ack : SeqNum,
            wnd : 0 .. MaxWindow, data : Seq(Byte)]

UnackedSegment == [seq : SeqNum, flags : SUBSET Flag, data : Seq(Byte),
                   retry_count : Nat]

\* An entry of the out-of-order map: its key and the payload stored under it.
OooEntry == [seq : SeqNum, data : Seq(Byte) \ {<<>>}]

Conn == [state : TcpState, iss : SeqNum, irs : SeqNum,
         snd_una : SeqNum, snd_nxt : SeqNum, snd_wnd : 0 .. MaxWindow,
         rcv_nxt : SeqNum, recv_buffer : Seq(Byte),
         ooo_buffer : SUBSET OooEntry, send_pending : Seq(Byte),
         retransmit_queue : Seq(UnackedSegment),
         probe_armed : BOOLEAN, pending_close : BOOLEAN,
         recv_buffer_cap : SeqNum, send_pending_cap : Nat,
         tun : Seq(Segment)]

\* TcpConnection::new()
new == [state |-> "CLOSED", iss |-> 0, irs |-> 0,
        snd_una |-> 0, snd_nxt |-> 0, snd_wnd |-> MaxWindow,
        rcv_nxt |-> 0, recv_buffer |-> <<>>,
        ooo_buffer |-> {}, send_pending |-> <<>>,
        retransmit_queue |-> <<>>,
        probe_armed |-> FALSE, pending_close |-> FALSE,
        recv_buffer_cap |-> RecvCap, send_pending_cap |-> SendCap,
        tun |-> <<>>]

MinOf(a, b) == IF a <= b THEN a ELSE b
wrapping_add(a, n) == (a + n) % SeqSpace
wrapping_sub(a, b) == (a - b) % SeqSpace

\* Mutated form: the FIN takes no sequence number.
ConsumedWithoutFin(flags, data) == Len(data) + (IF "SYN" \in flags THEN 1 ELSE 0)

\* Sequence numbers a segment occupies: its payload, and one each for SYN, FIN.
Consumed(flags, data) ==
  Len(data) + (IF "SYN" \in flags THEN 1 ELSE 0)
            + (IF "FIN" \in flags THEN 1 ELSE 0)

----------------------------------------------------------------------------
(* Sending *)

\* One cell per byte held in a set of out-of-order entries.
OooCells(K) == UNION {{e.seq} \X (1 .. Len(e.data)) : e \in K}
OooBytes(K) == Cardinality(OooCells(K))

buffered_bytes(c) == Len(c.recv_buffer) + OooBytes(c.ooo_buffer)

advertise_window(c) ==
  IF buffered_bytes(c) >= c.recv_buffer_cap THEN 0
  ELSE MinOf(c.recv_buffer_cap - buffered_bytes(c), MaxWindow)

\* The segment send_segment builds: acknowledgement and window are those of
\* the moment it is sent, for a retransmission as well.
SegmentFrom(c, flags, seq, data) ==
  [flags |-> flags, seq |-> seq,
   ack |-> IF "ACK" \in flags THEN c.rcv_nxt ELSE 0,
   wnd |-> advertise_window(c), data |-> data]

send_segment(c, flags, seq, data) ==
  [c EXCEPT !.tun = Append(@, SegmentFrom(c, flags, seq, data))]

send_ack_only(c) == send_segment(c, {"ACK"}, c.snd_nxt, <<>>)

queue_and_send(c, flags, data) ==
  [send_segment(c, flags, c.snd_nxt, data) EXCEPT
     !.retransmit_queue = Append(@, [seq |-> c.snd_nxt, flags |-> flags,
                                     data |-> data, retry_count |-> 0]),
     !.snd_nxt = wrapping_add(@, Consumed(flags, data))]

EndSeq(u) == wrapping_add(u.seq, Consumed(u.flags, u.data))

\* Mutated form: a segment acknowledged to its very end stays.
UnackedAtEnd(u, una) == EndSeq(u) >= una

\* The comparison is the plain one of the code, not modulo SeqSpace.
Unacked(u, una) == EndSeq(u) > una

\* The queue after popping, from the front, the segments that end by una.
remove_acked(q, una) ==
  LET unacked == {i \in DOMAIN q : Unacked(q[i], una)}
      first == CHOOSE i \in unacked : \A j \in unacked : i <= j
  IN  IF unacked = {} THEN <<>> ELSE SubSeq(q, first, Len(q))

\* Mutated form: an older acknowledgement counts as well.
NewerOrOlder(c, seg) == seg.ack # c.snd_una

Newer(c, seg) == seg.ack > c.snd_una

process_ack(c, seg) ==
  IF "ACK" \notin seg.flags THEN c
  ELSE [c EXCEPT
          !.snd_una = IF Newer(c, seg) THEN seg.ack ELSE @,
          !.retransmit_queue = IF Newer(c, seg) THEN remove_acked(@, seg.ack) ELSE @,
          !.snd_wnd = seg.wnd,
          !.probe_armed = @ /\ seg.wnd = 0]

\* Mutated form: the persist timer is forgotten.
ArmNothing(c) == c

\* The persist timer is armed while the window is shut and data is waiting.
ArmProbe(c) ==
  [c EXCEPT !.probe_armed = @ \/ (c.snd_wnd = 0 /\ c.send_pending # <<>>)]

\* Mutated form: bytes in flight are not held against the window.
WholeWindow(c) == MinOf(c.snd_wnd, Len(c.send_pending))

\* How much of send_pending the peer's window has room for.
WindowRoom(c) ==
  LET in_flight == wrapping_sub(c.snd_nxt, c.snd_una)
  IN  IF in_flight >= c.snd_wnd THEN 0
      ELSE MinOf(c.snd_wnd - in_flight, Len(c.send_pending))

\* flush_send's loop: that much, cut into chunks of at most MSS bytes, each one
\* sent and queued.
SendWindow(c) ==
  LET n == WindowRoom(c)
      chunks == 1 .. ((n + MSS - 1) \div MSS)
      seq(i) == wrapping_add(c.snd_nxt, (i - 1) * MSS)
      data(i) == SubSeq(c.send_pending, (i - 1) * MSS + 1, MinOf(i * MSS, n))
  IN  [c EXCEPT
         !.tun = @ \o [i \in chunks |-> SegmentFrom(c, {"ACK"}, seq(i), data(i))],
         !.retransmit_queue = @ \o [i \in chunks |->
            [seq |-> seq(i), flags |-> {"ACK"}, data |-> data(i), retry_count |-> 0]],
         !.snd_nxt = wrapping_add(@, n),
         !.send_pending = SubSeq(@, n + 1, Len(@))]

\* Mutated form: the FIN does not wait for the data before it.
FinAtOnce(c) == c.pending_close

\* The FIN a close() deferred goes out once nothing is left to send before it.
FinIsDue(c) == c.pending_close /\ c.send_pending = <<>>

SendDeferredFin(c) ==
  IF ~ FinIsDue(c) THEN c
  ELSE [queue_and_send(c, {"FIN", "ACK"}, <<>>) EXCEPT
          !.state = IF @ = "ESTABLISHED" THEN "FIN_WAIT_1" ELSE "LAST_ACK",
          !.pending_close = FALSE]

flush_send(c) ==
  IF c.state \notin {"ESTABLISHED", "CLOSE_WAIT"} THEN c
  ELSE SendDeferredFin(SendWindow(ArmProbe(c)))

----------------------------------------------------------------------------
(* Receiving *)

Offset(e, from) == wrapping_sub(e.seq, from)

\* The entries K follow each other without gap or overlap from sequence number
\* from on, and no entry is stored where they end.
IsSpliceRun(ooo, from, K) ==
  /\ UNION {Offset(e, from) .. (Offset(e, from) + Len(e.data) - 1) : e \in K}
       = 0 .. (OooBytes(K) - 1)
  /\ \A e \in ooo : e.seq # wrapping_add(from, OooBytes(K))

\* Mutated form: nothing is spliced.
SpliceNothing(ooo, from) == {}

\* What the splice loop takes out of the out-of-order buffer at rcv_nxt = from.
SpliceRun(ooo, from) == CHOOSE K \in SUBSET ooo : IsSpliceRun(ooo, from, K)

\* The bytes of a splice run in sequence order.
RunBytes(K, from) ==
  [i \in 1 .. OooBytes(K) |->
     LET e == CHOOSE x \in K : i - Offset(x, from) \in DOMAIN x.data
     IN  e.data[i - Offset(e, from)]]

ReceiveInOrder(c, seg) ==
  LET from == wrapping_add(c.rcv_nxt, Len(seg.data))
      run == SpliceRun(c.ooo_buffer, from)
      new_data == seg.data \o RunBytes(run, from)
      fin == IF "FIN" \in seg.flags THEN 1 ELSE 0
      d == [c EXCEPT !.recv_buffer = @ \o new_data,
                     !.ooo_buffer = @ \ run,
                     !.rcv_nxt = wrapping_add(@, Len(new_data) + fin)]
  IN  IF Len(new_data) + fin > 0 THEN send_ack_only(d) ELSE d

\* Mutated forms: an empty payload is kept too; the cap is not looked at.
FitsEmpty(c, seg) == buffered_bytes(c) + Len(seg.data) <= c.recv_buffer_cap
FitsAlways(c, seg) == seg.data # <<>>

Fits(c, seg) ==
  seg.data # <<>> /\ buffered_bytes(c) + Len(seg.data) <= c.recv_buffer_cap

\* A gap: keep the payload if it fits under the cap, forget a FIN, and repeat
\* the acknowledgement of the byte still waited for.
ReceiveOutOfOrder(c, seg) ==
  LET others == {e \in c.ooo_buffer : e.seq # seg.seq}
      entry == [seq |-> seg.seq, data |-> seg.data]
  IN  send_ack_only([c EXCEPT !.ooo_buffer =
                       IF Fits(c, seg) THEN others \cup {entry} ELSE @])

\* Mutated form: data already received is taken in again.
ReceiveAgain(c, seg) == ReceiveInOrder(c, seg)

ReceiveOld(c, seg) ==
  IF seg.data # <<>> \/ "FIN" \in seg.flags THEN send_ack_only(c) ELSE c

receive_data_and_maybe_fin(c, seg) ==
  IF seg.seq = c.rcv_nxt THEN ReceiveInOrder(c, seg)
  ELSE IF seg.seq > c.rcv_nxt THEN ReceiveOutOfOrder(c, seg)
  ELSE ReceiveOld(c, seg)

\* The value receive_data_and_maybe_fin returns.
FinConsumed(c, seg) == seg.seq = c.rcv_nxt /\ "FIN" \in seg.flags

----------------------------------------------------------------------------
(* The state machine: one operator per arm of process_segment *)

\* Mutated form: any acknowledgement counts as one of all that was sent.
AcksAnything(c, seg) == "ACK" \in seg.flags

Acks(c, seg) == "ACK" \in seg.flags /\ seg.ack = c.snd_nxt

InSynSent(c, seg) ==
  IF ~ ("SYN" \in seg.flags /\ Acks(c, seg)) THEN c
  ELSE send_ack_only([c EXCEPT
         !.irs = seg.seq, !.rcv_nxt = wrapping_add(seg.seq, 1),
         !.snd_una = seg.ack, !.snd_wnd = seg.wnd,
         !.retransmit_queue = remove_acked(@, seg.ack),
         !.state = "ESTABLISHED"])

\* receive_data_and_maybe_fin, and the state after it if it consumed a FIN.
ReceiveThen(c, seg, onFin) ==
  [receive_data_and_maybe_fin(c, seg) EXCEPT
     !.state = IF FinConsumed(c, seg) THEN onFin ELSE @]

\* The accept queue push of this arm is the table's: see Completes.
InSynRcvd(c, seg) ==
  LET d == [c EXCEPT !.snd_una = seg.ack, !.snd_wnd = seg.wnd,
                     !.retransmit_queue = remove_acked(@, seg.ack),
                     !.state = "ESTABLISHED"]
  IN  IF ~ Acks(c, seg) THEN c
      ELSE IF seg.data = <<>> /\ "FIN" \notin seg.flags THEN d
      ELSE ReceiveThen(d, seg, "CLOSE_WAIT")

Completes(c, seg) ==
  c.state = "SYN_RCVD" /\ "RST" \notin seg.flags /\ Acks(c, seg)

InEstablished(c, seg) ==
  flush_send(ReceiveThen(process_ack(c, seg), seg, "CLOSE_WAIT"))

InFinWait1(c, seg) ==
  LET d == process_ack(c, seg)
  IN  IF Acks(c, seg)
      THEN ReceiveThen([d EXCEPT !.state = "FIN_WAIT_2"], seg, "TIME_WAIT")
      ELSE ReceiveThen(d, seg, "CLOSING")

InFinWait2(c, seg) == ReceiveThen(process_ack(c, seg), seg, "TIME_WAIT")

InClosing(c, seg) ==
  [process_ack(c, seg) EXCEPT !.state = IF Acks(c, seg) THEN "TIME_WAIT" ELSE @]

InCloseWait(c, seg) == flush_send(process_ack(c, seg))

InLastAck(c, seg) ==
  [process_ack(c, seg) EXCEPT !.state = IF Acks(c, seg) THEN "CLOSED" ELSE @]

InTimeWait(c, seg) == IF "FIN" \in seg.flags THEN send_ack_only(c) ELSE c

process_segment(c, seg) ==
  IF "RST" \in seg.flags /\ c.state # "CLOSED" THEN [c EXCEPT !.state = "CLOSED"]
  ELSE CASE c.state = "SYN_SENT"    -> InSynSent(c, seg)
         [] c.state = "SYN_RCVD"    -> InSynRcvd(c, seg)
         [] c.state = "ESTABLISHED" -> InEstablished(c, seg)
         [] c.state = "FIN_WAIT_1"  -> InFinWait1(c, seg)
         [] c.state = "FIN_WAIT_2"  -> InFinWait2(c, seg)
         [] c.state = "CLOSING"     -> InClosing(c, seg)
         [] c.state = "CLOSE_WAIT"  -> InCloseWait(c, seg)
         [] c.state = "LAST_ACK"    -> InLastAck(c, seg)
         [] c.state = "TIME_WAIT"   -> InTimeWait(c, seg)
         [] OTHER                   -> c

\* cleanup_closed_connections, for one connection.
cleanup(c) == [c EXCEPT !.state = IF @ = "CLOSED" THEN "GONE" ELSE @]

----------------------------------------------------------------------------
(* Opening *)

\* The passive open in handle_segment: a SYN reaches a listening port.
PassiveOpen(seg, iss) ==
  queue_and_send([new EXCEPT !.irs = seg.seq, !.rcv_nxt = wrapping_add(seg.seq, 1),
                             !.iss = iss, !.snd_una = iss, !.snd_nxt = iss,
                             !.snd_wnd = seg.wnd, !.state = "SYN_RCVD"],
                 {"SYN", "ACK"}, <<>>)

connect(iss) ==
  queue_and_send([new EXCEPT !.iss = iss, !.snd_una = iss, !.snd_nxt = iss,
                             !.state = "SYN_SENT"],
                 {"SYN"}, <<>>)

\* The reset that answers a segment no connection and no listener wants.
RstFor(seg) ==
  IF "ACK" \in seg.flags
  THEN [flags |-> {"RST"}, seq |-> seg.ack, ack |-> 0, wnd |-> 0, data |-> <<>>]
  ELSE [flags |-> {"RST", "ACK"}, seq |-> 0,
        ack |-> wrapping_add(seg.seq, Consumed(seg.flags, seg.data)),
        wnd |-> 0, data |-> <<>>]

----------------------------------------------------------------------------
(* Timers *)

\* Mutated form: TIME_WAIT has no end.
ArmedWithoutTimeWait(c) ==
  {t \in {"probe", "retransmit"} :
     \/ t = "probe" /\ c.probe_armed /\ c.state \in {"ESTABLISHED", "CLOSE_WAIT"}
     \/ t = "retransmit" /\ c.retransmit_queue # <<>> /\ c.state # "TIME_WAIT"}

\* The timers of c whose deadline exists and can therefore run out.
Armed(c) ==
  {t \in {"time_wait", "probe", "retransmit"} :
     \/ t = "time_wait" /\ c.state = "TIME_WAIT"
     \/ t = "probe" /\ c.probe_armed /\ c.state \in {"ESTABLISHED", "CLOSE_WAIT"}
     \/ t = "retransmit" /\ c.retransmit_queue # <<>> /\ c.state # "TIME_WAIT"}

\* A persist probe repeats a byte already acknowledged.
PersistProbe(c) == send_segment(c, {"ACK"}, wrapping_sub(c.snd_una, 1), <<ProbeByte>>)

Retransmit(c) ==
  LET front == Head(c.retransmit_queue)
  IN  [send_segment(c, front.flags, front.seq, front.data) EXCEPT
         !.retransmit_queue = <<[front EXCEPT !.retry_count = @ + 1]>> \o Tail(@)]

GivesUp(c, due) ==
  "retransmit" \in due /\ Head(c.retransmit_queue).retry_count >= MaxRetries

\* The body of tick's loop for one connection; due are its timers that ran out.
TickConn(c, due) ==
  LET probing == c.state \in {"ESTABLISHED", "CLOSE_WAIT"}
      d == IF "probe" \in due THEN PersistProbe(c)
           ELSE [c EXCEPT !.probe_armed = @ /\ probing]
      e == IF "retransmit" \in due THEN Retransmit(d) ELSE d
  IN  IF c.state = "TIME_WAIT"
      THEN [c EXCEPT !.state = IF "time_wait" \in due THEN "CLOSED" ELSE @]
      ELSE IF GivesUp(c, due) THEN [d EXCEPT !.state = "CLOSED"]
      ELSE flush_send(e)

----------------------------------------------------------------------------
(* Calls of the application *)

Accepted(c, n) ==
  LET room == IF c.send_pending_cap > Len(c.send_pending)
              THEN c.send_pending_cap - Len(c.send_pending) ELSE 0
  IN  MinOf(n, room)

send(c, data) ==
  flush_send([c EXCEPT !.send_pending = @ \o SubSeq(data, 1, Accepted(c, Len(data)))])

recv(c, n) ==
  [c EXCEPT !.recv_buffer = SubSeq(@, MinOf(n, Len(@)) + 1, Len(@))]

close(c) ==
  IF c.state \in {"ESTABLISHED", "CLOSE_WAIT"}
  THEN flush_send([c EXCEPT !.pending_close = TRUE])
  ELSE [c EXCEPT !.state = IF @ = "SYN_SENT" THEN "CLOSED" ELSE @]

set_recv_cap(c, cap) == [c EXCEPT !.recv_buffer_cap = cap]
set_send_cap(c, cap) == [c EXCEPT !.send_pending_cap = cap]

=============================================================================
