---------------------------- MODULE TcpTableProofs ----------------------------
(***************************************************************************)
(* What the operations of TcpTable keep: the connections under all keys    *)
(* well formed, the queues, the listeners and the port counter typed.      *)
(***************************************************************************)
EXTENDS TcpTable, TcpConnectionProofs

\* The connections of a table are well formed and their segments have left.
ConnMapOK(cs) ==
  /\ cs \in [ConnectionKey -> Conn]
  /\ \A k \in ConnectionKey : ConnOK(cs[k]) /\ cs[k].tun = <<>>

TableOK ==
  /\ ConnMapOK(connections)
  /\ listeners \in SUBSET Port
  /\ accept_queues \in [Port -> Seq(ConnectionKey)]
  /\ next_ephemeral_port \in Port
  /\ opened \in [ConnectionKey -> 0 .. MaxOpens]
  /\ dialled \in 0 .. MaxDials

\* Writing a connection's segments leaves it well formed.
LEMMA WrittenOK ==
  ASSUME NEW c, ConnOK(c)
  PROVE  /\ ConnOK(Written(c)) /\ Written(c).tun = <<>>
         /\ Written(c).state = c.state /\ Written(c).pending_close = c.pending_close
<1>1. <<>> \in Seq(Segment)
  OBVIOUS
<1>2. /\ Written(c) \in Conn /\ Written(c).tun = <<>>
      /\ Written(c).ooo_buffer = c.ooo_buffer
      /\ Written(c).state = c.state /\ Written(c).pending_close = c.pending_close
  BY Zenon, <1>1 DEF Written, ConnOK, Conn
<1> QED
  BY <1>2 DEF ConnOK

\* A removed connection stands for a well-formed one.
LEMMA NoConnOK == ConnOK(NoConn) /\ NoConn.tun = <<>> /\ NoConn.state = "GONE"
<1>1. NoConn \in Conn /\ NoConn.ooo_buffer = {} /\ NoConn.tun = <<>> /\ NoConn.state = "GONE"
  BY Zenon, NewType DEF NoConn, Conn, TcpState
<1> QED
  BY <1>1, EmptyOoo DEF ConnOK

\* One connection changes, and its segments leave.
LEMMA UpdateOK ==
  ASSUME NEW cs, ConnMapOK(cs), NEW k \in ConnectionKey, NEW c, ConnOK(c)
  PROVE  ConnMapOK([cs EXCEPT ![k] = Written(c)])
<1>1. ConnOK(Written(c)) /\ Written(c).tun = <<>> /\ Written(c) \in Conn
  BY WrittenOK DEF ConnOK
<1> QED
  BY <1>1 DEF ConnMapOK

\* Removing the closed connections keeps the others.
LEMMA RemoveClosedOK ==
  ASSUME NEW cs, ConnMapOK(cs)
  PROVE  ConnMapOK(cleanup_closed_connections(cs))
<1>1. NoConn \in Conn
  BY NoConnOK DEF ConnOK
<1> QED
  BY <1>1, NoConnOK DEF ConnMapOK, cleanup_closed_connections

\* A port counter stays a port.
LEMMA NextPortType ==
  ASSUME NEW p \in Port
  PROVE  NextPort(p) \in Port
BY PortAssumption DEF NextPort, Port

\* The segments that arrive are segments.
LEMMA SegmentsType ==
  ASSUME TableOK, NEW k \in ConnectionKey, NEW seg \in SegmentsTo(k)
  PROVE  seg \in Segment
<1> DEFINE c == connections[k]
<1>1. c.rcv_nxt \in SeqNum /\ c.snd_una \in SeqNum /\ c.snd_nxt \in SeqNum
  BY DEF TableOK, ConnMapOK, Conn
<1>2. MaxWindow \in 0 .. MaxWindow
  BY ConnectionAssumption
<1>3. <<>> \in Seq(Byte)
  OBVIOUS
<1>4. {"SYN"} \in SUBSET Flag /\ {"SYN", "ACK"} \in SUBSET Flag /\ {"ACK"} \in SUBSET Flag
      /\ {"FIN", "ACK"} \in SUBSET Flag /\ {"RST"} \in SUBSET Flag
  BY DEF Flag
<1> HIDE DEF c
<1> QED
  BY Zenon, <1>1, <1>2, <1>3, <1>4 DEF SegmentsTo, Segment, c

\* A new entry of the map.
LEMMA InsertOK ==
  ASSUME TableOK, NEW k \in ConnectionKey, NEW c, ConnOK(c), Insert(k, c)
  PROVE  ConnMapOK(connections') /\ opened' \in [ConnectionKey -> 0 .. MaxOpens]
<1>1. ConnMapOK(connections')
  BY Zenon, UpdateOK DEF Insert, TableOK
<1>2. opened[k] \in 0 .. MaxOpens /\ opened[k] < MaxOpens
  BY DEF TableOK, Insert
<1>3. opened[k] + 1 \in 0 .. MaxOpens
  BY <1>2, TableAssumption
<1> QED
  BY <1>1, <1>3 DEF Insert, TableOK

\* TcpTable::handle_segment
LEMMA HandleSegmentOK ==
  ASSUME TableOK, NEW k \in ConnectionKey, NEW seg \in SegmentsTo(k), handle_segment(k, seg)
  PROVE  TableOK'
<1>1. seg \in Segment /\ ConnOK(connections[k])
  BY SegmentsType DEF TableOK, ConnMapOK
<1>2. CASE Existing(k, seg)
  <2> DEFINE c == process_segment(connections[k], seg)
             cs == [connections EXCEPT ![k] = Written(c)]
  <2>1. ConnOK(c)
    BY <1>1, ProcessSegmentOK DEF CallOK
  <2>2. connections' = cleanup_closed_connections(cs)
    BY <1>2 DEF Existing
  <2> HIDE DEF c
  <2>3. ConnMapOK(cs)
    BY <2>1, UpdateOK DEF TableOK
  <2> HIDE DEF cs
  <2>4. ConnMapOK(connections')
    BY <2>2, <2>3, RemoveClosedOK
  <2>5. k.port \in Port
    BY DEF ConnectionKey
  <2>6. accept_queues' \in [Port -> Seq(ConnectionKey)]
    <3>1. Append(accept_queues[k.port], k) \in Seq(ConnectionKey)
      BY <2>5 DEF TableOK
    <3> QED
      BY Zenon, <1>2, <2>5, <3>1 DEF Existing, Enqueue, TableOK
  <2> QED
    BY Zenon, <1>2, <2>4, <2>6 DEF Existing, TableOK, ConnMapOK
<1>3. CASE Passive(k, seg)
  <2>1. PICK iss \in Iss : Insert(k, PassiveOpen(seg, iss))
    BY <1>3 DEF Passive
  <2>2. iss \in SeqNum
    BY TableAssumption
  <2>3. ConnOK(PassiveOpen(seg, iss))
    BY <1>1, <2>2, PassiveOpenOK DEF CallOK
  <2>4. ConnMapOK(connections') /\ opened' \in [ConnectionKey -> 0 .. MaxOpens]
    BY <2>1, <2>3, InsertOK
  <2> QED
    BY <1>3, <2>4 DEF Passive, TableOK, ConnMapOK
<1> QED
  BY <1>2, <1>3 DEF handle_segment

\* TcpTable::tick
LEMMA TickOK ==
  ASSUME TableOK, NEW due, tick(due)
  PROVE  TableOK'
<1> DEFINE dueAt(k) == {t \in Armed(connections[k]) : <<k, t>> \in due}
           cs == [k \in ConnectionKey |->
                    IF Present(k) THEN Written(TickConn(connections[k], dueAt(k)))
                    ELSE connections[k]]
<1>1. ASSUME NEW k \in ConnectionKey
      PROVE  ConnOK(cs[k]) /\ cs[k].tun = <<>>
  <2>1. ConnOK(connections[k]) /\ connections[k].tun = <<>>
    BY DEF TableOK, ConnMapOK
  <2>2. ConnOK(TickConn(connections[k], dueAt(k)))
    BY Zenon, <2>1, TickConnOK DEF CallOK
  <2>3. ConnOK(Written(TickConn(connections[k], dueAt(k))))
        /\ Written(TickConn(connections[k], dueAt(k))).tun = <<>>
    BY <2>2, WrittenOK
  <2> QED
    BY <2>1, <2>3
<1>2. cs = [k \in ConnectionKey |-> cs[k]]
  OBVIOUS
<1>3. connections' = cleanup_closed_connections(cs)
  BY DEF tick
<1> HIDE DEF cs
<1>4. ConnMapOK(cs)
  BY <1>1, <1>2 DEF ConnMapOK, ConnOK
<1>5. ConnMapOK(connections')
  BY <1>3, <1>4, RemoveClosedOK
<1> QED
  BY Zenon, <1>5 DEF tick, TableOK, ConnMapOK

\* A buffer option gives a connection its caps.
LEMMA SetCapOK ==
  ASSUME NEW c, ConnOK(c), NEW v \in SeqNum
  PROVE  ConnOK(set_recv_cap(c, v)) /\ ConnOK(set_send_cap(c, v))
<1>1. v \in SeqNum /\ v \in Nat
  BY ConnectionAssumption DEF SeqNum
<1>2. set_recv_cap(c, v) \in Conn /\ set_recv_cap(c, v).ooo_buffer = c.ooo_buffer
  BY Zenon, <1>1 DEF set_recv_cap, ConnOK, Conn
<1>3. set_send_cap(c, v) \in Conn /\ set_send_cap(c, v).ooo_buffer = c.ooo_buffer
  BY Zenon, <1>1 DEF set_send_cap, ConnOK, Conn
<1> QED
  BY <1>2, <1>3 DEF ConnOK

\* A call on the connection under k, if there is one.
LEMMA OnConnectionOK ==
  ASSUME TableOK, NEW k \in ConnectionKey, NEW c, ConnOK(c), OnConnection(k, c)
  PROVE  ConnMapOK(connections')
<1>1. CASE Present(k)
  <2>1. connections' = [connections EXCEPT ![k] = Written(c)]
    BY <1>1 DEF OnConnection
  <2> QED
    BY Zenon, <2>1, UpdateOK DEF TableOK
<1>2. CASE ~ Present(k)
  <2>1. connections' = connections
    BY <1>2 DEF OnConnection, TableOK, ConnMapOK
  <2> QED
    BY <2>1 DEF TableOK
<1> QED
  BY <1>1, <1>2

\* What does not change stays well formed.
LEMMA TableSame ==
  ASSUME TableOK, UNCHANGED tableVars
  PROVE  TableOK'
BY DEF TableOK, tableVars, ConnMapOK

----------------------------------------------------------------------------
(* Connections that are open and that nobody has closed *)

Unclosed(c) ==
  c.state \in {"SYN_SENT", "ESTABLISHED", "CLOSE_WAIT"} /\ ~ c.pending_close

\* flush_send undoes no close().
LEMMA FlushUnclosed ==
  ASSUME NEW c, ConnOK(c), Unclosed(flush_send(c))
  PROVE  Unclosed(c)
<1> DEFINE a == ArmProbe(c)
           b == SendWindow(a)
           q == queue_and_send(b, {"FIN", "ACK"}, <<>>)
<1>1. CASE c.state \notin {"ESTABLISHED", "CLOSE_WAIT"}
  BY <1>1 DEF flush_send
<1>2. CASE c.state \in {"ESTABLISHED", "CLOSE_WAIT"}
  <2>1. flush_send(c) = SendDeferredFin(b)
    BY <1>2 DEF flush_send
  <2>2. ConnOK(a) /\ a.state = c.state /\ a.pending_close = c.pending_close
    BY ArmProbeOK DEF SameControl
  <2> HIDE DEF a
  <2>3. ConnOK(b) /\ b.state = a.state
    BY <2>2, SendWindowOK
  <2>4. b.pending_close = a.pending_close
    BY <2>2 DEF SendWindow, ConnOK, Conn
  <2> HIDE DEF b
  <2>5. CASE FinIsDue(b)
    <3>1. q \in Conn
      <4>1. {"FIN", "ACK"} \in SUBSET Flag /\ <<>> \in Seq(Byte)
        BY DEF Flag
      <4> QED
        BY Zenon, <2>3, <4>1, QueueAndSendOK DEF ConnOK
    <3>2. SendDeferredFin(b) = [q EXCEPT
            !.state = IF @ = "ESTABLISHED" THEN "FIN_WAIT_1" ELSE "LAST_ACK",
            !.pending_close = FALSE]
      BY <2>5 DEF SendDeferredFin
    <3> HIDE DEF q
    <3>3. SendDeferredFin(b).state \in {"FIN_WAIT_1", "LAST_ACK"}
      BY <3>1, <3>2 DEF Conn
    <3> QED
      BY <2>1, <3>3 DEF Unclosed
  <2>6. CASE ~ FinIsDue(b)
    BY <2>1, <2>2, <2>3, <2>4, <2>6 DEF SendDeferredFin, Unclosed
  <2> QED
    BY <2>5, <2>6
<1> QED
  BY <1>1, <1>2

\* What taking in a segment's data does to the control state.
LEMMA ReceiveThenControl ==
  ASSUME NEW c, ConnOK(c), NEW seg \in Segment, NEW onFin \in TcpState
  PROVE  LET d == ReceiveThen(c, seg, onFin)
         IN  ConnOK(d) /\ d.state \in {c.state, onFin} /\ d.pending_close = c.pending_close
<1> DEFINE b == receive_data_and_maybe_fin(c, seg)
           d == [b EXCEPT !.state = IF FinConsumed(c, seg) THEN onFin ELSE @]
<1>1. ReceiveThen(c, seg, onFin) = d
  BY DEF ReceiveThen
<1>2. ConnOK(b) /\ b.state = c.state /\ b.pending_close = c.pending_close
  BY ReceiveOK DEF SameControl
<1> HIDE DEF b
<1>3. d.pending_close = b.pending_close
  BY <1>2 DEF ConnOK, Conn
<1>4. ConnOK(ReceiveThen(c, seg, onFin))
      /\ ReceiveThen(c, seg, onFin).state \in {c.state, onFin}
  BY ReceiveThenOK
<1> HIDE DEF d
<1> QED
  BY <1>1, <1>2, <1>3, <1>4

\* process_segment opens only a connection whose handshake it completes.
LEMMA ProcessUnclosed ==
  ASSUME NEW c, ConnOK(c), NEW seg \in Segment, Unclosed(process_segment(c, seg))
  PROVE  Unclosed(c) \/ Completes(c, seg)
<1> DEFINE d == process_segment(c, seg)
           a == process_ack(c, seg)
<1>1. CASE "RST" \in seg.flags /\ c.state # "CLOSED"
  <2>1. d.state = "CLOSED"
    BY <1>1 DEF process_segment, ConnOK, Conn
  <2> QED
    BY <2>1 DEF Unclosed
<1> SUFFICES ASSUME ~ ("RST" \in seg.flags /\ c.state # "CLOSED")
             PROVE  Unclosed(c) \/ Completes(c, seg)
  BY <1>1
<1>2. ConnOK(a) /\ a.state = c.state /\ a.pending_close = c.pending_close /\ a \in Conn
  BY ProcessAckOK DEF SameControl, ConnOK
<1>3. CASE c.state = "SYN_SENT"
  <2> DEFINE b == [c EXCEPT
                     !.irs = seg.seq, !.rcv_nxt = wrapping_add(seg.seq, 1),
                     !.snd_una = seg.ack, !.snd_wnd = seg.wnd,
                     !.retransmit_queue = remove_acked(@, seg.ack),
                     !.state = "ESTABLISHED"]
  <2>1. b.pending_close = c.pending_close /\ "tun" \in DOMAIN b
    BY DEF ConnOK, Conn
  <2>2. send_ack_only(b).pending_close = b.pending_close
    <3> DEFINE t == Append(b.tun, SegmentFrom(b, {"ACK"}, b.snd_nxt, <<>>))
    <3>1. send_ack_only(b) = [b EXCEPT !.tun = t]
      BY DEF send_ack_only, send_segment
    <3>2. "pending_close" \in DOMAIN b
      BY DEF ConnOK, Conn
    <3> HIDE DEF t, b
    <3> QED
      BY <3>1, <3>2
  <2>3. d \in {c, send_ack_only(b)}
    BY <1>3 DEF process_segment, InSynSent
  <2> HIDE DEF b
  <2> QED
    BY <1>3, <2>1, <2>2, <2>3 DEF Unclosed
<1>4. CASE c.state = "SYN_RCVD"
  BY <1>4 DEF process_segment, InSynRcvd, Completes, Unclosed
<1>5. CASE c.state = "ESTABLISHED"
  <2> DEFINE b == ReceiveThen(a, seg, "CLOSE_WAIT")
  <2>1. ConnOK(b) /\ b.pending_close = c.pending_close
    BY <1>2, ReceiveThenControl DEF TcpState
  <2>2. d = flush_send(b)
    BY <1>5 DEF process_segment, InEstablished
  <2> HIDE DEF b
  <2>3. Unclosed(b)
    BY <2>1, <2>2, FlushUnclosed
  <2> QED
    BY <1>5, <2>1, <2>3 DEF Unclosed
<1>6. CASE c.state = "CLOSE_WAIT"
  <2>1. d = flush_send(a)
    BY <1>6 DEF process_segment, InCloseWait
  <2>2. Unclosed(a)
    BY <1>2, <2>1, FlushUnclosed
  <2> QED
    BY <1>2, <2>2 DEF Unclosed
<1>7. CASE c.state \in {"FIN_WAIT_1", "FIN_WAIT_2"}
  <2> DEFINE f == [a EXCEPT !.state = "FIN_WAIT_2"]
  <2>1. ConnOK(f) /\ f.state = "FIN_WAIT_2"
    BY Zenon, <1>2, SetStateOK DEF TcpState
  <2>2. d \in {ReceiveThen(f, seg, "TIME_WAIT"), ReceiveThen(a, seg, "CLOSING"),
               ReceiveThen(a, seg, "TIME_WAIT")}
    BY <1>7 DEF process_segment, InFinWait1, InFinWait2
  <2> HIDE DEF f, a
  <2>3. /\ ReceiveThen(f, seg, "TIME_WAIT").state \in {"FIN_WAIT_2", "TIME_WAIT"}
        /\ ReceiveThen(a, seg, "CLOSING").state \in {c.state, "CLOSING"}
        /\ ReceiveThen(a, seg, "TIME_WAIT").state \in {c.state, "TIME_WAIT"}
    <3>1. "TIME_WAIT" \in TcpState /\ "CLOSING" \in TcpState
      BY DEF TcpState
    <3> QED
      BY <1>2, <2>1, <3>1, ReceiveThenControl
  <2>4. d.state \in {"FIN_WAIT_1", "FIN_WAIT_2", "TIME_WAIT", "CLOSING"}
    BY <1>7, <2>2, <2>3
  <2> QED
    BY <2>4 DEF Unclosed
<1>8. CASE c.state \in {"CLOSING", "LAST_ACK"}
  <2>1. d \in {[a EXCEPT !.state = IF Acks(c, seg) THEN "TIME_WAIT" ELSE @],
               [a EXCEPT !.state = IF Acks(c, seg) THEN "CLOSED" ELSE @]}
    BY <1>8 DEF process_segment, InClosing, InLastAck
  <2> HIDE DEF a, d
  <2>2. d.state \in {c.state, "TIME_WAIT", "CLOSED"}
    BY <1>2, <2>1 DEF Conn
  <2> QED
    BY <1>8, <2>2 DEF Unclosed, d
<1>9. CASE c.state = "TIME_WAIT"
  <2>1. send_ack_only(c).state = c.state
    BY SendAckOK DEF SameControl
  <2> QED
    BY <1>9, <2>1 DEF process_segment, InTimeWait, Unclosed
<1>10. CASE c.state \in {"CLOSED", "LISTEN", "GONE"}
  BY <1>10 DEF process_segment
<1>11. c.state \in TcpState
  BY DEF ConnOK, Conn
<1> QED
  BY <1>3, <1>4, <1>5, <1>6, <1>7, <1>8, <1>9, <1>10, <1>11 DEF TcpState

\* A timer opens nothing.
LEMMA TickUnclosed ==
  ASSUME NEW c, ConnOK(c), NEW due \in SUBSET Armed(c), Unclosed(TickConn(c, due))
  PROVE  Unclosed(c)
<1> DEFINE probing == c.state \in {"ESTABLISHED", "CLOSE_WAIT"}
           d == IF "probe" \in due THEN PersistProbe(c)
                ELSE [c EXCEPT !.probe_armed = @ /\ probing]
           e == IF "retransmit" \in due THEN Retransmit(d) ELSE d
<1>1. CASE c.state = "TIME_WAIT"
  <2>1. TickConn(c, due).state \in {"TIME_WAIT", "CLOSED"}
    BY <1>1 DEF TickConn, ConnOK, Conn
  <2> QED
    BY <2>1 DEF Unclosed
<1>2. CASE c.state # "TIME_WAIT"
  <2>1. TickConn(c, due) = IF GivesUp(c, due) THEN [d EXCEPT !.state = "CLOSED"] ELSE flush_send(e)
    BY <1>2 DEF TickConn
  <2>2. /\ ConnOK(d) /\ d.state = c.state /\ d.pending_close = c.pending_close
        /\ d.retransmit_queue = c.retransmit_queue
    <3>1. CASE "probe" \in due
      <4>1. PersistProbe(c).retransmit_queue = c.retransmit_queue
        BY DEF PersistProbe, send_segment, ConnOK, Conn
      <4> QED
        BY <3>1, <4>1, PersistProbeOK DEF SameControl
    <3>2. CASE "probe" \notin due
      <4>1. d = [c EXCEPT !.probe_armed = @ /\ probing]
        BY <3>2
      <4>2. d \in Conn /\ d.state = c.state /\ d.pending_close = c.pending_close
            /\ d.retransmit_queue = c.retransmit_queue /\ d.ooo_buffer = c.ooo_buffer
        BY Zenon, <4>1 DEF ConnOK, Conn
      <4> HIDE DEF d
      <4> QED
        BY <4>2 DEF ConnOK
    <3> QED
      BY <3>1, <3>2
  <2> HIDE DEF d
  <2>3. CASE GivesUp(c, due)
    <3>1. TickConn(c, due).state = "CLOSED"
      BY <2>1, <2>2, <2>3 DEF ConnOK, Conn
    <3> QED
      BY <3>1 DEF Unclosed
  <2>4. CASE ~ GivesUp(c, due)
    <3>1. ConnOK(e) /\ e.state = c.state /\ e.pending_close = c.pending_close
      BY <2>2, RetransmitOK DEF SameControl, Armed
    <3> HIDE DEF e
    <3>2. Unclosed(e)
      BY <2>1, <2>4, <3>1, FlushUnclosed
    <3> QED
      BY <3>1, <3>2 DEF Unclosed
  <2> QED
    BY <2>3, <2>4
<1> QED
  BY <1>1, <1>2

\* What close() closes stays closed.
LEMMA CloseCloses ==
  ASSUME NEW c, ConnOK(c)
  PROVE  ~ Unclosed(close(c))
<1>1. CASE c.state \in {"ESTABLISHED", "CLOSE_WAIT"}
  <2> DEFINE b == [c EXCEPT !.pending_close = TRUE]
  <2>1. b \in Conn /\ b.ooo_buffer = c.ooo_buffer /\ b.pending_close
    BY Zenon DEF ConnOK, Conn
  <2>2. close(c) = flush_send(b)
    BY <1>1 DEF close
  <2> HIDE DEF b
  <2>3. ConnOK(b) /\ ~ Unclosed(b)
    BY <2>1 DEF ConnOK, Unclosed
  <2> QED
    BY <2>2, <2>3, FlushUnclosed
<1>2. CASE c.state \notin {"ESTABLISHED", "CLOSE_WAIT"}
  <2>1. close(c).state = IF c.state = "SYN_SENT" THEN "CLOSED" ELSE c.state
    BY <1>2 DEF close, ConnOK, Conn
  <2> QED
    BY <1>2, <2>1 DEF Unclosed
<1> QED
  BY <1>1, <1>2

=============================================================================
