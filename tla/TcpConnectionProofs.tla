------------------------ MODULE TcpConnectionProofs ------------------------
(***************************************************************************)
(* What the functions of TcpConnection preserve, for every value of the    *)
(* constants: each keeps a well-formed connection well-formed, grows the   *)
(* out-of-order buffer only within its cap, and sends a FIN only when      *)
(* nothing is waiting before it.                                           *)
(***************************************************************************)
EXTENDS TcpConnection, FiniteSetTheorems, TLAPS

----------------------------------------------------------------------------
(* Numbers *)

\* Every non-empty set of naturals has a least element.
LEMMA NatMin ==
  ASSUME NEW T \in SUBSET Nat, T # {}
  PROVE  \E x \in T : \A y \in T : x <= y
<1>1. \E x \in T : \A y \in T : ~ (<<y, x>> \in OpToRel(<, Nat))
  BY NatLessThanWellFounded, WFMin, Zenon
<1>2. PICK x \in T : \A y \in T : ~ (<<y, x>> \in OpToRel(<, Nat))
  BY <1>1, Zenon
<1>3. \A y \in T : ~ (y < x)
  BY <1>2, Zenon DEF OpToRel
<1>4. \A y \in T : x <= y
  BY <1>3
<1> QED
  BY <1>4

\* A non-empty set of naturals with an upper bound has a greatest element.
LEMMA NatMax ==
  ASSUME NEW T \in SUBSET Nat, T # {}, NEW b \in Nat, \A y \in T : y <= b
  PROVE  \E x \in T : \A y \in T : y <= x
<1> DEFINE D == {b - y : y \in T}
<1>1. \A y \in T : b - y \in Nat
  OBVIOUS
<1>2. D \in SUBSET Nat /\ D # {}
  BY <1>1, Zenon
<1>3. PICK d \in D : \A y \in D : d <= y
  BY <1>2, NatMin, Zenon
<1>4. PICK x \in T : d = b - x
  BY <1>3
<1>5. \A y \in T : y <= x
  BY <1>3, <1>4
<1> QED
  BY <1>5

\* Sequence numbers stay in their 32-bit space.
LEMMA WrapType ==
  /\ \A a, n \in Nat : wrapping_add(a, n) \in SeqNum
  /\ \A a, b \in SeqNum : wrapping_sub(a, b) \in SeqNum
BY ConnectionAssumption DEF wrapping_add, wrapping_sub, SeqNum

\* Offsets undo additions that stay within one turn of the sequence space.
LEMMA WrapOffset ==
  ASSUME NEW a \in SeqNum, NEW n \in Nat, n < SeqSpace
  PROVE  wrapping_sub(wrapping_add(a, n), a) = n
BY ConnectionAssumption DEF wrapping_add, wrapping_sub, SeqNum

\* A segment occupies a natural number of sequence numbers.
LEMMA ConsumedType ==
  ASSUME NEW flags, NEW data, Len(data) \in Nat
  PROVE  Consumed(flags, data) \in Nat
<1> DEFINE n == Len(data)
           syn == IF "SYN" \in flags THEN 1 ELSE 0
           fin == IF "FIN" \in flags THEN 1 ELSE 0
<1>1. n \in Nat /\ syn \in Nat /\ fin \in Nat
  OBVIOUS
<1>2. Consumed(flags, data) = n + syn + fin
  BY DEF Consumed
<1> HIDE DEF n, syn, fin
<1> QED
  BY <1>1, <1>2

----------------------------------------------------------------------------
(* The out-of-order buffer *)

\* The bytes of finitely many entries can be counted.
LEMMA OooFinite ==
  ASSUME NEW K \in SUBSET OooEntry, IsFiniteSet(K)
  PROVE  /\ IsFiniteSet(OooCells(K))
         /\ OooBytes(K) \in Nat
<1> DEFINE Cells(e) == {e.seq} \X (1 .. Len(e.data))
           T == {Cells(e) : e \in K}
           f == [e \in K |-> Cells(e)]
<1>1. IsFiniteSet(T)
  <2>1. f \in Surjection(K, T)
    BY Zenon DEF Surjection
  <2> QED
    BY <2>1, FS_Surjection
<1>2. \A e \in K : IsFiniteSet(Cells(e))
  <2>1. SUFFICES ASSUME NEW e \in K PROVE IsFiniteSet(Cells(e))
    OBVIOUS
  <2>2. Len(e.data) \in Int
    BY DEF OooEntry
  <2>3. IsFiniteSet(1 .. Len(e.data))
    BY <2>2, FS_Interval
  <2>4. IsFiniteSet({e.seq})
    BY FS_Singleton, Zenon
  <2> QED
    BY <2>3, <2>4, FS_Product
<1>3. IsFiniteSet(UNION T)
  BY <1>1, <1>2, FS_UNION, Zenon
<1>4. OooCells(K) = UNION T
  BY DEF OooCells
<1> QED
  BY <1>3, <1>4, FS_CardinalityType DEF OooBytes

\* Fewer entries hold no more bytes.
LEMMA OooMonotone ==
  ASSUME NEW K \in SUBSET OooEntry, IsFiniteSet(K), NEW J \in SUBSET K
  PROVE  /\ IsFiniteSet(J)
         /\ OooBytes(J) <= OooBytes(K)
<1>1. OooCells(J) \in SUBSET OooCells(K)
  BY DEF OooCells
<1> QED
  BY <1>1, OooFinite, FS_Subset DEF OooBytes

\* One more entry adds its length, unless its key is taken.
LEMMA OooAdd ==
  ASSUME NEW K \in SUBSET OooEntry, IsFiniteSet(K), NEW e \in OooEntry
  PROVE  /\ IsFiniteSet(K \cup {e})
         /\ OooBytes(K \cup {e}) <= OooBytes(K) + Len(e.data)
         /\ (\A x \in K : x.seq # e.seq)
              => OooBytes(K \cup {e}) = OooBytes(K) + Len(e.data)
<1> DEFINE C == {e.seq} \X (1 .. Len(e.data))
<1>1. Len(e.data) \in Nat
  BY DEF OooEntry
<1>2. IsFiniteSet(C) /\ Cardinality(C) = Len(e.data)
  <2>1. IsFiniteSet(1 .. Len(e.data)) /\ Cardinality(1 .. Len(e.data)) = Len(e.data)
    BY <1>1, FS_Interval
  <2>2. IsFiniteSet({e.seq}) /\ Cardinality({e.seq}) = 1
    BY FS_Singleton, Zenon
  <2>3. IsFiniteSet(C) /\ Cardinality(C) = 1 * Len(e.data)
    BY <2>1, <2>2, FS_Product, Zenon
  <2> QED
    BY <2>3, <1>1
<1>3. OooCells(K \cup {e}) = OooCells(K) \cup C
  BY DEF OooCells
<1>4. IsFiniteSet(OooCells(K)) /\ Cardinality(OooCells(K)) \in Nat
  BY OooFinite DEF OooBytes
<1>5. /\ IsFiniteSet(OooCells(K) \cap C)
      /\ Cardinality(OooCells(K) \cap C) \in Nat
  BY <1>4, FS_Intersection, FS_CardinalityType, Zenon
<1>6. Cardinality(OooCells(K) \cup C)
        = Cardinality(OooCells(K)) + Len(e.data) - Cardinality(OooCells(K) \cap C)
  BY <1>2, <1>4, FS_Union
<1>7. (\A x \in K : x.seq # e.seq) => OooCells(K) \cap C = {}
  BY DEF OooCells
<1>8. IsFiniteSet(K \cup {e})
  BY FS_AddElement
<1> DEFINE k == Cardinality(OooCells(K))
           i == Cardinality(OooCells(K) \cap C)
           n == Len(e.data)
<1>9. OooBytes(K) = k /\ OooBytes(K \cup {e}) = k + n - i
  BY <1>3, <1>6, Zenon DEF OooBytes
<1>10. k \in Nat /\ i \in Nat /\ n \in Nat
  BY <1>1, <1>4, <1>5
<1>11. (\A x \in K : x.seq # e.seq) => i = 0
  BY <1>7, FS_EmptySet, Zenon
<1> HIDE DEF k, i, n
<1>12. OooBytes(K \cup {e}) <= OooBytes(K) + n
  BY <1>9, <1>10
<1>13. (\A x \in K : x.seq # e.seq) => OooBytes(K \cup {e}) = OooBytes(K) + n
  BY <1>9, <1>10, <1>11
<1> QED
  BY <1>8, <1>12, <1>13 DEF n

\* The splice loop has a result: the longest gapless tiling from `from` on.  It
\* cannot go round the sequence space, since the buffer holds less than that.
LEMMA SpliceRunExists ==
  ASSUME NEW ooo \in SUBSET OooEntry, IsFiniteSet(ooo), OooBytes(ooo) < SeqSpace,
         NEW from \in SeqNum
  PROVE  \E K \in SUBSET ooo : IsSpliceRun(ooo, from, K)
<1> DEFINE Span(e) == Offset(e, from) .. (Offset(e, from) + Len(e.data) - 1)
           Tiles(K, n) == /\ UNION {Span(e) : e \in K} = 0 .. (n - 1)
                          /\ OooBytes(K) = n
           T == {n \in 0 .. OooBytes(ooo) : \E K \in SUBSET ooo : Tiles(K, n)}
<1>1. OooBytes(ooo) \in Nat
  BY OooFinite
<1>2. 0 \in T
  <2>1. OooCells({}) = {}
    BY DEF OooCells
  <2>2. OooBytes({}) = 0
    BY <2>1, FS_EmptySet DEF OooBytes
  <2>3. UNION {Span(e) : e \in {}} = 0 .. (0 - 1)
    OBVIOUS
  <2>4. Tiles({}, 0)
    BY <2>2, <2>3
  <2> HIDE DEF Tiles
  <2> QED
    BY <1>1, <2>4
<1>3. T \in SUBSET Nat /\ T # {} /\ \A n \in T : n <= OooBytes(ooo)
  BY <1>1, <1>2
<1>4. PICK n \in T : \A m \in T : m <= n
  <2> HIDE DEF T
  <2> QED
    BY <1>1, <1>3, NatMax, Zenon
<1>5. PICK K \in SUBSET ooo : Tiles(K, n)
  BY <1>4
<1>6. n \in Nat /\ n < SeqSpace
  BY <1>1, <1>3, <1>4, ConnectionAssumption
<1>7. ASSUME NEW e \in ooo, e.seq = wrapping_add(from, n)
      PROVE  FALSE
  <2> DEFINE J == K \cup {e}
             len == Len(e.data)
  <2>1. \A x \in ooo : x \in OooEntry /\ Len(x.data) \in Nat \ {0} /\ x.seq \in SeqNum
    BY DEF OooEntry
  <2>2. Offset(e, from) = n
    BY <1>6, <1>7, WrapOffset DEF Offset
  <2>3. \A x \in K : x.seq # e.seq
    <3>1. SUFFICES ASSUME NEW x \in K, x.seq = e.seq PROVE FALSE
      OBVIOUS
    <3>2. Offset(x, from) = n
      BY <2>2, <3>1 DEF Offset
    <3>3. n \in Span(x)
      BY <1>6, <2>1, <3>2
    <3>4. n \in 0 .. (n - 1)
      BY <1>5, <3>3
    <3> QED
      BY <1>6, <3>4
  <2>4. OooBytes(J) = n + len
    <3>1. K \in SUBSET OooEntry /\ IsFiniteSet(K)
      BY FS_Subset
    <3> QED
      BY <1>5, <2>1, <2>3, <3>1, OooAdd, Zenon
  <2>5. UNION {Span(x) : x \in J} = 0 .. (n + len - 1)
    <3>1. UNION {Span(x) : x \in J} = (UNION {Span(x) : x \in K}) \cup Span(e)
      OBVIOUS
    <3>2. Span(e) = n .. (n + len - 1)
      BY <2>2
    <3>3. UNION {Span(x) : x \in J} = 0 .. (n - 1) \cup n .. (n + len - 1)
      BY <1>5, <3>1, <3>2, Zenon
    <3>4. len \in Nat \ {0}
      BY <2>1
    <3> HIDE DEF len
    <3>5. 0 .. (n - 1) \cup n .. (n + len - 1) = 0 .. (n + len - 1)
      BY <1>6, <3>4
    <3> QED
      BY <3>3, <3>5
  <2>6. J \in SUBSET ooo /\ OooBytes(J) <= OooBytes(ooo)
    BY OooMonotone
  <2>7. len \in Nat \ {0}
    BY <2>1
  <2> HIDE DEF len, J, Span
  <2>8. n + len \in 0 .. OooBytes(ooo) /\ Tiles(J, n + len)
    BY <1>1, <1>6, <2>4, <2>5, <2>6, <2>7
  <2>9. n + len \in T
    BY <2>6, <2>8
  <2> QED
    BY <1>4, <1>6, <2>7, <2>9
<1> QED
  BY <1>5, <1>7 DEF IsSpliceRun

\* What is spliced is part of the buffer and is a sequence of its bytes.
LEMMA SpliceRunType ==
  ASSUME NEW ooo \in SUBSET OooEntry, IsFiniteSet(ooo), OooBytes(ooo) < SeqSpace,
         NEW from \in SeqNum
  PROVE  /\ SpliceRun(ooo, from) \in SUBSET ooo
         /\ RunBytes(SpliceRun(ooo, from), from) \in Seq(Byte)
<1> DEFINE K == SpliceRun(ooo, from)
           n == OooBytes(K)
<1>1. K \in SUBSET ooo /\ IsSpliceRun(ooo, from, K)
  BY SpliceRunExists DEF SpliceRun
<1> HIDE DEF K
<1>2. n \in Nat
  <2>1. K \in SUBSET OooEntry /\ IsFiniteSet(K)
    BY <1>1, FS_Subset
  <2> QED
    BY <2>1, OooFinite
<1>3. ASSUME NEW i \in 1 .. n
      PROVE  RunBytes(K, from)[i] \in Byte
  <2> DEFINE In(x) == i - Offset(x, from) \in DOMAIN x.data
  <2>1. i - 1 \in 0 .. (n - 1)
    BY <1>2
  <2>2. PICK x \in K : i - 1 \in Offset(x, from) .. (Offset(x, from) + Len(x.data) - 1)
    BY <1>1, <2>1 DEF IsSpliceRun
  <2>3. x.data \in Seq(Byte) /\ Offset(x, from) \in Nat
    <3>1. x \in OooEntry
      BY <1>1
    <3>2. x.seq \in SeqNum /\ x.data \in Seq(Byte)
      BY <3>1 DEF OooEntry
    <3>3. Offset(x, from) \in SeqNum
      BY <3>2, WrapType DEF Offset
    <3> QED
      BY <3>2, <3>3 DEF SeqNum
  <2>4. In(x)
    <3>1. DOMAIN x.data = 1 .. Len(x.data) /\ Len(x.data) \in Nat
      BY <2>3
    <3> QED
      BY <1>2, <2>2, <2>3, <3>1
  <2>5. PICK e : e = CHOOSE y \in K : In(y)
    OBVIOUS
  <2>6. e \in K /\ In(e)
    BY <2>4, <2>5
  <2>7. e.data \in Seq(Byte)
    BY <1>1, <2>6 DEF OooEntry
  <2>8. e.data[i - Offset(e, from)] \in Byte
    BY <2>6, <2>7
  <2>9. RunBytes(K, from)[i] = e.data[i - Offset(e, from)]
    BY <2>5 DEF RunBytes
  <2> QED
    BY <2>8, <2>9
<1>4. RunBytes(K, from) \in [1 .. n -> Byte]
  <2>1. RunBytes(K, from) = [i \in 1 .. n |-> RunBytes(K, from)[i]]
    BY DEF RunBytes
  <2> QED
    BY <1>3, <2>1
<1>5. RunBytes(K, from) \in Seq(Byte)
  BY <1>2, <1>4
<1> QED
  BY <1>1, <1>5 DEF K

----------------------------------------------------------------------------
(* Sending keeps a connection well-formed *)

\* A well-formed connection: of its type, with an out-of-order buffer that cannot
\* go round the sequence space.  The last is what makes the splice loop end.
ConnOK(c) ==
  /\ c \in Conn
  /\ IsFiniteSet(c.ooo_buffer)
  /\ OooBytes(c.ooo_buffer) < SeqSpace

\* d is c after a step that does not touch what was received.
SameReceived(c, d) ==
  /\ d.recv_buffer = c.recv_buffer
  /\ d.ooo_buffer = c.ooo_buffer
  /\ d.recv_buffer_cap = c.recv_buffer_cap

\* d is c after a step that sends nothing new of the stream.
SameControl(c, d) ==
  /\ d.state = c.state
  /\ d.send_pending = c.send_pending
  /\ d.pending_close = c.pending_close

\* buffered_bytes is a natural number.
LEMMA BufferedType ==
  ASSUME NEW c, ConnOK(c)
  PROVE  buffered_bytes(c) \in Nat
<1>1. Len(c.recv_buffer) \in Nat /\ c.ooo_buffer \in SUBSET OooEntry
  BY DEF ConnOK, Conn
<1>2. OooBytes(c.ooo_buffer) \in Nat
  BY <1>1, OooFinite DEF ConnOK
<1> QED
  BY <1>1, <1>2 DEF buffered_bytes

\* The window fits the 16-bit header field and is never negative.
LEMMA WindowType ==
  ASSUME NEW c, ConnOK(c)
  PROVE  advertise_window(c) \in 0 .. MaxWindow
<1>1. buffered_bytes(c) \in Nat
  BY BufferedType
<1>2. c.recv_buffer_cap \in Nat
  BY ConnectionAssumption DEF ConnOK, Conn, SeqNum
<1> QED
  BY <1>1, <1>2, ConnectionAssumption DEF advertise_window, MinOf

\* send_segment builds a segment that fits its header fields.
LEMMA SegmentFromType ==
  ASSUME NEW c, ConnOK(c), NEW flags \in SUBSET Flag, NEW seq \in SeqNum,
         NEW data \in Seq(Byte)
  PROVE  SegmentFrom(c, flags, seq, data) \in Segment
<1>1. advertise_window(c) \in 0 .. MaxWindow
  BY WindowType
<1>2. c.rcv_nxt \in SeqNum /\ 0 \in SeqNum
  BY ConnectionAssumption DEF ConnOK, Conn, SeqNum
<1> QED
  BY <1>1, <1>2 DEF SegmentFrom, Segment

\* send_segment writes one segment and leaves the connection alone.
LEMMA SendSegmentOK ==
  ASSUME NEW c, ConnOK(c), NEW flags \in SUBSET Flag, NEW seq \in SeqNum,
         NEW data \in Seq(Byte)
  PROVE  LET d == send_segment(c, flags, seq, data)
         IN  ConnOK(d) /\ SameReceived(c, d) /\ SameControl(c, d)
<1> DEFINE s == SegmentFrom(c, flags, seq, data)
<1>1. s \in Segment
  BY SegmentFromType
<1> HIDE DEF s
<1>2. send_segment(c, flags, seq, data) = [c EXCEPT !.tun = Append(@, s)]
  BY DEF send_segment, s
<1>3. c.tun \in Seq(Segment) /\ Append(c.tun, s) \in Seq(Segment)
  BY <1>1 DEF ConnOK, Conn
<1> QED
  BY <1>2, <1>3, Zenon DEF ConnOK, Conn, SameReceived, SameControl

\* send_ack_only leaves the connection alone.
LEMMA SendAckOK ==
  ASSUME NEW c, ConnOK(c)
  PROVE  LET d == send_ack_only(c)
         IN  ConnOK(d) /\ SameReceived(c, d) /\ SameControl(c, d)
<1>1. {"ACK"} \in SUBSET Flag /\ c.snd_nxt \in SeqNum /\ <<>> \in Seq(Byte)
  BY DEF Flag, ConnOK, Conn
<1> QED
  BY <1>1, SendSegmentOK, Zenon DEF send_ack_only

\* queue_and_send touches only the send sequence space and the queue.
LEMMA QueueAndSendOK ==
  ASSUME NEW c, ConnOK(c), NEW flags \in SUBSET Flag, NEW data \in Seq(Byte)
  PROVE  LET d == queue_and_send(c, flags, data)
         IN  ConnOK(d) /\ SameReceived(c, d) /\ SameControl(c, d)
<1> DEFINE b == send_segment(c, flags, c.snd_nxt, data)
           u == [seq |-> c.snd_nxt, flags |-> flags, data |-> data, retry_count |-> 0]
           n == wrapping_add(b.snd_nxt, Consumed(flags, data))
           d == queue_and_send(c, flags, data)
<1>1. c.snd_nxt \in SeqNum
  BY DEF ConnOK, Conn
<1>2. ConnOK(b) /\ SameReceived(c, b) /\ SameControl(c, b)
  BY <1>1, SendSegmentOK
<1>3. u \in UnackedSegment
  BY <1>1 DEF UnackedSegment
<1>4. n \in SeqNum
  <2>1. b.snd_nxt \in Nat
    BY <1>2 DEF ConnOK, Conn, SeqNum
  <2>2. Consumed(flags, data) \in Nat
    BY ConsumedType
  <2> QED
    BY <2>1, <2>2, WrapType
<1>5. d = [b EXCEPT !.retransmit_queue = Append(@, u), !.snd_nxt = n]
  BY DEF queue_and_send
<1> HIDE DEF b, u, n, d
<1>6. Append(b.retransmit_queue, u) \in Seq(UnackedSegment)
  BY <1>2, <1>3 DEF ConnOK, Conn
<1>7. d \in Conn /\ d.ooo_buffer = b.ooo_buffer
  BY <1>2, <1>4, <1>5, <1>6, Zenon DEF ConnOK, Conn
<1>8. ConnOK(d)
  BY <1>2, <1>7 DEF ConnOK
<1>9. SameReceived(c, d) /\ SameControl(c, d)
  BY <1>2, <1>5 DEF ConnOK, Conn, SameReceived, SameControl
<1> QED
  BY <1>8, <1>9 DEF d

\* A stretch of a sequence that starts within or just behind it and ends within it.
LEMMA SubSeqType ==
  ASSUME NEW S, NEW s \in Seq(S), NEW m \in Nat \ {0}, NEW n \in Nat, n <= Len(s)
  PROVE  SubSeq(s, m, n) \in Seq(S)
OBVIOUS

\* Popping acknowledged segments leaves a queue of segments.
LEMMA RemoveAckedType ==
  ASSUME NEW q \in Seq(UnackedSegment), NEW una
  PROVE  remove_acked(q, una) \in Seq(UnackedSegment)
<1> DEFINE unacked == {i \in DOMAIN q : Unacked(q[i], una)}
           first == CHOOSE i \in unacked : \A j \in unacked : i <= j
<1>1. CASE unacked = {}
  BY <1>1 DEF remove_acked
<1>2. CASE unacked # {}
  <2>1. unacked \in SUBSET Nat /\ \A i \in unacked : i \in Nat \ {0}
    OBVIOUS
  <2> HIDE DEF unacked
  <2>2. first \in unacked
    BY <1>2, <2>1, NatMin, Zenon
  <2>3. remove_acked(q, una) = SubSeq(q, first, Len(q))
    BY <1>2, Zenon DEF remove_acked, unacked
  <2> HIDE DEF first
  <2>4. first \in Nat \ {0} /\ Len(q) \in Nat
    BY <2>1, <2>2
  <2> QED
    BY <2>3, <2>4, SubSeqType
<1> QED
  BY <1>1, <1>2

\* process_ack touches neither what was received nor what waits to be sent.
LEMMA ProcessAckOK ==
  ASSUME NEW c, ConnOK(c), NEW seg \in Segment
  PROVE  LET d == process_ack(c, seg)
         IN  ConnOK(d) /\ SameReceived(c, d) /\ SameControl(c, d)
<1> DEFINE d == process_ack(c, seg)
<1>1. CASE "ACK" \notin seg.flags
  BY <1>1 DEF process_ack, SameReceived, SameControl
<1>2. CASE "ACK" \in seg.flags
  <2>1. remove_acked(c.retransmit_queue, seg.ack) \in Seq(UnackedSegment)
    BY RemoveAckedType DEF ConnOK, Conn
  <2>2. seg.ack \in SeqNum /\ seg.wnd \in 0 .. MaxWindow
    BY DEF Segment
  <2> DEFINE una == IF Newer(c, seg) THEN seg.ack ELSE c.snd_una
             q == IF Newer(c, seg) THEN remove_acked(c.retransmit_queue, seg.ack)
                  ELSE c.retransmit_queue
             armed == c.probe_armed /\ seg.wnd = 0
  <2>3. una \in SeqNum /\ q \in Seq(UnackedSegment) /\ armed \in BOOLEAN
    BY <2>1, <2>2 DEF ConnOK, Conn
  <2>4. d = [c EXCEPT !.snd_una = una, !.retransmit_queue = q,
                      !.snd_wnd = seg.wnd, !.probe_armed = armed]
    BY <1>2 DEF process_ack
  <2> HIDE DEF una, q, armed, d
  <2>5. d \in Conn /\ SameReceived(c, d) /\ SameControl(c, d)
    BY <2>2, <2>3, <2>4, Zenon DEF ConnOK, Conn, SameReceived, SameControl
  <2> QED
    BY <2>5 DEF ConnOK, SameReceived, d
<1> QED
  BY <1>1, <1>2

\* Arming the persist timer changes nothing else.
LEMMA ArmProbeOK ==
  ASSUME NEW c, ConnOK(c)
  PROVE  LET d == ArmProbe(c)
         IN  ConnOK(d) /\ SameReceived(c, d) /\ SameControl(c, d)
BY Zenon DEF ArmProbe, ConnOK, Conn, SameReceived, SameControl

\* flush_send never takes more than there is in send_pending.
LEMMA WindowRoomType ==
  ASSUME NEW c, ConnOK(c)
  PROVE  WindowRoom(c) \in 0 .. Len(c.send_pending)
<1> DEFINE l == Len(c.send_pending)
           in_flight == wrapping_sub(c.snd_nxt, c.snd_una)
<1>1. l \in Nat /\ c.snd_wnd \in Nat
  BY ConnectionAssumption DEF ConnOK, Conn
<1>2. in_flight \in Nat
  <2>1. in_flight \in SeqNum
    BY WrapType DEF ConnOK, Conn
  <2> QED
    BY <2>1 DEF SeqNum
<1>3. WindowRoom(c) = IF in_flight >= c.snd_wnd THEN 0
                      ELSE MinOf(c.snd_wnd - in_flight, l)
  BY DEF WindowRoom
<1> HIDE DEF l, in_flight
<1>4. WindowRoom(c) \in 0 .. l
  BY <1>1, <1>2, <1>3 DEF MinOf
<1> QED
  BY <1>4 DEF l

\* The loop of flush_send cuts well-formed segments and keeps the state.
LEMMA SendWindowOK ==
  ASSUME NEW c, ConnOK(c)
  PROVE  LET d == SendWindow(c)
         IN  /\ ConnOK(d) /\ SameReceived(c, d)
             /\ d.state = c.state /\ d.pending_close = c.pending_close
<1> DEFINE n == WindowRoom(c)
           chunks == 1 .. ((n + MSS - 1) \div MSS)
           seq(i) == wrapping_add(c.snd_nxt, (i - 1) * MSS)
           data(i) == SubSeq(c.send_pending, (i - 1) * MSS + 1, MinOf(i * MSS, n))
           out == [i \in chunks |-> SegmentFrom(c, {"ACK"}, seq(i), data(i))]
           kept == [i \in chunks |-> [seq |-> seq(i), flags |-> {"ACK"},
                                      data |-> data(i), retry_count |-> 0]]
           rest == SubSeq(c.send_pending, n + 1, Len(c.send_pending))
           nxt == wrapping_add(c.snd_nxt, n)
           d == SendWindow(c)
<1>1. /\ c.send_pending \in Seq(Byte) /\ c.snd_nxt \in Nat
      /\ Len(c.send_pending) \in Nat /\ n \in Nat /\ n <= Len(c.send_pending)
  <2>1. c.send_pending \in Seq(Byte) /\ c.snd_nxt \in Nat
    BY DEF ConnOK, Conn, SeqNum
  <2>2. n \in 0 .. Len(c.send_pending)
    BY WindowRoomType
  <2> HIDE DEF n
  <2> QED
    BY <2>1, <2>2
<1>2. d = [c EXCEPT !.tun = @ \o out, !.retransmit_queue = @ \o kept,
                    !.snd_nxt = nxt, !.send_pending = rest]
  BY DEF SendWindow
<1> HIDE DEF n
<1>3. (n + MSS - 1) \div MSS \in Nat
  BY <1>1, ConnectionAssumption
<1>4. \A i \in chunks : seq(i) \in SeqNum /\ data(i) \in Seq(Byte)
  <2>1. SUFFICES ASSUME NEW i \in chunks
                 PROVE  seq(i) \in SeqNum /\ data(i) \in Seq(Byte)
    OBVIOUS
  <2>2. i - 1 \in Nat /\ i \in Nat
    BY <1>3
  <2>3. (i - 1) * MSS \in Nat /\ i * MSS \in Nat
    BY <2>2, ConnectionAssumption
  <2>4. MinOf(i * MSS, n) \in Nat /\ MinOf(i * MSS, n) <= Len(c.send_pending)
    BY <1>1, <2>3 DEF MinOf
  <2>5. seq(i) \in SeqNum
    BY <1>1, <2>3, WrapType
  <2>6. data(i) \in Seq(Byte)
    BY <1>1, <2>3, <2>4, SubSeqType
  <2> QED
    BY <2>5, <2>6
<1> HIDE DEF seq, data
<1>5. out \in Seq(Segment)
  <2>1. \A i \in chunks : SegmentFrom(c, {"ACK"}, seq(i), data(i)) \in Segment
    BY <1>4, SegmentFromType DEF Flag
  <2> QED
    BY <1>3, <2>1
<1>6. kept \in Seq(UnackedSegment)
  <2>1. \A i \in chunks : [seq |-> seq(i), flags |-> {"ACK"}, data |-> data(i),
                           retry_count |-> 0] \in UnackedSegment
    BY <1>4 DEF UnackedSegment, Flag
  <2> QED
    BY <1>3, <2>1
<1>7. nxt \in SeqNum /\ rest \in Seq(Byte)
  BY <1>1, WrapType, SubSeqType
<1> HIDE DEF out, kept, nxt, rest, d
<1>8. c.tun \o out \in Seq(Segment) /\ c.retransmit_queue \o kept \in Seq(UnackedSegment)
  BY <1>5, <1>6 DEF ConnOK, Conn
<1>9. /\ d \in Conn /\ SameReceived(c, d)
      /\ d.state = c.state /\ d.pending_close = c.pending_close
  BY <1>2, <1>7, <1>8, Zenon DEF ConnOK, Conn, SameReceived
<1>10. ConnOK(d)
  BY <1>9 DEF ConnOK, SameReceived
<1> QED
  BY <1>9, <1>10 DEF d

\* The deferred FIN changes the state only when send_pending is empty.
LEMMA SendDeferredFinOK ==
  ASSUME NEW c, ConnOK(c)
  PROVE  LET d == SendDeferredFin(c)
         IN  /\ ConnOK(d) /\ SameReceived(c, d)
             /\ d.send_pending = c.send_pending
             /\ d.state = c.state \/ (d.send_pending = <<>> /\ ~ d.pending_close)
<1> DEFINE d == SendDeferredFin(c)
           b == queue_and_send(c, {"FIN", "ACK"}, <<>>)
<1>1. CASE ~ FinIsDue(c)
  BY <1>1 DEF SendDeferredFin, SameReceived
<1>2. CASE FinIsDue(c)
  <2>1. ConnOK(b) /\ SameReceived(c, b) /\ SameControl(c, b)
    <3>1. {"FIN", "ACK"} \in SUBSET Flag /\ <<>> \in Seq(Byte)
      BY DEF Flag
    <3> QED
      BY <3>1, QueueAndSendOK, Zenon
  <2>2. d = [b EXCEPT !.state = IF @ = "ESTABLISHED" THEN "FIN_WAIT_1" ELSE "LAST_ACK",
                      !.pending_close = FALSE]
    BY <1>2 DEF SendDeferredFin
  <2> HIDE DEF b, d
  <2>3. d \in Conn /\ d.pending_close = FALSE /\ d.send_pending = b.send_pending
    BY <2>1, <2>2, Zenon DEF ConnOK, Conn, TcpState
  <2>4. SameReceived(c, d)
    BY <2>1, <2>2 DEF ConnOK, Conn, SameReceived
  <2>5. d.send_pending = <<>> /\ d.send_pending = c.send_pending
    BY <1>2, <2>1, <2>3 DEF FinIsDue, SameControl
  <2>6. ConnOK(d)
    BY <2>3, <2>4 DEF ConnOK, SameReceived
  <2> QED
    BY <2>3, <2>4, <2>5, <2>6 DEF d
<1> QED
  BY <1>1, <1>2

\* Flushing changes the state only by sending the FIN, and then nothing waits.
LEMMA FlushSendOK ==
  ASSUME NEW c, ConnOK(c)
  PROVE  LET d == flush_send(c)
         IN  /\ ConnOK(d) /\ SameReceived(c, d)
             /\ d.state = c.state \/ (d.send_pending = <<>> /\ ~ d.pending_close)
<1> DEFINE a == ArmProbe(c)
           b == SendWindow(a)
           d == SendDeferredFin(b)
<1>1. CASE c.state \notin {"ESTABLISHED", "CLOSE_WAIT"}
  BY <1>1 DEF flush_send, SameReceived
<1>2. CASE c.state \in {"ESTABLISHED", "CLOSE_WAIT"}
  <2>1. flush_send(c) = d
    BY <1>2 DEF flush_send
  <2>2. ConnOK(a) /\ SameReceived(c, a) /\ SameControl(c, a)
    BY ArmProbeOK
  <2> HIDE DEF a
  <2>3. ConnOK(b) /\ SameReceived(a, b) /\ b.state = a.state
    BY <2>2, SendWindowOK
  <2> HIDE DEF b
  <2>4. /\ ConnOK(d) /\ SameReceived(b, d)
        /\ d.state = b.state \/ (d.send_pending = <<>> /\ ~ d.pending_close)
    BY <2>3, SendDeferredFinOK
  <2> HIDE DEF d
  <2> QED
    BY <2>1, <2>2, <2>3, <2>4 DEF SameReceived, SameControl
<1> QED
  BY <1>1, <1>2

----------------------------------------------------------------------------
(* Receiving *)

\* From c to d, out-of-order data grows only within the receive cap.
GrowsWithinCap(c, d) ==
  OooBytes(d.ooo_buffer) > OooBytes(c.ooo_buffer)
    => buffered_bytes(d) <= d.recv_buffer_cap

\* A step that keeps what was received does not grow it.
LEMMA SameNoGrowth ==
  ASSUME NEW c, NEW d, ConnOK(c), SameReceived(c, d)
  PROVE  GrowsWithinCap(c, d)
<1>1. OooBytes(c.ooo_buffer) \in Nat
  BY OooFinite DEF ConnOK, Conn
<1> QED
  BY <1>1 DEF GrowsWithinCap, SameReceived

\* Growth within the cap is not undone by a step that keeps what was received.
LEMMA GrowthThenSame ==
  ASSUME NEW c, NEW d, NEW e, GrowsWithinCap(c, d), SameReceived(d, e)
  PROVE  GrowsWithinCap(c, e)
BY DEF GrowsWithinCap, SameReceived, buffered_bytes

\* Growth after a step that keeps what was received is growth over both.
LEMMA SameThenGrowth ==
  ASSUME NEW c, NEW d, NEW e, SameReceived(c, d), GrowsWithinCap(d, e)
  PROVE  GrowsWithinCap(c, e)
BY DEF GrowsWithinCap, SameReceived

\* In-order data shrinks the out-of-order buffer by what it splices.
LEMMA ReceiveInOrderOK ==
  ASSUME NEW c, ConnOK(c), NEW seg \in Segment
  PROVE  LET d == ReceiveInOrder(c, seg)
         IN  ConnOK(d) /\ GrowsWithinCap(c, d) /\ SameControl(c, d)
<1> DEFINE from == wrapping_add(c.rcv_nxt, Len(seg.data))
           run == SpliceRun(c.ooo_buffer, from)
           new_data == seg.data \o RunBytes(run, from)
           fin == IF "FIN" \in seg.flags THEN 1 ELSE 0
           nxt == wrapping_add(c.rcv_nxt, Len(new_data) + fin)
           b == [c EXCEPT !.recv_buffer = @ \o new_data,
                          !.ooo_buffer = @ \ run, !.rcv_nxt = nxt]
<1>1. ReceiveInOrder(c, seg) = IF Len(new_data) + fin > 0 THEN send_ack_only(b) ELSE b
  BY DEF ReceiveInOrder
<1>2. /\ c.rcv_nxt \in Nat /\ c.recv_buffer \in Seq(Byte)
      /\ c.ooo_buffer \in SUBSET OooEntry
      /\ seg.data \in Seq(Byte) /\ Len(seg.data) \in Nat
  BY DEF ConnOK, Conn, SeqNum, Segment
<1>3. from \in SeqNum
  BY <1>2, WrapType
<1> HIDE DEF from
<1>4. run \in SUBSET c.ooo_buffer /\ RunBytes(run, from) \in Seq(Byte)
  BY <1>2, <1>3, SpliceRunType DEF ConnOK
<1> HIDE DEF run
<1>5. new_data \in Seq(Byte) /\ Len(new_data) \in Nat /\ c.recv_buffer \o new_data \in Seq(Byte)
  BY <1>2, <1>4
<1>6. nxt \in SeqNum
  <2>1. fin \in Nat
    OBVIOUS
  <2> HIDE DEF fin, new_data
  <2>2. Len(new_data) + fin \in Nat
    BY <1>5, <2>1
  <2> QED
    BY <1>2, <2>2, WrapType
<1>7. /\ IsFiniteSet(c.ooo_buffer \ run)
      /\ OooBytes(c.ooo_buffer \ run) <= OooBytes(c.ooo_buffer)
      /\ OooBytes(c.ooo_buffer) \in Nat /\ OooBytes(c.ooo_buffer \ run) \in Nat
  BY <1>2, OooMonotone, OooFinite DEF ConnOK
<1> HIDE DEF new_data, nxt, fin
<1>8. b \in Conn /\ b.ooo_buffer = c.ooo_buffer \ run /\ SameControl(c, b)
  BY <1>5, <1>6, Zenon DEF ConnOK, Conn, SameControl
<1> HIDE DEF b
<1>9. ConnOK(b)
  BY <1>7, <1>8, ConnectionAssumption DEF ConnOK
<1>10. GrowsWithinCap(c, b)
  BY <1>7, <1>8 DEF GrowsWithinCap
<1>11. LET d == send_ack_only(b)
       IN  ConnOK(d) /\ GrowsWithinCap(c, d) /\ SameControl(c, d)
  <2>1. LET d == send_ack_only(b) IN ConnOK(d) /\ SameReceived(b, d) /\ SameControl(b, d)
    BY <1>9, SendAckOK
  <2> QED
    BY <1>8, <1>10, <2>1, GrowthThenSame DEF SameControl
<1> QED
  BY <1>1, <1>8, <1>9, <1>10, <1>11

\* A stored out-of-order segment stays within the cap, replacing one of its key.
LEMMA ReceiveOutOfOrderOK ==
  ASSUME NEW c, ConnOK(c), NEW seg \in Segment
  PROVE  LET d == ReceiveOutOfOrder(c, seg)
         IN  ConnOK(d) /\ GrowsWithinCap(c, d) /\ SameControl(c, d)
<1> DEFINE others == {e \in c.ooo_buffer : e.seq # seg.seq}
           entry == [seq |-> seg.seq, data |-> seg.data]
           ooo == IF Fits(c, seg) THEN others \cup {entry} ELSE c.ooo_buffer
           b == [c EXCEPT !.ooo_buffer = ooo]
           d == send_ack_only(b)
           k == OooBytes(c.ooo_buffer)
           l == Len(c.recv_buffer)
           n == Len(seg.data)
<1>1. ReceiveOutOfOrder(c, seg) = d
  BY DEF ReceiveOutOfOrder
<1>2. /\ c.ooo_buffer \in SUBSET OooEntry /\ IsFiniteSet(c.ooo_buffer)
      /\ seg.seq \in SeqNum /\ seg.data \in Seq(Byte)
      /\ l \in Nat /\ n \in Nat
      /\ c.recv_buffer_cap \in Nat /\ c.recv_buffer_cap < SeqSpace
  <2>1. c.ooo_buffer \in SUBSET OooEntry /\ c.recv_buffer \in Seq(Byte)
        /\ c.recv_buffer_cap \in SeqNum
    BY DEF ConnOK, Conn
  <2>2. IsFiniteSet(c.ooo_buffer)
    BY DEF ConnOK
  <2>3. seg.seq \in SeqNum /\ seg.data \in Seq(Byte)
    BY DEF Segment
  <2>4. l \in Nat /\ n \in Nat
    BY <2>1, <2>3
  <2>5. c.recv_buffer_cap \in Nat /\ c.recv_buffer_cap < SeqSpace
    BY <2>1, ConnectionAssumption DEF SeqNum
  <2> QED
    BY <2>1, <2>2, <2>3, <2>4, <2>5
<1>3. k \in Nat /\ k < SeqSpace
  BY <1>2, OooFinite DEF ConnOK
<1>4. b.ooo_buffer = ooo /\ b.recv_buffer = c.recv_buffer
      /\ b.recv_buffer_cap = c.recv_buffer_cap /\ SameControl(c, b)
  BY DEF ConnOK, Conn, SameControl
<1>5. ConnOK(b) /\ GrowsWithinCap(c, b)
  <2>1. CASE ~ Fits(c, seg)
    <3>1. b = c
      BY <2>1 DEF ConnOK, Conn
    <3> QED
      BY <3>1, SameNoGrowth DEF SameReceived
  <2>2. CASE Fits(c, seg)
    <3>1. entry \in OooEntry
      BY <1>2, <2>2 DEF OooEntry, Fits
    <3>2. l + k + n <= c.recv_buffer_cap
      BY <2>2 DEF Fits, buffered_bytes
    <3>3. /\ others \in SUBSET OooEntry /\ IsFiniteSet(others)
          /\ OooBytes(others) <= k /\ OooBytes(others) \in Nat
      BY <1>2, OooMonotone, OooFinite
    <3>4. ooo = others \cup {entry}
      BY <2>2
    <3>5. /\ IsFiniteSet(ooo) /\ OooBytes(ooo) <= OooBytes(others) + n
      <4>1. entry.data = seg.data
        OBVIOUS
      <4> HIDE DEF entry, others, ooo
      <4> QED
        BY <3>1, <3>3, <3>4, <4>1, OooAdd, Zenon
    <3>6. ooo \in SUBSET OooEntry
      BY <3>1, <3>3, <3>4
    <3>7. OooBytes(ooo) \in Nat
      BY <3>5, <3>6, OooFinite
    <3> HIDE DEF ooo, others, entry, k, l, n
    <3>8. l + OooBytes(ooo) <= c.recv_buffer_cap /\ OooBytes(ooo) < SeqSpace
      BY <1>2, <1>3, <3>2, <3>3, <3>5, <3>7, ConnectionAssumption
    <3>9. b \in Conn
      BY <3>6 DEF ConnOK, Conn
    <3>10. ConnOK(b)
      BY <1>4, <3>5, <3>8, <3>9 DEF ConnOK
    <3>11. buffered_bytes(b) <= b.recv_buffer_cap
      BY <1>4, <3>8 DEF buffered_bytes, l
    <3> QED
      BY <3>10, <3>11 DEF GrowsWithinCap
  <2> QED
    BY <2>1, <2>2
<1> HIDE DEF b
<1>6. ConnOK(d) /\ SameReceived(b, d) /\ SameControl(b, d)
  BY <1>5, SendAckOK
<1> HIDE DEF d
<1>7. ConnOK(d) /\ GrowsWithinCap(c, d) /\ SameControl(c, d)
  BY <1>4, <1>5, <1>6, GrowthThenSame DEF SameControl
<1> QED
  BY <1>1, <1>7

\* receive_data_and_maybe_fin, whichever way the segment lies.
LEMMA ReceiveOK ==
  ASSUME NEW c, ConnOK(c), NEW seg \in Segment
  PROVE  LET d == receive_data_and_maybe_fin(c, seg)
         IN  ConnOK(d) /\ GrowsWithinCap(c, d) /\ SameControl(c, d)
<1>1. LET d == ReceiveInOrder(c, seg)
      IN  ConnOK(d) /\ GrowsWithinCap(c, d) /\ SameControl(c, d)
  BY ReceiveInOrderOK
<1>2. LET d == ReceiveOutOfOrder(c, seg)
      IN  ConnOK(d) /\ GrowsWithinCap(c, d) /\ SameControl(c, d)
  BY ReceiveOutOfOrderOK
<1>3. LET d == ReceiveOld(c, seg)
      IN  ConnOK(d) /\ GrowsWithinCap(c, d) /\ SameControl(c, d)
  <2>1. LET d == send_ack_only(c)
        IN  ConnOK(d) /\ GrowsWithinCap(c, d) /\ SameControl(c, d)
    BY SendAckOK, SameNoGrowth
  <2>2. GrowsWithinCap(c, c) /\ SameControl(c, c)
    BY SameNoGrowth DEF SameReceived, SameControl
  <2> QED
    BY <2>1, <2>2 DEF ReceiveOld
<1> QED
  BY <1>1, <1>2, <1>3 DEF receive_data_and_maybe_fin

\* A change of state alone disturbs nothing else.
LEMMA SetStateOK ==
  ASSUME NEW c, ConnOK(c), NEW s \in TcpState
  PROVE  LET d == [c EXCEPT !.state = s]
         IN  ConnOK(d) /\ SameReceived(c, d) /\ d.state = s
<1> DEFINE d == [c EXCEPT !.state = s]
<1>1. d \in Conn /\ SameReceived(c, d) /\ d.state = s
  BY DEF ConnOK, Conn, SameReceived
<1> QED
  BY <1>1 DEF ConnOK, SameReceived

\* Receiving moves the state at most to the one a FIN leads to.
LEMMA ReceiveThenOK ==
  ASSUME NEW c, ConnOK(c), NEW seg \in Segment, NEW onFin \in TcpState
  PROVE  LET d == ReceiveThen(c, seg, onFin)
         IN  ConnOK(d) /\ GrowsWithinCap(c, d) /\ d.state \in {c.state, onFin}
<1> DEFINE b == receive_data_and_maybe_fin(c, seg)
           s == IF FinConsumed(c, seg) THEN onFin ELSE b.state
           d == [b EXCEPT !.state = s]
<1>1. ConnOK(b) /\ GrowsWithinCap(c, b) /\ SameControl(c, b)
  BY ReceiveOK
<1>2. ReceiveThen(c, seg, onFin) = d
  BY DEF ReceiveThen
<1> HIDE DEF b
<1>3. s \in TcpState /\ s \in {c.state, onFin}
  BY <1>1 DEF ConnOK, Conn, SameControl
<1> HIDE DEF s
<1>4. ConnOK(d) /\ SameReceived(b, d) /\ d.state = s
  BY <1>1, <1>3, SetStateOK
<1> HIDE DEF d
<1>5. GrowsWithinCap(c, d)
  BY <1>1, <1>4, GrowthThenSame
<1> QED
  BY <1>2, <1>3, <1>4, <1>5

----------------------------------------------------------------------------
(* The state machine *)

FinSent == {"FIN_WAIT_1", "LAST_ACK"}

\* From c to d, a FIN goes out only with nothing left to send.
FinDrained(c, d) ==
  c.state \notin FinSent /\ d.state \in FinSent
    => d.send_pending = <<>> /\ ~ d.pending_close

\* What every call on a connection keeps to.
CallOK(c, d) == ConnOK(d) /\ GrowsWithinCap(c, d) /\ FinDrained(c, d)

\* Flushing after a step that stays out of the states behind a FIN.
LEMMA ThenFlush ==
  ASSUME NEW c, NEW d, ConnOK(d), GrowsWithinCap(c, d),
         d.state \notin FinSent \/ d.state = c.state
  PROVE  CallOK(c, flush_send(d))
<1> DEFINE e == flush_send(d)
<1>1. /\ ConnOK(e) /\ SameReceived(d, e)
      /\ e.state = d.state \/ (e.send_pending = <<>> /\ ~ e.pending_close)
  BY FlushSendOK
<1> HIDE DEF e
<1>2. GrowsWithinCap(c, e)
  BY <1>1, GrowthThenSame
<1>3. FinDrained(c, e)
  BY <1>1 DEF FinDrained
<1> QED
  BY <1>1, <1>2, <1>3 DEF CallOK, e

\* The same step without the flush.
LEMMA NoFlush ==
  ASSUME NEW c, NEW d, ConnOK(d), GrowsWithinCap(c, d),
         d.state \notin FinSent \/ d.state = c.state
  PROVE  CallOK(c, d)
BY DEF CallOK, FinDrained

\* An arm that does nothing keeps to everything.
LEMMA StaysOK ==
  ASSUME NEW c, ConnOK(c)
  PROVE  CallOK(c, c)
BY SameNoGrowth DEF CallOK, FinDrained, SameReceived

\* The SYN_SENT arm.
LEMMA InSynSentOK ==
  ASSUME NEW c, ConnOK(c), NEW seg \in Segment
  PROVE  CallOK(c, InSynSent(c, seg))
<1> DEFINE taken == "SYN" \in seg.flags /\ Acks(c, seg)
           b == [c EXCEPT
                   !.irs = seg.seq, !.rcv_nxt = wrapping_add(seg.seq, 1),
                   !.snd_una = seg.ack, !.snd_wnd = seg.wnd,
                   !.retransmit_queue = remove_acked(@, seg.ack),
                   !.state = "ESTABLISHED"]
           d == send_ack_only(b)
<1>1. CASE ~ taken
  BY <1>1, StaysOK DEF InSynSent
<1>2. CASE taken
  <2>1. InSynSent(c, seg) = d
    BY <1>2 DEF InSynSent
  <2>2. /\ seg.seq \in SeqNum /\ seg.ack \in SeqNum /\ seg.wnd \in 0 .. MaxWindow
        /\ wrapping_add(seg.seq, 1) \in SeqNum
    BY WrapType DEF Segment, SeqNum
  <2>3. remove_acked(c.retransmit_queue, seg.ack) \in Seq(UnackedSegment)
    BY RemoveAckedType DEF ConnOK, Conn
  <2>4. b \in Conn /\ SameReceived(c, b) /\ b.state = "ESTABLISHED"
    BY <2>2, <2>3, Zenon DEF ConnOK, Conn, TcpState, SameReceived
  <2> HIDE DEF b
  <2>5. ConnOK(b)
    BY <2>4 DEF ConnOK, SameReceived
  <2>6. ConnOK(d) /\ SameReceived(b, d) /\ SameControl(b, d)
    BY <2>5, SendAckOK
  <2> HIDE DEF d
  <2>7. SameReceived(c, d) /\ d.state = "ESTABLISHED"
    BY <2>4, <2>6 DEF SameReceived, SameControl
  <2> QED
    BY <2>1, <2>6, <2>7, SameNoGrowth, NoFlush DEF FinSent
<1> QED
  BY <1>1, <1>2

\* The SYN_RCVD arm, with or without data on the handshake's last segment.
LEMMA InSynRcvdOK ==
  ASSUME NEW c, ConnOK(c), NEW seg \in Segment
  PROVE  CallOK(c, InSynRcvd(c, seg))
<1> DEFINE b == [c EXCEPT !.snd_una = seg.ack, !.snd_wnd = seg.wnd,
                          !.retransmit_queue = remove_acked(@, seg.ack),
                          !.state = "ESTABLISHED"]
           d == ReceiveThen(b, seg, "CLOSE_WAIT")
<1>1. seg.ack \in SeqNum /\ seg.wnd \in 0 .. MaxWindow
  BY DEF Segment
<1>2. remove_acked(c.retransmit_queue, seg.ack) \in Seq(UnackedSegment)
  BY RemoveAckedType DEF ConnOK, Conn
<1>3. b \in Conn /\ SameReceived(c, b) /\ b.state = "ESTABLISHED"
  BY <1>1, <1>2, Zenon DEF ConnOK, Conn, TcpState, SameReceived
<1>4. InSynRcvd(c, seg) = IF ~ Acks(c, seg) THEN c
                          ELSE IF seg.data = <<>> /\ "FIN" \notin seg.flags THEN b ELSE d
  BY DEF InSynRcvd
<1> HIDE DEF b
<1>5. ConnOK(b)
  BY <1>3 DEF ConnOK, SameReceived
<1>6. CallOK(c, b)
  BY <1>3, <1>5, SameNoGrowth, NoFlush DEF FinSent
<1>7. CallOK(c, d)
  <2>1. "CLOSE_WAIT" \in TcpState
    BY DEF TcpState
  <2>2. ConnOK(d) /\ GrowsWithinCap(b, d) /\ d.state \in {b.state, "CLOSE_WAIT"}
    BY <1>5, <2>1, ReceiveThenOK
  <2> HIDE DEF d
  <2> QED
    BY <1>3, <2>2, SameThenGrowth, NoFlush DEF FinSent
<1> HIDE DEF d
<1> QED
  BY <1>4, <1>6, <1>7, StaysOK

\* The ESTABLISHED arm: acknowledgement, data, and the flush they allow.
LEMMA InEstablishedOK ==
  ASSUME NEW c, ConnOK(c), NEW seg \in Segment, c.state = "ESTABLISHED"
  PROVE  CallOK(c, InEstablished(c, seg))
<1> DEFINE b == process_ack(c, seg)
           d == ReceiveThen(b, seg, "CLOSE_WAIT")
<1>1. ConnOK(b) /\ SameReceived(c, b) /\ SameControl(c, b)
  BY ProcessAckOK
<1>2. InEstablished(c, seg) = flush_send(d)
  BY DEF InEstablished
<1> HIDE DEF b
<1>3. "CLOSE_WAIT" \in TcpState
  BY DEF TcpState
<1>4. ConnOK(d) /\ GrowsWithinCap(b, d) /\ d.state \in {b.state, "CLOSE_WAIT"}
  BY <1>1, <1>3, ReceiveThenOK
<1> HIDE DEF d
<1>5. GrowsWithinCap(c, d) /\ d.state \notin FinSent
  BY <1>1, <1>4, SameThenGrowth DEF SameControl, FinSent
<1> QED
  BY <1>2, <1>4, <1>5, ThenFlush

\* process_ack, an optional change of state, then the payload and the FIN.
LEMMA AckThenReceiveOK ==
  ASSUME NEW c, ConnOK(c), NEW seg \in Segment, NEW s \in TcpState, NEW onFin \in TcpState,
         s \notin FinSent \/ s = c.state, onFin \notin FinSent
  PROVE  CallOK(c, ReceiveThen([process_ack(c, seg) EXCEPT !.state = s], seg, onFin))
<1> DEFINE a == process_ack(c, seg)
           b == [a EXCEPT !.state = s]
           d == ReceiveThen(b, seg, onFin)
<1>1. ConnOK(a) /\ SameReceived(c, a)
  BY ProcessAckOK
<1> HIDE DEF a
<1>2. ConnOK(b) /\ SameReceived(a, b) /\ b.state = s
  BY <1>1, SetStateOK
<1> HIDE DEF b
<1>3. ConnOK(d) /\ GrowsWithinCap(b, d) /\ d.state \in {b.state, onFin}
  BY <1>2, ReceiveThenOK
<1> HIDE DEF d
<1>4. SameReceived(c, b)
  BY <1>1, <1>2 DEF SameReceived
<1>5. GrowsWithinCap(c, d)
  BY <1>3, <1>4, SameThenGrowth
<1>6. CallOK(c, d)
  BY <1>2, <1>3, <1>5, NoFlush
<1> QED
  BY <1>6 DEF a, b, d

\* A connection is unchanged by writing its own state to it.
LEMMA SameState ==
  ASSUME NEW c, ConnOK(c), NEW s, s = c.state
  PROVE  [c EXCEPT !.state = s] = c
BY DEF ConnOK, Conn

\* The FIN_WAIT_1 and FIN_WAIT_2 arms.
LEMMA InFinWaitOK ==
  ASSUME NEW c, ConnOK(c), NEW seg \in Segment
  PROVE  /\ CallOK(c, InFinWait1(c, seg))
         /\ CallOK(c, InFinWait2(c, seg))
<1> DEFINE a == process_ack(c, seg)
<1>1. /\ {"FIN_WAIT_2", "TIME_WAIT", "CLOSING"} \subseteq TcpState \ FinSent
      /\ c.state \in TcpState
  BY DEF TcpState, FinSent, ConnOK, Conn
<1>2. a = [a EXCEPT !.state = c.state]
  BY ProcessAckOK, SameState DEF SameControl
<1>3. CallOK(c, ReceiveThen([a EXCEPT !.state = "FIN_WAIT_2"], seg, "TIME_WAIT"))
  BY <1>1, AckThenReceiveOK
<1>4. CallOK(c, ReceiveThen([a EXCEPT !.state = c.state], seg, "CLOSING"))
  BY <1>1, AckThenReceiveOK
<1>5. CallOK(c, ReceiveThen([a EXCEPT !.state = c.state], seg, "TIME_WAIT"))
  BY <1>1, AckThenReceiveOK
<1>6. /\ InFinWait1(c, seg) = IF Acks(c, seg)
                              THEN ReceiveThen([a EXCEPT !.state = "FIN_WAIT_2"], seg, "TIME_WAIT")
                              ELSE ReceiveThen(a, seg, "CLOSING")
      /\ InFinWait2(c, seg) = ReceiveThen(a, seg, "TIME_WAIT")
  BY DEF InFinWait1, InFinWait2
<1> HIDE DEF a
<1> QED
  BY <1>2, <1>3, <1>4, <1>5, <1>6

\* process_ack and a state that is entered when all that was sent is acknowledged.
LEMMA AckThenStateOK ==
  ASSUME NEW c, ConnOK(c), NEW seg \in Segment, NEW s \in TcpState,
         s \notin FinSent \/ s = c.state
  PROVE  CallOK(c, [process_ack(c, seg) EXCEPT !.state = s])
<1> DEFINE a == process_ack(c, seg)
           d == [a EXCEPT !.state = s]
<1>1. ConnOK(a) /\ SameReceived(c, a)
  BY ProcessAckOK
<1> HIDE DEF a
<1>2. ConnOK(d) /\ SameReceived(a, d) /\ d.state = s
  BY <1>1, SetStateOK
<1> HIDE DEF d
<1>3. SameReceived(c, d)
  BY <1>1, <1>2 DEF SameReceived
<1>4. CallOK(c, d)
  BY <1>2, <1>3, SameNoGrowth, NoFlush
<1> QED
  BY <1>4 DEF a, d

\* The arms of the states in which the peer sends no more data.
LEMMA LastArmsOK ==
  ASSUME NEW c, ConnOK(c), NEW seg \in Segment
  PROVE  /\ CallOK(c, InClosing(c, seg))
         /\ CallOK(c, InLastAck(c, seg))
         /\ CallOK(c, InCloseWait(c, seg))
         /\ CallOK(c, InTimeWait(c, seg))
<1> DEFINE a == process_ack(c, seg)
<1>1. ConnOK(a) /\ SameReceived(c, a) /\ SameControl(c, a)
  BY ProcessAckOK
<1>2. {"TIME_WAIT", "CLOSED"} \subseteq TcpState \ FinSent /\ c.state \in TcpState
  BY DEF TcpState, FinSent, ConnOK, Conn
<1>3. \A s \in {"TIME_WAIT", "CLOSED", c.state} : CallOK(c, [a EXCEPT !.state = s])
  BY <1>2, AckThenStateOK
<1>4. /\ InClosing(c, seg) = [a EXCEPT !.state = IF Acks(c, seg) THEN "TIME_WAIT" ELSE a.state]
      /\ InLastAck(c, seg) = [a EXCEPT !.state = IF Acks(c, seg) THEN "CLOSED" ELSE a.state]
      /\ InCloseWait(c, seg) = flush_send(a)
  BY DEF InClosing, InLastAck, InCloseWait
<1> HIDE DEF a
<1>5. CallOK(c, InClosing(c, seg)) /\ CallOK(c, InLastAck(c, seg))
  BY <1>1, <1>3, <1>4 DEF SameControl
<1>6. CallOK(c, InCloseWait(c, seg))
  BY <1>1, <1>4, SameNoGrowth, ThenFlush DEF SameControl
<1>7. CallOK(c, InTimeWait(c, seg))
  <2>1. CallOK(c, send_ack_only(c))
    BY SendAckOK, SameNoGrowth, NoFlush DEF SameControl
  <2> QED
    BY <2>1, StaysOK DEF InTimeWait
<1> QED
  BY <1>5, <1>6, <1>7

\* process_segment, in every state and for every segment.
LEMMA ProcessSegmentOK ==
  ASSUME NEW c, ConnOK(c), NEW seg \in Segment
  PROVE  CallOK(c, process_segment(c, seg))
<1> DEFINE rst == "RST" \in seg.flags /\ c.state # "CLOSED"
<1>1. CASE rst
  <2> DEFINE d == [c EXCEPT !.state = "CLOSED"]
  <2>1. process_segment(c, seg) = d
    BY <1>1 DEF process_segment
  <2>2. ConnOK(d) /\ SameReceived(c, d) /\ d.state = "CLOSED"
    BY SetStateOK, Zenon DEF TcpState
  <2> HIDE DEF d
  <2> QED
    BY <2>1, <2>2, SameNoGrowth, NoFlush DEF FinSent
<1>2. CASE ~ rst
  <2>1. CASE c.state = "SYN_SENT"
    BY <1>2, <2>1, InSynSentOK DEF process_segment
  <2>2. CASE c.state = "SYN_RCVD"
    BY <1>2, <2>2, InSynRcvdOK DEF process_segment
  <2>3. CASE c.state = "ESTABLISHED"
    BY <1>2, <2>3, InEstablishedOK DEF process_segment
  <2>4. CASE c.state \in {"FIN_WAIT_1", "FIN_WAIT_2"}
    BY <1>2, <2>4, InFinWaitOK DEF process_segment
  <2>5. CASE c.state \in {"CLOSING", "CLOSE_WAIT", "LAST_ACK", "TIME_WAIT"}
    BY <1>2, <2>5, LastArmsOK DEF process_segment
  <2>6. CASE c.state \in {"CLOSED", "LISTEN", "GONE"}
    BY <1>2, <2>6, StaysOK DEF process_segment
  <2>7. c.state \in TcpState
    BY DEF ConnOK, Conn
  <2> QED
    BY <2>1, <2>2, <2>3, <2>4, <2>5, <2>6, <2>7 DEF TcpState
<1> QED
  BY <1>1, <1>2

\* Reaping a closed connection changes its state only.
LEMMA CleanupOK ==
  ASSUME NEW c, NEW d, ConnOK(c), CallOK(c, d)
  PROVE  CallOK(c, cleanup(d))
<1> DEFINE e == [d EXCEPT !.state = "GONE"]
<1>1. CASE d.state = "CLOSED"
  <2>1. cleanup(d) = e
    BY <1>1 DEF cleanup
  <2>2. ConnOK(e) /\ SameReceived(d, e) /\ e.state = "GONE"
    BY SetStateOK, Zenon DEF CallOK, TcpState
  <2> HIDE DEF e
  <2>3. GrowsWithinCap(c, e)
    BY <2>2, GrowthThenSame DEF CallOK
  <2>4. e.state \notin FinSent
    BY <2>2 DEF FinSent
  <2> QED
    BY <2>1, <2>2, <2>3, <2>4, NoFlush
<1>2. CASE d.state # "CLOSED"
  <2>1. cleanup(d) = [d EXCEPT !.state = d.state]
    BY <1>2 DEF cleanup
  <2>2. cleanup(d) = d
    BY <2>1, SameState DEF CallOK
  <2> QED
    BY <2>2
<1> QED
  BY <1>1, <1>2

----------------------------------------------------------------------------
(* Opening *)

\* TcpConnection::new() is well-formed.
LEMMA NewType ==
  /\ new \in Conn /\ new.ooo_buffer = {} /\ new.state = "CLOSED"
  /\ new.tun = <<>>
BY ConnectionAssumption DEF new, Conn, TcpState, SeqNum, OooEntry

\* The empty out-of-order buffer holds nothing.
LEMMA EmptyOoo == IsFiniteSet({}) /\ OooBytes({}) = 0 /\ 0 < SeqSpace
<1>1. OooCells({}) = {}
  BY DEF OooCells
<1> QED
  BY <1>1, FS_EmptySet, ConnectionAssumption DEF OooBytes

\* A fresh connection that sends its first segment, in place of whatever the
\* table had before.
LEMMA FreshOK ==
  ASSUME NEW c, ConnOK(c), NEW b \in Conn, b.ooo_buffer = {}, b.state \notin FinSent,
         NEW flags \in SUBSET Flag
  PROVE  CallOK(c, queue_and_send(b, flags, <<>>))
<1> DEFINE d == queue_and_send(b, flags, <<>>)
<1>1. ConnOK(b)
  BY EmptyOoo DEF ConnOK
<1>2. ConnOK(d) /\ SameReceived(b, d) /\ SameControl(b, d)
  <2>1. <<>> \in Seq(Byte)
    OBVIOUS
  <2> QED
    BY <1>1, <2>1, QueueAndSendOK, Zenon
<1> HIDE DEF d
<1>3. OooBytes(c.ooo_buffer) \in Nat
  BY OooFinite DEF ConnOK, Conn
<1>4. GrowsWithinCap(c, d)
  BY <1>2, <1>3, EmptyOoo DEF GrowsWithinCap, SameReceived
<1>5. CallOK(c, d)
  BY <1>2, <1>4, NoFlush DEF SameControl
<1> QED
  BY <1>5 DEF d

\* A passive open replaces the table's entry by a well-formed one.
LEMMA PassiveOpenOK ==
  ASSUME NEW c, ConnOK(c), NEW seg \in Segment, NEW iss \in SeqNum
  PROVE  CallOK(c, PassiveOpen(seg, iss))
<1> DEFINE b == [new EXCEPT !.irs = seg.seq, !.rcv_nxt = wrapping_add(seg.seq, 1),
                            !.iss = iss, !.snd_una = iss, !.snd_nxt = iss,
                            !.snd_wnd = seg.wnd, !.state = "SYN_RCVD"]
<1>1. /\ seg.seq \in SeqNum /\ seg.wnd \in 0 .. MaxWindow
      /\ wrapping_add(seg.seq, 1) \in SeqNum
  BY WrapType DEF Segment, SeqNum
<1>2. b \in Conn /\ b.ooo_buffer = {} /\ b.state = "SYN_RCVD"
  BY <1>1, NewType, Zenon DEF Conn, TcpState
<1>3. PassiveOpen(seg, iss) = queue_and_send(b, {"SYN", "ACK"}, <<>>)
  BY DEF PassiveOpen
<1> HIDE DEF b
<1>4. {"SYN", "ACK"} \in SUBSET Flag /\ "SYN_RCVD" \notin FinSent
  BY DEF Flag, FinSent
<1> QED
  BY <1>2, <1>3, <1>4, FreshOK

\* An active open replaces the table's entry by a well-formed one.
LEMMA ConnectOK ==
  ASSUME NEW c, ConnOK(c), NEW iss \in SeqNum
  PROVE  CallOK(c, connect(iss))
<1> DEFINE b == [new EXCEPT !.iss = iss, !.snd_una = iss, !.snd_nxt = iss,
                            !.state = "SYN_SENT"]
<1>1. b \in Conn /\ b.ooo_buffer = {} /\ b.state = "SYN_SENT"
  BY NewType, Zenon DEF Conn, TcpState
<1>2. connect(iss) = queue_and_send(b, {"SYN"}, <<>>)
  BY DEF connect
<1> HIDE DEF b
<1>3. {"SYN"} \in SUBSET Flag /\ "SYN_SENT" \notin FinSent
  BY DEF Flag, FinSent
<1> QED
  BY <1>1, <1>2, <1>3, FreshOK

\* The reset for an unknown connection is a well-formed segment.
LEMMA RstForType ==
  ASSUME NEW seg \in Segment
  PROVE  RstFor(seg) \in Segment
<1>1. /\ seg.flags \in SUBSET Flag /\ seg.seq \in SeqNum /\ seg.ack \in SeqNum
      /\ seg.data \in Seq(Byte) /\ seg.seq \in Nat /\ Len(seg.data) \in Nat
  BY DEF Segment, SeqNum
<1>2. wrapping_add(seg.seq, Consumed(seg.flags, seg.data)) \in SeqNum
  BY <1>1, ConsumedType, WrapType
<1>3. 0 \in SeqNum /\ 0 \in 0 .. MaxWindow /\ <<>> \in Seq(Byte)
  BY ConnectionAssumption DEF SeqNum
<1>4. {"RST"} \in SUBSET Flag /\ {"RST", "ACK"} \in SUBSET Flag
  BY DEF Flag
<1> QED
  BY <1>1, <1>2, <1>3, <1>4 DEF RstFor, Segment

----------------------------------------------------------------------------
(* Timers *)

\* A persist probe leaves the connection alone.
LEMMA PersistProbeOK ==
  ASSUME NEW c, ConnOK(c)
  PROVE  LET d == PersistProbe(c)
         IN  ConnOK(d) /\ SameReceived(c, d) /\ SameControl(c, d)
<1>1. wrapping_sub(c.snd_una, 1) \in SeqNum
  <2>1. c.snd_una \in SeqNum /\ 1 \in SeqNum
    BY ConnectionAssumption DEF ConnOK, Conn, SeqNum
  <2> QED
    BY <2>1, WrapType
<1>2. <<ProbeByte>> \in Seq(Byte) /\ {"ACK"} \in SUBSET Flag
  BY DEF ProbeByte, Byte, Flag
<1> QED
  BY <1>1, <1>2, SendSegmentOK, Zenon DEF PersistProbe

\* A retransmission counts a retry and leaves the rest alone.
LEMMA RetransmitOK ==
  ASSUME NEW c, ConnOK(c), c.retransmit_queue # <<>>
  PROVE  LET d == Retransmit(c)
         IN  ConnOK(d) /\ SameReceived(c, d) /\ SameControl(c, d)
<1> DEFINE front == Head(c.retransmit_queue)
           b == send_segment(c, front.flags, front.seq, front.data)
           again == [front EXCEPT !.retry_count = @ + 1]
           q == <<again>> \o Tail(b.retransmit_queue)
           d == Retransmit(c)
<1>1. c.retransmit_queue \in Seq(UnackedSegment)
  BY DEF ConnOK, Conn
<1>2. front \in UnackedSegment
  BY <1>1
<1>3. /\ front.flags \in SUBSET Flag /\ front.seq \in SeqNum
      /\ front.data \in Seq(Byte) /\ again \in UnackedSegment
  BY <1>2 DEF UnackedSegment
<1>4. ConnOK(b) /\ SameReceived(c, b) /\ SameControl(c, b)
  BY <1>3, SendSegmentOK
<1>5. b.retransmit_queue = c.retransmit_queue
  BY DEF send_segment, ConnOK, Conn
<1>6. d = [b EXCEPT !.retransmit_queue = q]
  BY DEF Retransmit
<1> HIDE DEF b, again, front
<1>7. q \in Seq(UnackedSegment)
  BY <1>1, <1>3, <1>5
<1> HIDE DEF q, d
<1>8. d \in Conn /\ SameReceived(b, d) /\ SameControl(b, d)
  BY <1>4, <1>6, <1>7, Zenon DEF ConnOK, Conn, SameReceived, SameControl
<1>9. ConnOK(d) /\ SameReceived(c, d) /\ SameControl(c, d)
  BY <1>4, <1>8 DEF ConnOK, SameReceived, SameControl
<1> QED
  BY <1>9 DEF d

\* tick, for every set of timers that can have run out.
LEMMA TickConnOK ==
  ASSUME NEW c, ConnOK(c), NEW due \in SUBSET Armed(c)
  PROVE  CallOK(c, TickConn(c, due))
<1> DEFINE probing == c.state \in {"ESTABLISHED", "CLOSE_WAIT"}
           d == IF "probe" \in due THEN PersistProbe(c)
                ELSE [c EXCEPT !.probe_armed = @ /\ probing]
           e == IF "retransmit" \in due THEN Retransmit(d) ELSE d
           over == [c EXCEPT !.state = IF "time_wait" \in due THEN "CLOSED" ELSE c.state]
           dead == [d EXCEPT !.state = "CLOSED"]
<1>1. TickConn(c, due) = IF c.state = "TIME_WAIT" THEN over
                         ELSE IF GivesUp(c, due) THEN dead ELSE flush_send(e)
  BY DEF TickConn
<1>2. /\ ConnOK(d) /\ SameReceived(c, d) /\ SameControl(c, d)
      /\ d.retransmit_queue = c.retransmit_queue
  <2>1. CASE "probe" \in due
    <3>1. d = PersistProbe(c)
      BY <2>1
    <3>2. PersistProbe(c).retransmit_queue = c.retransmit_queue
      BY DEF PersistProbe, send_segment, ConnOK, Conn
    <3> QED
      BY <3>1, <3>2, PersistProbeOK
  <2>2. CASE "probe" \notin due
    <3>1. d = [c EXCEPT !.probe_armed = @ /\ probing]
      BY <2>2
    <3>2. /\ d \in Conn /\ SameReceived(c, d) /\ SameControl(c, d)
          /\ d.retransmit_queue = c.retransmit_queue
      BY <3>1, Zenon DEF ConnOK, Conn, SameReceived, SameControl
    <3> QED
      BY <3>2 DEF ConnOK, SameReceived
  <2> QED
    BY <2>1, <2>2
<1>3. "retransmit" \in due => c.retransmit_queue # <<>>
  BY DEF Armed
<1> HIDE DEF d
<1>4. ConnOK(e) /\ SameReceived(c, e) /\ SameControl(c, e)
  <2>1. CASE "retransmit" \in due
    BY <1>2, <1>3, <2>1, RetransmitOK DEF SameReceived, SameControl
  <2>2. CASE "retransmit" \notin due
    BY <1>2, <2>2
  <2> QED
    BY <2>1, <2>2
<1> HIDE DEF e
<1>5. CallOK(c, flush_send(e))
  BY <1>4, SameNoGrowth, ThenFlush DEF SameControl
<1>6. CallOK(c, dead)
  <2>1. ConnOK(dead) /\ SameReceived(d, dead) /\ dead.state = "CLOSED"
    BY <1>2, SetStateOK, Zenon DEF TcpState
  <2> HIDE DEF dead
  <2>2. SameReceived(c, dead)
    BY <1>2, <2>1 DEF SameReceived
  <2> QED
    BY <2>1, <2>2, SameNoGrowth, NoFlush DEF FinSent
<1>7. CallOK(c, over)
  <2> DEFINE s == IF "time_wait" \in due THEN "CLOSED" ELSE c.state
  <2>1. s \in TcpState /\ (s = c.state \/ s \notin FinSent)
    BY DEF ConnOK, Conn, TcpState, FinSent
  <2> HIDE DEF s
  <2>2. over = [c EXCEPT !.state = s]
    BY DEF s
  <2>3. ConnOK(over) /\ SameReceived(c, over) /\ over.state = s
    BY <2>1, <2>2, SetStateOK, Zenon
  <2> HIDE DEF over
  <2> QED
    BY <2>1, <2>3, SameNoGrowth, NoFlush
<1> HIDE DEF over, dead
<1> QED
  BY <1>1, <1>5, <1>6, <1>7

----------------------------------------------------------------------------
(* Calls of the application *)

\* send() accepts no more than it is given.
LEMMA AcceptedType ==
  ASSUME NEW c, ConnOK(c), NEW n \in Nat
  PROVE  Accepted(c, n) \in 0 .. n
<1> DEFINE l == Len(c.send_pending)
           room == IF c.send_pending_cap > l THEN c.send_pending_cap - l ELSE 0
<1>1. l \in Nat /\ c.send_pending_cap \in Nat
  BY DEF ConnOK, Conn
<1>2. Accepted(c, n) = MinOf(n, room)
  BY DEF Accepted
<1> HIDE DEF l
<1>3. room \in Nat
  BY <1>1
<1> HIDE DEF room
<1> QED
  BY <1>2, <1>3 DEF MinOf

\* send(), including the flush it ends with.
LEMMA SendOK ==
  ASSUME NEW c, ConnOK(c), NEW data \in Seq(Byte)
  PROVE  CallOK(c, send(c, data))
<1> DEFINE a == Accepted(c, Len(data))
           taken == SubSeq(data, 1, a)
           b == [c EXCEPT !.send_pending = @ \o taken]
<1>1. send(c, data) = flush_send(b)
  BY DEF send
<1>2. Len(data) \in Nat
  OBVIOUS
<1>3. a \in 0 .. Len(data)
  BY <1>2, AcceptedType
<1> HIDE DEF a
<1>4. taken \in Seq(Byte)
  BY <1>2, <1>3, SubSeqType
<1> HIDE DEF taken
<1>5. c.send_pending \o taken \in Seq(Byte)
  BY <1>4 DEF ConnOK, Conn
<1>6. b \in Conn /\ SameReceived(c, b) /\ b.state = c.state
  BY <1>5, Zenon DEF ConnOK, Conn, SameReceived
<1> HIDE DEF b
<1>7. ConnOK(b)
  BY <1>6 DEF ConnOK, SameReceived
<1> QED
  BY <1>1, <1>6, <1>7, SameNoGrowth, ThenFlush

\* recv() only frees receive memory.
LEMMA RecvOK ==
  ASSUME NEW c, ConnOK(c), NEW n \in Nat
  PROVE  CallOK(c, recv(c, n))
<1> DEFINE l == Len(c.recv_buffer)
           m == MinOf(n, l)
           rest == SubSeq(c.recv_buffer, m + 1, l)
           d == [c EXCEPT !.recv_buffer = rest]
<1>1. recv(c, n) = d
  BY DEF recv
<1>2. c.recv_buffer \in Seq(Byte) /\ l \in Nat
  BY DEF ConnOK, Conn
<1>3. m \in Nat
  BY <1>2 DEF MinOf
<1> HIDE DEF m
<1>4. rest \in Seq(Byte)
  BY <1>2, <1>3, SubSeqType
<1> HIDE DEF rest
<1>5. d \in Conn /\ d.ooo_buffer = c.ooo_buffer /\ d.state = c.state
  BY <1>4, Zenon DEF ConnOK, Conn
<1> HIDE DEF d
<1>6. OooBytes(c.ooo_buffer) \in Nat
  BY OooFinite DEF ConnOK, Conn
<1>7. ConnOK(d) /\ GrowsWithinCap(c, d)
  BY <1>5, <1>6 DEF ConnOK, GrowsWithinCap
<1> QED
  BY <1>1, <1>5, <1>7, NoFlush

\* close(), in every state.
LEMMA CloseOK ==
  ASSUME NEW c, ConnOK(c)
  PROVE  CallOK(c, close(c))
<1>1. CASE c.state \in {"ESTABLISHED", "CLOSE_WAIT"}
  <2> DEFINE b == [c EXCEPT !.pending_close = TRUE]
  <2>1. close(c) = flush_send(b)
    BY <1>1 DEF close
  <2>2. b \in Conn /\ SameReceived(c, b) /\ b.state = c.state
    BY Zenon DEF ConnOK, Conn, SameReceived
  <2> HIDE DEF b
  <2>3. ConnOK(b)
    BY <2>2 DEF ConnOK, SameReceived
  <2> QED
    BY <2>1, <2>2, <2>3, SameNoGrowth, ThenFlush
<1>2. CASE c.state \notin {"ESTABLISHED", "CLOSE_WAIT"}
  <2> DEFINE s == IF c.state = "SYN_SENT" THEN "CLOSED" ELSE c.state
             d == [c EXCEPT !.state = s]
  <2>1. close(c) = d
    BY <1>2 DEF close
  <2>2. s \in TcpState /\ (s = c.state \/ s \notin FinSent)
    BY DEF ConnOK, Conn, TcpState, FinSent
  <2> HIDE DEF s
  <2>3. ConnOK(d) /\ SameReceived(c, d) /\ d.state = s
    BY <2>2, SetStateOK
  <2> HIDE DEF d
  <2> QED
    BY <2>1, <2>2, <2>3, SameNoGrowth, NoFlush
<1> QED
  BY <1>1, <1>2

\* A new receive cap may be below what is already stored, yet growth stops there.
LEMMA SetCapsOK ==
  ASSUME NEW c, NEW d, ConnOK(c), CallOK(c, d), NEW r \in SeqNum, NEW s \in Nat,
         OooBytes(d.ooo_buffer) <= OooBytes(c.ooo_buffer)
  PROVE  CallOK(c, set_send_cap(set_recv_cap(d, r), s))
<1> DEFINE e == set_send_cap(set_recv_cap(d, r), s)
<1>1. d \in Conn /\ ConnOK(d)
  BY DEF CallOK, ConnOK
<1>2. /\ e \in Conn /\ e.ooo_buffer = d.ooo_buffer /\ e.state = d.state
      /\ e.send_pending = d.send_pending /\ e.pending_close = d.pending_close
  BY <1>1, Zenon DEF set_send_cap, set_recv_cap, Conn
<1> HIDE DEF e
<1>3. ConnOK(e)
  BY <1>1, <1>2 DEF ConnOK
<1>4. OooBytes(c.ooo_buffer) \in Nat /\ OooBytes(d.ooo_buffer) \in Nat
  BY <1>1, OooFinite DEF ConnOK, Conn
<1>5. GrowsWithinCap(c, e)
  BY <1>2, <1>4 DEF GrowsWithinCap
<1>6. FinDrained(c, e)
  BY <1>2 DEF CallOK, FinDrained
<1> QED
  BY <1>3, <1>5, <1>6 DEF CallOK, e

=============================================================================
