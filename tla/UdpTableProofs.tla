---------------------------- MODULE UdpTableProofs ----------------------------
(***************************************************************************)
(* Lemmas about the operators of UdpTable: what a receive queue holds and  *)
(* what the length fields of a datagram say.                               *)
(***************************************************************************)
EXTENDS UdpTable, FiniteSetTheorems, FunctionTheorems, TLAPS

----------------------------------------------------------------------------
(* The bytes of a receive queue *)

\* The bytes of a queue can be counted.
LEMMA UsedFinite ==
  ASSUME NEW q \in Seq(Datagram)
  PROVE  IsFiniteSet(QueueCells(q)) /\ Used(q) \in Nat
<1> DEFINE Cells(i) == {i} \X (1 .. q[i].size)
           T == {Cells(i) : i \in DOMAIN q}
           f == [i \in DOMAIN q |-> Cells(i)]
<1>1. DOMAIN q = 1 .. Len(q) /\ Len(q) \in Nat
  OBVIOUS
<1>2. IsFiniteSet(DOMAIN q)
  BY <1>1, FS_Interval
<1>3. IsFiniteSet(T)
  <2>1. f \in Surjection(DOMAIN q, T)
    BY Zenon DEF Surjection
  <2> QED
    BY <1>2, <2>1, FS_Surjection
<1>4. \A i \in DOMAIN q : IsFiniteSet(Cells(i))
  <2>1. SUFFICES ASSUME NEW i \in DOMAIN q PROVE IsFiniteSet(Cells(i))
    OBVIOUS
  <2>2. q[i] \in Datagram
    BY <1>1
  <2>3. q[i].size \in Int
    BY <2>2 DEF Datagram
  <2>4. IsFiniteSet(1 .. q[i].size)
    BY <2>3, FS_Interval
  <2>5. IsFiniteSet({i})
    BY Zenon, FS_Singleton
  <2> QED
    BY Zenon, <2>4, <2>5, FS_Product
<1>5. IsFiniteSet(UNION T)
  BY Zenon, <1>3, <1>4, FS_UNION
<1>6. QueueCells(q) = UNION T
  BY DEF QueueCells
<1> QED
  BY <1>5, <1>6, FS_CardinalityType DEF Used

\* An empty queue holds nothing.
LEMMA UsedEmpty == Used(<<>>) = 0
<1>1. QueueCells(<<>>) = {}
  BY DEF QueueCells
<1> QED
  BY <1>1, FS_EmptySet DEF Used

\* A datagram adds its size.
LEMMA UsedAppend ==
  ASSUME NEW q \in Seq(Datagram), NEW d \in Datagram
  PROVE  Used(Append(q, d)) = Used(q) + d.size
<1> DEFINE r == Append(q, d)
           n == Len(q) + 1
           C == {n} \X (1 .. d.size)
<1>1. /\ Len(q) \in Nat /\ DOMAIN q = 1 .. Len(q) /\ DOMAIN r = 1 .. n
      /\ r[n] = d /\ \A i \in DOMAIN q : r[i] = q[i]
  OBVIOUS
<1>2. d.size \in Nat
  BY DEF Datagram
<1>3. QueueCells(r) = QueueCells(q) \cup C
  <2>1. DOMAIN r = DOMAIN q \cup {n}
    BY <1>1
  <2>2. \A i \in DOMAIN q : r[i] = q[i]
    BY <1>1
  <2>3. r[n] = d
    BY <1>1
  <2> HIDE DEF r, n
  <2> DEFINE Cell(p, i, x) == x \in {i} \X (1 .. p[i].size)
  <2>4. /\ \A x : x \in QueueCells(r) <=> \E i \in DOMAIN r : Cell(r, i, x)
        /\ \A x : x \in QueueCells(q) <=> \E i \in DOMAIN q : Cell(q, i, x)
    BY DEF QueueCells
  <2>5. /\ \A x : Cell(r, n, x) <=> x \in C
        /\ \A x : \A i \in DOMAIN q : Cell(r, i, x) <=> Cell(q, i, x)
    BY <2>2, <2>3
  <2> HIDE DEF Cell, C
  <2>6. \A x : x \in QueueCells(r) <=> x \in QueueCells(q) \/ x \in C
    BY <2>1, <2>4, <2>5
  <2> QED
    BY <2>6
<1>4. QueueCells(q) \cap C = {}
  <2>1. n \notin DOMAIN q
    BY <1>1
  <2> HIDE DEF n
  <2> QED
    BY <2>1 DEF QueueCells
<1>5. IsFiniteSet(C) /\ Cardinality(C) = d.size
  <2>1. IsFiniteSet(1 .. d.size) /\ Cardinality(1 .. d.size) = d.size
    <3> DEFINE z == d.size
    <3>1. z \in Nat
      BY <1>2
    <3> HIDE DEF z
    <3>2. IsFiniteSet(1 .. z) /\ Cardinality(1 .. z) = IF 1 > z THEN 0 ELSE z - 1 + 1
      BY <3>1, FS_Interval
    <3>3. IsFiniteSet(1 .. z) /\ Cardinality(1 .. z) = z
      BY <3>1, <3>2
    <3> QED
      BY <3>3 DEF z
  <2>2. IsFiniteSet({n}) /\ Cardinality({n}) = 1
    BY Zenon, FS_Singleton
  <2>3. IsFiniteSet(C) /\ Cardinality(C) = 1 * d.size
    <3> DEFINE S == {n}
               T == 1 .. d.size
    <3>1. /\ IsFiniteSet(S) /\ Cardinality(S) = 1
          /\ IsFiniteSet(T) /\ Cardinality(T) = d.size
      BY <2>1, <2>2
    <3> HIDE DEF S, T
    <3>2. IsFiniteSet(S \X T) /\ Cardinality(S \X T) = Cardinality(S) * Cardinality(T)
      BY Zenon, <3>1, FS_Product
    <3>3. IsFiniteSet(S \X T) /\ Cardinality(S \X T) = 1 * d.size
      BY Zenon, <3>1, <3>2
    <3> QED
      BY Zenon, <3>3 DEF S, T
  <2> QED
    BY <1>2, <2>3
<1> HIDE DEF r, C
<1>6. IsFiniteSet(QueueCells(q)) /\ Used(q) \in Nat
  BY UsedFinite
<1>7. Cardinality(QueueCells(r)) = Cardinality(QueueCells(q)) + Cardinality(C) - Cardinality({})
  BY <1>3, <1>4, <1>5, <1>6, FS_Union
<1>8. Cardinality({}) = 0
  BY FS_EmptySet
<1> QED
  BY <1>2, <1>5, <1>6, <1>7, <1>8 DEF Used, r

\* Reading a datagram leaves no more bytes.
LEMMA UsedTail ==
  ASSUME NEW q \in Seq(Datagram), q # <<>>
  PROVE  Used(Tail(q)) <= Used(q)
<1> DEFINE t == Tail(q)
           f == [x \in QueueCells(t) |-> <<x[1] + 1, x[2]>>]
<1>1. /\ Len(q) \in Nat /\ DOMAIN q = 1 .. Len(q) /\ DOMAIN t = 1 .. (Len(q) - 1)
      /\ \A i \in DOMAIN t : t[i] = q[i + 1]
  OBVIOUS
<1>2. \A i \in DOMAIN t : i \in Int /\ i + 1 \in DOMAIN q
  BY <1>1
<1> HIDE DEF t
<1>3. \A x \in QueueCells(t) : /\ x = <<x[1], x[2]>> /\ x[1] \in DOMAIN t
                               /\ x[2] \in 1 .. t[x[1]].size
  BY DEF QueueCells
<1>4. \A i \in DOMAIN q : \A b \in 1 .. q[i].size : <<i, b>> \in QueueCells(q)
  BY DEF QueueCells
<1>5. f \in [QueueCells(t) -> QueueCells(q)]
  BY <1>1, <1>2, <1>3, <1>4
<1>6. ASSUME NEW x \in QueueCells(t), NEW y \in QueueCells(t), f[x] = f[y]
      PROVE  x = y
  <2>1. x[1] + 1 = y[1] + 1 /\ x[2] = y[2]
    BY <1>6
  <2>2. x[1] \in Int /\ y[1] \in Int
    BY <1>2, <1>3
  <2>3. x[1] = y[1]
    BY <2>1, <2>2
  <2> QED
    BY <1>3, <2>1, <2>3
<1>7. f \in Injection(QueueCells(t), QueueCells(q))
  BY <1>5, <1>6 DEF Injection, IsInjective
<1> QED
  BY <1>7, UsedFinite, FS_Injection DEF Used, t

----------------------------------------------------------------------------
(* Types and lengths *)

\* What LengthsHonest says of one packet.
Honest(m) ==
  \/ /\ m.udp_len = UdpHeaderLen + m.size
     /\ m.total_length = IpHeaderLen + UdpHeaderLen + m.size
  \/ m.total_length < IpHeaderLen

UdpOK ==
  /\ binds \in [Port -> UdpBinding]
  /\ flight \in SUBSET Packet
  /\ \A m \in flight : Honest(m)
  /\ packets \in 0 .. MaxPackets
  /\ read \in SUBSET PacketId
  /\ panicked \in BOOLEAN

\* A table that does not change stays well formed.
LEMMA UdpSame ==
  ASSUME UdpOK, UNCHANGED udpVars
  PROVE  UdpOK'
BY DEF UdpOK, udpVars

\* UdpTable::set_recv_cap, bind and unbind keep the bindings well formed.
LEMMA BindingsOK ==
  ASSUME NEW b \in [Port -> UdpBinding], NEW port \in Port, NEW cap \in Nat, NEW reuse
  PROVE  /\ udp_set_recv_cap(b, port, cap) \in [Port -> UdpBinding]
         /\ udp_bind(b, port, reuse, cap) \in [Port -> UdpBinding]
         /\ unbind(b, port) \in [Port -> UdpBinding]
<1>1. <<>> \in Seq(Datagram)
  OBVIOUS
<1>2. [bound |-> TRUE, recv_queue |-> <<>>, recv_queue_cap_bytes |-> cap] \in UdpBinding
  BY <1>1 DEF UdpBinding
<1>3. Unbound \in UdpBinding
  BY <1>1 DEF UdpBinding, Unbound
<1>4. [b[port] EXCEPT !.recv_queue_cap_bytes = cap] \in UdpBinding
  BY DEF UdpBinding
<1>5. udp_set_recv_cap(b, port, cap) \in [Port -> UdpBinding]
  BY <1>4 DEF udp_set_recv_cap
<1>6. udp_bind(b, port, reuse, cap) \in [Port -> UdpBinding]
  BY <1>2 DEF udp_bind
<1>7. unbind(b, port) \in [Port -> UdpBinding]
  BY <1>3 DEF unbind
<1> QED
  BY <1>5, <1>6, <1>7

\* A remainder, below one modulus and between one and two.
LEMMA ModFacts ==
  ASSUME NEW L \in Nat \ {0}, NEW x \in Nat
  PROVE  /\ x % L \in 0 .. (L - 1)
         /\ x < L => x % L = x
         /\ L <= x /\ x < L + L => x % L = x - L
<1>1. x % L \in 0 .. (L - 1) /\ (x < L => x % L = x)
  OBVIOUS
<1>2. ASSUME L <= x, x < L + L
      PROVE  x % L = x - L
  BY <1>2
<1> QED
  BY <1>1, <1>2

\* A packet as send_datagram builds it.
LEMMA PacketType ==
  ASSUME NEW id \in PacketId, NEW to \in {"host", "peer"}, NEW port \in Port,
         NEW size \in Nat
  PROVE  /\ UdpPacket(id, to, port, size) \in Packet
         /\ UdpPacket(id, to, port, size).size = size
         /\ UdpPacket(id, to, port, size).udp_len = UdpLen(size)
         /\ UdpPacket(id, to, port, size).total_length = TotalLength(size, UdpLen(size))
<1>1. UdpLen(size) \in 0 .. (LenSpace - 1)
  BY UdpAssumption, ModFacts DEF UdpLen
<1>2. TotalLength(size, UdpLen(size)) \in 0 .. (LenSpace - 1)
  <2>1. IpHeaderLen + UdpLen(size) \in Nat /\ LenSpace \in Nat \ {0}
    BY <1>1, UdpAssumption
  <2> QED
    BY <2>1, ModFacts DEF TotalLength
<1> QED
  BY <1>1, <1>2 DEF UdpPacket, Packet

\* What send_datagram sends does not lie about its length.
LEMMA SentHonest ==
  ASSUME NEW size \in Nat, ~ MustPanic(size)
  PROVE  \/ /\ UdpLen(size) = UdpHeaderLen + size
            /\ TotalLength(size, UdpLen(size)) = IpHeaderLen + UdpHeaderLen + size
         \/ TotalLength(size, UdpLen(size)) < IpHeaderLen
<1> DEFINE u == UdpHeaderLen + size
           x == IpHeaderLen + u
<1>1. u \in Nat /\ u < LenSpace /\ x \in Nat /\ LenSpace \in Nat \ {0} /\ IpHeaderLen \in Nat
      /\ IpHeaderLen < LenSpace
  BY UdpAssumption DEF MustPanic
<1>2. UdpLen(size) = u
  BY Zenon, <1>1, ModFacts DEF UdpLen
<1>3. TotalLength(size, UdpLen(size)) = x % LenSpace
  BY <1>2 DEF TotalLength
<1>4. CASE x < LenSpace
  <2>1. x % LenSpace = x
    BY <1>1, <1>4, ModFacts
  <2>2. x = IpHeaderLen + UdpHeaderLen + size
    BY UdpAssumption
  <2> QED
    BY <1>2, <1>3, <2>1, <2>2
<1>5. CASE LenSpace <= x
  <2>1. x < LenSpace + LenSpace
    BY <1>1
  <2>2. x % LenSpace = x - LenSpace
    BY <1>1, <1>5, <2>1, ModFacts
  <2>3. x - LenSpace < IpHeaderLen
    BY <1>1
  <2> QED
    BY <1>3, <2>2, <2>3
<1> QED
  BY <1>1, <1>4, <1>5

\* send_datagram
LEMMA SendDatagramOK ==
  ASSUME NEW id \in PacketId, NEW port \in Port, NEW size \in Nat,
         NEW f \in SUBSET Packet, send_datagram(id, port, size, f), UdpOK
  PROVE  /\ flight' \in SUBSET Packet /\ panicked' \in BOOLEAN
         /\ (\A m \in f : Honest(m)) => (\A m \in flight' : Honest(m))
<1> DEFINE p == UdpPacket(id, "peer", port, size)
<1>1. p \in Packet /\ p.size = size /\ p.udp_len = UdpLen(size)
      /\ p.total_length = TotalLength(size, UdpLen(size))
  BY Zenon, PacketType
<1>2. CASE MayPanic(size) /\ panicked' = TRUE /\ flight' = f
  BY <1>2
<1>3. CASE ~ MustPanic(size) /\ flight' = f \cup {p} /\ UNCHANGED panicked
  <2>1. Honest(p)
    <3> HIDE DEF p
    <3> QED
      BY <1>1, <1>3, SentHonest DEF Honest
  <2> HIDE DEF p
  <2> QED
    BY <1>1, <1>3, <2>1 DEF UdpOK
<1> QED
  BY Zenon, <1>2, <1>3 DEF send_datagram

\* deliver
LEMMA DeliverOK ==
  ASSUME NEW b \in UdpBinding, NEW d \in Datagram
  PROVE  deliver(b, d) \in UdpBinding
<1>1. Append(b.recv_queue, d) \in Seq(Datagram)
  BY DEF UdpBinding
<1> QED
  BY <1>1 DEF deliver, UdpBinding

\* What pump_once reads of a packet can be sent back: its lengths fit their fields.
LEMMA ReadFits ==
  ASSUME NEW size \in Nat
  PROVE  ReadSize(size) \in Nat /\ ~ MustPanic(ReadSize(size))
BY UdpAssumption DEF ReadSize, MustPanic

\* handle_datagram
LEMMA HandleDatagramOK ==
  ASSUME UdpOK, NEW m \in flight, NEW size \in Nat, handle_datagram(m, size),
         UNCHANGED <<packets, read>>
  PROVE  UdpOK'
<1>1. m.id \in PacketId /\ m.port \in Port
  BY DEF UdpOK, Packet
<1>2. flight \ {m} \in SUBSET Packet /\ (\A q \in flight \ {m} : Honest(q))
  BY DEF UdpOK
<1>3. CASE is_bound(binds, m.port)
  <2>1. [id |-> m.id, size |-> size] \in Datagram
    BY <1>1 DEF Datagram
  <2>2. deliver(binds[m.port], [id |-> m.id, size |-> size]) \in UdpBinding
    BY <1>1, <2>1, DeliverOK DEF UdpOK
  <2> QED
    BY <1>1, <1>2, <1>3, <2>2 DEF handle_datagram, UdpOK
<1>4. CASE ~ is_bound(binds, m.port)
  <2>1. send_datagram(m.id, m.port, size, flight \ {m}) /\ UNCHANGED binds
    BY <1>4 DEF handle_datagram
  <2>2. /\ flight' \in SUBSET Packet /\ panicked' \in BOOLEAN
        /\ \A q \in flight' : Honest(q)
    BY <1>1, <1>2, <2>1, SendDatagramOK
  <2> QED
    BY <2>1, <2>2 DEF UdpOK
<1> QED
  BY <1>3, <1>4

\* A packet of any kind, built for a payload that fits.
LEMMA FittingOK ==
  ASSUME NEW id \in PacketId, NEW to \in {"host", "peer"}, NEW port \in Port,
         NEW kind \in {"Udp", "EchoRequest", "EchoReply"}, NEW size \in Nat, ~ MustPanic(size)
  PROVE  LET q == UdpPacket(id, to, port, size)
             p == [q EXCEPT !.kind = kind]
         IN  q \in Packet /\ Honest(q) /\ p \in Packet /\ Honest(p)
<1> DEFINE q == UdpPacket(id, to, port, size)
           p == [q EXCEPT !.kind = kind]
<1>1. /\ q \in Packet /\ q.size = size /\ q.udp_len = UdpLen(size)
      /\ q.total_length = TotalLength(size, UdpLen(size))
  BY Zenon, PacketType
<1> HIDE DEF q
<1>0. p \in Packet
  BY <1>1 DEF Packet
<1>2. p.size = q.size /\ p.udp_len = q.udp_len /\ p.total_length = q.total_length
  BY <1>1 DEF Packet
<1>3. Honest(q)
  BY <1>1, SentHonest DEF Honest
<1> HIDE DEF p
<1>4. Honest(p)
  BY <1>2, <1>3 DEF Honest
<1> QED
  BY <1>0, <1>1, <1>3, <1>4 DEF p, q

----------------------------------------------------------------------------
(* How receive queues grow *)

\* What QueueGrowsWithinCap says of one binding.
QueueStep(b, d) ==
  Used(d.recv_queue) > Used(b.recv_queue) => Used(d.recv_queue) <= d.recv_queue_cap_bytes

\* A queue that stays, or is replaced by an empty one, has not grown.
LEMMA NoGrowth ==
  ASSUME NEW b \in UdpBinding, NEW d, d.recv_queue \in {b.recv_queue, <<>>}
  PROVE  QueueStep(b, d)
<1>1. Used(b.recv_queue) \in Nat
  BY UsedFinite DEF UdpBinding
<1> QED
  BY <1>1, UsedEmpty DEF QueueStep

\* deliver lets a queue grow up to its cap.
LEMMA DeliverGrowth ==
  ASSUME NEW b \in UdpBinding, NEW d \in Datagram
  PROVE  QueueStep(b, deliver(b, d))
<1>1. b.recv_queue \in Seq(Datagram)
  BY DEF UdpBinding
<1>2. CASE HasRoom(b, d)
  <2>1. deliver(b, d).recv_queue = Append(b.recv_queue, d)
        /\ deliver(b, d).recv_queue_cap_bytes = b.recv_queue_cap_bytes
    BY <1>2 DEF deliver, UdpBinding
  <2>2. Used(Append(b.recv_queue, d)) <= b.recv_queue_cap_bytes
    BY <1>1, <1>2, UsedAppend DEF HasRoom
  <2> QED
    BY <2>1, <2>2 DEF QueueStep
<1>3. CASE ~ HasRoom(b, d)
  <2>1. deliver(b, d) = b
    BY <1>3 DEF deliver
  <2> QED
    BY <2>1, NoGrowth
<1> QED
  BY <1>2, <1>3

\* set_recv_cap, bind and unbind do not grow a queue.
LEMMA BindingsGrowth ==
  ASSUME NEW b \in [Port -> UdpBinding], NEW port \in Port, NEW cap, NEW reuse,
         NEW n \in {b, udp_set_recv_cap(b, port, cap), udp_bind(b, port, reuse, cap),
                    unbind(b, port)},
         NEW p \in Port
  PROVE  QueueStep(b[p], n[p])
<1>1. n[p].recv_queue \in {b[p].recv_queue, <<>>}
  <2>1. b[p] \in UdpBinding
    OBVIOUS
  <2>2. [b[p] EXCEPT !.recv_queue_cap_bytes = cap].recv_queue = b[p].recv_queue
    BY DEF UdpBinding
  <2>3. udp_set_recv_cap(b, port, cap)[p].recv_queue = b[p].recv_queue
    BY <2>2 DEF udp_set_recv_cap
  <2>4. udp_bind(b, port, reuse, cap)[p].recv_queue \in {b[p].recv_queue, <<>>}
    BY DEF udp_bind
  <2>5. unbind(b, port)[p].recv_queue \in {b[p].recv_queue, <<>>}
    BY DEF unbind, Unbound
  <2> QED
    BY <2>3, <2>4, <2>5
<1> QED
  BY <1>1, NoGrowth

\* handle_datagram
LEMMA DatagramGrowth ==
  ASSUME UdpOK, NEW m \in flight, NEW size \in Nat, handle_datagram(m, size), NEW p \in Port
  PROVE  QueueStep(binds[p], binds'[p])
<1> DEFINE d == [id |-> m.id, size |-> size]
<1>1. m.port \in Port /\ d \in Datagram /\ binds[p] \in UdpBinding
  BY DEF UdpOK, Packet, Datagram
<1>2. binds'[p] = binds[p] \/ (p = m.port /\ binds'[p] = deliver(binds[p], d))
  BY <1>1 DEF handle_datagram, UdpOK
<1> HIDE DEF d
<1> QED
  BY <1>1, <1>2, DeliverGrowth, NoGrowth

=============================================================================
