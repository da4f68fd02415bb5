-------------------------- MODULE StackReachProofs ---------------------------
(***************************************************************************)
(* Proof that every connection nobody has closed is held by a socket or    *)
(* waits to be accepted.                                                   *)
(***************************************************************************)
EXTENDS StackProofs

Queued(k) == \E i \in DOMAIN accept_queues[k.port] : accept_queues[k.port][i] = k

Reachable(k) == Holders(k) # {} \/ Queued(k) \/ k \in abandoned

\* Stronger than NoOrphan: a connect() still under way is held as well.
OrphanInv == \A k \in ConnectionKey : Unclosed(connections[k]) => Reachable(k)

\* A step that opens only what can be reached, and loses reach of nothing.
LEMMA OrphanStep ==
  ASSUME OrphanInv,
         \A k \in ConnectionKey :
           Unclosed(connections'[k]) => Unclosed(connections[k]) \/ Reachable(k)',
         \A k \in ConnectionKey : Reachable(k) => Reachable(k)'
  PROVE  OrphanInv'
BY DEF OrphanInv

\* Reach is kept by sockets that keep their keys, queues that keep theirs and
\* dropped keys that stay on record.
LEMMA ReachKept ==
  ASSUME NEW k \in ConnectionKey, Reachable(k),
         \A id \in SocketId : sockets[id].conn_key = k => sockets'[id].conn_key = k,
         Queued(k) => Queued(k)', abandoned \subseteq abandoned'
  PROVE  Reachable(k)'
<1>1. Holders(k) \subseteq Holders(k)'
  BY DEF Holders
<1> QED
  BY <1>1 DEF Reachable

\* A fresh id takes no key away.
LEMMA AllocHolds ==
  ASSUME IInv, NEW s, alloc_socket(s), NEW k \in ConnectionKey, NEW id \in SocketId,
         sockets[id].conn_key = k
  PROVE  sockets'[id].conn_key = k
<1>1. next_socket_id \in Nat /\ id \in Nat
  BY DEF IInv, SocketsOK, SocketId
<1>2. k # NoKey
  BY DEF ConnectionKey, NoKey, Port, NoPort
<1>3. id # next_socket_id
  BY <1>1, <1>2 DEF IInv, SocketsOK, WellFormed
<1> QED
  BY <1>3 DEF alloc_socket, IInv, SocketsOK

\* A step that touches neither connections nor the keys of sockets.
LEMMA OrphanSame ==
  ASSUME IInv, OrphanInv, UNCHANGED <<connections, accept_queues, abandoned>>,
         \A k \in ConnectionKey : \A id \in SocketId :
           sockets[id].conn_key = k => sockets'[id].conn_key = k
  PROVE  OrphanInv'
<1>1. \A k \in ConnectionKey : Queued(k) => Queued(k)'
  BY DEF Queued
<1>2. \A k \in ConnectionKey : Reachable(k) => Reachable(k)'
  BY <1>1, ReachKept
<1> QED
  BY <1>2, OrphanStep

\* Setting a socket's other fields.
LEMMA SetHolds ==
  ASSUME IInv, NEW i \in SocketId, NEW s, s.conn_key = sockets[i].conn_key, SetSocket(i, s),
         NEW k, NEW id \in SocketId, sockets[id].conn_key = k
  PROVE  sockets'[id].conn_key = k
BY DEF SetSocket, IInv, SocketsOK

\* handle_segment: what it opens is queued.
LEMMA DispatchReach ==
  ASSUME IInv, OrphanInv, DispatchTcp
  PROVE  OrphanInv'
<1>0. PICK k \in ConnectionKey : \E seg \in SegmentsTo(k) : handle_segment(k, seg)
  BY DEF DispatchTcp
<1>1. PICK seg \in SegmentsTo(k) : handle_segment(k, seg)
  BY <1>0
<1>2. seg \in Segment /\ ConnOK(connections[k]) /\ k.port \in Port
      /\ connections \in [ConnectionKey -> Conn] /\ accept_queues \in [Port -> Seq(ConnectionKey)]
  BY Zenon, SegmentsType DEF IInv, TableOK, ConnMapOK, ConnectionKey
<1>3. UNCHANGED socketVars
  BY DEF DispatchTcp
<1>4. ASSUME NEW j \in ConnectionKey, Queued(j)
      PROVE  Queued(j)'
  <2>1. PICK i \in DOMAIN accept_queues[j.port] : accept_queues[j.port][i] = j
    BY <1>4 DEF Queued
  <2>2. j.port \in Port /\ accept_queues[j.port] \in Seq(ConnectionKey)
    BY ZenonT(30), <1>2 DEF ConnectionKey
  <2>3. accept_queues'[j.port] \in {accept_queues[j.port], Append(accept_queues[j.port], k)}
    BY Zenon, <1>1, <1>2, <2>2 DEF handle_segment, Existing, Passive, Enqueue
  <2>4. i \in DOMAIN accept_queues'[j.port] /\ accept_queues'[j.port][i] = j
    BY <2>1, <2>2, <2>3
  <2> QED
    BY <2>4 DEF Queued
<1>5. \A j \in ConnectionKey : Reachable(j) => Reachable(j)'
  BY <1>3, <1>4, ReachKept DEF socketVars
<1>6. ASSUME NEW j \in ConnectionKey, Unclosed(connections'[j])
      PROVE  Unclosed(connections[j]) \/ Reachable(j)'
  <2>1. CASE Existing(k, seg)
    <3> DEFINE d == process_segment(connections[k], seg)
               cs == [connections EXCEPT ![k] = Written(d)]
    <3>1. ConnOK(d)
      BY <1>2, ProcessSegmentOK DEF CallOK
    <3>2. connections' = cleanup_closed_connections(cs)
      BY <2>1 DEF Existing
    <3>3. cs[j] = IF j = k THEN Written(d) ELSE connections[j]
      BY <1>2
    <3>4. connections'[j] = cs[j]
      <4> HIDE DEF cs
      <4>1. connections'[j] \in {NoConn, cs[j]}
        BY <3>2 DEF cleanup_closed_connections
      <4>2. ~ Unclosed(NoConn)
        BY NoConnOK DEF Unclosed
      <4> QED
        BY <1>6, <4>1, <4>2
    <3> HIDE DEF cs, d
    <3>5. CASE j # k
      BY <1>6, <3>3, <3>4, <3>5
    <3>6. CASE j = k
      <4>1. Unclosed(d)
        BY <1>6, <3>1, <3>3, <3>4, <3>6, WrittenOK DEF Unclosed
      <4>2. Unclosed(connections[k]) \/ Completes(connections[k], seg)
        BY <1>2, <4>1, ProcessUnclosed DEF d
      <4>3. CASE Completes(connections[k], seg)
        <5> DEFINE q == accept_queues[k.port]
        <5>1. q \in Seq(ConnectionKey) /\ accept_queues'[k.port] = Append(q, k)
          BY <1>2, <2>1, <4>3 DEF Existing, Enqueue
        <5>2. Len(q) + 1 \in DOMAIN Append(q, k) /\ Append(q, k)[Len(q) + 1] = k
          BY <5>1
        <5>3. Queued(k)'
          BY <5>1, <5>2 DEF Queued
        <5> QED
          BY <3>6, <5>3 DEF Reachable
      <4> QED
        BY <3>6, <4>2, <4>3
    <3> QED
      BY <3>5, <3>6
  <2>2. CASE Passive(k, seg)
    <3>1. PICK iss \in Iss : Insert(k, PassiveOpen(seg, iss))
      BY Zenon, <2>2 DEF Passive
    <3>2. connections'[j] = IF j = k THEN Written(PassiveOpen(seg, iss)) ELSE connections[j]
      BY <1>2, <3>1 DEF Insert
    <3>3. CASE j = k
      <4>1. iss \in SeqNum
        BY TableAssumption
      <4>2. ConnOK(PassiveOpen(seg, iss))
        BY <1>2, <4>1, PassiveOpenOK DEF CallOK
      <4>3. PassiveOpen(seg, iss).state = "SYN_RCVD"
        BY NewType DEF PassiveOpen, queue_and_send, send_segment, Conn
      <4> QED
        BY <1>6, <3>2, <3>3, <4>2, <4>3, WrittenOK DEF Unclosed
    <3> QED
      BY <1>6, <3>2, <3>3
  <2> QED
    BY <1>1, <2>1, <2>2 DEF handle_segment
<1> QED
  BY <1>5, <1>6, OrphanStep

\* tick opens nothing.
LEMMA TickReach ==
  ASSUME IInv, OrphanInv, Tick
  PROVE  OrphanInv'
<1>1. PICK due \in SUBSET ArmedTimers : tick(due)
  BY DEF Tick
<1>2. ASSUME NEW k \in ConnectionKey, Unclosed(connections'[k])
      PROVE  Unclosed(connections[k])
  <2> DEFINE c == connections[k]
             d == TickConn(c, {t \in Armed(c) : <<k, t>> \in due})
  <2>1. connections'[k] \in {NoConn, Written(d), c}
    BY <1>1 DEF tick, cleanup_closed_connections
  <2>2. ~ Unclosed(NoConn)
    BY NoConnOK DEF Unclosed
  <2>3. ConnOK(c)
    BY DEF IInv, TableOK, ConnMapOK
  <2>4. ConnOK(d)
    BY Zenon, <2>3, TickConnOK DEF CallOK
  <2>5. Unclosed(Written(d)) => Unclosed(d)
    <3> HIDE DEF d
    <3> QED
      BY <2>4, WrittenOK DEF Unclosed
  <2>6. Unclosed(d) => Unclosed(c)
    BY Zenon, <2>3, TickUnclosed
  <2> QED
    BY <1>2, <2>1, <2>2, <2>5, <2>6
<1>3. UNCHANGED <<accept_queues, abandoned, sockets>>
  BY <1>1 DEF Tick, tick, socketVars
<1>4. \A k \in ConnectionKey : Queued(k) => Queued(k)'
  BY <1>3 DEF Queued
<1>5. \A k \in ConnectionKey : Reachable(k) => Reachable(k)'
  BY <1>3, <1>4, ReachKept
<1> QED
  BY Zenon, <1>2, <1>5, OrphanStep

\* Only the head leaves a queue.
LEMMA TailKeeps ==
  ASSUME NEW S, NEW q \in Seq(S), q # <<>>, NEW i \in DOMAIN q, q[i] # Head(q)
  PROVE  \E m \in DOMAIN Tail(q) : Tail(q)[m] = q[i]
<1>1. i \in 2 .. Len(q)
  OBVIOUS
<1>2. i - 1 \in DOMAIN Tail(q) /\ Tail(q)[i - 1] = q[i]
  BY <1>1
<1> QED
  BY <1>2

\* A connection has a port.
LEMMA KeyNotNone ==
  ASSUME NEW k \in ConnectionKey
  PROVE  k # NoKey
BY DEF ConnectionKey, NoKey, Port, NoPort

\* accept(): the key that leaves the queue is held by the new socket.
LEMMA AcceptReach ==
  ASSUME IInv, OrphanInv, NEW id \in SocketId, Accept(id)
  PROVE  OrphanInv'
<1> DEFINE l == sockets[id]
           p == l.listen_port
           q == accept_queues[p]
<1>0. p \in Port /\ q \in Seq(ConnectionKey) /\ q # <<>> /\ Head(q) \in ConnectionKey
  BY AcceptKey
<1>1. PICK k \in ConnectionKey : k = Head(q)
  BY <1>0
<1> DEFINE c == WithOptions(connections[k], l)
           s == [NewSocket("Tcp") EXCEPT !.conn_key = k]
<1>2. accept_queues' = [accept_queues EXCEPT ![p] = Tail(q)]
      /\ accept_queues \in [Port -> Seq(ConnectionKey)]
  BY DEF Accept, PopQueue, IInv, TableOK
<1>3. OnConnection(k, c) /\ alloc_socket(s) /\ abandoned' = abandoned
  BY <1>1 DEF Accept
<1>4. s.conn_key = k /\ WellFormed(s)
  BY <1>1, TcpSocketType
<1>5. /\ ConnOK(c) /\ c.state = connections[k].state
      /\ c.pending_close = connections[k].pending_close
  BY Zenon, <1>1, WithOptionsOK DEF IInv, TableOK, ConnMapOK, SocketsOK
<1> HIDE DEF s, c
<1>6. Holders(k)' # {}
  <2>1. next_socket_id \in SocketId
    BY <1>3, <1>4, AllocOK DEF IInv, Accept
  <2>2. sockets'[next_socket_id] = s
    BY <1>3, <2>1 DEF alloc_socket, IInv, SocketsOK
  <2> QED
    BY <1>4, <2>1, <2>2 DEF Holders
<1>7. ASSUME NEW j \in ConnectionKey, Reachable(j)
      PROVE  Reachable(j)'
  <2>1. CASE j = k
    BY <1>6, <2>1 DEF Reachable
  <2>2. CASE j # k
    <3>1. Queued(j) => Queued(j)'
      <4>1. SUFFICES ASSUME NEW i \in DOMAIN accept_queues[j.port],
                            accept_queues[j.port][i] = j
                     PROVE  Queued(j)'
        BY DEF Queued
      <4>2. j.port \in Port
        BY DEF ConnectionKey
      <4>3. CASE j.port = p
        <5>1. i \in DOMAIN q /\ q[i] = j /\ q[i] # Head(q)
          BY Zenon, <1>1, <2>2, <4>1, <4>3
        <5>2. PICK m \in DOMAIN Tail(q) : Tail(q)[m] = j
          BY Zenon, <1>0, <5>1, TailKeeps
        <5>3. accept_queues'[j.port] = Tail(q)
          BY <1>0, <1>2, <4>3
        <5> QED
          BY Zenon, <5>2, <5>3 DEF Queued
      <4>4. CASE j.port # p
        <5>1. accept_queues'[j.port] = accept_queues[j.port]
          BY <1>2, <4>2, <4>4
        <5> QED
          BY <4>1, <5>1 DEF Queued
      <4> QED
        BY <4>3, <4>4
    <3>2. \A i \in SocketId : sockets[i].conn_key = j => sockets'[i].conn_key = j
      BY <1>3, AllocHolds
    <3> QED
      BY <1>3, <1>7, <3>1, <3>2, ReachKept
  <2> QED
    BY <2>1, <2>2
<1>8. ASSUME NEW j \in ConnectionKey, Unclosed(connections'[j])
      PROVE  Unclosed(connections[j])
  <2>1. connections'[j] = connections[j] \/ (j = k /\ connections'[j] = Written(c))
    BY <1>1, <1>3 DEF OnConnection, IInv, TableOK, ConnMapOK
  <2> QED
    BY <1>5, <1>8, <2>1, WrittenOK, SMTT(30) DEF Unclosed
<1> QED
  BY <1>7, <1>8, OrphanStep

\* connect(): the new connection is held by its socket, the one it may replace was
\* under the same key, and the one the socket had is on record as dropped.
LEMMA ConnectReach ==
  ASSUME IInv, OrphanInv, NEW id \in SocketId, NEW remote \in Remote, Connect(id, remote)
  PROVE  OrphanInv'
<1>0. [port |-> next_ephemeral_port, remote |-> remote] \in ConnectionKey
  BY DEF IInv, TableOK, ConnectionKey
<1>1. PICK k \in ConnectionKey : k = [port |-> next_ephemeral_port, remote |-> remote]
  BY <1>0
<1> DEFINE s == [sockets[id] EXCEPT !.conn_key = k]
<1>2. PICK iss \in Iss : table_connect(k, WithOptions(connect(iss), sockets[id]))
  BY <1>1 DEF Connect
<1>3. SetSocket(id, s) /\ s.conn_key = k
  BY <1>1 DEF Connect, IInv, SocketsOK, Socket
<1>4. abandoned' = abandoned \cup ({sockets[id].conn_key} \ {NoKey})
  BY DEF Connect
<1> HIDE DEF s
<1>5. /\ sockets'[id].conn_key = k
      /\ \A i \in SocketId \ {id} : sockets'[i] = sockets[i]
  BY <1>3 DEF SetSocket, IInv, SocketsOK
<1>6. Reachable(k)'
  BY Zenon, <1>5 DEF Reachable, Holders
<1>7. ASSUME NEW j \in ConnectionKey, Unclosed(connections'[j])
      PROVE  Unclosed(connections[j]) \/ Reachable(j)'
  <2>1. j # k => connections'[j] = connections[j]
    BY Zenon, <1>1, <1>2 DEF table_connect, Insert, IInv, TableOK, ConnMapOK
  <2> QED
    BY <1>6, <1>7, <2>1
<1>8. ASSUME NEW j \in ConnectionKey, Reachable(j)
      PROVE  Reachable(j)'
  <2>1. CASE sockets[id].conn_key = j
    <3>1. j # NoKey
      BY Zenon, KeyNotNone
    <3>2. j \in abandoned'
      BY <1>4, <2>1, <3>1
    <3> QED
      BY <3>2 DEF Reachable
  <2>2. CASE sockets[id].conn_key # j
    <3>1. \A i \in SocketId : sockets[i].conn_key = j => sockets'[i].conn_key = j
      BY <1>5, <2>2
    <3>2. UNCHANGED accept_queues
      BY <1>2 DEF table_connect
    <3>3. Queued(j) => Queued(j)'
      BY <3>2 DEF Queued
    <3> QED
      BY <1>4, <1>8, <3>1, <3>3, ReachKept
  <2> QED
    BY <2>1, <2>2
<1> QED
  BY <1>7, <1>8, OrphanStep

\* setsockopt(RcvBuf) and setsockopt(SndBuf) open nothing.
LEMMA SetBufReach ==
  ASSUME IInv, OrphanInv, NEW id \in SocketId, NEW v \in BufSizes,
         SetRcvBuf(id, v) \/ SetSndBuf(id, v)
  PROVE  OrphanInv'
<1> DEFINE s == sockets[id]
           c == connections[s.conn_key]
           r == [s EXCEPT !.rcvbuf = v]
           t == [s EXCEPT !.sndbuf = v]
<1>1. r.conn_key = s.conn_key /\ t.conn_key = s.conn_key /\ s.conn_key \in ConnectionKey \cup {NoKey}
  BY DEF IInv, SocketsOK, Socket
<1>2. PICK n \in {r, t}, d \in {set_recv_cap(c, v), set_send_cap(c, v)} : SetBuf(id, n, d)
  BY DEF SetRcvBuf, SetSndBuf
<1>3. \A k \in ConnectionKey : \A i \in SocketId :
        sockets[i].conn_key = k => sockets'[i].conn_key = k
  <2>1. n.conn_key = sockets[id].conn_key /\ SetSocket(id, n)
    BY Zenon, <1>1, <1>2 DEF SetBuf
  <2> QED
    BY <2>1, SetHolds
<1>4. UNCHANGED <<accept_queues, abandoned>>
  BY <1>2 DEF SetBuf
<1>5. \A k \in ConnectionKey : Queued(k) => Queued(k)'
  BY <1>4 DEF Queued
<1>6. \A k \in ConnectionKey : Reachable(k) => Reachable(k)'
  BY <1>3, <1>4, <1>5, ReachKept
<1>7. ASSUME NEW k \in ConnectionKey, Unclosed(connections'[k])
      PROVE  Unclosed(connections[k])
  <2>1. CASE connections'[k] = connections[k]
    BY <1>7, <2>1
  <2>2. CASE connections'[k] # connections[k]
    <3>1. s.conn_key # NoKey /\ k = s.conn_key /\ connections'[k] = Written(d)
      BY Zenon, <1>1, <1>2, <2>2 DEF SetBuf, OnConnection, IInv, TableOK, ConnMapOK
    <3>2. ConnOK(c) /\ ConnOK(d)
      BY <3>1, HeldConnOK, BufType, SetCapOK
    <3>3. d.state = c.state /\ d.pending_close = c.pending_close
      BY ZenonT(30), <3>2 DEF set_recv_cap, set_send_cap, ConnOK, Conn
    <3> QED
      BY <1>7, <3>1, <3>2, <3>3, WrittenOK DEF Unclosed
  <2> QED
    BY <2>1, <2>2
<1> QED
  BY <1>6, <1>7, OrphanStep

\* close(): the connection a TCP socket held is closed with it, the one a UDP socket
\* held is on record as dropped.
LEMMA CloseReach ==
  ASSUME IInv, OrphanInv, NEW id \in SocketId, Close(id)
  PROVE  OrphanInv'
<1> DEFINE s == sockets[id]
           d == close(connections[s.conn_key])
<1>1. /\ s.conn_key \in ConnectionKey \cup {NoKey}
      /\ s.conn_key # NoKey => s.kind \in {"Tcp", "Udp"}
  BY DEF IInv, SocketsOK, WellFormed, Socket
<1>2. IF s.kind = "Tcp" /\ s.conn_key # NoKey
      THEN OnConnection(s.conn_key, d) ELSE UNCHANGED connections
  BY DEF Close
<1>3. \A i \in SocketId \ {id} : sockets'[i] = sockets[i]
  BY Zenon DEF Close, SetSocket, IInv, SocketsOK
<1>4. /\ UNCHANGED accept_queues
      /\ abandoned' = abandoned \cup (IF s.kind = "Udp" THEN {s.conn_key} \ {NoKey} ELSE {})
  BY DEF Close
<1>5. SUFFICES ASSUME NEW k \in ConnectionKey, Unclosed(connections'[k])
               PROVE  Reachable(k)'
  BY DEF OrphanInv
<1>6. k # NoKey
  BY DEF ConnectionKey, NoKey, Port, NoPort
<1>7. CASE s.conn_key = k /\ s.kind = "Tcp"
  <2>1. ConnOK(connections[k])
    BY DEF IInv, TableOK, ConnMapOK
  <2>2. ConnOK(d) /\ ~ Unclosed(d)
    BY <1>7, <2>1, CloseOK, CloseCloses DEF CallOK
  <2> HIDE DEF d
  <2>3. connections'[k] = IF Present(k) THEN Written(d) ELSE connections[k]
    BY <1>1, <1>2, <1>6, <1>7 DEF OnConnection, IInv, TableOK, ConnMapOK
  <2>4. CASE Present(k)
    BY <1>5, <2>2, <2>3, <2>4, WrittenOK DEF Unclosed
  <2>5. CASE ~ Present(k)
    BY <1>5, <2>3, <2>5 DEF Unclosed, Present
  <2> QED
    BY <2>4, <2>5
<1>8. CASE s.conn_key # k
  <2>1. connections'[k] = connections[k]
    BY <1>1, <1>2, <1>8 DEF OnConnection, IInv, TableOK, ConnMapOK
  <2>2. Reachable(k)
    BY <1>5, <2>1 DEF OrphanInv
  <2>3. \A i \in SocketId : sockets[i].conn_key = k => sockets'[i].conn_key = k
    BY <1>3, <1>8
  <2>4. Queued(k) => Queued(k)'
    BY <1>4 DEF Queued
  <2> QED
    BY <1>4, <2>2, <2>3, <2>4, ReachKept
<1>9. CASE s.conn_key = k /\ s.kind = "Udp"
  <2>1. k \in abandoned'
    BY <1>4, <1>6, <1>9
  <2> QED
    BY <2>1 DEF Reachable
<1> QED
  BY <1>1, <1>6, <1>7, <1>8, <1>9

\* Every step keeps unclosed connections within reach.
LEMMA OrphanNext == IInv /\ OrphanInv /\ [Next]_vars => OrphanInv'
<1> SUFFICES ASSUME IInv, OrphanInv, [Next]_vars PROVE OrphanInv'
  OBVIOUS
<1>1. ASSUME NEW kind \in {"Tcp", "Udp"}, CreateSocket(kind)
      PROVE  OrphanInv'
  BY <1>1, AllocHolds, OrphanSame DEF CreateSocket, tableVars
<1>2. ASSUME NEW id \in SocketId, NEW s, s.conn_key = sockets[id].conn_key, SetSocket(id, s),
             UNCHANGED <<connections, accept_queues, abandoned>>
      PROVE  OrphanInv'
  BY <1>2, SetHolds, OrphanSame
<1>3. ASSUME NEW id \in SocketId, NEW port \in ListenPort, Listen(id, port)
      PROVE  OrphanInv'
  <2> DEFINE s == [sockets[id] EXCEPT !.is_listener = TRUE, !.listen_port = port]
  <2>1. s.conn_key = sockets[id].conn_key
    BY DEF IInv, SocketsOK, Socket
  <2>2. SetSocket(id, s)
    BY <1>3 DEF Listen
  <2> HIDE DEF s
  <2> QED
    BY <1>2, <1>3, <2>1, <2>2 DEF Listen, table_listen
<1>4. ASSUME NEW id \in SocketId, SetReuseAddr(id)
      PROVE  OrphanInv'
  <2> DEFINE s == [sockets[id] EXCEPT !.reuse_addr = ~ @]
  <2>1. s.conn_key = sockets[id].conn_key
    BY DEF IInv, SocketsOK, Socket
  <2>2. SetSocket(id, s)
    BY <1>4 DEF SetReuseAddr
  <2> HIDE DEF s
  <2> QED
    BY <1>2, <1>4, <2>1, <2>2 DEF SetReuseAddr, tableVars
<1>5. ASSUME NEW id \in SocketId, NEW port \in Port,
             SetSocket(id, [sockets[id] EXCEPT !.udp_key = port]),
             UNCHANGED <<connections, accept_queues, abandoned>>
      PROVE  OrphanInv'
  <2> DEFINE s == [sockets[id] EXCEPT !.udp_key = port]
  <2>1. s.conn_key = sockets[id].conn_key
    BY DEF IInv, SocketsOK, Socket
  <2>2. SetSocket(id, s)
    BY <1>5
  <2> HIDE DEF s
  <2> QED
    BY <1>2, <1>5, <2>1, <2>2
<1>6. ASSUME NEW id \in SocketId, NEW port \in BindPort, Bind(id, port)
      PROVE  OrphanInv'
  BY <1>5, <1>6, StackAssumption DEF Bind, tableVars
<1>7. ASSUME UNCHANGED <<connections, accept_queues, abandoned, sockets>>
      PROVE  OrphanInv'
  BY <1>7, OrphanSame
<1>8. ASSUME NEW id \in SocketId, NEW size \in SendSizes, Sendto(id, size)
      PROVE  OrphanInv'
  <2>1. CASE ImplicitBind(id)
    BY <1>5, <1>8, <2>1 DEF ImplicitBind, Sendto, tableVars, IInv, SocketsOK
  <2> QED
    BY <1>7, <1>8, <2>1 DEF Sendto, tableVars
<1>9. CASE \/ \E id \in SocketId : Recvfrom(id)
           \/ \E id \in PacketId : Dispatch(id) \/ Arrives(id)
           \/ PeerSendsNew \/ NetworkLoses \/ Exited
           \/ UNCHANGED vars
  <2>1. UNCHANGED <<connections, accept_queues, abandoned, sockets>>
    BY Zenon, <1>9 DEF Recvfrom, Dispatch, Arrives, PeerSendsNew, NetworkLoses, Exited,
       vars, tableVars, socketVars
  <2> QED
    BY <1>7, <2>1
<1> QED
  BY <1>1, <1>3, <1>4, <1>6, <1>8, <1>9, AcceptReach, ConnectReach, SetBufReach, CloseReach,
     DispatchReach, TickReach
  DEF Next

\* NoOrphan for any number of sockets, keys and opens per key: handshakes, resets,
\* timers, second connects and accepts of dead keys leave no connection that is
\* open, unclosed and out of everybody's reach.
THEOREM NoOrphans == Spec => []NoOrphan
<1>1. Init => OrphanInv
  BY NoConnOK DEF Init, TableInit, OrphanInv, Unclosed
<1>2. OrphanInv => NoOrphan
  BY DEF OrphanInv, NoOrphan, Unclosed, Reachable, Queued
<1> QED
  BY <1>1, <1>2, InitType, NextType, OrphanNext, PTL DEF Spec

=============================================================================
