--------------------------- MODULE StackUdpProofs ----------------------------
(***************************************************************************)
(* Proofs about the UDP side of Stack: receive queues within their cap, and *)
(* bound ports that match their sockets.                                   *)
(***************************************************************************)
EXTENDS StackProofs

----------------------------------------------------------------------------
(* Receive queues *)

\* No step grows a queue beyond its cap.
LEMMA QueueNext ==
  ASSUME IInv, [Next]_vars, NEW p \in Port
  PROVE  QueueStep(binds[p], binds'[p])
<1>1. binds \in [Port -> UdpBinding] /\ binds[p] \in UdpBinding
  BY DEF IInv, UdpOK
<1>2. CASE UNCHANGED binds
  BY <1>1, <1>2, NoGrowth
<1>3. ASSUME NEW id \in SocketId, NEW port \in BindPort, Bind(id, port)
      PROVE  QueueStep(binds[p], binds'[p])
  BY <1>1, <1>3, StackAssumption, BindingsGrowth DEF Bind
<1>4. ASSUME NEW id \in SocketId, NEW size \in SendSizes, Sendto(id, size)
      PROVE  QueueStep(binds[p], binds'[p])
  <2>1. CASE ImplicitBind(id)
    BY <1>1, <2>1, BindingsGrowth DEF ImplicitBind, IInv, SocketsOK
  <2> QED
    BY <1>2, <1>4, <2>1 DEF Sendto
<1>5. ASSUME NEW id \in SocketId, Recvfrom(id)
      PROVE  QueueStep(binds[p], binds'[p])
  <2> DEFINE port == sockets[id].udp_key
             q == binds[port].recv_queue
  <2>1. port \in Port
    BY <1>5 DEF Recvfrom, IInv, SocketsOK, Socket
  <2>2. binds[port] \in UdpBinding /\ q \in Seq(Datagram) /\ q # <<>>
    BY <1>1, <1>5, <2>1 DEF Recvfrom, UdpBinding
  <2>3. binds' = [binds EXCEPT ![port] = [binds[port] EXCEPT !.recv_queue = Tail(q)]]
    BY <1>5 DEF Recvfrom
  <2>4. binds'[p] = binds[p] \/ (p = port /\ binds'[p].recv_queue = Tail(q))
    BY <1>1, <2>1, <2>2, <2>3 DEF UdpBinding
  <2>5. CASE p = port /\ binds'[p].recv_queue = Tail(q)
    <3>1. Used(Tail(q)) <= Used(q) /\ Used(q) \in Nat /\ Used(Tail(q)) \in Nat
      <4> HIDE DEF q
      <4>1. Tail(q) \in Seq(Datagram)
        BY <2>2
      <4> QED
        BY Zenon, <2>2, <4>1, UsedTail, UsedFinite
    <3> QED
      BY <2>5, <3>1 DEF QueueStep
  <2> QED
    BY <1>1, <2>4, <2>5, NoGrowth
<1>6. ASSUME NEW id \in SocketId, NEW v \in BufSizes, SetRcvBuf(id, v)
      PROVE  QueueStep(binds[p], binds'[p])
  <2>1. CASE sockets[id].udp_key = NoPort
    BY <1>2, <1>6, <2>1 DEF SetRcvBuf
  <2>2. CASE sockets[id].udp_key # NoPort
    <3>1. sockets[id].udp_key \in Port
      BY <2>2 DEF IInv, SocketsOK, Socket
    <3> QED
      BY <1>1, <1>6, <3>1, BindingsGrowth DEF SetRcvBuf
  <2> QED
    BY <2>1, <2>2
<1>7. ASSUME NEW id \in SocketId, Close(id)
      PROVE  QueueStep(binds[p], binds'[p])
  <2>1. CASE sockets[id].udp_key = NoPort
    BY <1>2, <1>7, <2>1 DEF Close
  <2>2. CASE sockets[id].udp_key # NoPort
    <3>1. sockets[id].udp_key \in Port
      BY <2>2 DEF IInv, SocketsOK, Socket
    <3> QED
      BY Zenon, <1>1, <1>7, <3>1, BindingsGrowth DEF Close
  <2> QED
    BY <2>1, <2>2
<1>8. ASSUME NEW id \in PacketId, Dispatch(id)
      PROVE  QueueStep(binds[p], binds'[p])
  <2>1. PICK m \in flight : ReceivePacket(m)
    BY <1>8 DEF Dispatch
  <2>2. CASE m.kind = "Udp"
    <3>1. ReadSize(m.size) \in Nat
      BY ReadFits DEF IInv, UdpOK, Packet
    <3> QED
      BY <2>1, <2>2, <3>1, DatagramGrowth DEF ReceivePacket, IInv
  <2>3. CASE m.kind # "Udp"
    BY <1>2, <2>1, <2>3 DEF ReceivePacket, handle_icmp
  <2> QED
    BY <2>2, <2>3
<1>9. CASE \/ \E kind \in {"Tcp", "Udp"} : CreateSocket(kind)
           \/ \E id \in SocketId :
                \/ \E port \in ListenPort : Listen(id, port)
                \/ Accept(id)
                \/ \E remote \in Remote : Connect(id, remote)
                \/ SetReuseAddr(id)
                \/ \E v \in BufSizes : SetSndBuf(id, v)
           \/ DispatchTcp \/ Tick
           \/ \E id \in PacketId : Arrives(id)
           \/ PeerSendsNew \/ NetworkLoses \/ Exited
           \/ UNCHANGED vars
  <2>1. UNCHANGED binds
    BY Zenon, <1>9 DEF CreateSocket, Listen, Accept, Connect, SetReuseAddr, SetSndBuf, DispatchTcp,
       Tick, Arrives, PeerEchoes, PeerSendsNew, PeerSends, NetworkLoses, LosePacket, Exited,
       vars, udpVars
  <2> QED
    BY <1>2, <2>1
<1> QED
  BY <1>3, <1>4, <1>5, <1>6, <1>7, <1>8, <1>9 DEF Next

\* QueueGrowsWithinCap for every cap, and every sequence of binding, rebinding,
\* reading and lowering the cap.
THEOREM QueueWithinCap == Spec => QueueGrowsWithinCap
<1> DEFINE Grow == \A p \in Port :
                     Used(binds'[p].recv_queue) > Used(binds[p].recv_queue) =>
                       Used(binds'[p].recv_queue) <= binds'[p].recv_queue_cap_bytes
<1>1. IInv /\ [Next]_vars => [Grow]_vars
  BY QueueNext DEF QueueStep
<1> QED
  BY <1>1, InitType, NextType, PTL DEF Spec, QueueGrowsWithinCap

----------------------------------------------------------------------------
(* Bound ports and sockets *)

\* The sockets that take p for their port.
Takers(p) == {id \in SocketId : sockets[id].udp_key = p}

\* What BindsMatchSockets says of one port, without counting.
Matches(p) ==
  IF binds[p].bound THEN \E id \in SocketId : Takers(p) = {id} ELSE Takers(p) = {}

BindInv == \A p \in Port \ contested : Matches(p)

\* The binding of p and the sockets that take it stay.
LEMMA SameMatch ==
  ASSUME NEW p \in Port, Matches(p), binds'[p].bound = binds[p].bound,
         \A id \in SocketId : (sockets'[id].udp_key = p) <=> (sockets[id].udp_key = p)
  PROVE  Matches(p)'
<1>1. Takers(p)' = Takers(p)
  BY DEF Takers
<1> QED
  BY <1>1 DEF Matches

\* Which ports are bound after UdpTable::set_recv_cap.
LEMMA SetCapBound ==
  ASSUME NEW b \in [Port -> UdpBinding], NEW port \in Port, NEW cap, NEW p \in Port
  PROVE  udp_set_recv_cap(b, port, cap)[p].bound = b[p].bound
<1>1. [b[port] EXCEPT !.recv_queue_cap_bytes = cap].bound = b[port].bound
  BY DEF UdpBinding
<1> QED
  BY <1>1 DEF udp_set_recv_cap

\* Which ports are bound after UdpTable::bind.
LEMMA BindBound ==
  ASSUME NEW b \in [Port -> UdpBinding], NEW port \in Port, NEW cap, NEW reuse,
         NEW p \in Port
  PROVE  /\ p # port => udp_bind(b, port, reuse, cap)[p] = b[p]
         /\ p = port => udp_bind(b, port, reuse, cap)[p].bound
<1>1. CASE Refused(b, port, reuse)
  <2>1. b[port].bound \in BOOLEAN
    BY DEF UdpBinding
  <2>2. b[port].bound = TRUE
    BY <1>1, <2>1 DEF Refused, is_bound
  <2> QED
    BY <1>1, <2>2 DEF udp_bind
<1>2. CASE ~ Refused(b, port, reuse)
  BY <1>2 DEF udp_bind
<1> QED
  BY <1>1, <1>2

\* Which ports are bound after UdpTable::unbind.
LEMMA UnbindBound ==
  ASSUME NEW b \in [Port -> UdpBinding], NEW port \in Port, NEW p \in Port
  PROVE  unbind(b, port)[p].bound = IF p = port THEN FALSE ELSE b[p].bound
BY DEF unbind, Unbound

\* A new id has no port, and the sockets that are there keep theirs.
LEMMA AllocKeys ==
  ASSUME IInv, NEW s, WellFormed(s), s.udp_key = NoPort, alloc_socket(s),
         NEW p \in Port, NEW id \in SocketId
  PROVE  (sockets'[id].udp_key = p) <=> (sockets[id].udp_key = p)
<1>1. next_socket_id \in Nat /\ id \in Nat
  BY DEF IInv, SocketsOK, SocketId
<1>2. NoPort \notin Port
  BY DEF Port, NoPort
<1>3. CASE id = next_socket_id
  <2>1. sockets'[id].udp_key = NoPort
    BY <1>3 DEF alloc_socket, IInv, SocketsOK
  <2>2. sockets[id].udp_key = NoPort
    BY <1>1, <1>3 DEF IInv, SocketsOK, WellFormed
  <2> QED
    BY <1>2, <2>1, <2>2
<1>4. CASE id # next_socket_id
  BY <1>4 DEF alloc_socket, IInv, SocketsOK
<1> QED
  BY <1>3, <1>4

\* A changed socket keeps its port.
LEMMA SetKeys ==
  ASSUME IInv, NEW i \in SocketId, NEW s, s.udp_key = sockets[i].udp_key, SetSocket(i, s),
         NEW p \in Port, NEW id \in SocketId
  PROVE  (sockets'[id].udp_key = p) <=> (sockets[id].udp_key = p)
BY DEF SetSocket, IInv, SocketsOK

\* A socket takes a port: afterwards exactly one has it, or it is contested.
LEMMA TakeMatches ==
  ASSUME IInv, BindInv, NEW id \in SocketId, NEW port \in Port,
         binds' = udp_bind(binds, port, sockets[id].reuse_addr, QueueCapOf(sockets[id])),
         SetSocket(id, [sockets[id] EXCEPT !.udp_key = port]),
         Claims(id, port)
  PROVE  BindInv'
<1>0. \A x \in Port : /\ x # port => binds'[x] = binds[x]
                      /\ x = port => binds'[x].bound
  <2> DEFINE reuse == sockets[id].reuse_addr
             cap == QueueCapOf(sockets[id])
  <2>1. binds' = udp_bind(binds, port, reuse, cap) /\ binds \in [Port -> UdpBinding]
    BY DEF IInv, UdpOK
  <2> HIDE DEF reuse, cap
  <2>2. \A x \in Port : /\ x # port => udp_bind(binds, port, reuse, cap)[x] = binds[x]
                        /\ x = port => udp_bind(binds, port, reuse, cap)[x].bound
    BY <2>1, BindBound
  <2> QED
    BY <2>1, <2>2
<1> SUFFICES ASSUME NEW p \in Port \ contested' PROVE Matches(p)'
  BY DEF BindInv
<1>1. /\ p \in Port /\ p \notin contested /\ Matches(p)
      /\ is_bound(binds, port) => p # port
      /\ sockets[id].udp_key # p
  <2>1. NoPort \notin Port
    BY DEF Port, NoPort
  <2> QED
    BY <2>1 DEF Claims, BindInv
<1>2. /\ sockets[id] \in Socket
      /\ \A i \in SocketId :
           sockets'[i].udp_key = IF i = id THEN port ELSE sockets[i].udp_key
  BY DEF SetSocket, IInv, SocketsOK, Socket
<1>3. CASE p = port
  <2>1. ~ binds[p].bound
    BY <1>1, <1>3 DEF is_bound
  <2>2. Takers(p) = {}
    BY <1>1, <2>1 DEF Matches
  <2>3. Takers(p)' = {id}
    BY <1>2, <1>3, <2>2 DEF Takers
  <2>4. binds'[p].bound
    BY <1>0, <1>1, <1>3
  <2> QED
    BY <2>3, <2>4 DEF Matches
<1>4. CASE p # port
  <2>1. binds'[p].bound = binds[p].bound
    BY <1>0, <1>1, <1>4
  <2> QED
    BY <1>1, <1>2, <1>4, <2>1, SameMatch
<1> QED
  BY <1>3, <1>4

\* Every step keeps the bound ports and the sockets that take them in step.
LEMMA BindNext == IInv /\ BindInv /\ [Next]_vars => BindInv'
<1> SUFFICES ASSUME IInv, BindInv, [Next]_vars PROVE BindInv'
  OBVIOUS
<1> DEFINE SameBound == \A p \in Port : binds'[p].bound = binds[p].bound
           SameKeys == \A p \in Port : \A id \in SocketId :
                         (sockets'[id].udp_key = p) <=> (sockets[id].udp_key = p)
<1>1. ASSUME SameBound, SameKeys, UNCHANGED contested
      PROVE  BindInv'
  BY <1>1, SameMatch DEF BindInv
<1>2. UNCHANGED binds => SameBound
  OBVIOUS
<1>3. UNCHANGED sockets => SameKeys
  OBVIOUS
<1> HIDE DEF SameBound, SameKeys
<1>4. ASSUME NEW kind \in {"Tcp", "Udp"}, CreateSocket(kind)
      PROVE  BindInv'
  <2>1. WellFormed(NewSocket(kind)) /\ NewSocket(kind).udp_key = NoPort
    BY Zenon, NewSocketType DEF NewSocket
  <2>2. SameKeys
    BY <1>4, <2>1, AllocKeys DEF CreateSocket, SameKeys
  <2> QED
    BY <1>1, <1>2, <1>4, <2>2 DEF CreateSocket, udpVars
<1>5. ASSUME NEW id \in SocketId, Accept(id)
      PROVE  BindInv'
  <2> DEFINE k == Head(accept_queues[sockets[id].listen_port])
             s == [NewSocket("Tcp") EXCEPT !.conn_key = k]
  <2>1. k \in ConnectionKey
    BY <1>5, AcceptKey
  <2>2. WellFormed(s) /\ s.udp_key = NoPort
    BY <2>1, TcpSocketType
  <2>3. alloc_socket(s)
    BY <1>5 DEF Accept
  <2> HIDE DEF s
  <2>4. SameKeys
    BY <2>2, <2>3, AllocKeys DEF SameKeys
  <2> QED
    BY <1>1, <1>2, <1>5, <2>4 DEF Accept, udpVars
<1>6. ASSUME NEW id \in SocketId, NEW s, s.udp_key = sockets[id].udp_key, SetSocket(id, s)
      PROVE  SameKeys
  BY <1>6, SetKeys DEF SameKeys
<1>7. ASSUME NEW id \in SocketId, NEW port \in ListenPort, Listen(id, port)
      PROVE  BindInv'
  <2> DEFINE s == [sockets[id] EXCEPT !.is_listener = TRUE, !.listen_port = port]
  <2>1. s.udp_key = sockets[id].udp_key /\ SetSocket(id, s)
    BY <1>7 DEF Listen, IInv, SocketsOK, Socket
  <2> HIDE DEF s
  <2>2. SameKeys
    BY <1>6, <2>1
  <2> QED
    BY <1>1, <1>2, <1>7, <2>2 DEF Listen, udpVars
<1>8. ASSUME NEW id \in SocketId, NEW remote \in Remote, Connect(id, remote)
      PROVE  BindInv'
  <2> DEFINE s == [sockets[id] EXCEPT
                     !.conn_key = [port |-> next_ephemeral_port, remote |-> remote]]
  <2>1. s.udp_key = sockets[id].udp_key /\ SetSocket(id, s)
    BY <1>8 DEF Connect, IInv, SocketsOK, Socket
  <2> HIDE DEF s
  <2>2. SameKeys
    BY <1>6, <2>1
  <2> QED
    BY <1>1, <1>2, <1>8, <2>2 DEF Connect, udpVars
<1>9. ASSUME NEW id \in SocketId, SetReuseAddr(id)
      PROVE  BindInv'
  <2> DEFINE s == [sockets[id] EXCEPT !.reuse_addr = ~ @]
  <2>1. s.udp_key = sockets[id].udp_key /\ SetSocket(id, s)
    BY <1>9 DEF SetReuseAddr, IInv, SocketsOK, Socket
  <2> HIDE DEF s
  <2>2. SameKeys
    BY <1>6, <2>1
  <2> QED
    BY <1>1, <1>2, <1>9, <2>2 DEF SetReuseAddr, udpVars
<1>10. ASSUME NEW id \in SocketId, NEW v \in BufSizes, SetRcvBuf(id, v)
       PROVE  BindInv'
  <2> DEFINE s == [sockets[id] EXCEPT !.rcvbuf = v]
  <2>1. s.udp_key = sockets[id].udp_key /\ SetSocket(id, s)
    BY <1>10 DEF SetRcvBuf, SetBuf, IInv, SocketsOK, Socket
  <2> HIDE DEF s
  <2>2. SameKeys
    BY <1>6, <2>1
  <2>3. SameBound
    <3>1. CASE sockets[id].udp_key = NoPort
      BY <1>2, <1>10, <3>1 DEF SetRcvBuf
    <3>2. CASE sockets[id].udp_key # NoPort
      <4>1. sockets[id].udp_key \in Port
        BY <3>2 DEF IInv, SocketsOK, Socket
      <4>2. \A p \in Port :
              udp_set_recv_cap(binds, sockets[id].udp_key, v)[p].bound = binds[p].bound
        BY <4>1, SetCapBound DEF IInv, UdpOK
      <4> QED
        BY <1>2, <1>10, <4>2 DEF SetRcvBuf, SameBound
    <3> QED
      BY <3>1, <3>2
  <2> QED
    BY <1>1, <1>10, <2>2, <2>3 DEF SetRcvBuf, SetBuf
<1>11. ASSUME NEW id \in SocketId, NEW v \in BufSizes, SetSndBuf(id, v)
       PROVE  BindInv'
  <2> DEFINE s == [sockets[id] EXCEPT !.sndbuf = v]
  <2>1. s.udp_key = sockets[id].udp_key /\ SetSocket(id, s)
    BY <1>11 DEF SetSndBuf, SetBuf, IInv, SocketsOK, Socket
  <2> HIDE DEF s
  <2>2. SameKeys
    BY <1>6, <2>1
  <2> QED
    BY <1>1, <1>2, <1>11, <2>2 DEF SetSndBuf, SetBuf
<1>12. ASSUME NEW id \in SocketId, NEW port \in BindPort, Bind(id, port)
       PROVE  BindInv'
  BY <1>12, StackAssumption, TakeMatches DEF Bind
<1>13. ASSUME NEW id \in SocketId, NEW size \in SendSizes, Sendto(id, size)
       PROVE  BindInv'
  <2>1. CASE ImplicitBind(id)
    BY <2>1, TakeMatches DEF ImplicitBind, IInv, SocketsOK
  <2> QED
    BY <1>1, <1>2, <1>3, <1>13, <2>1 DEF Sendto
<1>14. ASSUME NEW id \in SocketId, Recvfrom(id)
       PROVE  BindInv'
  <2>1. SameBound
    <3>1. \A p \in Port : binds[p] \in UdpBinding
      BY DEF IInv, UdpOK
    <3> QED
      BY <1>14, <3>1 DEF Recvfrom, IInv, UdpOK, UdpBinding, SameBound
  <2> QED
    BY <1>1, <1>3, <1>14, <2>1 DEF Recvfrom, socketVars
<1>15. ASSUME NEW id \in SocketId, Close(id)
       PROVE  BindInv'
  <2> SUFFICES ASSUME NEW p \in Port \ contested PROVE Matches(p)'
    BY <1>15 DEF BindInv, Close
  <2>1. Matches(p) /\ NoPort \notin Port
    BY DEF BindInv, Port, NoPort
  <2>2. \A i \in SocketId :
          sockets'[i].udp_key = IF i = id THEN NoPort ELSE sockets[i].udp_key
    BY <1>15 DEF Close, SetSocket, NewSocket, IInv, SocketsOK
  <2>3. sockets[id].udp_key # NoPort => sockets[id].kind = "Udp" /\ sockets[id].udp_key \in Port
    BY DEF IInv, SocketsOK, WellFormed, Socket
  <2>4. CASE sockets[id].udp_key = p
    <3>1. binds'[p].bound = FALSE
      BY Zenon, <1>15, <2>1, <2>3, <2>4, UnbindBound DEF Close, IInv, UdpOK
    <3>2. Takers(p) = {id}
      BY <2>1, <2>4 DEF Matches, Takers
    <3>3. Takers(p)' = {}
      BY <2>1, <2>2, <3>2 DEF Takers
    <3> QED
      BY <3>1, <3>3 DEF Matches
  <2>5. CASE sockets[id].udp_key # p
    <3>1. sockets[id].udp_key \in Port => unbind(binds, sockets[id].udp_key)[p].bound = binds[p].bound
      BY Zenon, <2>5, UnbindBound DEF IInv, UdpOK
    <3>2. binds'[p].bound = binds[p].bound
      BY <1>15, <2>3, <3>1 DEF Close
    <3> QED
      BY <2>1, <2>2, <2>5, <3>2, SameMatch
  <2> QED
    BY <2>4, <2>5
<1>16. ASSUME NEW id \in PacketId, Dispatch(id)
       PROVE  BindInv'
  <2>1. PICK m \in flight : ReceivePacket(m)
    BY <1>16 DEF Dispatch
  <2>2. SameBound
    <3>1. CASE m.kind = "Udp" /\ is_bound(binds, m.port)
      <4>1. \A p \in Port : \A d : deliver(binds[p], d).bound = binds[p].bound
        BY DEF IInv, UdpOK, UdpBinding, deliver
      <4> QED
        BY <2>1, <3>1, <4>1 DEF ReceivePacket, handle_datagram, IInv, UdpOK, SameBound
    <3>2. CASE ~ (m.kind = "Udp" /\ is_bound(binds, m.port))
      BY <1>2, <2>1, <3>2 DEF ReceivePacket, handle_datagram, handle_icmp
    <3> QED
      BY <3>1, <3>2
  <2> QED
    BY <1>1, <1>3, <1>16, <2>2 DEF Dispatch, socketVars
<1>17. CASE \/ DispatchTcp \/ Tick
            \/ \E id \in PacketId : Arrives(id)
            \/ PeerSendsNew \/ NetworkLoses \/ Exited
            \/ UNCHANGED vars
  <2>1. UNCHANGED <<binds, sockets, contested>>
    BY <1>17 DEF DispatchTcp, Tick, Arrives, PeerEchoes, PeerSendsNew, PeerSends,
       NetworkLoses, LosePacket, Exited, vars, udpVars, socketVars
  <2> QED
    BY <1>1, <1>2, <1>3, <2>1
<1> QED
  BY <1>4, <1>5, <1>7, <1>8, <1>9, <1>10, <1>11, <1>12, <1>13, <1>14, <1>15, <1>16, <1>17
  DEF Next

\* BindsMatchSockets for any number of sockets and ports: close() and a second
\* bind() leak no binding that nothing else laid claim to.
THEOREM BindsMatch == Spec => []BindsMatchSockets
<1>1. Init => BindInv
  BY DEF Init, UdpInit, BindInv, Matches, Takers, Unbound, NewSocket, Port, NoPort
<1>2. IInv /\ BindInv => BindsMatchSockets
  <2> SUFFICES ASSUME BindInv, NEW p \in Port \ contested
               PROVE  Cardinality(Takers(p)) = IF binds[p].bound THEN 1 ELSE 0
    BY DEF BindsMatchSockets, Takers
  <2>1. Matches(p)
    BY DEF BindInv
  <2> QED
    BY Zenon, <2>1, FS_Singleton, FS_EmptySet DEF Matches
<1> QED
  BY <1>1, <1>2, InitType, NextType, BindNext, PTL DEF Spec

=============================================================================
