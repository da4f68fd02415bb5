----------------------------- MODULE StackProofs -----------------------------
(***************************************************************************)
(* Proofs about the sockets of Stack, for any number of ports, sockets,    *)
(* packets and programs: types and packet lengths.                         *)
(***************************************************************************)
EXTENDS Stack, TcpTableProofs, UdpTableProofs

----------------------------------------------------------------------------
(* Type correctness *)

\* Only a UDP socket has a bound port, a closed socket has no connection, and a
\* listener has its port.
WellFormed(s) ==
  /\ s \in Socket
  /\ s.is_listener => s.listen_port \in Port
  /\ s.kind # "Udp" => s.udp_key = NoPort
  /\ s.kind = "None" => s.conn_key = NoKey

\* An id that was not handed out yet has no socket.
SocketsOK ==
  /\ sockets \in [SocketId -> Socket]
  /\ \A id \in SocketId : WellFormed(sockets[id])
  /\ \A id \in SocketId : id >= next_socket_id => sockets[id].kind = "None"
  /\ next_socket_id \in 1 .. (MaxSockets + 1)
  /\ next_udp_ephemeral_port \in Port
  /\ program \in Programs
  /\ abandoned \in SUBSET ConnectionKey
  /\ contested \in SUBSET Port

IInv == TableOK /\ UdpOK /\ SocketsOK

\* The values of the buffer options fit the fields that keep them.
LEMMA BufType == BufSizes \subseteq SeqNum /\ BufSizes \subseteq Nat
BY StackAssumption, ConnectionAssumption DEF SeqNum

\* The caps change nothing else.
LEMMA WithOptionsOK ==
  ASSUME NEW c, ConnOK(c), NEW sock \in Socket
  PROVE  /\ ConnOK(WithOptions(c, sock))
         /\ WithOptions(c, sock).state = c.state
         /\ WithOptions(c, sock).pending_close = c.pending_close
<1> DEFINE d == IF sock.rcvbuf = Unset THEN c ELSE set_recv_cap(c, sock.rcvbuf)
<1>1. sock.rcvbuf \in BufSizes \cup {Unset} /\ sock.sndbuf \in BufSizes \cup {Unset}
  BY DEF Socket
<1>2. ConnOK(d)
  BY Zenon, <1>1, BufType, SetCapOK
<1>3. d.state = c.state /\ d.pending_close = c.pending_close
  BY DEF set_recv_cap, ConnOK, Conn
<1>4. WithOptions(c, sock) = IF sock.sndbuf = Unset THEN d ELSE set_send_cap(d, sock.sndbuf)
  BY DEF WithOptions
<1> HIDE DEF d
<1>5. ConnOK(WithOptions(c, sock))
  BY Zenon, <1>1, <1>2, <1>4, BufType, SetCapOK
<1>6. set_send_cap(d, sock.sndbuf).state = d.state
      /\ set_send_cap(d, sock.sndbuf).pending_close = d.pending_close
  BY <1>2 DEF set_send_cap, ConnOK, Conn
<1> QED
  BY <1>3, <1>4, <1>5, <1>6

----------------------------------------------------------------------------
(* Each action keeps the types *)

\* Sockets that do not change stay well formed.
LEMMA SocketsSame ==
  ASSUME SocketsOK, UNCHANGED <<sockets, next_socket_id>>,
         next_udp_ephemeral_port' \in Port, program' = program,
         abandoned' \in SUBSET ConnectionKey, contested' \in SUBSET Port
  PROVE  SocketsOK'
BY DEF SocketsOK

\* Socket::new
LEMMA NewSocketType ==
  ASSUME NEW kind \in {"None", "Tcp", "Udp"}
  PROVE  WellFormed(NewSocket(kind)) /\ NewSocket(kind).kind = kind
<1>1. NewSocket(kind) \in Socket
  BY DEF NewSocket, Socket
<1> QED
  BY <1>1 DEF NewSocket, WellFormed

\* alloc_socket
LEMMA AllocOK ==
  ASSUME SocketsOK, NEW s, WellFormed(s), alloc_socket(s),
         UNCHANGED <<next_udp_ephemeral_port, program, abandoned, contested>>
  PROVE  SocketsOK' /\ next_socket_id \in SocketId
<1>1. next_socket_id \in SocketId /\ next_socket_id + 1 \in 1 .. (MaxSockets + 1)
  BY StackAssumption DEF SocketsOK, alloc_socket, SocketId
<1>2. /\ sockets' \in [SocketId -> Socket]
      /\ \A id \in SocketId : sockets'[id] = IF id = next_socket_id THEN s ELSE sockets[id]
  BY <1>1 DEF SocketsOK, alloc_socket, WellFormed
<1>3. next_socket_id' = next_socket_id + 1
  BY DEF alloc_socket
<1>4. \A id \in SocketId : WellFormed(sockets'[id])
  BY <1>2 DEF SocketsOK
<1>5. \A id \in SocketId : id >= next_socket_id' => sockets'[id].kind = "None"
  BY <1>1, <1>2, <1>3 DEF SocketsOK, SocketId
<1> QED
  BY <1>1, <1>2, <1>3, <1>4, <1>5 DEF SocketsOK

\* A socket's entry changes.
LEMMA SetSocketOK ==
  ASSUME SocketsOK, NEW id \in SocketId, NEW s, WellFormed(s), SetSocket(id, s),
         sockets[id].kind = s.kind \/ s.kind = "None",
         next_udp_ephemeral_port' \in Port, program' = program,
         abandoned' \in SUBSET ConnectionKey, contested' \in SUBSET Port
  PROVE  SocketsOK'
<1>1. /\ sockets' \in [SocketId -> Socket]
      /\ \A i \in SocketId : sockets'[i] = IF i = id THEN s ELSE sockets[i]
      /\ next_socket_id' = next_socket_id
  BY DEF SocketsOK, SetSocket, WellFormed
<1>2. \A i \in SocketId : WellFormed(sockets'[i])
  BY <1>1 DEF SocketsOK
<1>3. \A i \in SocketId : i >= next_socket_id' => sockets'[i].kind = "None"
  BY <1>1 DEF SocketsOK
<1> QED
  BY <1>1, <1>2, <1>3 DEF SocketsOK

\* socket() and udp_socket()
LEMMA CreateSocketType ==
  ASSUME IInv, NEW kind \in {"Tcp", "Udp"}, CreateSocket(kind)
  PROVE  IInv'
<1>1. TableOK' /\ UdpOK'
  BY TableSame, UdpSame DEF IInv, CreateSocket
<1>2. WellFormed(NewSocket(kind))
  BY NewSocketType
<1>3. SocketsOK'
  BY <1>2, AllocOK DEF IInv, CreateSocket
<1> QED
  BY <1>1, <1>3 DEF IInv

\* listen()
LEMMA ListenType ==
  ASSUME IInv, NEW id \in SocketId, NEW port \in ListenPort, Listen(id, port)
  PROVE  IInv'
<1> DEFINE s == [sockets[id] EXCEPT !.is_listener = TRUE, !.listen_port = port]
<1>1. port \in Port
  BY StackAssumption
<1>2. TableOK'
  BY <1>1 DEF IInv, Listen, table_listen, TableOK, ConnMapOK
<1>3. UdpOK'
  BY UdpSame DEF IInv, Listen
<1>4. WellFormed(s) /\ s.kind = sockets[id].kind
  BY Zenon, <1>1 DEF IInv, SocketsOK, WellFormed, Socket
<1>5. SetSocket(id, s)
  BY DEF Listen
<1> HIDE DEF s
<1>6. SocketsOK'
  BY <1>4, <1>5, SetSocketOK DEF IInv, Listen, SocketsOK
<1> QED
  BY <1>2, <1>3, <1>6 DEF IInv

\* What accept() pops is a key waiting on the listener's port.
LEMMA AcceptKey ==
  ASSUME IInv, NEW id \in SocketId, Accept(id)
  PROVE  LET p == sockets[id].listen_port
         IN  /\ p \in Port
             /\ accept_queues[p] \in Seq(ConnectionKey) /\ accept_queues[p] # <<>>
             /\ Head(accept_queues[p]) \in ConnectionKey
             /\ Tail(accept_queues[p]) \in Seq(ConnectionKey)
<1> DEFINE p == sockets[id].listen_port
<1>1. p \in Port
  BY DEF IInv, SocketsOK, WellFormed, Accept
<1>2. accept_queues[p] \in Seq(ConnectionKey) /\ accept_queues[p] # <<>>
  BY <1>1 DEF IInv, TableOK, Accept, PopQueue
<1> QED
  BY <1>1, <1>2

\* A TCP socket for a connection.
LEMMA TcpSocketType ==
  ASSUME NEW k \in ConnectionKey
  PROVE  LET s == [NewSocket("Tcp") EXCEPT !.conn_key = k]
         IN  WellFormed(s) /\ s.kind = "Tcp" /\ s.conn_key = k /\ s.udp_key = NoPort
<1> DEFINE s == [NewSocket("Tcp") EXCEPT !.conn_key = k]
<1>1. /\ s \in Socket /\ s.kind = "Tcp" /\ s.conn_key = k
      /\ s.udp_key = NoPort /\ ~ s.is_listener
  BY Zenon DEF NewSocket, Socket
<1> QED
  BY <1>1 DEF WellFormed

\* accept()
LEMMA AcceptType ==
  ASSUME IInv, NEW id \in SocketId, Accept(id)
  PROVE  IInv'
<1> DEFINE l == sockets[id]
           k == Head(accept_queues[l.listen_port])
           c == WithOptions(connections[k], l)
           s == [NewSocket("Tcp") EXCEPT !.conn_key = k]
<1>1. /\ l.listen_port \in Port /\ k \in ConnectionKey
      /\ Tail(accept_queues[l.listen_port]) \in Seq(ConnectionKey)
  BY AcceptKey
<1>2. accept_queues' = [accept_queues EXCEPT ![l.listen_port] = Tail(@)]
  BY DEF Accept, PopQueue
<1>3. OnConnection(k, c) /\ alloc_socket(s)
  BY DEF Accept
<1>4. WellFormed(s)
  BY <1>1, TcpSocketType
<1>5. ConnOK(c)
  BY <1>1, WithOptionsOK DEF IInv, TableOK, ConnMapOK, SocketsOK
<1> HIDE DEF k, c, s
<1>6. ConnMapOK(connections')
  BY <1>1, <1>3, <1>5, OnConnectionOK DEF IInv
<1>7. accept_queues' \in [Port -> Seq(ConnectionKey)]
  BY <1>1, <1>2 DEF IInv, TableOK
<1>8. TableOK'
  BY <1>6, <1>7 DEF IInv, TableOK, ConnMapOK, Accept
<1>9. UdpOK'
  BY UdpSame DEF IInv, Accept
<1>10. SocketsOK'
  BY <1>3, <1>4, AllocOK DEF IInv, Accept
<1> QED
  BY <1>8, <1>9, <1>10 DEF IInv

\* connect()
LEMMA ConnectType ==
  ASSUME IInv, NEW id \in SocketId, NEW remote \in Remote, Connect(id, remote)
  PROVE  IInv'
<1> DEFINE k == [port |-> next_ephemeral_port, remote |-> remote]
           s == [sockets[id] EXCEPT !.conn_key = k]
<1>1. k \in ConnectionKey
  BY DEF IInv, TableOK, ConnectionKey
<1>2. PICK iss \in Iss : table_connect(k, WithOptions(connect(iss), sockets[id]))
  BY DEF Connect
<1>3. ConnOK(WithOptions(connect(iss), sockets[id]))
  <2>1. iss \in SeqNum
    BY TableAssumption
  <2>2. ConnOK(connect(iss))
    BY <2>1, ConnectOK, NoConnOK DEF CallOK
  <2> QED
    BY <2>2, WithOptionsOK DEF IInv, SocketsOK
<1>4. sockets[id].kind # "None" /\ SetSocket(id, s)
  BY DEF Connect, Open
<1>5. WellFormed(s) /\ s.kind = sockets[id].kind
  BY <1>1, <1>4 DEF IInv, SocketsOK, WellFormed, Socket
<1>6. abandoned' \in SUBSET ConnectionKey
  <2>1. sockets[id].conn_key \in ConnectionKey \cup {NoKey}
    BY DEF IInv, SocketsOK, Socket
  <2> QED
    BY <2>1 DEF Connect, IInv, SocketsOK
<1> HIDE DEF k, s
<1>7. ConnMapOK(connections') /\ opened' \in [ConnectionKey -> 0 .. MaxOpens]
  BY <1>1, <1>2, <1>3, InsertOK DEF table_connect, IInv
<1>8. next_ephemeral_port' \in Port /\ dialled' \in 0 .. MaxDials
  BY <1>2, NextPortType, TableAssumption DEF table_connect, IInv, TableOK
<1>9. TableOK'
  BY <1>2, <1>7, <1>8 DEF IInv, TableOK, ConnMapOK, table_connect
<1>10. UdpOK'
  BY UdpSame DEF IInv, Connect
<1>11. SocketsOK'
  BY <1>4, <1>5, <1>6, SetSocketOK DEF IInv, Connect, SocketsOK
<1> QED
  BY <1>9, <1>10, <1>11 DEF IInv

\* setsockopt(ReuseAddr)
LEMMA SetReuseAddrType ==
  ASSUME IInv, NEW id \in SocketId, SetReuseAddr(id)
  PROVE  IInv'
<1> DEFINE s == [sockets[id] EXCEPT !.reuse_addr = ~ @]
<1>1. WellFormed(s) /\ s.kind = sockets[id].kind
  BY Zenon DEF IInv, SocketsOK, WellFormed, Socket
<1>2. SetSocket(id, s)
  BY DEF SetReuseAddr
<1> HIDE DEF s
<1>3. SocketsOK'
  BY <1>1, <1>2, SetSocketOK DEF IInv, SetReuseAddr, SocketsOK
<1>4. TableOK' /\ UdpOK'
  BY TableSame, UdpSame DEF IInv, SetReuseAddr
<1> QED
  BY <1>3, <1>4 DEF IInv

\* The part of setsockopt(RcvBuf), setsockopt(SndBuf) and close() that is about
\* the connection of socket s.
LEMMA ConnectionCallOK ==
  ASSUME IInv, NEW s \in Socket, NEW c,
         s.kind = "Tcp" /\ s.conn_key # NoKey => ConnOK(c),
         IF s.kind = "Tcp" /\ s.conn_key # NoKey
         THEN OnConnection(s.conn_key, c) ELSE UNCHANGED connections,
         UNCHANGED <<listeners, accept_queues, next_ephemeral_port, opened, dialled>>
  PROVE  TableOK'
<1>1. ConnMapOK(connections')
  <2>1. CASE s.kind = "Tcp" /\ s.conn_key # NoKey
    <3>1. s.conn_key \in ConnectionKey
      BY <2>1 DEF Socket
    <3> QED
      BY <2>1, <3>1, OnConnectionOK DEF IInv
  <2>2. CASE ~ (s.kind = "Tcp" /\ s.conn_key # NoKey)
    BY <2>2 DEF IInv, TableOK
  <2> QED
    BY <2>1, <2>2
<1> QED
  BY <1>1 DEF IInv, TableOK, ConnMapOK

\* The connection of a TCP socket that has one.
LEMMA HeldConnOK ==
  ASSUME IInv, NEW id \in SocketId, sockets[id].conn_key # NoKey
  PROVE  ConnOK(connections[sockets[id].conn_key])
<1>1. sockets[id].conn_key \in ConnectionKey
  BY DEF IInv, SocketsOK, Socket
<1> QED
  BY <1>1 DEF IInv, TableOK, ConnMapOK

\* setsockopt(RcvBuf) and setsockopt(SndBuf)
LEMMA SetBufType ==
  ASSUME IInv, NEW id \in SocketId, NEW v \in BufSizes, SetRcvBuf(id, v) \/ SetSndBuf(id, v)
  PROVE  IInv'
<1> DEFINE s == sockets[id]
           r == [s EXCEPT !.rcvbuf = v]
           t == [s EXCEPT !.sndbuf = v]
           c == connections[s.conn_key]
<1>1. /\ WellFormed(r) /\ r \in Socket /\ r.kind = s.kind /\ r.conn_key = s.conn_key
      /\ WellFormed(t) /\ t \in Socket /\ t.kind = s.kind /\ t.conn_key = s.conn_key
  BY DEF IInv, SocketsOK, WellFormed, Socket
<1>2. /\ s.conn_key # NoKey => ConnOK(set_recv_cap(c, v))
      /\ s.conn_key # NoKey => ConnOK(set_send_cap(c, v))
  BY HeldConnOK, BufType, SetCapOK
<1>3. v \in Nat
  BY StackAssumption
<1>4. CASE SetRcvBuf(id, v)
  <2>1. SetBuf(id, r, set_recv_cap(c, v))
    BY <1>4 DEF SetRcvBuf
  <2>2. binds' \in [Port -> UdpBinding]
    <3>1. CASE s.udp_key = NoPort
      BY <1>4, <3>1 DEF SetRcvBuf, IInv, UdpOK
    <3>2. CASE s.udp_key # NoPort
      <4>1. s.udp_key \in Port
        BY <3>2 DEF IInv, SocketsOK, Socket
      <4> QED
        BY <1>3, <1>4, <4>1, BindingsOK DEF SetRcvBuf, IInv, UdpOK
    <3> QED
      BY <3>1, <3>2
  <2> HIDE DEF r, c
  <2>3. TableOK'
    BY <1>1, <1>2, <2>1, ConnectionCallOK DEF SetBuf
  <2>4. UdpOK'
    BY <2>1, <2>2 DEF SetBuf, IInv, UdpOK
  <2>5. SocketsOK'
    BY <1>1, <2>1, SetSocketOK DEF SetBuf, IInv, SocketsOK
  <2> QED
    BY <2>3, <2>4, <2>5 DEF IInv
<1>5. CASE SetSndBuf(id, v)
  <2>1. SetBuf(id, t, set_send_cap(c, v))
    BY <1>5 DEF SetSndBuf
  <2> HIDE DEF t, c
  <2>3. TableOK'
    BY <1>1, <1>2, <2>1, ConnectionCallOK DEF SetBuf
  <2>4. UdpOK'
    BY <1>5, <2>1 DEF SetSndBuf, SetBuf, IInv, UdpOK
  <2>5. SocketsOK'
    BY <1>1, <2>1, SetSocketOK DEF SetBuf, IInv, SocketsOK
  <2> QED
    BY <2>3, <2>4, <2>5 DEF IInv
<1> QED
  BY <1>4, <1>5

\* close()
LEMMA CloseType ==
  ASSUME IInv, NEW id \in SocketId, Close(id)
  PROVE  IInv'
<1> DEFINE s == sockets[id]
           c == close(connections[s.conn_key])
<1>1. s \in Socket
  BY DEF IInv, SocketsOK
<1>2. s.conn_key # NoKey => ConnOK(c)
  BY HeldConnOK, CloseOK DEF CallOK
<1>3. binds' \in [Port -> UdpBinding]
  <2>1. CASE s.udp_key = NoPort
    BY <2>1 DEF Close, IInv, UdpOK
  <2>2. CASE s.udp_key # NoPort
    <3>1. s.udp_key \in Port /\ 0 \in Nat
      BY <2>2 DEF IInv, SocketsOK, Socket
    <3>2. unbind(binds, s.udp_key) \in [Port -> UdpBinding]
      BY Zenon, <3>1, BindingsOK DEF IInv, UdpOK
    <3> QED
      BY <3>2 DEF Close, IInv, UdpOK
  <2> QED
    BY <2>1, <2>2
<1>4. UdpOK'
  BY <1>3 DEF Close, IInv, UdpOK
<1>5. WellFormed(NewSocket("None")) /\ NewSocket("None").kind = "None"
  BY NewSocketType, SMTT(30)
<1>6. SocketsOK'
  <2>1. abandoned' \in SUBSET ConnectionKey
    BY <1>1 DEF Close, IInv, SocketsOK, Socket
  <2> QED
    BY <1>5, <2>1, SetSocketOK DEF Close, IInv, SocketsOK
<1>7. IF s.kind = "Tcp" /\ s.conn_key # NoKey
      THEN OnConnection(s.conn_key, c) ELSE UNCHANGED connections
  BY DEF Close
<1> HIDE DEF c, s
<1>8. TableOK'
  BY <1>1, <1>2, <1>7, ConnectionCallOK DEF Close
<1> QED
  BY <1>4, <1>6, <1>8 DEF IInv

\* The event loop, the peer and the network move packets.
LEMMA PacketStepsType ==
  ASSUME IInv, DispatchTcp \/ Tick \/ (\E id \in PacketId : Dispatch(id) \/ Arrives(id))
               \/ PeerSendsNew \/ NetworkLoses
  PROVE  IInv'
<1> USE DEF IInv
<1>1. CASE DispatchTcp
  <2>1. TableOK'
    BY <1>1, HandleSegmentOK DEF DispatchTcp
  <2> QED
    BY <1>1, <2>1, UdpSame, SocketsSame DEF DispatchTcp, socketVars, SocketsOK
<1>2. CASE Tick
  <2>1. TableOK'
    BY <1>2, TickOK DEF Tick
  <2> QED
    BY <1>2, <2>1, UdpSame, SocketsSame DEF Tick, socketVars, SocketsOK
<1>3. ASSUME NEW id \in PacketId, Dispatch(id)
      PROVE  IInv'
  <2>1. PICK m \in flight : ReceivePacket(m)
    BY <1>3 DEF Dispatch
  <2>2. UdpOK'
    <3> DEFINE size == ReadSize(m.size)
    <3>0. /\ m.id \in PacketId /\ m.port \in Port
          /\ size \in Nat /\ ~ MustPanic(size)
      BY ReadFits DEF UdpOK, Packet
    <3> HIDE DEF size
    <3>1. CASE m.kind = "Udp"
      BY <2>1, <3>0, <3>1, HandleDatagramOK DEF ReceivePacket, size
    <3>2. CASE m.kind # "Udp"
      <4>1. handle_icmp(m, size) /\ UNCHANGED <<packets, read>>
        BY <2>1, <3>2 DEF ReceivePacket, size
      <4> DEFINE reply == [UdpPacket(m.id, "peer", m.port, size) EXCEPT !.kind = "EchoReply"]
      <4>2. reply \in Packet /\ Honest(reply)
        BY Zenon, <3>0, FittingOK
      <4>3. flight' \subseteq flight \cup {reply}
        BY <4>1 DEF handle_icmp
      <4> HIDE DEF reply
      <4> QED
        BY <4>1, <4>2, <4>3 DEF handle_icmp, UdpOK
    <3> QED
      BY <3>1, <3>2
  <2> QED
    BY <1>3, <2>2, TableSame, SocketsSame DEF Dispatch, socketVars, SocketsOK
<1>4. ASSUME NEW id \in PacketId, Arrives(id)
      PROVE  IInv'
  <2>1. PICK m \in flight : PeerEchoes(m)
    BY <1>4 DEF Arrives
  <2> DEFINE echo == UdpPacket(m.id, "host", m.port, ReadSize(m.size))
  <2>2. echo \in Packet /\ Honest(echo)
    <3>1. /\ m.id \in PacketId /\ m.port \in Port
          /\ ReadSize(m.size) \in Nat /\ ~ MustPanic(ReadSize(m.size))
      BY ReadFits DEF UdpOK, Packet
    <3> QED
      BY Zenon, <3>1, FittingOK
  <2>3. flight' \subseteq flight \cup {echo}
    BY <2>1 DEF PeerEchoes
  <2> HIDE DEF echo
  <2>4. UdpOK'
    BY <2>1, <2>2, <2>3 DEF PeerEchoes, UdpOK
  <2> QED
    BY <1>4, <2>4, TableSame, SocketsSame DEF Arrives, socketVars, SocketsOK
<1>5. CASE PeerSendsNew
  <2>1. PICK kind \in {"Udp", "EchoRequest"}, port \in Port, size \in PeerSizes :
          PeerSends(kind, port, size)
    BY <1>5 DEF PeerSendsNew
  <2> DEFINE q == UdpPacket(packets + 1, "host", port, size)
             p == [q EXCEPT !.kind = kind]
  <2>2. /\ size \in Nat /\ ~ MustPanic(size) /\ packets + 1 \in PacketId
        /\ packets' \in 0 .. MaxPackets
    BY <2>1, StackAssumption, UdpAssumption
       DEF PeerSends, UdpOK, PacketId, MayPanic, MustPanic
  <2>3. p \in Packet /\ Honest(p)
    BY Zenon, <2>2, FittingOK
  <2>4. flight' = flight \cup {p}
    BY <2>1 DEF PeerSends
  <2> HIDE DEF p, q
  <2>5. UdpOK'
    BY <2>1, <2>2, <2>3, <2>4 DEF PeerSends, UdpOK
  <2> QED
    BY <1>5, <2>5, TableSame, SocketsSame DEF PeerSendsNew, socketVars, SocketsOK
<1>6. CASE NetworkLoses
  <2>1. UdpOK'
    BY <1>6 DEF NetworkLoses, LosePacket, UdpOK
  <2> QED
    BY <1>6, <2>1, TableSame, SocketsSame DEF NetworkLoses, socketVars, SocketsOK
<1> QED
  BY <1>1, <1>2, <1>3, <1>4, <1>5, <1>6

\* A UDP socket takes a port.
LEMMA TakePortOK ==
  ASSUME IInv, NEW id \in SocketId, NEW port \in Port, sockets[id].kind = "Udp",
         binds' = udp_bind(binds, port, sockets[id].reuse_addr, QueueCapOf(sockets[id])),
         SetSocket(id, [sockets[id] EXCEPT !.udp_key = port]),
         Claims(id, port), next_udp_ephemeral_port' \in Port,
         UNCHANGED <<program, abandoned>>
  PROVE  binds' \in [Port -> UdpBinding] /\ SocketsOK' /\ sockets'[id].udp_key = port
<1> DEFINE s == [sockets[id] EXCEPT !.udp_key = port]
<1>1. sockets[id] \in Socket /\ WellFormed(sockets[id])
  BY DEF IInv, SocketsOK
<1>2. WellFormed(s) /\ s.kind = sockets[id].kind /\ s.udp_key = port
  BY <1>1 DEF WellFormed, Socket
<1>3. QueueCapOf(sockets[id]) \in Nat
  BY <1>1, StackAssumption, UdpAssumption DEF QueueCapOf, Socket
<1>4. binds' \in [Port -> UdpBinding]
  BY <1>3, BindingsOK DEF IInv, UdpOK
<1>5. contested' \in SUBSET Port
  <2>1. sockets[id].udp_key \in Port \cup {NoPort}
    BY <1>1 DEF Socket
  <2> QED
    BY <2>1 DEF Claims, IInv, SocketsOK
<1>6. SetSocket(id, s)
  OBVIOUS
<1> HIDE DEF s
<1>7. SocketsOK'
  BY <1>2, <1>5, <1>6, SetSocketOK DEF IInv, SocketsOK
<1>8. sockets'[id] = s
  BY <1>6 DEF SetSocket, IInv, SocketsOK
<1> QED
  BY <1>2, <1>4, <1>7, <1>8

\* bind()
LEMMA BindType ==
  ASSUME IInv, NEW id \in SocketId, NEW port \in BindPort, Bind(id, port)
  PROVE  IInv'
<1>1. port \in Port
  BY StackAssumption
<1>2. binds' \in [Port -> UdpBinding] /\ SocketsOK'
  BY <1>1, TakePortOK DEF Bind, IInv, SocketsOK
<1>3. TableOK'
  BY TableSame DEF Bind, IInv
<1>4. UdpOK'
  BY <1>2 DEF Bind, IInv, UdpOK
<1> QED
  BY <1>2, <1>3, <1>4 DEF IInv

\* sendto()
LEMMA SendtoType ==
  ASSUME IInv, NEW id \in SocketId, NEW size \in SendSizes, Sendto(id, size)
  PROVE  IInv'
<1>1. size \in Nat /\ packets + 1 \in PacketId /\ packets' \in 0 .. MaxPackets
  BY StackAssumption, UdpAssumption, SMTT(30) DEF Sendto, IInv, UdpOK, PacketId
<1>2. binds' \in [Port -> UdpBinding] /\ SocketsOK' /\ sockets'[id].udp_key \in Port
  <2>1. CASE ImplicitBind(id)
    <3>1. next_udp_ephemeral_port \in Port
          /\ NextPort(next_udp_ephemeral_port) \in Port
      BY NextPortType DEF IInv, SocketsOK
    <3> QED
      BY <2>1, <3>1, TakePortOK DEF ImplicitBind, Sendto
  <2>2. CASE sockets[id].udp_key # NoPort
             /\ UNCHANGED <<binds, sockets, next_socket_id, next_udp_ephemeral_port, contested>>
    <3>1. SocketsOK'
      BY <2>2, SocketsSame DEF Sendto, IInv, SocketsOK
    <3>2. sockets[id].udp_key \in Port
      BY <2>2, SMTT(30) DEF IInv, SocketsOK, Socket
    <3> QED
      BY <2>2, <3>1, <3>2 DEF IInv, UdpOK
  <2> QED
    BY <2>1, <2>2 DEF Sendto
<1>3. send_datagram(packets + 1, sockets'[id].udp_key, size, flight)
  BY DEF Sendto
<1>4. /\ flight' \in SUBSET Packet /\ panicked' \in BOOLEAN
      /\ \A m \in flight' : Honest(m)
  BY <1>1, <1>2, <1>3, SendDatagramOK DEF IInv, UdpOK
<1>5. UdpOK'
  BY <1>1, <1>2, <1>4, SMTT(30) DEF Sendto, IInv, UdpOK
<1>6. TableOK'
  BY TableSame DEF Sendto, IInv
<1> QED
  BY <1>2, <1>5, <1>6 DEF IInv

\* recvfrom()
LEMMA RecvfromType ==
  ASSUME IInv, NEW id \in SocketId, Recvfrom(id)
  PROVE  IInv'
<1> DEFINE port == sockets[id].udp_key
           q == binds[port].recv_queue
<1>1. port \in Port
  BY DEF Recvfrom, IInv, SocketsOK, Socket
<1>2. binds[port] \in UdpBinding /\ q \in Seq(Datagram) /\ q # <<>>
  BY <1>1 DEF Recvfrom, IInv, UdpOK, UdpBinding
<1>3. Head(q) \in Datagram /\ Tail(q) \in Seq(Datagram)
  BY <1>2
<1>4. Head(q).id \in PacketId
  BY <1>3 DEF Datagram
<1>5. [binds[port] EXCEPT !.recv_queue = Tail(q)] \in UdpBinding
  BY Zenon, <1>2, <1>3 DEF UdpBinding
<1>6. binds' = [binds EXCEPT ![port] = [binds[port] EXCEPT !.recv_queue = Tail(q)]]
  BY DEF Recvfrom
<1>7. binds' \in [Port -> UdpBinding]
  BY <1>1, <1>5, <1>6, SMTT(30) DEF IInv, UdpOK
<1>8. UdpOK'
  BY <1>4, <1>7 DEF Recvfrom, IInv, UdpOK
<1>9. TableOK' /\ SocketsOK'
  BY TableSame, SocketsSame DEF Recvfrom, IInv, SocketsOK, socketVars
<1> QED
  BY <1>8, <1>9 DEF IInv

\* The initial state is well formed.
LEMMA InitType == Init => IInv
<1> SUFFICES ASSUME Init PROVE IInv
  OBVIOUS
<1>1. NoConn \in Conn /\ ConnOK(NoConn) /\ NoConn.tun = <<>>
  BY NoConnOK DEF ConnOK
<1>2. ConnMapOK(connections)
  BY <1>1 DEF Init, TableInit, ConnMapOK
<1>3. <<>> \in Seq(ConnectionKey) /\ <<>> \in Seq(Datagram)
  OBVIOUS
<1>4. TableOK
  BY <1>2, <1>3, TableAssumption DEF Init, TableInit, TableOK
<1>5. Unbound \in UdpBinding
  BY <1>3 DEF Unbound, UdpBinding
<1>6. UdpOK
  <2>1. binds \in [Port -> UdpBinding]
    BY <1>5 DEF Init, UdpInit
  <2>2. packets \in 0 .. MaxPackets
    BY UdpAssumption DEF Init, UdpInit
  <2>3. panicked \in BOOLEAN
    BY Zenon DEF Init, UdpInit
  <2> QED
    BY <2>1, <2>2, <2>3 DEF Init, UdpInit, UdpOK
<1>7. WellFormed(NewSocket("None")) /\ NewSocket("None").kind = "None"
  BY NewSocketType
<1>8. SocketsOK
  BY <1>7, StackAssumption DEF Init, SocketsOK, WellFormed
<1> QED
  BY <1>4, <1>6, <1>8 DEF IInv

\* Every step keeps the types.
LEMMA NextType == IInv /\ [Next]_vars => IInv'
<1> SUFFICES ASSUME IInv, [Next]_vars PROVE IInv'
  OBVIOUS
<1>1. CASE UNCHANGED vars
  BY <1>1, TableSame, UdpSame, SocketsSame DEF vars, IInv, socketVars, SocketsOK
<1>2. CASE Next
  BY <1>1, <1>2, CreateSocketType, ListenType, AcceptType, ConnectType, BindType, SendtoType,
     RecvfromType, SetReuseAddrType, SetBufType, CloseType, PacketStepsType
     DEF Next, Exited
<1> QED
  BY <1>1, <1>2

\* Type correctness of the stack.
THEOREM TypeCorrect == Spec => []TypeOK
<1>1. IInv => TypeOK
  BY DEF IInv, TableOK, UdpOK, SocketsOK, TypeOK, ConnMapOK
<1> QED
  BY <1>1, InitType, NextType, PTL DEF Spec

\* LengthsHonest for all sizes of payloads and headers: a datagram that
\* send_datagram put on the wire has its true lengths or is rejected by every receiver.
THEOREM Lengths == Spec => []LengthsHonest
<1>1. IInv => LengthsHonest
  BY DEF IInv, UdpOK, Honest, LengthsHonest
<1> QED
  BY <1>1, InitType, NextType, PTL DEF Spec

=============================================================================
