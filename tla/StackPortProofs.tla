--------------------------- MODULE StackPortProofs ---------------------------
(***************************************************************************)
(* Proof that the ephemeral port counter comes back to a live connection   *)
(* only after all ports, or on a listening port.                           *)
(***************************************************************************)
EXTENDS StackProofs

\* The ports the counter has handed out, and those that are listened on.
Known(k) ==
  \/ k.port \in listeners
  \/ \E n \in 0 .. (dialled - 1) : k.port = (FirstPort + n) % PortSpace

WrapInv ==
  /\ next_ephemeral_port = (FirstPort + dialled) % PortSpace
  /\ \A k \in ConnectionKey : Present(k) => Known(k)

\* Division with remainder leaves one remainder.
LEMMA ModUnique ==
  ASSUME NEW P \in Nat \ {0}, NEW q \in Int, NEW r \in 0 .. (P - 1)
  PROVE  (P * q + r) % P = r
<1> DEFINE y == P * q + r
           u == y \div P
           m == y % P
<1>1. y \in Int
  OBVIOUS
<1> HIDE DEF y
<1>2. y = P * u + m /\ u \in Int /\ m \in 0 .. (P - 1)
  BY <1>1
<1> HIDE DEF u, m
<1>3. P * (u - q) = r - m
  <2>1. P * (u - q) = P * u - P * q
    BY <1>2
  <2> QED
    BY <1>2, <2>1 DEF y
<1>4. CASE u - q >= 1
  <2>1. P * (u - q) >= P
    BY <1>2, <1>4
  <2> QED
    BY <1>2, <1>3, <2>1
<1>5. CASE u - q <= -1
  <2>1. P * (u - q) <= -P
    BY <1>2, <1>5
  <2> QED
    BY <1>2, <1>3, <2>1
<1>6. CASE u = q
  BY <1>2, <1>3, <1>6 DEF y, m
<1> QED
  BY <1>2, <1>4, <1>5, <1>6

\* Within one turn the counter takes no value twice.
LEMMA NoRepeat ==
  ASSUME NEW P \in Nat \ {0}, NEW a \in Nat, NEW b \in Nat, a < b, b < a + P
  PROVE  a % P # b % P
<1>1. /\ a = P * (a \div P) + (a % P) /\ b = P * (b \div P) + (b % P)
      /\ a \div P \in Int /\ b \div P \in Int /\ a % P \in Int /\ b % P \in Int
  OBVIOUS
<1> DEFINE q == a \div P
           r == b \div P
<1>2. SUFFICES ASSUME a % P = b % P PROVE FALSE
  OBVIOUS
<1>3. b - a = P * r - P * q
  BY <1>1, <1>2
<1>4. q \in Int /\ r \in Int
  BY <1>1
<1> HIDE DEF q, r
<1>5. P * r - P * q = P * (r - q)
  BY <1>4
<1>6. CASE r - q <= 0
  <2>1. P * (r - q) <= 0
    BY <1>4, <1>6
  <2> QED
    BY <1>3, <1>5, <2>1
<1>7. CASE r - q >= 1
  <2>1. P * (r - q) >= P
    BY <1>4, <1>7
  <2> QED
    BY <1>3, <1>5, <2>1
<1> QED
  BY <1>4, <1>6, <1>7

\* One step of the counter.
LEMMA CounterStep ==
  ASSUME NEW x \in Nat, NEW P \in Nat \ {0}
  PROVE  ((x % P) + 1) % P = (x + 1) % P
<1> DEFINE q == x \div P
           m == x % P
<1>1. x = P * q + m /\ q \in Int /\ m \in 0 .. (P - 1)
  OBVIOUS
<1> HIDE DEF q, m
<1>2. CASE m + 1 < P
  <2>1. m + 1 \in 0 .. (P - 1) /\ x + 1 = P * q + (m + 1) /\ m + 1 = P * 0 + (m + 1)
    BY <1>1, <1>2
  <2>2. (P * q + (m + 1)) % P = m + 1 /\ (P * 0 + (m + 1)) % P = m + 1
    BY <1>1, <2>1, ModUnique
  <2> QED
    BY <2>1, <2>2 DEF m
<1>3. CASE m + 1 = P
  <2>1. P * (q + 1) = P * q + P
    BY <1>1
  <2>2. 0 \in 0 .. (P - 1) /\ x + 1 = P * (q + 1) + 0 /\ m + 1 = P * 1 + 0
    BY <1>1, <1>3, <2>1
  <2>3. (P * (q + 1) + 0) % P = 0 /\ (P * 1 + 0) % P = 0
    BY <1>1, <2>2, ModUnique
  <2> QED
    BY <2>2, <2>3 DEF m
<1> QED
  BY <1>1, <1>2, <1>3

\* Dials are counted and ports are numbers.
LEMMA DialTypes == IInv => dialled \in Nat /\ FirstPort \in Nat /\ PortSpace \in Nat \ {0}
BY TableAssumption, PortAssumption DEF IInv, TableOK, Port

\* A step that adds no connection, stops no listener and hands out no port.
LEMMA WrapSame ==
  ASSUME WrapInv, UNCHANGED <<next_ephemeral_port, dialled>>, listeners \subseteq listeners',
         \A k \in ConnectionKey : Present(k)' => Present(k) \/ k.port \in listeners
  PROVE  WrapInv'
<1>1. \A k \in ConnectionKey : Known(k) \/ k.port \in listeners => Known(k)'
  BY DEF Known
<1> QED
  BY <1>1 DEF WrapInv

\* handle_segment and tick.
LEMMA PumpWrap ==
  ASSUME IInv, WrapInv, DispatchTcp \/ Tick
  PROVE  WrapInv'
<1>1. connections \in [ConnectionKey -> Conn] /\ NoConn.state = "GONE"
  BY NoConnOK DEF IInv, TableOK, ConnMapOK
<1>2. CASE DispatchTcp
  <2>0. PICK j \in ConnectionKey : \E seg \in SegmentsTo(j) : handle_segment(j, seg)
    BY <1>2 DEF DispatchTcp
  <2>1. PICK seg \in SegmentsTo(j) : handle_segment(j, seg)
    BY <2>0
  <2>2. ASSUME NEW k \in ConnectionKey, Present(k)'
        PROVE  Present(k) \/ k.port \in listeners
    <3>1. CASE Existing(j, seg)
      <4> DEFINE cs == [connections EXCEPT ![j] = Written(process_segment(connections[j], seg))]
      <4>1. connections'[k] \in {NoConn, cs[k]} /\ Present(j)
        BY <3>1 DEF Existing, cleanup_closed_connections
      <4>2. k # j => cs[k] = connections[k]
        BY <1>1
      <4> HIDE DEF cs
      <4> QED
        BY <1>1, <2>2, <4>1, <4>2 DEF Present
    <3>2. CASE Passive(j, seg)
      <4>1. k # j => connections'[k] = connections[k]
        BY <1>1, <3>2 DEF Passive, Insert
      <4> QED
        BY <2>2, <3>2, <4>1 DEF Passive, Present
    <3> QED
      BY <2>1, <3>1, <3>2 DEF handle_segment
  <2> QED
    BY Zenon, <2>1, <2>2, WrapSame DEF handle_segment, Existing, Passive
<1>3. CASE Tick
  <2>1. PICK due \in SUBSET ArmedTimers : tick(due)
    BY <1>3 DEF Tick
  <2>2. ASSUME NEW k \in ConnectionKey, ~ Present(k)
        PROVE  ~ Present(k)'
    <3>1. connections'[k] \in {NoConn, connections[k]}
      BY <2>1, <2>2 DEF tick, cleanup_closed_connections
    <3> QED
      BY <1>1, <2>2, <3>1 DEF Present
  <2> QED
    BY <2>1, <2>2, WrapSame DEF tick
<1> QED
  BY <1>2, <1>3

\* connect(): the next port becomes a known one.
LEMMA ConnectWrap ==
  ASSUME IInv, WrapInv, NEW id \in SocketId, NEW remote \in Remote, Connect(id, remote)
  PROVE  WrapInv'
<1>0. [port |-> next_ephemeral_port, remote |-> remote] \in ConnectionKey
  BY DEF IInv, TableOK, ConnectionKey
<1>1. PICK k \in ConnectionKey : k = [port |-> next_ephemeral_port, remote |-> remote]
  BY <1>0
<1>2. PICK iss \in Iss : table_connect(k, WithOptions(connect(iss), sockets[id]))
  BY <1>1 DEF Connect
<1>3. /\ next_ephemeral_port' = NextPort(next_ephemeral_port) /\ dialled' = dialled + 1
      /\ UNCHANGED listeners
      /\ \A j \in ConnectionKey \ {k} : connections'[j] = connections[j]
  BY Zenon, <1>1, <1>2 DEF table_connect, Insert, IInv, TableOK, ConnMapOK
<1>4. dialled \in Nat /\ FirstPort \in Nat /\ PortSpace \in Nat \ {0}
  BY TableAssumption, PortAssumption DEF IInv, TableOK, Port
<1>5. next_ephemeral_port' = (FirstPort + dialled') % PortSpace
  <2> DEFINE x == FirstPort + dialled
  <2>1. x \in Nat /\ FirstPort + dialled' = x + 1
    BY <1>3, <1>4
  <2>2. next_ephemeral_port' = ((x % PortSpace) + 1) % PortSpace
    BY <1>3 DEF NextPort, WrapInv
  <2> HIDE DEF x
  <2> QED
    BY <1>4, <2>1, <2>2, CounterStep
<1>6. Known(k)'
  <2>1. dialled \in 0 .. (dialled' - 1)
    BY <1>3, <1>4
  <2>2. k.port = (FirstPort + dialled) % PortSpace
    BY <1>1 DEF WrapInv
  <2> QED
    BY <2>1, <2>2 DEF Known
<1>7. ASSUME NEW j \in ConnectionKey, Known(j)
      PROVE  Known(j)'
  <2>1. 0 .. (dialled - 1) \subseteq 0 .. (dialled' - 1)
    BY <1>3, <1>4
  <2> QED
    BY <1>3, <1>7, <2>1 DEF Known
<1>8. \A j \in ConnectionKey : Present(j)' => Known(j)'
  BY <1>3, <1>6, <1>7 DEF WrapInv, Present
<1> QED
  BY <1>5, <1>8 DEF WrapInv

\* Every step keeps the counter and the connections in step.
LEMMA WrapNext == IInv /\ WrapInv /\ [Next]_vars => WrapInv'
<1> SUFFICES ASSUME IInv, WrapInv, [Next]_vars PROVE WrapInv'
  OBVIOUS
<1>1. ASSUME NEW j \in ConnectionKey, NEW c, OnConnection(j, c), NEW k \in ConnectionKey,
             Present(k)'
      PROVE  Present(k)
  BY <1>1 DEF OnConnection, Present, IInv, TableOK, ConnMapOK
<1>2. ASSUME NEW id \in SocketId, Accept(id)
      PROVE  WrapInv'
  <2> DEFINE j == Head(accept_queues[sockets[id].listen_port])
             c == WithOptions(connections[j], sockets[id])
  <2>1. j \in ConnectionKey /\ OnConnection(j, c)
    BY <1>2, AcceptKey DEF Accept
  <2> HIDE DEF j, c
  <2>2. \A k \in ConnectionKey : Present(k)' => Present(k)
    BY <1>1, <2>1
  <2> QED
    BY <1>2, <2>2, WrapSame, SMTT(30) DEF Accept
<1>3. ASSUME NEW s \in Socket, NEW c,
             IF s.kind = "Tcp" /\ s.conn_key # NoKey
             THEN OnConnection(s.conn_key, c) ELSE UNCHANGED connections,
             UNCHANGED <<listeners, next_ephemeral_port, dialled>>
      PROVE  WrapInv'
  <2>1. s.conn_key \in ConnectionKey \cup {NoKey}
    BY DEF Socket
  <2>2. \A k \in ConnectionKey : Present(k)' => Present(k)
    BY <1>1, <1>3, <2>1 DEF Present
  <2> QED
    BY <1>3, <2>2, WrapSame
<1>4. ASSUME NEW id \in SocketId, NEW v \in BufSizes, SetRcvBuf(id, v) \/ SetSndBuf(id, v)
      PROVE  WrapInv'
  <2> DEFINE s == sockets[id]
             r == [s EXCEPT !.rcvbuf = v]
             t == [s EXCEPT !.sndbuf = v]
             c == connections[s.conn_key]
  <2>1. r \in Socket /\ t \in Socket
    BY DEF IInv, SocketsOK, Socket
  <2>2. PICK n \in {r, t}, d \in {set_recv_cap(c, v), set_send_cap(c, v)} : SetBuf(id, n, d)
    BY <1>4 DEF SetRcvBuf, SetSndBuf
  <2>3. n \in Socket
    BY <2>1
  <2> HIDE DEF r, t, c, s
  <2> QED
    BY <1>3, <2>2, <2>3 DEF SetBuf
<1>5. ASSUME NEW id \in SocketId, Close(id)
      PROVE  WrapInv'
  <2>1. sockets[id] \in Socket
    BY DEF IInv, SocketsOK
  <2> QED
    BY Zenon, <1>3, <1>5, <2>1 DEF Close
<1>6. ASSUME NEW id \in SocketId, NEW port \in ListenPort, Listen(id, port)
      PROVE  WrapInv'
  BY <1>6, WrapSame DEF Listen, table_listen, Present
<1>7. ASSUME UNCHANGED tableVars
      PROVE  WrapInv'
  BY <1>7, WrapSame DEF tableVars, Present
<1>8. CASE \/ \E kind \in {"Tcp", "Udp"} : CreateSocket(kind)
           \/ \E id \in SocketId :
                \/ \E port \in BindPort : Bind(id, port)
                \/ \E size \in SendSizes : Sendto(id, size)
                \/ Recvfrom(id)
                \/ SetReuseAddr(id)
           \/ \E id \in PacketId : Dispatch(id) \/ Arrives(id)
           \/ PeerSendsNew \/ NetworkLoses \/ Exited
           \/ UNCHANGED vars
  <2>1. UNCHANGED tableVars
    BY Zenon, <1>8 DEF CreateSocket, Bind, Sendto, Recvfrom, SetReuseAddr, Dispatch, Arrives,
       PeerSendsNew, NetworkLoses, Exited, vars
  <2> QED
    BY <1>7, <2>1
<1> QED
  BY <1>2, <1>4, <1>5, <1>6, <1>8, PumpWrap, ConnectWrap DEF Next

\* ReplacedOnlyAfterWrap for any port space and any place of the counter: between
\* PortSpace active opens, connect() displaces no connection that an earlier
\* connect() made.
THEOREM NoEarlyReplacement == Spec => ReplacedOnlyAfterWrap
<1> DEFINE Kept == \A k \in ConnectionKey :
                     Present(k) /\ opened'[k] # opened[k] =>
                       dialled >= PortSpace \/ k.port \in listeners
<1>1. Init => WrapInv
  <2>1. FirstPort % PortSpace = FirstPort /\ FirstPort + 0 = FirstPort
    BY TableAssumption, PortAssumption DEF Port
  <2> QED
    BY <2>1, NoConnOK DEF Init, TableInit, WrapInv, Present
<1>2. IInv /\ WrapInv /\ [Next]_vars => [Kept]_vars
  <2> SUFFICES ASSUME IInv, WrapInv, Next, NEW k \in ConnectionKey, Present(k),
                      opened'[k] # opened[k], k.port \notin listeners, ~ (dialled >= PortSpace)
               PROVE  FALSE
    BY DEF Kept
  <2>1. \/ \E id \in SocketId, remote \in Remote : Connect(id, remote)
        \/ DispatchTcp
    BY ZenonT(30) DEF Next, CreateSocket, Listen, table_listen, Accept, Bind, Sendto, Recvfrom,
       SetReuseAddr, SetRcvBuf, SetSndBuf, SetBuf, Close, Dispatch, Tick, tick, Arrives,
       PeerSendsNew, NetworkLoses, Exited, vars, tableVars
  <2>2. opened \in [ConnectionKey -> 0 .. MaxOpens]
    BY DEF IInv, TableOK
  <2>3. CASE DispatchTcp
    <3>0. PICK j \in ConnectionKey : \E seg \in SegmentsTo(j) : handle_segment(j, seg)
      BY <2>3 DEF DispatchTcp
    <3>1. PICK seg \in SegmentsTo(j) : handle_segment(j, seg)
      BY Zenon, <3>0
    <3> QED
      BY ZenonT(30), <2>2, <3>1 DEF handle_segment, Existing, Passive, Insert
  <2>4. CASE \E id \in SocketId, remote \in Remote : Connect(id, remote)
    <3>1. PICK id \in SocketId, remote \in Remote : Connect(id, remote)
      BY <2>4
    <3> DEFINE j == [port |-> next_ephemeral_port, remote |-> remote]
    <3>2. PICK iss \in Iss : table_connect(j, WithOptions(connect(iss), sockets[id]))
      BY <3>1 DEF Connect
    <3>3. j.port = next_ephemeral_port
      OBVIOUS
    <3> HIDE DEF j
    <3>4. k = j
      BY <2>2, <3>2 DEF table_connect, Insert
    <3>5. k.port = (FirstPort + dialled) % PortSpace
      BY <3>3, <3>4 DEF WrapInv
    <3>6. PICK n \in 0 .. (dialled - 1) : k.port = (FirstPort + n) % PortSpace
      BY DEF WrapInv, Known
    <3>7. dialled \in Nat /\ FirstPort \in Nat /\ PortSpace \in Nat \ {0}
      BY Zenon, DialTypes
    <3> DEFINE a == FirstPort + n
               b == FirstPort + dialled
    <3>8. a \in Nat /\ b \in Nat /\ a < b /\ b < a + PortSpace
      BY <3>7
    <3>9. a % PortSpace # b % PortSpace
      <4> HIDE DEF a, b
      <4> QED
        BY Zenon, <3>7, <3>8, NoRepeat
    <3> QED
      BY <3>5, <3>6, <3>9
  <2> QED
    BY <2>1, <2>3, <2>4
<1> QED
  BY <1>1, <1>2, InitType, NextType, WrapNext, PTL DEF Spec, ReplacedOnlyAfterWrap

=============================================================================
