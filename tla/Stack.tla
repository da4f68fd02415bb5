-------------------------------- MODULE Stack --------------------------------
(***************************************************************************)
(* The Stack of src/stack.rs: sockets by id over the TCP and the UDP table.*)
(* One thread calls it; a call that waits pumps packets and timers, so     *)
(* between two effects of the application any number of them may happen.   *)
(* What a connection carries is the subject of TcpPair; here connections   *)
(* open, finish and are reset, many under one key, and calls of the        *)
(* application meet them in every order.                                   *)
(***************************************************************************)
EXTENDS TcpTable, UdpTable

CONSTANTS
  ListenPort,     \* the ports an application listens on
  BindPort,       \* the ports an application binds explicitly
  FirstUdpPort,   \* the first ephemeral UDP port (51000)
  SendSizes,      \* the payload sizes of sendto()
  PeerSizes,      \* the payload sizes of a peer's datagrams and messages
  BufSizes,       \* the values of SO_RCVBUF and SO_SNDBUF, none of them zero
  Programs,       \* what an application may be: the calls it makes, the hosts it meets
  MaxSockets,     \* bound: how many sockets are ever created
  MaxUdpSockets   \* bound: the largest id of a UDP socket

CallName == {"socket", "listen", "accept", "connect", "udp_socket", "bind", "sendto",
             "recvfrom", "reuse_addr", "rcvbuf", "sndbuf", "close"}

ASSUME StackAssumption ==
  /\ ListenPort \subseteq Port /\ BindPort \subseteq Port /\ FirstUdpPort \in Port
  /\ SendSizes \subseteq Nat
  /\ \A n \in PeerSizes : n \in Nat /\ ~ MayPanic(n)
  /\ BufSizes \subseteq 1 .. (SeqSpace - 1)
  /\ Programs \subseteq [calls : SUBSET CallName, remotes : SUBSET Remote]
  /\ MaxSockets \in Nat /\ MaxUdpSockets \in Nat

VARIABLES
  sockets,                  \* by id; an id the map lacks has a socket of kind "None"
  next_socket_id,
  next_udp_ephemeral_port,
  program,                  \* the application that runs
  abandoned,                \* history: keys a socket dropped without closing the connection
  contested                 \* history: ports more than one socket has laid claim to

socketVars == <<sockets, next_socket_id, next_udp_ephemeral_port, program,
                abandoned, contested>>
vars == <<tableVars, udpVars, socketVars>>

SocketId == 1 .. MaxSockets
NoKey == [port |-> NoPort, remote |-> "none"]
Unset == 0

Socket == [kind : {"None", "Tcp", "Udp"}, conn_key : ConnectionKey \cup {NoKey},
           is_listener : BOOLEAN, listen_port : Port \cup {NoPort},
           udp_key : Port \cup {NoPort}, reuse_addr : BOOLEAN,
           rcvbuf : BufSizes \cup {Unset}, sndbuf : BufSizes \cup {Unset}]

\* Socket::new(kind)
NewSocket(kind) ==
  [kind |-> kind, conn_key |-> NoKey, is_listener |-> FALSE, listen_port |-> NoPort,
   udp_key |-> NoPort, reuse_addr |-> FALSE, rcvbuf |-> Unset, sndbuf |-> Unset]

\* The process runs, and this application makes the call.
Calls(name) == ~ panicked /\ name \in program.calls

Open(id) == sockets[id].kind # "None"

Init ==
  /\ TableInit
  /\ UdpInit
  /\ sockets = [id \in SocketId |-> NewSocket("None")]
  /\ next_socket_id = 1
  /\ next_udp_ephemeral_port = FirstUdpPort
  /\ program \in Programs
  /\ abandoned = {}
  /\ contested = {}

\* alloc_socket: the next id gets sock.
alloc_socket(sock) ==
  /\ next_socket_id <= MaxSockets
  /\ next_socket_id' = next_socket_id + 1
  /\ sockets' = [sockets EXCEPT ![next_socket_id] = sock]

SetSocket(id, sock) ==
  /\ sockets' = [sockets EXCEPT ![id] = sock]
  /\ UNCHANGED next_socket_id

\* socket() and udp_socket()
CreateSocket(kind) ==
  /\ \/ kind = "Tcp" /\ Calls("socket")
     \/ kind = "Udp" /\ Calls("udp_socket") /\ next_socket_id <= MaxUdpSockets
  /\ alloc_socket(NewSocket(kind))
  /\ UNCHANGED <<tableVars, udpVars, next_udp_ephemeral_port, program, abandoned, contested>>

----------------------------------------------------------------------------
(* TCP calls *)

\* listen() takes a socket of either kind, and marks it before it knows whether the
\* port is free.
Listen(id, port) ==
  /\ Calls("listen") /\ Open(id)
  /\ SetSocket(id, [sockets[id] EXCEPT !.is_listener = TRUE, !.listen_port = port])
  /\ table_listen(port, sockets[id].reuse_addr)
  /\ UNCHANGED <<udpVars, next_udp_ephemeral_port, program, abandoned, contested>>

\* The caps a socket's options give its connection.
WithOptions(c, sock) ==
  LET d == IF sock.rcvbuf = Unset THEN c ELSE set_recv_cap(c, sock.rcvbuf)
  IN  IF sock.sndbuf = Unset THEN d ELSE set_send_cap(d, sock.sndbuf)

\* accept(), when a key is waiting: a new socket for it, whatever has become of
\* the connection, which gets the listener's options.
Accept(id) ==
  LET l == sockets[id]
      k == Head(accept_queues[l.listen_port])
  IN  /\ Calls("accept") /\ l.is_listener
      /\ PopQueue(l.listen_port)
      /\ OnConnection(k, WithOptions(connections[k], l))
      /\ alloc_socket([NewSocket("Tcp") EXCEPT !.conn_key = k])
      /\ UNCHANGED <<listeners, next_ephemeral_port, opened, dialled, udpVars,
                     next_udp_ephemeral_port, program, abandoned, contested>>

\* connect() up to its waiting loop, and all of it when that times out; on a socket
\* of either kind.
Connect(id, remote) ==
  LET k == [port |-> next_ephemeral_port, remote |-> remote]
  IN  /\ Calls("connect") /\ Open(id) /\ remote \in program.remotes
      /\ \E iss \in Iss : table_connect(k, WithOptions(connect(iss), sockets[id]))
      /\ SetSocket(id, [sockets[id] EXCEPT !.conn_key = k])
      /\ abandoned' = abandoned \cup ({sockets[id].conn_key} \ {NoKey})
      /\ UNCHANGED <<udpVars, next_udp_ephemeral_port, program, contested>>

----------------------------------------------------------------------------
(* UDP calls *)

\* A socket claims a port another one has, or leaves one it had.
Claims(id, port) ==
  contested' = contested \cup
    (IF is_bound(binds, port) THEN {port} ELSE {}) \cup
    (IF sockets[id].udp_key # NoPort THEN {sockets[id].udp_key} ELSE {})

QueueCapOf(sock) == IF sock.rcvbuf = Unset THEN QueueCap ELSE sock.rcvbuf

\* bind(): a port the socket had before stays bound.
Bind(id, port) ==
  LET s == sockets[id]
  IN  /\ Calls("bind") /\ s.kind = "Udp" /\ ~ Refused(binds, port, s.reuse_addr)
      /\ binds' = udp_bind(binds, port, s.reuse_addr, QueueCapOf(s))
      /\ SetSocket(id, [s EXCEPT !.udp_key = port])
      /\ Claims(id, port)
      /\ UNCHANGED <<tableVars, flight, packets, read, panicked,
                     next_udp_ephemeral_port, program, abandoned>>

\* sendto() on a socket without a port takes the next ephemeral one, and does not
\* look at whether the bind succeeded.
ImplicitBind(id) ==
  LET port == next_udp_ephemeral_port
      s == sockets[id]
  IN  /\ s.udp_key = NoPort
      /\ next_udp_ephemeral_port' = NextPort(port)
      /\ binds' = udp_bind(binds, port, s.reuse_addr, QueueCapOf(s))
      /\ SetSocket(id, [s EXCEPT !.udp_key = port])
      /\ Claims(id, port)

Sendto(id, size) ==
  /\ Calls("sendto") /\ sockets[id].kind = "Udp"
  /\ packets < MaxPackets
  /\ packets' = packets + 1
  /\ \/ ImplicitBind(id)
     \/ /\ sockets[id].udp_key # NoPort
        /\ UNCHANGED <<binds, sockets, next_socket_id, next_udp_ephemeral_port, contested>>
  /\ send_datagram(packets + 1, sockets'[id].udp_key, size, flight)
  /\ UNCHANGED <<tableVars, read, program, abandoned>>

\* recvfrom(), when a datagram is waiting.
Recvfrom(id) ==
  LET port == sockets[id].udp_key
  IN  /\ Calls("recvfrom") /\ sockets[id].kind = "Udp" /\ port # NoPort
      /\ binds[port].recv_queue # <<>>
      /\ binds' = [binds EXCEPT ![port].recv_queue = Tail(@)]
      /\ read' = read \cup {Head(binds[port].recv_queue).id}
      /\ UNCHANGED <<tableVars, flight, packets, panicked, socketVars>>

----------------------------------------------------------------------------
(* Calls of both kinds *)

SetReuseAddr(id) ==
  /\ Calls("reuse_addr") /\ Open(id)
  /\ SetSocket(id, [sockets[id] EXCEPT !.reuse_addr = ~ @])
  /\ UNCHANGED <<tableVars, udpVars, next_udp_ephemeral_port, program, abandoned, contested>>

\* setsockopt(RcvBuf) and setsockopt(SndBuf): the options become those of s, and
\* the connection, if there is one, c.
SetBuf(id, s, c) ==
  /\ Open(id)
  /\ SetSocket(id, s)
  /\ IF s.kind = "Tcp" /\ s.conn_key # NoKey
     THEN OnConnection(s.conn_key, c) ELSE UNCHANGED connections
  /\ UNCHANGED <<listeners, accept_queues, next_ephemeral_port, opened, dialled,
                 flight, packets, read, panicked,
                 next_udp_ephemeral_port, program, abandoned, contested>>

SetRcvBuf(id, v) ==
  LET s == sockets[id]
  IN  /\ Calls("rcvbuf")
      /\ SetBuf(id, [s EXCEPT !.rcvbuf = v], set_recv_cap(connections[s.conn_key], v))
      /\ binds' = IF s.kind = "Udp" /\ s.udp_key # NoPort
                  THEN udp_set_recv_cap(binds, s.udp_key, v) ELSE binds

\* It only stores the option of a UDP socket.
SetSndBuf(id, v) ==
  LET s == sockets[id]
  IN  /\ Calls("sndbuf")
      /\ SetBuf(id, [s EXCEPT !.sndbuf = v], set_send_cap(connections[s.conn_key], v))
      /\ UNCHANGED binds

\* close(): a listening port stays in LISTEN, and its queue stays.  A UDP socket
\* only gives its port back, whatever connect() or listen() has made of it.
Close(id) ==
  LET s == sockets[id]
  IN  /\ Calls("close") /\ Open(id)
      /\ SetSocket(id, NewSocket("None"))
      /\ binds' = IF s.kind = "Udp" /\ s.udp_key # NoPort
                  THEN unbind(binds, s.udp_key) ELSE binds
      /\ IF s.kind = "Tcp" /\ s.conn_key # NoKey
         THEN OnConnection(s.conn_key, close(connections[s.conn_key])) ELSE UNCHANGED connections
      /\ abandoned' = abandoned \cup (IF s.kind = "Udp" THEN {s.conn_key} \ {NoKey} ELSE {})
      /\ UNCHANGED <<listeners, accept_queues, next_ephemeral_port, opened, dialled,
                     flight, packets, read, panicked,
                     next_udp_ephemeral_port, program, contested>>

----------------------------------------------------------------------------
(* The event loop: pump_once reads a packet, and runs tick. *)

\* dispatch_ip_packet, for TCP and for the other two protocols.
DispatchTcp ==
  /\ ~ panicked
  /\ \E k \in ConnectionKey :
       /\ k.remote \in program.remotes
       /\ \E seg \in SegmentsTo(k) : handle_segment(k, seg)
  /\ UNCHANGED <<udpVars, socketVars>>

Dispatch(id) ==
  /\ ~ panicked
  /\ \E m \in flight : m.id = id /\ ReceivePacket(m)
  /\ UNCHANGED <<tableVars, socketVars>>

Tick ==
  /\ ~ panicked
  /\ \E due \in SUBSET ArmedTimers : tick(due)
  /\ UNCHANGED <<udpVars, socketVars>>

\* The peer and the network.
Arrives(id) ==
  /\ ~ panicked
  /\ \E m \in flight : m.id = id /\ PeerEchoes(m)
  /\ UNCHANGED <<tableVars, socketVars>>

PeerSendsNew ==
  /\ Calls("bind")
  /\ \E kind \in {"Udp", "EchoRequest"}, port \in Port, size \in PeerSizes :
       PeerSends(kind, port, size)
  /\ UNCHANGED <<tableVars, socketVars>>

NetworkLoses ==
  /\ ~ panicked
  /\ \E m \in flight : LosePacket(m)
  /\ UNCHANGED <<tableVars, socketVars>>

\* A panic ends the process.
Exited == panicked /\ UNCHANGED vars

Next ==
  \/ \E kind \in {"Tcp", "Udp"} : CreateSocket(kind)
  \/ \E id \in SocketId :
       \/ \E port \in ListenPort : Listen(id, port)
       \/ Accept(id)
       \/ \E remote \in Remote : Connect(id, remote)
       \/ \E port \in BindPort : Bind(id, port)
       \/ \E size \in SendSizes : Sendto(id, size)
       \/ Recvfrom(id)
       \/ SetReuseAddr(id)
       \/ \E v \in BufSizes : SetRcvBuf(id, v) \/ SetSndBuf(id, v)
       \/ Close(id)
  \/ DispatchTcp
  \/ \E id \in PacketId : Dispatch(id) \/ Arrives(id)
  \/ Tick
  \/ PeerSendsNew
  \/ NetworkLoses
  \/ Exited

Spec == Init /\ [][Next]_vars

\* The event loop reads what arrives and the network carries what is sent, unless
\* it loses it; an application that listens goes on accepting.
Fairness ==
  /\ \A id \in SocketId : WF_vars(Accept(id))
  /\ \A id \in PacketId : WF_vars(Dispatch(id)) /\ WF_vars(Arrives(id))

FairSpec == Spec /\ Fairness

----------------------------------------------------------------------------
(* Correctness *)

TypeOK ==
  /\ connections \in [ConnectionKey -> Conn]
  /\ \A k \in ConnectionKey : connections[k].tun = <<>>
  /\ listeners \in SUBSET Port
  /\ accept_queues \in [Port -> Seq(ConnectionKey)]
  /\ next_ephemeral_port \in Port
  /\ opened \in [ConnectionKey -> 0 .. MaxOpens]
  /\ dialled \in 0 .. MaxDials
  /\ binds \in [Port -> UdpBinding]
  /\ flight \in SUBSET Packet
  /\ packets \in 0 .. MaxPackets
  /\ read \in SUBSET PacketId
  /\ panicked \in BOOLEAN
  /\ sockets \in [SocketId -> Socket]
  /\ next_socket_id \in 1 .. (MaxSockets + 1)
  /\ next_udp_ephemeral_port \in Port
  /\ program \in Programs
  /\ abandoned \in SUBSET ConnectionKey
  /\ contested \in SUBSET Port

Holders(k) == {id \in SocketId : sockets[id].conn_key = k}
Waiting(k) == UNION {{p} \X {i \in DOMAIN accept_queues[p] : accept_queues[p][i] = k} : p \in Port}

\* accept() hands out each connection once: a key is held by sockets and waits in
\* accept queues, together with a handshake still under way, at most as often as
\* connections were opened under it.
HandedOutOnce ==
  \A k \in ConnectionKey :
    Cardinality(Holders(k)) + Cardinality(Waiting(k))
      + (IF connections[k].state = "SYN_RCVD" THEN 1 ELSE 0) <= opened[k]

\* A connection nobody has closed can be reached: a socket holds its key or it
\* waits in the accept queue of its port, for whoever listens there next.  Only an
\* application can lose one: by a second connect() of its socket, or by close() of
\* a UDP socket it has called connect() on, which leaves the connection open.
NoOrphan ==
  \A k \in ConnectionKey :
    connections[k].state \in {"ESTABLISHED", "CLOSE_WAIT"} /\ ~ connections[k].pending_close =>
      \/ Holders(k) # {}
      \/ \E i \in DOMAIN accept_queues[k.port] : accept_queues[k.port][i] = k
      \/ k \in abandoned

\* allocate_ephemeral_port never looks at what is in use.  A connection is all the
\* same replaced by a new one under its key only once the counter has been all the
\* way round, or where the counter runs into a listening port.
ReplacedOnlyAfterWrap ==
  [][\A k \in ConnectionKey :
       Present(k) /\ opened'[k] # opened[k] => dialled >= PortSpace \/ k.port \in listeners]_vars

\* A connection that has completed its handshake and that no socket has.
Unserved(k) ==
  /\ connections[k].state \in {"ESTABLISHED", "CLOSE_WAIT"}
  /\ Holders(k) = {} /\ k \notin abandoned

Attended(p) == \E id \in SocketId : sockets[id].is_listener /\ sockets[id].listen_port = p

\* A connection that completes its handshake on a port gets a socket of its own while
\* somebody accepts there: it is not forgotten between the handshake and accept(),
\* and keys of connections reset in the meantime, ahead of it in the queue, do not
\* keep it from being taken.
HandshakeServed ==
  \A k \in ConnectionKey :
    Unserved(k) ~> \/ ~ Unserved(k)
                   \/ ~ Attended(k.port)
                   \/ next_socket_id > MaxSockets

\* deliver keeps a receive queue within SO_RCVBUF whenever it grows, through
\* rebinding and through lowering the cap below what is already queued.
QueueGrowsWithinCap ==
  [][\A p \in Port :
       Used(binds'[p].recv_queue) > Used(binds[p].recv_queue) =>
         Used(binds'[p].recv_queue) <= binds'[p].recv_queue_cap_bytes]_vars

\* A port is bound exactly while one socket has it, unless two sockets came to
\* claim it: reuse_addr, a second bind(), a failed bind inside sendto().
BindsMatchSockets ==
  \A p \in Port \ contested :
    Cardinality({id \in SocketId : sockets[id].udp_key = p}) = IF binds[p].bound THEN 1 ELSE 0

\* A datagram is in one place: on its way, or in one receive queue, or read.
\* Delivering and echoing exclude each other.
NeverDuplicated ==
  \A id \in PacketId :
    Cardinality({m \in flight : m.id = id})
      + Cardinality(UNION {{p} \X {i \in DOMAIN binds[p].recv_queue :
                                     binds[p].recv_queue[i].id = id} : p \in Port})
      + (IF id \in read THEN 1 ELSE 0) <= 1

\* The 16-bit lengths of a datagram on the wire are those of the packet, or the
\* total length is less than that of a header, which no packet has: the wrapped sum
\* of a release build never looks like the length of a shorter packet.  The stack
\* itself reads neither field; this is about receivers that do.
LengthsHonest ==
  \A m \in flight :
    \/ /\ m.udp_len = UdpHeaderLen + m.size
       /\ m.total_length = IpHeaderLen + UdpHeaderLen + m.size
    \/ m.total_length < IpHeaderLen

Echoable(id) == \E m \in flight : m.id = id /\ m.kind = "Udp" /\ ~ is_bound(binds, m.port)

\* A packet leaves the network for good: delivered, dropped or lost, or an echo
\* request answered once.  Only a datagram for an unbound port may go back and
\* forth for ever between two stacks that both echo.
EchoEnds ==
  \A id \in PacketId :
    \/ <>[](\A m \in flight : m.id # id)
    \/ []<>Echoable(id)
    \/ <>panicked

\* TcpTable::accept "Pops one ESTABLISHED, not-yet-accepted connection for the given
\* listening (local_addr, local_port), or None if none is ready": the key that
\* leaves the queue has a connection, and no socket holds it yet.
AcceptsLiveUnheld ==
  [][\A p \in Port :
       Len(accept_queues'[p]) < Len(accept_queues[p]) =>
         /\ Present(Head(accept_queues[p]))
         /\ Holders(Head(accept_queues[p])) = {}]_vars


=============================================================================
