------------------------------- MODULE TcpTable -------------------------------
(***************************************************************************)
(* The TcpTable of src/tcp.rs: many connections by their key, the listening*)
(* ports, an accept queue per port, and the ephemeral port counter.  What  *)
(* a call does to one connection is taken from TcpConnection; the segments *)
(* it writes leave for remote hosts that are not modelled here (TcpPair    *)
(* has them).                                                              *)
(***************************************************************************)
EXTENDS TcpConnection, Ports

CONSTANTS
  Remote,         \* remote (address, port) pairs
  FirstPort,      \* the first ephemeral port (49152)
  Iss,            \* the values generate_iss may draw
  MaxOpens,       \* bound: how many connections a key ever has
  MaxDials        \* bound: how many active opens there are

ASSUME TableAssumption ==
  /\ FirstPort \in Port
  /\ Iss \subseteq SeqNum
  /\ MaxOpens \in Nat /\ MaxDials \in Nat

VARIABLES
  connections,          \* by key; a key the map lacks has a connection in state "GONE"
  listeners,            \* ports in LISTEN
  accept_queues,        \* accept_queues[p]: keys that completed a handshake on p
  next_ephemeral_port,
  opened,               \* history: how many connections each key has had
  dialled               \* history: how many ephemeral ports were handed out

tableVars == <<connections, listeners, accept_queues, next_ephemeral_port, opened, dialled>>

\* ConnectionKey; the local address is the same in all of them.
ConnectionKey == [port : Port, remote : Remote]

NoConn == [new EXCEPT !.state = "GONE"]
Present(k) == connections[k].state # "GONE"

\* The segments of a call have left.
Written(c) == [c EXCEPT !.tun = <<>>]

cleanup_closed_connections(cs) ==
  [k \in ConnectionKey |-> IF cs[k].state = "CLOSED" THEN NoConn ELSE cs[k]]

TableInit ==
  /\ connections = [k \in ConnectionKey |-> NoConn]
  /\ listeners = {}
  /\ accept_queues = [p \in Port |-> <<>>]
  /\ next_ephemeral_port = FirstPort
  /\ opened = [k \in ConnectionKey |-> 0]
  /\ dialled = 0

\* The insert into the map: what was under k is replaced.
Insert(k, c) ==
  /\ opened[k] < MaxOpens
  /\ connections' = [connections EXCEPT ![k] = Written(c)]
  /\ opened' = [opened EXCEPT ![k] = @ + 1]

----------------------------------------------------------------------------
(* handle_segment *)

\* Mutated form: nobody is told of the completed handshake.
ForgetCompleted(k) == UNCHANGED accept_queues

\* The push in the SYN_RCVD arm of process_segment.
Enqueue(k) ==
  accept_queues' = [accept_queues EXCEPT ![k.port] = Append(@, k)]

Existing(k, seg) ==
  /\ Present(k)
  /\ connections' = cleanup_closed_connections(
                      [connections EXCEPT ![k] = Written(process_segment(@, seg))])
  /\ IF Completes(connections[k], seg) THEN Enqueue(k) ELSE UNCHANGED accept_queues
  /\ UNCHANGED <<listeners, next_ephemeral_port, opened, dialled>>

Passive(k, seg) ==
  /\ ~ Present(k) /\ k.port \in listeners
  /\ "SYN" \in seg.flags /\ "ACK" \notin seg.flags
  /\ \E iss \in Iss : Insert(k, PassiveOpen(seg, iss))
  /\ UNCHANGED <<listeners, accept_queues, next_ephemeral_port, dialled>>

\* What no connection and no listener wants is answered by a reset, or not at
\* all; the table stays as it is.  A segment for k arrives:
handle_segment(k, seg) == Existing(k, seg) \/ Passive(k, seg)

\* Segments a peer may send to k: in order, acknowledging all or nothing new.
SegmentsTo(k) ==
  [flags : {{"SYN"}, {"SYN", "ACK"}, {"ACK"}, {"FIN", "ACK"}, {"RST"}},
   seq : {connections[k].rcv_nxt}, wnd : {MaxWindow}, data : {<<>>},
   ack : {connections[k].snd_una, connections[k].snd_nxt}]

----------------------------------------------------------------------------
(* tick: due are the deadlines that have passed, of all connections. *)

ArmedTimers == UNION {{k} \X Armed(connections[k]) : k \in ConnectionKey}

tick(due) ==
  /\ connections' = cleanup_closed_connections([k \in ConnectionKey |->
       IF Present(k)
       THEN Written(TickConn(connections[k],
                             {t \in Armed(connections[k]) : <<k, t>> \in due}))
       ELSE connections[k]])
  /\ UNCHANGED <<listeners, accept_queues, next_ephemeral_port, opened, dialled>>

----------------------------------------------------------------------------
(* Calls of the socket layer *)

\* Whether connection c keeps its local port from being listened on.
Occupies(c, reuse_addr) ==
  /\ c.state \notin {"GONE", "CLOSED"}
  /\ ~ (c.state = "TIME_WAIT" /\ reuse_addr)

address_in_use(port, reuse_addr) ==
  /\ port \notin listeners
  /\ \E k \in ConnectionKey : k.port = port /\ Occupies(connections[k], reuse_addr)

\* TcpTable::listen
table_listen(port, reuse_addr) ==
  /\ listeners' = IF address_in_use(port, reuse_addr) THEN listeners
                  ELSE listeners \cup {port}
  /\ UNCHANGED <<connections, accept_queues, next_ephemeral_port, opened, dialled>>

\* Mutated forms: the key stays in the queue; only a live connection is taken.
PeekQueue(port) == accept_queues[port] # <<>> /\ UNCHANGED accept_queues
PopLive(port) ==
  /\ accept_queues[port] # <<>> /\ Present(Head(accept_queues[port]))
  /\ accept_queues' = [accept_queues EXCEPT ![port] = Tail(@)]

\* TcpTable::accept, when it returns a key: Head(accept_queues[port]).
PopQueue(port) ==
  /\ accept_queues[port] # <<>>
  /\ accept_queues' = [accept_queues EXCEPT ![port] = Tail(@)]

\* TcpTable::connect under key k; c is the connection with the caps its caller
\* sets right after it.
table_connect(k, c) ==
  /\ k.port = next_ephemeral_port
  /\ next_ephemeral_port' = NextPort(next_ephemeral_port)
  /\ dialled < MaxDials
  /\ Insert(k, c)
  /\ dialled' = dialled + 1
  /\ UNCHANGED <<listeners, accept_queues>>

\* TcpTable::close, set_recv_cap, set_send_cap: the connection under k, if there
\* is one, becomes c.
OnConnection(k, c) ==
  connections' = [connections EXCEPT ![k] = IF Present(k) THEN Written(c) ELSE @]

=============================================================================
