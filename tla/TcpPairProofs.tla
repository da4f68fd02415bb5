---------------------------- MODULE TcpPairProofs ----------------------------
(***************************************************************************)
(* What holds of TcpPair for every value of its constants: any sequence    *)
(* space, windows, caps and segment size, any number of faults of any      *)
(* kind, any number of bytes and any sizes of the application's calls.     *)
(***************************************************************************)
EXTENDS TcpPair, TcpConnectionProofs

\* The inductive invariant.  TypeOK alone is not inductive: receiving in order
\* splices a gapless run out of the out-of-order buffer, and such a run is sure
\* to exist only if the buffered bytes do not go round the sequence space.
IInv ==
  /\ TypeOK
  /\ \A h \in Host : OooBytes(conn[h].ooo_buffer) < SeqSpace

\* What a step does to the two connections.
ConnStep ==
  /\ conn' \in [Host -> Conn]
  /\ \A h \in Host : CallOK(conn[h], conn'[h]) /\ conn'[h].tun = <<>>

\* The part of TypeOK' that is not about connections.
RestTypeOK ==
  /\ accept_queue \in [Host -> Nat]
  /\ sock \in [Host -> {"none", "open", "closed"}]
  /\ wire \in [Host -> Seq(Segment)]
  /\ faults \in 0 .. MaxFaults
  /\ iss_pool \in [Host -> SUBSET SeqNum]
  /\ sent \in [Host -> Nat]
  /\ read \in [Host -> Seq(Byte)]
  /\ eof \in [Host -> BOOLEAN]
  /\ aborted \in [Host -> BOOLEAN]

\* Under the invariant both connections are well-formed.
LEMMA IInvConn ==
  ASSUME IInv
  PROVE  /\ \A h \in Host : ConnOK(conn[h])
         /\ RestTypeOK
BY DEF IInv, TypeOK, ConnOK, RestTypeOK

\* A step of both parts keeps the invariant.
LEMMA StepKeepsIInv ==
  ASSUME ConnStep, RestTypeOK'
  PROVE  IInv'
BY DEF ConnStep, CallOK, ConnOK, IInv, TypeOK, RestTypeOK

\* A step that leaves the table alone.
LEMMA ConnUnchanged ==
  ASSUME IInv, UNCHANGED conn
  PROVE  ConnStep
<1>1. conn \in [Host -> Conn] /\ \A h \in Host : conn[h].tun = <<>>
  BY DEF IInv, TypeOK
<1>2. \A h \in Host : CallOK(conn[h], conn[h])
  BY IInvConn, StaysOK
<1> QED
  BY <1>1, <1>2 DEF ConnStep

\* Emptying the TUN device onto the network disturbs nothing.
LEMMA EmptyTunOK ==
  ASSUME NEW c, NEW d, CallOK(c, d)
  PROVE  LET e == [d EXCEPT !.tun = <<>>]
         IN  e \in Conn /\ CallOK(c, e) /\ e.tun = <<>>
<1> DEFINE e == [d EXCEPT !.tun = <<>>]
<1>1. ConnOK(d) /\ d \in Conn
  BY DEF CallOK, ConnOK
<1>2. e \in Conn /\ SameReceived(d, e) /\ SameControl(d, e) /\ e.tun = <<>>
  <2>1. <<>> \in Seq(Segment)
    OBVIOUS
  <2> QED
    BY <1>1, <2>1, Zenon DEF Conn, SameReceived, SameControl
<1> HIDE DEF e
<1>3. ConnOK(e)
  BY <1>1, <1>2 DEF ConnOK, SameReceived
<1>4. GrowsWithinCap(c, e)
  BY <1>2, GrowthThenSame DEF CallOK
<1>5. FinDrained(c, e)
  BY <1>2 DEF CallOK, FinDrained, SameControl
<1> QED
  BY <1>2, <1>3, <1>4, <1>5 DEF CallOK, e

\* The peer of a host is a host.
LEMMA PeerType == \A h \in Host : Peer(h) \in Host
BY DEF Peer, Host

\* Put stores a connection a call produced and sends what it wrote.
LEMMA PutOK ==
  ASSUME IInv, NEW h \in Host, NEW c, CallOK(conn[h], c),
         NEW w \in [Host -> Seq(Segment)], Put(h, c, w)
  PROVE  ConnStep /\ wire' \in [Host -> Seq(Segment)]
<1> DEFINE e == [c EXCEPT !.tun = <<>>]
<1>1. e \in Conn /\ CallOK(conn[h], e) /\ e.tun = <<>>
  BY EmptyTunOK
<1>2. conn' = [conn EXCEPT ![h] = e] /\ wire' = [w EXCEPT ![Peer(h)] = @ \o c.tun]
  BY DEF Put
<1> HIDE DEF e
<1>3. conn \in [Host -> Conn] /\ \A g \in Host : conn[g].tun = <<>>
  BY DEF IInv, TypeOK
<1>4. \A g \in Host : CallOK(conn[g], conn[g])
  BY IInvConn, StaysOK
<1>5. ConnStep
  BY <1>1, <1>2, <1>3, <1>4 DEF ConnStep
<1>6. c.tun \in Seq(Segment)
  BY DEF CallOK, ConnOK, Conn
<1>7. wire' \in [Host -> Seq(Segment)]
  BY <1>2, <1>6, PeerType
<1> QED
  BY <1>5, <1>7

\* Taking a segment off the network leaves segments.
LEMMA WithoutType ==
  ASSUME NEW S, NEW s \in Seq(S), NEW i \in DOMAIN s
  PROVE  Without(s, i) \in Seq(S) /\ s[i] \in S
<1>1. i \in Nat /\ i >= 1 /\ i <= Len(s) /\ Len(s) \in Nat
  OBVIOUS
<1>2. SubSeq(s, 1, i - 1) \in Seq(S)
  BY <1>1, SubSeqType
<1>3. SubSeq(s, i + 1, Len(s)) \in Seq(S)
  BY <1>1, SubSeqType
<1> QED
  BY <1>2, <1>3 DEF Without

----------------------------------------------------------------------------
(* One lemma per action *)

\* The invariant holds before the first call.
LEMMA InitOK == Init => IInv
<1>1. SUFFICES ASSUME Init PROVE IInv
  OBVIOUS
<1> DEFINE gone == [new EXCEPT !.state = "GONE"]
<1>2. gone \in Conn /\ gone.ooo_buffer = {} /\ gone.tun = <<>>
  BY NewType, Zenon DEF Conn, TcpState
<1>3. conn = [h \in Host |-> gone]
  BY <1>1 DEF Init
<1> HIDE DEF gone
<1>4. /\ conn \in [Host -> Conn]
      /\ \A h \in Host : conn[h].ooo_buffer = {} /\ conn[h].tun = <<>>
  BY <1>2, <1>3
<1>5. RestTypeOK
  <2>1. <<>> \in Seq(Segment) /\ <<>> \in Seq(Byte)
    OBVIOUS
  <2> QED
    BY <1>1, <2>1, PairAssumption DEF Init, RestTypeOK
<1> QED
  BY <1>4, <1>5, EmptyOoo, Zenon DEF IInv, TypeOK, RestTypeOK

\* A lost or duplicated segment disturbs no connection.
LEMMA LoseOK ==
  ASSUME IInv, NEW h \in Host, Lose(h) \/ Duplicate(h)
  PROVE  ConnStep /\ RestTypeOK'
<1>1. wire \in [Host -> Seq(Segment)] /\ RestTypeOK
  BY IInvConn DEF RestTypeOK
<1>2. PICK i \in DOMAIN wire[h] : \/ wire' = [wire EXCEPT ![h] = Without(@, i)]
                                  \/ wire' = [wire EXCEPT ![h] = Append(@, @[i])]
  BY DEF Lose, Duplicate
<1>3. Without(wire[h], i) \in Seq(Segment) /\ wire[h][i] \in Segment
  BY <1>1, WithoutType
<1>4. Append(wire[h], wire[h][i]) \in Seq(Segment)
  BY <1>1, <1>3
<1>5. wire' \in [Host -> Seq(Segment)]
  BY <1>1, <1>2, <1>3, <1>4, Zenon
<1>6. UNCHANGED <<conn, accept_queue, sock, iss_pool, sent, read, eof, aborted>>
  BY DEF Lose, Duplicate
<1>7. faults' \in 0 .. MaxFaults
  <2>1. faults \in 0 .. MaxFaults
    BY <1>1 DEF RestTypeOK
  <2>2. faults < MaxFaults /\ faults' = faults + 1
    BY DEF Lose, Duplicate, Fault
  <2> QED
    BY <2>1, <2>2, PairAssumption
<1>8. RestTypeOK'
  BY <1>1, <1>5, <1>6, <1>7 DEF RestTypeOK
<1> QED
  BY <1>6, <1>8, ConnUnchanged

\* handle_segment: for an existing connection, a listener, or neither.
LEMMA HandleSegmentOK ==
  ASSUME IInv, NEW h \in Host, handle_segment(h)
  PROVE  ConnStep /\ RestTypeOK'
<1>1. RestTypeOK /\ wire \in [Host -> Seq(Segment)] /\ ConnOK(conn[h])
  BY IInvConn DEF RestTypeOK
<1> DEFINE W(i) == [wire EXCEPT ![h] = Without(@, i)]
<1>2. PICK i \in DOMAIN wire[h] :
        /\ IF i = 1 THEN UNCHANGED faults ELSE Fault("reorder")
        /\ \/ Existing(h, wire[h][i], W(i))
           \/ Passive(h, wire[h][i], W(i))
           \/ send_rst_for_unknown(h, wire[h][i], W(i))
  BY DEF handle_segment
<1>3. PICK seg : seg = wire[h][i]
  OBVIOUS
<1>4. PICK w : w = W(i)
  BY Zenon
<1>5. seg \in Segment /\ w \in [Host -> Seq(Segment)]
  BY <1>1, <1>3, <1>4, WithoutType
<1>6. sock' = sock /\ faults' \in 0 .. MaxFaults
  <2>1. sock' = sock
    BY DEF handle_segment
  <2>2. faults \in 0 .. MaxFaults
    BY <1>1 DEF RestTypeOK
  <2> QED
    BY <1>2, <2>1, <2>2, PairAssumption DEF Fault
<1>7. CASE Existing(h, seg, w)
  <2> DEFINE c == cleanup(process_segment(conn[h], seg))
  <2>1. CallOK(conn[h], c)
    BY <1>1, <1>5, ProcessSegmentOK, CleanupOK
  <2>2. Put(h, c, w)
    BY <1>7 DEF Existing
  <2> HIDE DEF c
  <2>3. ConnStep /\ wire' \in [Host -> Seq(Segment)]
    BY <1>5, <2>1, <2>2, PutOK
  <2>4. accept_queue' \in [Host -> Nat]
    BY <1>1, <1>7 DEF Existing, RestTypeOK
  <2>5. aborted' \in [Host -> BOOLEAN]
    BY <1>1, <1>7 DEF Existing, RestTypeOK
  <2>6. UNCHANGED <<iss_pool, sent, read, eof>>
    BY <1>7 DEF Existing
  <2>7. RestTypeOK'
    BY <1>1, <1>6, <2>3, <2>4, <2>5, <2>6 DEF RestTypeOK
  <2> QED
    BY <2>3, <2>7
<1>8. CASE Passive(h, seg, w)
  <2>1. PICK iss \in iss_pool[h] : /\ Put(h, PassiveOpen(seg, iss), w)
                                   /\ iss_pool' = [iss_pool EXCEPT ![h] = @ \ {iss}]
    BY <1>8, Zenon DEF Passive
  <2>2. iss \in SeqNum /\ iss_pool' \in [Host -> SUBSET SeqNum]
    BY <1>1, <2>1 DEF RestTypeOK
  <2>3. CallOK(conn[h], PassiveOpen(seg, iss))
    BY <1>1, <1>5, <2>2, PassiveOpenOK
  <2>4. ConnStep /\ wire' \in [Host -> Seq(Segment)]
    BY <1>5, <2>1, <2>3, PutOK
  <2>5. /\ sent' \in [Host -> Nat] /\ read' \in [Host -> Seq(Byte)]
        /\ eof' \in [Host -> BOOLEAN] /\ aborted' \in [Host -> BOOLEAN]
        /\ accept_queue' = accept_queue
    BY <1>1, <1>8 DEF Passive, RestTypeOK
  <2>6. RestTypeOK'
    BY <1>1, <1>6, <2>2, <2>4, <2>5 DEF RestTypeOK
  <2> QED
    BY <2>4, <2>6
<1>9. CASE send_rst_for_unknown(h, seg, w)
  <2>1. RstFor(seg) \in Segment
    BY <1>5, RstForType
  <2>2. wire' \in [Host -> Seq(Segment)]
    <3> DEFINE out == IF "RST" \in seg.flags THEN <<>> ELSE <<RstFor(seg)>>
    <3>1. out \in Seq(Segment)
      BY <2>1
    <3>2. wire' = [w EXCEPT ![Peer(h)] = @ \o out]
      BY <1>9 DEF send_rst_for_unknown
    <3> HIDE DEF out
    <3> QED
      BY <1>5, <3>1, <3>2, PeerType
  <2>3. UNCHANGED <<conn, accept_queue, iss_pool, sent, read, eof, aborted>>
    BY <1>9 DEF send_rst_for_unknown
  <2>4. RestTypeOK'
    BY <1>1, <1>6, <2>2, <2>3 DEF RestTypeOK
  <2> QED
    BY <2>3, <2>4, ConnUnchanged
<1> QED
  BY <1>2, <1>3, <1>4, <1>7, <1>8, <1>9

\* tick at one host.
LEMMA TickOK ==
  ASSUME IInv, NEW h \in Host, NEW due, tick(h, due)
  PROVE  ConnStep /\ RestTypeOK'
<1>1. RestTypeOK /\ wire \in [Host -> Seq(Segment)] /\ ConnOK(conn[h])
  BY IInvConn DEF RestTypeOK
<1>2. ConnStep /\ wire' \in [Host -> Seq(Segment)]
  <2>1. CASE Live(h)
    <3> DEFINE c == cleanup(TickConn(conn[h], due))
    <3>1. due \in SUBSET Armed(conn[h])
      BY DEF tick
    <3>2. CallOK(conn[h], c)
      BY <1>1, <3>1, TickConnOK, CleanupOK
    <3>3. Put(h, c, wire)
      BY <2>1 DEF tick
    <3> HIDE DEF c
    <3> QED
      BY <1>1, <3>2, <3>3, PutOK
  <2>2. CASE ~ Live(h)
    BY <1>1, <2>2, ConnUnchanged DEF tick
  <2> QED
    BY <2>1, <2>2
<1>3. aborted' \in [Host -> BOOLEAN]
  BY <1>1 DEF tick, RestTypeOK
<1>4. UNCHANGED <<accept_queue, sock, faults, iss_pool, sent, read, eof>>
  BY DEF tick
<1> QED
  BY <1>1, <1>2, <1>3, <1>4 DEF RestTypeOK

\* Whatever options a socket has set, the connection stays well-formed.
LEMMA WithOptionsOK ==
  ASSUME NEW c, NEW d, ConnOK(c), CallOK(c, d),
         OooBytes(d.ooo_buffer) <= OooBytes(c.ooo_buffer), NEW e \in WithOptions(d)
  PROVE  CallOK(c, e)
<1>1. PICK r \in RcvBufs \cup {d.recv_buffer_cap}, s \in SndBufs \cup {d.send_pending_cap} :
        e = set_send_cap(set_recv_cap(d, r), s)
  BY DEF WithOptions
<1>2. d.recv_buffer_cap \in SeqNum /\ d.send_pending_cap \in Nat
  BY DEF CallOK, ConnOK, Conn
<1>3. r \in SeqNum /\ s \in Nat
  BY <1>2, PairAssumption
<1> QED
  BY <1>1, <1>3, SetCapsOK

\* Stack::connect, with the socket's options applied behind the SYN.
LEMMA ConnectStepOK ==
  ASSUME IInv, Connect
  PROVE  ConnStep /\ RestTypeOK'
<1>1. /\ RestTypeOK /\ wire \in [Host -> Seq(Segment)] /\ Client \in Host
      /\ ConnOK(conn[Client])
  BY IInvConn DEF RestTypeOK, Host
<1>2. PICK iss \in iss_pool[Client] : \E c \in WithOptions(connect(iss)) :
        /\ Put(Client, c, wire)
        /\ iss_pool' = [iss_pool EXCEPT ![Client] = @ \ {iss}]
  BY Zenon DEF Connect
<1>3. PICK c \in WithOptions(connect(iss)) :
        /\ Put(Client, c, wire)
        /\ iss_pool' = [iss_pool EXCEPT ![Client] = @ \ {iss}]
  BY <1>2
<1>4. iss \in SeqNum /\ iss_pool' \in [Host -> SUBSET SeqNum]
  BY <1>1, <1>3 DEF RestTypeOK
<1>5. CallOK(conn[Client], connect(iss))
  BY <1>1, <1>4, ConnectOK
<1>6. OooBytes(connect(iss).ooo_buffer) <= OooBytes(conn[Client].ooo_buffer)
  <2>1. connect(iss).ooo_buffer = {}
    BY DEF connect, queue_and_send, send_segment, new
  <2>2. OooBytes(conn[Client].ooo_buffer) \in Nat
    BY <1>1, OooFinite DEF ConnOK, Conn
  <2> QED
    BY <2>1, <2>2, EmptyOoo
<1>7. CallOK(conn[Client], c)
  BY <1>1, <1>3, <1>5, <1>6, WithOptionsOK
<1>8. ConnStep /\ wire' \in [Host -> Seq(Segment)]
  BY <1>1, <1>3, <1>7, PutOK
<1>9. /\ sock' \in [Host -> {"none", "open", "closed"}]
      /\ UNCHANGED <<accept_queue, faults, sent, read, eof, aborted>>
  BY <1>1 DEF Connect, RestTypeOK
<1> QED
  BY <1>1, <1>4, <1>8, <1>9 DEF RestTypeOK

\* Options set on the connection the table holds for h.
LEMMA OptionsStepOK ==
  ASSUME IInv, NEW h \in Host, NEW c \in WithOptions(conn[h]), Put(h, c, wire)
  PROVE  ConnStep /\ wire' \in [Host -> Seq(Segment)]
<1>1. ConnOK(conn[h]) /\ wire \in [Host -> Seq(Segment)]
  BY IInvConn DEF RestTypeOK
<1>2. CallOK(conn[h], conn[h])
  BY <1>1, StaysOK
<1>3. OooBytes(conn[h].ooo_buffer) \in Nat
  BY <1>1, OooFinite DEF ConnOK, Conn
<1>4. CallOK(conn[h], c)
  BY <1>1, <1>2, <1>3, WithOptionsOK
<1> QED
  BY <1>1, <1>4, PutOK

\* Stack::accept, also of a connection that is gone.
LEMMA AcceptOK ==
  ASSUME IInv, Accept
  PROVE  ConnStep /\ RestTypeOK'
<1>1. RestTypeOK /\ wire \in [Host -> Seq(Segment)] /\ Server \in Host
  BY IInvConn DEF RestTypeOK, Host
<1>2. ConnStep /\ wire' \in [Host -> Seq(Segment)]
  <2>1. CASE Live(Server)
    <3>1. PICK c \in WithOptions(conn[Server]) : Put(Server, c, wire)
      BY <2>1 DEF Accept
    <3> QED
      BY <1>1, <3>1, OptionsStepOK
  <2>2. CASE ~ Live(Server)
    BY <1>1, <2>2, ConnUnchanged DEF Accept
  <2> QED
    BY <2>1, <2>2
<1>3. /\ sock' \in [Host -> {"none", "open", "closed"}]
      /\ accept_queue' \in [Host -> Nat]
      /\ UNCHANGED <<faults, iss_pool, sent, read, eof, aborted>>
  BY <1>1 DEF Accept, RestTypeOK
<1> QED
  BY <1>1, <1>2, <1>3 DEF RestTypeOK

\* setsockopt on a connected socket.
LEMMA SetsockoptOK ==
  ASSUME IInv, NEW h \in Host, setsockopt(h)
  PROVE  ConnStep /\ RestTypeOK'
<1>1. PICK c \in WithOptions(conn[h]) : Put(h, c, wire)
  BY DEF setsockopt
<1>2. ConnStep /\ wire' \in [Host -> Seq(Segment)]
  BY <1>1, OptionsStepOK
<1>3. UNCHANGED <<accept_queue, sock, faults, iss_pool, sent, read, eof, aborted>>
  BY DEF setsockopt
<1> QED
  BY <1>2, <1>3, IInvConn DEF RestTypeOK

\* Stack::send.
LEMMA SendStepOK ==
  ASSUME IInv, NEW h \in Host, NEW n \in SendSizes, Send(h, n)
  PROVE  ConnStep /\ RestTypeOK'
<1> DEFINE data == [i \in 1 .. n |-> sent[h] + i]
<1>1. /\ RestTypeOK /\ wire \in [Host -> Seq(Segment)] /\ ConnOK(conn[h])
      /\ sent \in [Host -> Nat] /\ sent[h] \in Nat /\ n \in Nat
  BY IInvConn, PairAssumption DEF RestTypeOK
<1>2. data \in Seq(Byte)
  BY <1>1 DEF Byte
<1>3. Put(h, send(conn[h], data), wire)
  BY DEF Send
<1> HIDE DEF data
<1>4. ConnStep /\ wire' \in [Host -> Seq(Segment)]
  BY <1>1, <1>2, <1>3, SendOK, PutOK
<1>5. sent' \in [Host -> Nat]
  <2>1. Accepted(conn[h], n) \in 0 .. n
    BY <1>1, AcceptedType
  <2>2. sent' = [sent EXCEPT ![h] = @ + Accepted(conn[h], n)]
    BY DEF Send
  <2> QED
    BY <1>1, <2>1, <2>2
<1>6. UNCHANGED <<accept_queue, sock, faults, iss_pool, read, eof, aborted>>
  BY DEF Send
<1> QED
  BY <1>1, <1>4, <1>5, <1>6 DEF RestTypeOK

\* Stack::recv with data.
LEMMA RecvStepOK ==
  ASSUME IInv, NEW h \in Host, NEW n \in RecvSizes, Recv(h, n)
  PROVE  ConnStep /\ RestTypeOK'
<1> DEFINE l == Len(conn[h].recv_buffer)
           m == MinOf(n, l)
           out == SubSeq(conn[h].recv_buffer, 1, m)
<1>1. /\ RestTypeOK /\ wire \in [Host -> Seq(Segment)] /\ ConnOK(conn[h])
      /\ read \in [Host -> Seq(Byte)] /\ n \in Nat
  BY IInvConn, PairAssumption DEF RestTypeOK
<1>2. ConnStep /\ wire' \in [Host -> Seq(Segment)]
  BY <1>1, RecvOK, PutOK, Zenon DEF Recv
<1>3. read' = [read EXCEPT ![h] = @ \o out]
  BY DEF Recv
<1>4. conn[h].recv_buffer \in Seq(Byte) /\ l \in Nat
  BY <1>1 DEF ConnOK, Conn
<1>5. m \in Nat /\ m <= l
  BY <1>1, <1>4 DEF MinOf
<1> HIDE DEF m
<1>6. out \in Seq(Byte)
  BY <1>4, <1>5, SubSeqType
<1> HIDE DEF out
<1>7. read' \in [Host -> Seq(Byte)]
  BY <1>1, <1>3, <1>6
<1>8. UNCHANGED <<accept_queue, sock, faults, iss_pool, sent, eof, aborted>>
  BY DEF Recv
<1> QED
  BY <1>1, <1>2, <1>7, <1>8 DEF RestTypeOK

\* Stack::recv at the end of the stream.
LEMMA RecvEofOK ==
  ASSUME IInv, NEW h \in Host, RecvEof(h)
  PROVE  ConnStep /\ RestTypeOK'
<1>1. ConnStep
  BY ConnUnchanged DEF RecvEof
<1> QED
  BY <1>1, IInvConn DEF RecvEof, RestTypeOK

\* Stack::close, also of a connection that is gone.
LEMMA CloseStepOK ==
  ASSUME IInv, NEW h \in Host, Close(h)
  PROVE  ConnStep /\ RestTypeOK'
<1>1. RestTypeOK /\ wire \in [Host -> Seq(Segment)] /\ ConnOK(conn[h])
  BY IInvConn DEF RestTypeOK
<1>2. ConnStep /\ wire' \in [Host -> Seq(Segment)]
  <2>1. CASE Live(h)
    BY <1>1, <2>1, CloseOK, PutOK DEF Close
  <2>2. CASE ~ Live(h)
    BY <1>1, <2>2, ConnUnchanged DEF Close
  <2> QED
    BY <2>1, <2>2
<1>3. /\ sock' \in [Host -> {"none", "open", "closed"}]
      /\ aborted' \in [Host -> BOOLEAN]
      /\ UNCHANGED <<accept_queue, faults, iss_pool, sent, read, eof>>
  BY <1>1 DEF Close, RestTypeOK
<1> QED
  BY <1>1, <1>2, <1>3 DEF RestTypeOK

----------------------------------------------------------------------------
(* The theorems *)

\* Every step of the pair.
LEMMA NextOK ==
  ASSUME IInv, Next
  PROVE  ConnStep /\ RestTypeOK'
<1>1. CASE Connect
  BY <1>1, ConnectStepOK
<1>2. CASE Accept
  BY <1>2, AcceptOK
<1>3. ASSUME NEW h \in Host, handle_segment(h) PROVE ConnStep /\ RestTypeOK'
  BY <1>3, HandleSegmentOK
<1>4. ASSUME NEW h \in Host, NEW due, tick(h, due) PROVE ConnStep /\ RestTypeOK'
  BY <1>4, TickOK
<1>5. ASSUME NEW h \in Host, NEW n \in SendSizes, Send(h, n) PROVE ConnStep /\ RestTypeOK'
  BY <1>5, SendStepOK
<1>6. ASSUME NEW h \in Host, NEW n \in RecvSizes, Recv(h, n) PROVE ConnStep /\ RestTypeOK'
  BY <1>6, RecvStepOK
<1>7. ASSUME NEW h \in Host, RecvEof(h) \/ setsockopt(h) PROVE ConnStep /\ RestTypeOK'
  BY <1>7, RecvEofOK, SetsockoptOK
<1>8. ASSUME NEW h \in Host, Close(h) PROVE ConnStep /\ RestTypeOK'
  BY <1>8, CloseStepOK
<1>9. ASSUME NEW h \in Host, Lose(h) \/ Duplicate(h) PROVE ConnStep /\ RestTypeOK'
  BY <1>9, LoseOK
<1> QED
  BY <1>1, <1>2, <1>3, <1>4, <1>5, <1>6, <1>7, <1>8, <1>9 DEF Next

\* The invariant is inductive.
LEMMA Inductive == IInv /\ [Next]_vars => IInv'
<1>1. SUFFICES ASSUME IInv, [Next]_vars PROVE IInv'
  OBVIOUS
<1>2. CASE Next
  BY <1>1, <1>2, NextOK, StepKeepsIInv
<1>3. CASE UNCHANGED vars
  BY <1>1, <1>3 DEF IInv, TypeOK, vars
<1> QED
  BY <1>1, <1>2, <1>3

\* The invariant holds in every reachable state.
LEMMA InvariantHolds == Spec => []IInv
BY InitOK, Inductive, PTL DEF Spec

\* Every value stays in its type: sequence numbers in their 32-bit space, windows
\* in the 16-bit field, buffers finite, and no segment is left unsent in the TUN
\* device after a call.
THEOREM TypeCorrect == Spec => []TypeOK
<1>1. IInv => TypeOK
  BY DEF IInv
<1> QED
  BY <1>1, InvariantHolds, PTL

\* A stored out-of-order segment leaves the receive memory at or below the cap in
\* force, for any traffic and any setsockopt in between.
THEOREM OooGrowthBounded == Spec => OooGrowsWithinCap
<1> DEFINE A == \A h \in Host :
                  OooBytes(conn'[h].ooo_buffer) > OooBytes(conn[h].ooo_buffer)
                    => buffered_bytes(conn'[h]) <= conn'[h].recv_buffer_cap
<1>1. IInv /\ [Next]_vars => [A]_vars
  <2>1. SUFFICES ASSUME IInv, Next PROVE A
    OBVIOUS
  <2>2. \A h \in Host : GrowsWithinCap(conn[h], conn'[h])
    BY <2>1, NextOK DEF ConnStep, CallOK
  <2> QED
    BY <2>2 DEF GrowsWithinCap
<1> QED
  BY <1>1, InvariantHolds, PTL DEF Spec, OooGrowsWithinCap

=============================================================================
