# MiniTCP in TLA+

A verification project for MiniTCP, the user-space TCP/IP stack in `src/`. It
models the stack in TLA+, from one TCP connection up to the sockets over both
tables, model-checks it with TLC on small instances, and proves type correctness
and six of the safety properties with TLAPS for every value of the constants.

## 1. The system

MiniTCP reads IP packets from a TUN device and answers them. One thread owns
everything: there are no locks and no asynchronous callbacks. What makes it hard
is the other host, the network between the two, and the timers.

| Part | Source | State | Operations |
|---|---|---|---|
| TCP connection | `src/tcp.rs` `TcpConnection` | state, `snd_una`, `snd_nxt`, `snd_wnd`, `rcv_nxt`, `recv_buffer`, `ooo_buffer`, `send_pending`, `retransmit_queue`, persist timer, TIME_WAIT timer, `pending_close`, caps | `send_segment`, `queue_and_send`, `remove_acked`, `process_ack`, `flush_send`, `receive_data_and_maybe_fin`, `process_segment` |
| TCP table | `src/tcp.rs` `TcpTable` | `connections`, `listeners`, accept queues, next ephemeral port | `handle_segment`, `tick`, `cleanup_closed_connections`, `listen`, `accept`, `connect`, `send`, `recv`, `close`, `set_recv_cap`, `set_send_cap` |
| Socket API | `src/stack.rs` `Stack` | sockets by id, their kind and options | `socket`, `bind`, `listen`, `accept`, `connect`, `send`, `recv`, `close`, `sendto`, `recvfrom`, `setsockopt`, `getsockopt` |
| Event loop | `src/stack.rs` `pump_once`, `dispatch_ip_packet` | none | read one packet or wait, dispatch by protocol, `tick` |
| UDP | `src/udp.rs` | bindings by address and port, each a datagram queue with a byte cap | `bind`, `unbind`, `deliver`, `handle_datagram` (with the echo fallback), `send_datagram`, `recv`, `set_recv_cap` |
| IP, ICMP, checksum | `src/ip.rs`, `src/icmp.rs` | none | build, parse, `checksum16`, echo reply |
| TUN device | `src/tun.rs` | a file descriptor | system calls |
| Programs | `src/bin/*` | none of the stack's | clients of the socket API |

How they interact: every blocking socket call pumps the event loop until it can
go through; the loop feeds segments to `TcpTable::handle_segment`, which finds or
opens a connection, runs `process_segment`, and reaps what is CLOSED; `tick` runs
at least every 200 ms and fires retransmissions, persist probes and the end of
TIME_WAIT. Segments leave at once, through the TUN device.

The hard behaviours are listed under `hazards` in `PROJECT.json`, each at its
line: loss, duplication and overtaking; timers that fire while the answer is on
its way; closes that cross; a FIN that has to wait for a shut window; a window
that only persist probes reopen; caps lowered while data is in flight; a late SYN
that opens a second connection; a reset that takes unread data with it; keys that
outlive the connection they name, in sockets and in accept queues; port counters
that wrap onto ports in use; packets longer than the buffer they are read into;
16-bit lengths that overflow. Where the code itself does what a hazard describes and
nothing in the repository says otherwise, the hazard has a note in place of a
property.

## 2. Modules

| Module | Models | Checked by |
|---|---|---|
| `TcpConnection` | the control block and every function of `src/tcp.rs` that works on one connection | through `TcpPair` |
| `TcpPair` | two hosts, each a table with one connection and one socket, joined by a faulty network | nine runs |
| `ByteStream` | the abstract promise of a connection: two byte streams | refined by `TcpPair` in run `stream` |
| `Ports` | port numbers and the step of both ephemeral counters | through `Stack` |
| `TcpTable` | the connections of a host by key, listening ports, accept queues, ephemeral ports | through `Stack` |
| `UdpTable` | bindings, datagram queues and their cap, the echo of unclaimed datagrams, packet lengths, ICMP echo, a peer that echoes too | through `Stack` |
| `Stack` | sockets over both tables, and the event loop that feeds them | runs `sockets`, `accept` |
| `Checksum` | `checksum16`, from the sender's field to the receiver's verdict | run `round_trip` |
| `MCTcpPair`, `MCStack`, `MCChecksum` | small instances for TLC; `MCChecksum` has the reference definition of the checksum | |
| `TcpConnectionProofs` | what each function of `TcpConnection` preserves | TLAPS |
| `TcpPairProofs` | the invariant and the theorems about `TcpPair` | TLAPS |
| `TcpTableProofs`, `UdpTableProofs` | what each operation of the two tables preserves | TLAPS |
| `StackProofs` | types and packet lengths of `Stack` | TLAPS |
| `StackUdpProofs`, `StackReachProofs`, `StackPortProofs` | the theorems about datagram queues and bound ports, about reachable connections, about the port counter | TLAPS |

### TcpConnection

An operator per function of the code, with the code's name where TLA+ allows it.
Each takes a connection record and returns the updated record. The segments a
call writes are collected in the field `tun`; `Put` in `TcpPair` empties it onto
the network at the end of every call, so a call and all it sends are one step, as
they are in the single-threaded program.

- `process_segment` is one operator per arm of its `match` (`InSynSent`,
  `InSynRcvd`, ..., `InTimeWait`), trailing `flush_send` included.
- `flush_send` is `ArmProbe`, then `SendWindow` (the `while` loop in closed form:
  all the chunks of at most MSS bytes the window has room for), then
  `SendDeferredFin`.
- The splice loop of `receive_data_and_maybe_fin` is `SpliceRun`: the entries that
  follow each other without a gap from the new `rcv_nxt` on.
- Comparisons of sequence numbers are the plain ones of the code, not modulo
  2^32; additions and subtractions wrap.
- A byte is its position in the sender's stream, so that delivery can be stated.
  A persist probe's byte is 0 and belongs to no stream.
- Deadlines are not numbers. `Armed` says which timers have a deadline, and `tick`
  takes as parameter the set of those that have run out. Backoff shows only as
  the retry count, on which giving up depends.
- PSH and URG are left out: nothing reads them.

### TcpPair

`handle_segment(h)` and `tick(h, due)` are the two entry points of the table, as
`tests/retransmission.rs` drives them; reaping is the end of both. The socket calls
are those of `Stack` at the moment they go through: `Connect` (its options are
applied after the SYN is out, so that the SYN carries the default window), `Accept`
(the listener's options, and no look at whether the connection still lives),
`Send`, `Recv`, `RecvEof` (the return of 0), `Close`, `setsockopt`. An application
may call them in any order, `Send` included while the handshake is unfinished: when
`connect` runs into its 30 s limit the socket stays usable.

State beyond the table: `wire[h]`, the segments on their way to `h`; `faults`, how
many faults the network has made; the histories `sent`, `read`, `eof`, `aborted`.
A record whose state is `GONE` is no longer in the table; it is kept as history.

The network is external to `src/`. `handle_segment` takes the oldest segment, or a
later one as the fault `reorder`; `Lose` and `Duplicate` are the other two.

### ByteStream

Per direction a count of bytes handed over, the bytes that have arrived, and
whether the stream has ended. Bytes arrive in order and once, the end comes only
after all of them, and nothing is handed over or arrives after it. `TcpPair`
implements it under the mapping `got <- read \o recv_buffer`,
`ended <- the FIN is counted in rcv_nxt`, `linked <- each side has the other's ISS`.

### TcpTable

`connections` maps every key to a connection record of `TcpConnection`; a key the
map lacks has one in state `GONE`. What happens to one connection is the operator
of `TcpConnection`: `Existing` runs the whole `process_segment` and then reaps, `tick`
runs `TickConn` on all keys and then reaps. Only the remote hosts are left out: a
segment for a key is any combination of flags, in order, that acknowledges all or
nothing new (`SegmentsTo`). Connections carry no data here; with data and loss they
are the subject of `TcpPair`. `opened` and `dialled` count the inserts under a key
and the active opens.

### UdpTable

`binds` is the table, by port: every local endpoint has the one address the stack
was started with. A packet has an identity that survives being echoed, and the
length fields `send_datagram` computes. The code casts the UDP length to 16 bits
and sizes its buffer by it, then adds the IP header in 16 bits: `MustPanic` is the
copy into a buffer that is too small, `MayPanic` the addition that overflows (debug
builds panic, release builds wrap). A panic ends the process. No handler reads a
length field: what counts is how much of a packet `pump_once` read into its 2048
bytes (`ReadSize`, the constant `ReadBuf`), and a longer datagram is delivered or
echoed without its end. The network may lose packets; the peer sends new ones, and
echoes what it has read of a datagram, like a bare `minitcp`.

### Stack

One action per socket call, with the table operations it makes, at the moment the
call goes through: `Listen` and `Connect` take a socket of either kind, as the code
does; `Listen` marks the socket whether or not the port is refused,
`Accept` pops a key without a look at its connection, `Connect` inserts over what is
there, `Sendto` ignores a failed implicit bind, `Close` leaves a listening port in
LISTEN, and of a UDP socket releases only the port, never the connection `connect()`
gave it. `DispatchTcp`, `Dispatch` and `Tick` are `pump_once`. `program` is the
application: the calls it makes and the remote hosts it meets. `abandoned` and
`contested` record the keys a socket dropped without closing the connection and the
ports that two sockets laid claim to.

### Checksum

`checksum16` a word at a time, its fold loop a round at a time, once by the sender
over a buffer with a zero field and once by the receiver over what arrived.

## 3. Runs

Each run asks one question. The first nine are instances of `MCTcpPair`, `sockets`
and `accept` of `MCStack`, `round_trip` of `MCChecksum`.

| Run | Question | Properties | Result |
|---|---|---|---|
| `faults` | Do the stream, the acknowledgements, the retransmit queue and the out-of-order buffer stay right when any segment is lost, duplicated or overtaken and timers fire too early, also after a late SYN has opened a second connection? | `TypeOK`, `InOrderDelivery`, `AckedIsReceived`, `GracefulCloseDelivers`, `LateSynStaysHalfOpen`, `NoStaleOutOfOrder`, `QueueCoversInFlight`, `SequenceNeverRegresses` | hold |
| `stream` | Does the pair implement `ByteStream`, with caps lowered at any moment and `close()` called while bytes wait? | `ImplementsByteStream`, `FinAfterAllData`, `OooGrowsWithinCap` | hold |
| `progress` | Is every accepted byte read in the end, across a window that shuts, one loss and early timers? | `SentIsRead`, `RecvBufferBounded` | hold |
| `teardown` | Do all orders of the two closes with data both ways end with empty tables and nothing lost? | `TeardownEnds`, `GracefulCloseDelivers`, `NoAbortWithoutFaults` | hold |
| `stale_window` | Does receive memory stay under its cap under reordering? | `RecvBufferBounded` | refuted |
| `lost_handshake_ack` | Does a handshake survive the loss of its last segment? | `HandshakeCompletes` | refuted |
| `unread_close` | Does teardown end when an application closes without reading? | `TeardownEnds` | refuted |
| `eof` | Does `recv() == 0` mean the whole stream was read? | `CleanEof` | refuted |
| `lost_fin_ack` | Does a closing host get over the loss of the ACK of its FIN? | `FinIsReacked` | refuted |
| `sockets` | Do sockets, tables, queues and counters stay consistent when keys are reset and reused, ports contested, counters wrapped and datagrams echoed? | `TypeOK`, `HandedOutOnce`, `NoOrphan`, `BindsMatchSockets`, `NeverDuplicated`, `LengthsHonest`, `ReplacedOnlyAfterWrap`, `QueueGrowsWithinCap`, `HandshakeServed`, `EchoEnds` | hold |
| `accept` | Does `accept()` return a live connection no other socket has? | `AcceptsLiveUnheld` | refuted |
| `round_trip` | Is `checksum16` the one's complement sum, and does the receiver accept exactly what is unchanged? | `MatchesReference`, `VerdictRight`, `FoldsAtMostTwice` | hold |

### What the refuted ones show

Each states what a document or comment of the repository says; `findings` in
`PROJECT.json` quotes the line.

- `stale_window`: `process_ack` takes the window of every acknowledgement, an
  overtaken one included. The sender uses a window that was consumed already, and
  in-order data is taken in without a look at the cap. On a network that keeps
  the order the same property holds (run `progress`).
- `lost_handshake_ack`: in ESTABLISHED a repeated SYN,ACK is old and empty, and old
  empty segments are not answered. A client with nothing to send leaves the server
  to its retries, after which the server drops the connection. With data to send
  the first data segment completes the handshake.
- `unread_close`: after `close()` nothing drains the receive buffer. The window
  stays shut, persist probes have no limit, and both connections stay for ever, in
  FIN_WAIT_2 and CLOSE_WAIT.
- `eof`: a connection that was given up or reset is reaped with its receive buffer.
  `recv()` then returns 0 although acknowledged bytes were never handed out.
- `lost_fin_ack`: CLOSE_WAIT does not answer a repeated FIN, so one lost ACK makes
  the closing host run out of retries.
- `accept`: the key of a connection that is reset, or given up, before it was accepted
  stays in the accept queue. `accept()` returns a socket for it all the same, without
  a connection, or with the new connection the peer has opened from the same port,
  which is then accepted a second time. Live connections behind such a key are
  still handed out (`HandshakeServed`), and no connection is handed out more often than it was opened
  (`HandedOutOnce`).

### What some of the others leave open

- `NoOrphan`: a connection without a socket is one its application dropped, by
  `connect()` on a socket that had one or by `close()` of a UDP socket that had one.
  A connection in the accept queue of a port whose listening socket is closed counts
  as reachable: `listen()` on that port and `accept()` still get it.
- `HandshakeServed` is about ports with an open listening socket, and ends where the
  sockets of the model do (`MaxSockets`).
- `BindsMatchSockets` sets aside a port two sockets came to claim. There the code
  does leak bindings, or release one that another socket uses.
- `LengthsHonest`: a total length below the header's own is what a payload of 65508
  to 65527 bytes gets in a release build. No packet has such a length, so a receiver
  that looks at it can tell; this stack's own receiver does not look.
- `EchoEnds`: two stacks echo a datagram for a port neither has bound without end.
  That is the only kind of packet that stays on the wire.
- `InOrderDelivery`, `AckedIsReceived` and `GracefulCloseDelivers` speak of two records
  that are paired with each other, and nothing while a late SYN has opened a second
  connection; that one gets no further than SYN_RCVD (`LateSynStaysHalfOpen`).

### Bounds, and why they are enough

- One connection, at most three bytes a direction, MSS 1 or 2: two or three data
  segments, enough for one to be overtaken, to be spliced and to be partly
  acknowledged. `RecvCap` 2 or 3 makes the window shut.
- `MaxFaults` 1, at any segment of the whole life. Early timers add duplicates of
  their own without taking a fault.
- `MaxRetries` 1 (3 in some refuting runs, so that giving up is not the point): a
  segment is retransmitted and given up within the run.
- `MaxWire`: a timer fires only while fewer segments than this are in flight.
  Without it timers could fill the network for ever. `PromptNetwork` restricts
  timers to an idle network where the question is not about early timers.
- `SeqSpace` 64. The code compares sequence numbers without regard to the wrap
  (`docs/protocol_notes.md` names this as a limitation). In `stream` one of the two
  initial numbers of the client is 62, so that its stream passes the wrap: what was
  delivered stays right and the FIN stays behind the data. Progress is lost there,
  and the runs about progress and acknowledgements keep clear of the wrap. With
  `SeqSpace = 8` and an initial number of 4 `NoAbortWithoutFaults` fails, as one
  expects.
- `ServerIss` has two values in `faults`, so that a duplicate SYN can open a second
  connection. `generate_iss` is taken never to draw the same value twice.

- `sockets`: two ports and three dials, so that the ephemeral counter starts on the
  port nobody listens on, runs into the listening one and comes round; two
  connections under a key, so that one is reset and its key reused while a socket
  or a queue still has it; three sockets (a listener and two it accepts, or two UDP
  sockets that contest a port); two packets; lengths of 16 values with headers of 3
  and 5 bytes and a read buffer of 12, and payloads on both sides of the buffer and
  of each overflow.
- The application of `sockets` is one of nine. All but one meet one remote host; the
  one that only listens and accepts meets two, so that a live connection waits behind
  the key of a dead one. All calls at once are beyond reach, and most TCP and UDP
  calls meet only in socket ids; two applications `connect()` and `listen()` with UDP
  sockets. Each set has the calls that touch the same state; `accept()`, `close()`
  and the options appear with each of the calls they can disturb. The theorems of
  section 4 hold for all calls together.
- `round_trip`: every buffer of 4 to 7 bytes of 4 values, even and odd, with the
  field in the second word, and every single changed byte. Sums of up to four words
  carry more than once.

Deadlock is checked in every run: a pair that has come to rest still ticks, so does
a stack, and a process that has panicked has an action of its own.

### Fairness

`FairSpec` assumes what the event loop gives. `pump_once` reads a packet that is
there, so a segment in flight is read or lost (`Reads(h)`, weak fairness of
`handle_segment(h)` with ENABLED written out). It ends in `tick`, and every blocking
call pumps, so `tick` runs again and again, and a deadline that keeps coming due is
acted on (`SF` of `tick(h, Armed(conn[h]))`: strong, because segments in flight can
hold a timer back under `MaxWire` or `PromptNetwork`). The
assumption is that each host goes on pumping, as `src/bin/minitcp.rs` does for
ever; a program that makes no further socket call after `close()` has returned
freezes its stack, and no liveness is claimed for it. Applications take what
`accept()` and `recv()` offer. Nothing obliges an application to send or close.

`FairSpec` of `Stack`: an application that listens goes on calling `accept()`, which
pumps until a key is there (weak fairness of `Accept(id)`), a packet that has
arrived is read (`Dispatch(id)`), and one on its way to the peer gets there unless it
is lost (`Arrives(id)`). `Checksum` needs no fairness: its only loop that counts nothing
down, the fold, is bounded by `FoldsAtMostTwice`.

## 4. Proofs

### Two hosts and one connection

`TcpPairProofs` proves, for every value of the constants that satisfies
`ConnectionAssumption` and `PairAssumption` (any sequence space, MSS, windows, caps
and retry limit, any number of bytes and faults):

| Theorem | Statement | Also checked by |
|---|---|---|
| `TypeCorrect` | `Spec => []TypeOK` | `faults` |
| `OooGrowthBounded` | `Spec => OooGrowsWithinCap` | `stream` |

No assumption keeps the sequence numbers from wrapping: both hold across the
wrap as well.

**The inductive invariant.** `TypeOK` is not inductive. `ReceiveInOrder` takes a
gapless run of entries out of the out-of-order buffer, and the code's loop finds
one only because the buffered bytes cannot go round the sequence space. `IInv`
adds that: `OooBytes(ooo_buffer) < SeqSpace`. It is kept because `Fits` admits an
entry only under `recv_buffer_cap`, which is itself a sequence number (the
assumption on `RecvCap` and `RcvBufs`; the code's default is 65536 against 2^32).

**The argument.**

1. *Data* (`TcpConnectionProofs`, first part). Wrapping arithmetic stays in the
   sequence space; the byte count of a finite set of entries is a natural number,
   monotone, and grows by at most an entry's length; the splice run exists
   (`SpliceRunExists`: take the longest tiling; if an entry starts where it ends,
   that entry is not in it and makes a longer one) and yields a sequence of bytes.
2. *Functions*. One lemma per function of the code. Those of the sending side
   leave what was received alone (`SameReceived`); `flush_send` changes the state
   only by sending the FIN and then nothing waits; receiving grows the
   out-of-order buffer only within the cap (`GrowsWithinCap`). Every call on a
   connection satisfies `CallOK(c, d)`: `d` is well-formed, growth was within the
   cap, and a FIN was sent only when drained (`FinDrained`).
3. *Actions* (`TcpPairProofs`). One lemma per action: both connections take a
   `CallOK` step, and the remaining variables keep their types.
4. The two theorems follow from `IInv` by propositional temporal reasoning.

Breaking the code's guard breaks the proof at the matching leaf: without the cap
test in `Fits` the step `l + OooBytes(ooo) <= recv_buffer_cap` of
`ReceiveOutOfOrderOK` fails, without the emptiness test in `FinIsDue` the step
`d.send_pending = <<>>` of `SendDeferredFinOK`.

### Sockets and tables

`StackProofs` and the three modules over it prove, from the assumptions named in
`TcpConnection`, `Ports`, `TcpTable`, `UdpTable` and `Stack` (any number of ports,
remotes, sockets, packets and opens per key, any sizes, any set of calls the
application makes):

| Theorem | Module | Statement | Also checked by |
|---|---|---|---|
| `TypeCorrect` | `StackProofs` | `Spec => []TypeOK` | `sockets` |
| `Lengths` | `StackProofs` | `Spec => []LengthsHonest` | `sockets` |
| `QueueWithinCap` | `StackUdpProofs` | `Spec => QueueGrowsWithinCap` | `sockets` |
| `BindsMatch` | `StackUdpProofs` | `Spec => []BindsMatchSockets` | `sockets` |
| `NoOrphans` | `StackReachProofs` | `Spec => []NoOrphan` | `sockets` |
| `NoEarlyReplacement` | `StackPortProofs` | `Spec => ReplacedOnlyAfterWrap` | `sockets` |

**The inductive invariants.** Each property needs its own strengthening; all rest on
`IInv`, which is `TypeOK` with four additions.

- `IInv` = `TableOK`, `UdpOK`, `SocketsOK`. Every connection satisfies `ConnOK` of
  `TcpConnectionProofs`, or `process_segment` need not have a result. Every packet in
  flight has honest lengths (`Honest`). A listener has a port, a closed socket no
  connection and a TCP socket no bound port. An id that was not handed out yet has
  no socket; without that a new socket could take another one's place.
- `BindInv` says of an uncontested port that it is unbound and no socket has it, or
  bound and exactly one socket has it. `BindsMatchSockets` counts the sockets;
  the induction names the one.
- `OrphanInv` extends `NoOrphan` to SYN_SENT (`Unclosed`): a connection that `connect()`
  has not finished must have its socket already, since nobody tells the socket when
  the SYN,ACK arrives. One that was opened passively has none until its handshake
  is done, and is queued in the same step. The lemmas `ProcessUnclosed` and
  `TickUnclosed` say that a segment or a tick makes no connection `Unclosed` except by
  that step; `CloseCloses` that after `close()` it is not, so that a TCP
  socket may go; that of a UDP socket puts its key on record. A
  reset followed by a reuse of the key keeps whatever socket or queue entry was
  there, which may only be one too many.
- `WrapInv` ties the counter to the number of dials, `next_ephemeral_port =
  (FirstPort + dialled) % PortSpace`, and says that a live key has a listening port
  or one of those dialled so far (`Known`). Then a fresh dial meets a live key only
  on a listening port or when two dials are congruent, which takes `PortSpace` of
  them (`NoRepeat`).

`QueueWithinCap` needs only `IInv`: `DatagramGrowth` is about the one place where a queue
grows, `NoGrowth` about all others. `Lengths` is arithmetic: a sum that wraps lands
below the header length because the UDP length itself has not been truncated, and
what was read of a packet always fits (`ReadFits`).

**The argument.** `TcpTableProofs` and `UdpTableProofs` have one lemma per table
operation, over the function lemmas of `TcpConnectionProofs`. The modules over them
have one lemma per action and invariant, and a lemma for steps that leave the invariant's
variables alone (`OrphanSame`, `WrapSame`, `SocketsSame`, `TableSame`, `UdpSame`).

### Only model-checked

- Liveness (`SentIsRead`, `TeardownEnds`, `HandshakeCompletes`, `HandshakeServed`,
  `EchoEnds`), which is out of the prover's reach.
- The refinement of `ByteStream` and the invariants that relate the two hosts. They
  are in reach of the prover; most of them need the additional assumption that no
  sequence number wraps, without which they are false.
- `HandedOutOnce` and `NeverDuplicated`, which count over sockets and queues at once.
- What `checksum16` computes, which takes induction over the buffer.

## 5. Plan

Done: every component of section 1 as section 6 delimits it, with the proofs above.
Next, in order:

1. Proofs: `NoStaleOutOfOrder` and `QueueCoversInFlight` under a no-wrap assumption,
   then the invariant that joins the two hosts' sequence spaces, from which
   `InOrderDelivery`, `AckedIsReceived` and the refinement of `ByteStream` follow.
   `HandedOutOnce`, with an invariant that counts the opens under a key.
2. A host that restarts in `TcpPair`: its process state is gone and its port counter
   and initial numbers start again, while the other host still has its half of the
   connection.
3. Deadlines as numbers: RTO doubling and its limit against the 4 s of TIME_WAIT. So
   far any armed timer may be due at any tick, which includes every timing.
4. The chat programs as applications of `TcpPair`: what a caller loses that does not
   look at what `send()` accepted.

## 6. Not modelled

- Byte layout: where the fields of the IP, TCP, UDP and ICMP headers and the
  pseudo-header lie in a packet. An IP header or a TCP segment that fails its
  checksum, or a packet that is too short, is dropped before it has any effect, which
  is a loss to the model. `Checksum` models the sum over the bytes, whatever they mean,
  and the verdict of those two receivers. The receivers of UDP and ICMP compute no
  checksum: a damaged payload is delivered or echoed as it is, and payloads are sizes
  in the model.
- TCP options: the code reads the payload from byte 20 on whatever the data offset
  says (`docs/protocol_notes.md` names this), and neither host of the pair sends any.
- IP fragments, and TCP segments larger than the 2048 bytes `pump_once` reads at a
  time: the stack sends none, its MSS is below.
- The TUN device and a failing `write`: system calls; a failed write is a lost
  segment.
- Logging, and the trace flag.
- `SO_RCVTIMEO`, the 30 s limit of `connect`, the linger of `close`: they bound how
  long a call pumps, not what it does. `getsockopt` changes nothing.
- Local addresses other than the stack's own, which a UDP socket may bind.
- The programs in `src/bin` and the benchmarks, except the echoing loop of `minitcp`
  as a peer of `UdpTable`: clients of the socket API, whose calls `TcpPair` and `Stack`
  allow in any order. Their arguments and their console have no state of the stack.
