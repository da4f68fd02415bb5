------------------------------- MODULE UdpTable -------------------------------
(***************************************************************************)
(* The UdpTable of src/udp.rs, the packet it builds, and the echo replies  *)
(* of src/icmp.rs.  A packet is known by an id, its payload by its size in *)
(* bytes.  Packets travel between this host and a peer; the peer may be a  *)
(* bare minitcp, which itself echoes every datagram.                       *)
(***************************************************************************)
EXTENDS Ports, Sequences, FiniteSets

CONSTANTS
  LenSpace,       \* values of a 16-bit length field (2^16)
  UdpHeaderLen,   \* UDP_HEADER_LEN
  IpHeaderLen,    \* IP_HEADER_LEN
  ReadBuf,        \* the buffer pump_once reads a packet into (2048)
  QueueCap,       \* DEFAULT_RECV_QUEUE_CAP_BYTES
  MaxPackets      \* bound: how many packets are ever created

ASSUME UdpAssumption ==
  /\ UdpHeaderLen \in Nat \ {0}
  /\ IpHeaderLen \in Nat \ {0}
  /\ LenSpace \in Nat /\ ReadBuf \in Nat
  /\ UdpHeaderLen + IpHeaderLen <= ReadBuf /\ ReadBuf < LenSpace
  /\ QueueCap \in Nat
  /\ MaxPackets \in Nat

VARIABLES
  binds,       \* binds[p]: [bound, recv_queue, recv_queue_cap_bytes]
  flight,      \* the packets on their way, to the host or to the peer
  packets,     \* history: how many packets have been created
  read,        \* history: the ids recvfrom() has returned
  panicked     \* send_datagram has panicked, which ends the process

udpVars == <<binds, flight, packets, read, panicked>>

PacketId == 1 .. MaxPackets
Datagram == [id : PacketId, size : Nat]

\* kind: a datagram, or an ICMP echo request or reply; to: where it is going;
\* port: its port at the host; udp_len, total_length: the fields of its headers.
Packet == [kind : {"Udp", "EchoRequest", "EchoReply"}, to : {"host", "peer"},
           id : PacketId, port : Port, size : Nat,
           udp_len : 0 .. (LenSpace - 1), total_length : 0 .. (LenSpace - 1)]

UdpBinding == [bound : BOOLEAN, recv_queue : Seq(Datagram), recv_queue_cap_bytes : Nat]
Unbound == [bound |-> FALSE, recv_queue |-> <<>>, recv_queue_cap_bytes |-> 0]

UdpInit ==
  /\ binds = [p \in Port |-> Unbound]
  /\ flight = {}
  /\ packets = 0
  /\ read = {}
  /\ panicked = FALSE

----------------------------------------------------------------------------
(* The table *)

is_bound(b, port) == b[port].bound

\* UdpTable::bind refuses a port that is taken, unless reuse_addr is set.
Refused(b, port, reuse_addr) == is_bound(b, port) /\ ~ reuse_addr

udp_bind(b, port, reuse_addr, cap) ==
  IF Refused(b, port, reuse_addr) THEN b
  ELSE [b EXCEPT ![port] = [bound |-> TRUE, recv_queue |-> <<>>,
                            recv_queue_cap_bytes |-> cap]]

\* Mutated form: the binding stays.
KeepBinding(b, port) == b

unbind(b, port) == [b EXCEPT ![port] = Unbound]

udp_set_recv_cap(b, port, cap) ==
  IF is_bound(b, port) THEN [b EXCEPT ![port].recv_queue_cap_bytes = cap] ELSE b

\* One cell per payload byte in a queue.
QueueCells(q) == UNION {{i} \X (1 .. q[i].size) : i \in DOMAIN q}
Used(q) == Cardinality(QueueCells(q))

\* Mutated form: the datagram itself is not counted.
HasAnyRoom(binding, d) == Used(binding.recv_queue) <= binding.recv_queue_cap_bytes

HasRoom(binding, d) == Used(binding.recv_queue) + d.size <= binding.recv_queue_cap_bytes

deliver(binding, d) ==
  IF HasRoom(binding, d) THEN [binding EXCEPT !.recv_queue = Append(@, d)] ELSE binding

----------------------------------------------------------------------------
(* Packets *)

\* Mutated form: the UDP header is not counted.
TotalOfData(size, udp_len) == (IpHeaderLen + size) % LenSpace

\* A release build wraps where a debug build panics.
TotalLength(size, udp_len) == (IpHeaderLen + udp_len) % LenSpace

UdpLen(size) == (UdpHeaderLen + size) % LenSpace

\* The buffers of send_datagram are sized by udp_len: copying the payload panics
\* when that was truncated.  Adding up total_length panics in a debug build when
\* it overflows.
MustPanic(size) == UdpHeaderLen + size >= LenSpace
MayPanic(size) == IpHeaderLen + UdpHeaderLen + size >= LenSpace

UdpPacket(id, to, port, size) ==
  [kind |-> "Udp", to |-> to, id |-> id, port |-> port, size |-> size,
   udp_len |-> UdpLen(size), total_length |-> TotalLength(size, UdpLen(size))]

\* send_datagram, the packets already on their way being f.
send_datagram(id, port, size, f) ==
  \/ /\ MayPanic(size) /\ panicked' = TRUE /\ flight' = f
  \/ /\ ~ MustPanic(size)
     /\ flight' = f \cup {UdpPacket(id, "peer", port, size)}
     /\ UNCHANGED panicked

----------------------------------------------------------------------------
(* A packet reaches the host *)

\* How much of a payload pump_once reads: a packet longer than its buffer is cut
\* off, and no handler looks at the length fields of a header.
ReadSize(size) ==
  IF IpHeaderLen + UdpHeaderLen + size <= ReadBuf
  THEN size ELSE ReadBuf - (IpHeaderLen + UdpHeaderLen)

\* Mutated forms: a delivered datagram is echoed as well; every datagram is echoed.
DeliverAndEcho(d, size) ==
  /\ binds' = IF is_bound(binds, d.port)
              THEN [binds EXCEPT ![d.port] = deliver(@, [id |-> d.id, size |-> size])]
              ELSE binds
  /\ send_datagram(d.id, d.port, size, flight \ {d})
EchoAll(d, size) == UNCHANGED binds /\ send_datagram(d.id, d.port, size, flight \ {d})

\* UdpTable::handle_datagram, size bytes of the payload of d having been read.
handle_datagram(d, size) ==
  \/ /\ is_bound(binds, d.port)
     /\ binds' = [binds EXCEPT ![d.port] = deliver(@, [id |-> d.id, size |-> size])]
     /\ flight' = flight \ {d}
     /\ UNCHANGED panicked
  \/ /\ ~ is_bound(binds, d.port)
     /\ UNCHANGED binds
     /\ send_datagram(d.id, d.port, size, flight \ {d})

\* An echo request goes back as a reply of what was read, any other message is
\* dropped.  The header of a message is as long as that of a datagram.
handle_icmp(m, size) ==
  /\ flight' = (flight \ {m}) \cup
       IF m.kind = "EchoRequest"
       THEN {[UdpPacket(m.id, "peer", m.port, size) EXCEPT !.kind = "EchoReply"]} ELSE {}
  /\ UNCHANGED <<binds, panicked>>

ReceivePacket(m) ==
  /\ m \in flight /\ m.to = "host"
  /\ IF m.kind = "Udp" THEN handle_datagram(m, ReadSize(m.size))
     ELSE handle_icmp(m, ReadSize(m.size))
  /\ UNCHANGED <<packets, read>>

----------------------------------------------------------------------------
(* The peer and the network *)

PeerSends(kind, port, size) ==
  /\ packets < MaxPackets
  /\ packets' = packets + 1
  /\ flight' = flight \cup {[UdpPacket(packets + 1, "host", port, size) EXCEPT !.kind = kind]}
  /\ UNCHANGED <<binds, read, panicked>>

\* A packet reaches the peer: a bare minitcp sends what it has read of a datagram
\* back, whatever the length fields say.
PeerEchoes(m) ==
  /\ m \in flight /\ m.to = "peer"
  /\ flight' = (flight \ {m}) \cup
       IF m.kind = "Udp" THEN {UdpPacket(m.id, "host", m.port, ReadSize(m.size))} ELSE {}
  /\ UNCHANGED <<binds, packets, read, panicked>>

LosePacket(m) ==
  /\ m \in flight
  /\ flight' = flight \ {m}
  /\ UNCHANGED <<binds, packets, read, panicked>>

=============================================================================
