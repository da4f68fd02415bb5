\* Two ports, so that the ephemeral counter runs into the listening port and round;
\* lengths of 16 values, headers of 3 and 5 bytes.
CONSTANTS
  SeqSpace = 64
  MSS = 2
  MaxWindow = 4
  MaxRetries = 0
  RecvCap = 4
  SendCap = 4
  PortSpace = 2
  Remote = {"r", "s"}
  FirstPort = 1
  Iss = {3}
  MaxOpens = 2
  MaxDials = 3
  LenSpace = 16
  UdpHeaderLen = 3
  IpHeaderLen = 5
  ReadBuf = 12
  QueueCap = 5
  MaxPackets = 2
  ListenPort = {0}
  BindPort = {0, 1}
  FirstUdpPort = 0
  SendSizes = {0, 2, 8, 13}
  PeerSizes = {5}
  BufSizes = {2}
  OneHost =  {{"socket", "listen", "accept", "connect", "close"},
              {"socket", "listen", "accept", "reuse_addr", "close"},
              {"socket", "listen", "accept", "rcvbuf", "sndbuf"},
              {"udp_socket", "bind", "sendto", "recvfrom", "close"},
              {"udp_socket", "bind", "reuse_addr", "close"},
              {"udp_socket", "bind", "recvfrom", "rcvbuf"},
              {"udp_socket", "connect", "close"},
              {"udp_socket", "listen", "accept", "close"}}
  AllHosts = {{"socket", "listen", "accept"}}
  Programs <- Applications
  MaxSockets = 3
  MaxUdpSockets = 2
SPECIFICATION FairSpec
INVARIANTS TypeOK HandedOutOnce NoOrphan BindsMatchSockets NeverDuplicated LengthsHonest
PROPERTIES ReplacedOnlyAfterWrap QueueGrowsWithinCap HandshakeServed EchoEnds
