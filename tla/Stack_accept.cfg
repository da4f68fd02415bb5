CONSTANTS
  SeqSpace = 64
  MSS = 2
  MaxWindow = 4
  MaxRetries = 0
  RecvCap = 4
  SendCap = 4
  PortSpace = 2
  Remote = {"r"}
  FirstPort = 1
  Iss = {3}
  MaxOpens = 2
  MaxDials = 3
  LenSpace = 16
  UdpHeaderLen = 3
  IpHeaderLen = 5
  ReadBuf = 12
  QueueCap = 5
  MaxPackets = 2
  ListenPort = {0}
  BindPort = {0, 1}
  FirstUdpPort = 0
  SendSizes = {0, 2, 8, 13}
  PeerSizes = {5}
  BufSizes = {2}
  OneHost = {{"socket", "listen", "accept"}}
  AllHosts = {}
  Programs <- Applications
  MaxSockets = 3
  MaxUdpSockets = 2
SPECIFICATION Spec
PROPERTY AcceptsLiveUnheld
