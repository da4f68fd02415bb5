SPECIFICATION FairSpec

CONSTANTS
  Client = client
  Server = server
  SeqSpace = 64
  MSS = 2
  MaxWindow = 8
  MaxRetries = 1
  RecvCap = 2
  SendCap = 4
  ClientIss = {3}
  ServerIss = {20}
  ClientBytes = 3
  ServerBytes = 0
  SendSizes = {3}
  RecvSizes = {2}
  RcvBufs = {}
  SndBufs = {}
  FaultKinds = {"lose"}
  MaxFaults = 0
  MaxWire = 3
  PromptNetwork = TRUE
  ISS <- PairISS
  AppBytes <- PairBytes

PROPERTIES
  TeardownEnds
