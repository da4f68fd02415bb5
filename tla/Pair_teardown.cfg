SPECIFICATION FairSpec

CONSTANTS
  Client = client
  Server = server
  SeqSpace = 64
  MSS = 1
  MaxWindow = 8
  MaxRetries = 1
  RecvCap = 2
  SendCap = 4
  ClientIss = {3}
  ServerIss = {20}
  ClientBytes = 2
  ServerBytes = 2
  SendSizes = {2}
  RecvSizes = {2}
  RcvBufs = {}
  SndBufs = {}
  FaultKinds = {"lose"}
  MaxFaults = 1
  MaxWire = 3
  PromptNetwork = TRUE
  ISS <- PairISS
  AppBytes <- PairBytes

INVARIANTS
  NoAbortWithoutFaults
  GracefulCloseDelivers

PROPERTIES
  TeardownEnds
