SPECIFICATION Spec

CONSTANTS
  Client = client
  Server = server
  SeqSpace = 64
  MSS = 2
  MaxWindow = 8
  MaxRetries = 3
  RecvCap = 4
  SendCap = 4
  ClientIss = {3}
  ServerIss = {20}
  ClientBytes = 1
  ServerBytes = 1
  SendSizes = {1}
  RecvSizes = {2}
  RcvBufs = {}
  SndBufs = {}
  FaultKinds = {"lose"}
  MaxFaults = 1
  MaxWire = 3
  PromptNetwork = TRUE
  ISS <- PairISS
  AppBytes <- PairBytes

INVARIANTS
  FinIsReacked
