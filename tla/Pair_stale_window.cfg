SPECIFICATION Spec

CONSTANTS
  Client = client
  Server = server
  SeqSpace = 64
  MSS = 1
  MaxWindow = 8
  MaxRetries = 1
  RecvCap = 2
  SendCap = 4
  ClientIss = {3}
  ServerIss = {20}
  ClientBytes = 3
  ServerBytes = 0
  SendSizes = {1, 3}
  RecvSizes = {1}
  RcvBufs = {}
  SndBufs = {}
  FaultKinds = {"reorder"}
  MaxFaults = 1
  MaxWire = 4
  PromptNetwork = FALSE
  ISS <- PairISS
  AppBytes <- PairBytes

INVARIANTS
  RecvBufferBounded
