SPECIFICATION Spec

CONSTANTS
  Client = client
  Server = server
  SeqSpace = 64
  MSS = 2
  MaxWindow = 8
  MaxRetries = 1
  RecvCap = 3
  SendCap = 2
  ClientIss = {3, 62}
  ServerIss = {20}
  ClientBytes = 3
  ServerBytes = 0
  SendSizes = {2}
  RecvSizes = {2}
  RcvBufs = {1}
  SndBufs = {1}
  FaultKinds = {"lose", "duplicate", "reorder"}
  MaxFaults = 1
  MaxWire = 3
  PromptNetwork = TRUE
  ISS <- PairISS
  AppBytes <- PairBytes

INVARIANTS
  FinAfterAllData

PROPERTIES
  ImplementsByteStream
  OooGrowsWithinCap
