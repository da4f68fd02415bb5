SPECIFICATION Spec

CONSTANTS
  Client = client
  Server = server
  SeqSpace = 64
  MSS = 1
  MaxWindow = 8
  MaxRetries = 1
  RecvCap = 3
  SendCap = 4
  ClientIss = {3}
  ServerIss = {20, 40}
  ClientBytes = 2
  ServerBytes = 0
  SendSizes = {2}
  RecvSizes = {2}
  RcvBufs = {}
  SndBufs = {}
  FaultKinds = {"lose", "duplicate", "reorder"}
  MaxFaults = 1
  MaxWire = 4
  PromptNetwork = FALSE
  ISS <- PairISS
  AppBytes <- PairBytes

INVARIANTS
  TypeOK
  InOrderDelivery
  AckedIsReceived
  GracefulCloseDelivers
  LateSynStaysHalfOpen
  NoStaleOutOfOrder
  QueueCoversInFlight

PROPERTIES
  SequenceNeverRegresses
