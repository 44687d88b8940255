SPECIFICATION FairSpec
CONSTANTS
  Height = 2
  Conns = {"a", "b"}
  PeerOf <- OnePerPeer
  InitialConns = {"a"}
  Pivots = {}
  EmptyBody = {2}
  EmptyReceipt = {1, 2}
  CacheLimit = 2
  MinFetch = 1
  MaxFetch = 2
  ForceVerify = 1
  SafetyNet = 2
  LeastChunk = 2
  MaxQueued = 2
  CriticalTrials = 1
  Masters = {"a"}
  MaxLeaves = 1
  MaxCycles = 1
PROPERTIES
  Terminates
CHECK_DEADLOCK FALSE
