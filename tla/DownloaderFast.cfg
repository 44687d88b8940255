SPECIFICATION Spec
CONSTANTS
  Height = 3
  Conns = {"a"}
  PeerOf <- OnePerPeer
  InitialConns = {"a"}
  Pivots = {1, 2}
  EmptyBody = {1, 2, 3}
  EmptyReceipt = {1, 3}
  CacheLimit = 2
  MinFetch = 1
  MaxFetch = 1
  ForceVerify = 1
  SafetyNet = 2
  LeastChunk = 2
  MaxQueued = 2
  CriticalTrials = 2
  Masters = {"a"}
  MaxLeaves = 0
  MaxCycles = 2
INVARIANTS
  FastExact
CHECK_DEADLOCK FALSE
