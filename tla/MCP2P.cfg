SPECIFICATION P2PSpec
CONSTANTS
  SrvConns <- SrvConnsDef
  ConnId <- ConnIdDef
  ConnKind <- ConnKindDef
  Restricted = {"r1"}
  TrustedIds = {}
  SelfId = "self"
  SrvMaxPeers = 1
  Slots = 1
  MsgSize <- SizeDef
  Outgoing <- OutDef
  FrameBlock = 4
  maxUint24 = 8
  MaxFails = 1
  CallOps = {"b1"}
  OpIds <- OpIdsDef
  SubOps = {"s1"}
  UnsubOp <- UnsubDef
  Deadlined = {"b1"}
  SubBuffer = 1
  MaxConns = 2
  MaxNotes = 2
  Codecs = {"c1", "c2"}
  Script <- ScriptDef
  Callbacks <- CallbacksDef
  MaxNotifies = 1
  Height = 3
  Conns <- ConnsDef
  PeerOf <- PeerOfDef
  InitialConns = {"a1", "b1"}
  Pivots = {}
  EmptyBody = {2}
  EmptyReceipt = {1, 2, 3}
  CacheLimit = 2
  MinFetch = 1
  MaxFetch = 2
  ForceVerify = 1
  SafetyNet = 2
  LeastChunk = 2
  MaxQueued = 2
  CriticalTrials = 1
  Masters = {"a"}
  MaxLeaves = 0
  MaxCycles = 1
INVARIANTS
  PeersServed
  SessionAgrees
  ClientSound
  ServerSound
  QueueExact
  SuccessImports
CHECK_DEADLOCK FALSE
