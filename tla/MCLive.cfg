SPECIFICATION LiveSpec
CONSTANTS
  Channels = {"c1", "c2"}
  Senders = {"s1", "s2"}
  Room = 1
  Subs = {"x", "y"}
  Posts = {"p"}
  Filters <- FiltersDef
  VectorOf <- VectorDef
  Begin = 1
  End = 1
  SectionBlocks = 2
  Buffer = 1
  Retrievers = {"r1"}
  Batch = 1
  MaxFails = 1
  PMConns = {"a1", "a2"}
  PeerIdOf <- PeerIdDef
  MaxPeers = 2
  Droppers = {"d"}
  Protos = {"p1"}
  Disconnecters = {"d"}
  MaxMsgs = 1
  Requests = {"r1", "r2"}
  ReqKey <- ReqKeyDef
  ReqNeed <- ReqNeedDef
  RespTimeout = 2
PROPERTIES
  FeedSound
  MuxSound
  MatcherStops
  ManagerStops
  PeerRunEnds
  RequestsAnswered
CHECK_DEADLOCK FALSE
