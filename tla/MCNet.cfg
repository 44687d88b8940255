SPECIFICATION NetSpec
CONSTANTS
  Hashes = {"r1", "r2", "x", "c"}
  Kids <- KidsDef
  Leaves <- LeavesDef
  SyncRoots <- SyncRootsDef
  Conns = {"p1", "p2", "q1"}
  PeerId <- PeerIdDef
  FirstConns = {"p1", "q1"}
  Capacities = {2}
  FewItems = 1
  FlushAt = 2
  MaxTimeouts = 1
  Filters <- FiltersDef
  VectorOf <- VectorDef
  Begin = 1
  End = 3
  SectionBlocks = 2
  Buffer = 1
  Retrievers = {"m1", "m2"}
  Batch = 2
  MaxFails = 1
  LogFilters = {"polled", "pushed"}
  FilterCrit <- FilterCritDef
  Pushed = {"pushed"}
  EventKinds = {"tx", "chain", "logs", "removedLogs", "pendingLogs"}
  MaxPosted = 2
  TxConns = {"a1", "a2", "b1"}
  TxNode <- TxNodeDef
  StartTxs <- StartTxsDef
  NewTxs <- NewTxsDef
  PackSize = 1
  KnownTxs = 2
  GPeers = {"p", "q"}
  Top = 1
  KnownBlocks = 1
  Casters = {"c1", "c2"}
  SyncTasks = {"s1"}
  Accounts = {"a", "b"}
  Txs <- PoolTxsDef
  From <- FromDef
  Nonce <- NonceDef
  Prio <- PrioDef
  HeadNonces <- HeadNoncesDef
  MaxNonce = 1
  MaxBatch = 1
  AccountSlots = 1
  GlobalSlots = 1
  AccountQueue = 1
  GlobalQueue = 1
  IOErrors = TRUE
  Nodes = {"n1", "n2", "n3"}
  DialSelf = "n0"
  Unlisted = {"x"}
  Statics = {"n1", "n0", "x"}
  Bootnodes <- BootnodesDef
  maxDynDials = 2
  maxActiveDialTasks = 2
  MaxLookups = 1
INVARIANTS
  StateComplete
  MatchesExact
  FilterExact
  TxsRelayed
  GossipSound
  DialerSound
  JournalKeeps
CHECK_DEADLOCK FALSE
