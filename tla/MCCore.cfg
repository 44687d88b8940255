SPECIFICATION CoreSpec
CONSTANTS
  Addresses = {a1}
  Keys = {k1}
  Codes = {7}
  MaxCalls = 3
  MaxRevisions = 2
  MaxRounds = 2
  a1 = a1
  k1 = k1
  uA = uA
  uB = uB
  uP = uP
  uR = uR
  zero = zero
  Contract = zero
  Users <- UsersDef
  ExecTxs <- ExecTxsDef
  Coinbase = uP
  Reward = 2
  MaxTried = 4
  MaxBlocks = 1
  FPeers = {"fp", "fq"}
  Blocks = {"h1", "h2"}
  Number <- NumberDef
  Parent <- ParentBlockDef
  EmptyBlocks = {"h1"}
  HashLimit = 2
  BlockLimit = 1
  MaxBackDist = 1
  MaxQueueDist = 1
  MaxEvents = 3
  SectionSize = 2
  ConfirmsReq = 1
  MaxChain = 5
  MaxReorgs = 2
  MaxRestarts = 1
  LogsOf <- LogsDef
  BloomBits <- BitsDef
  Criteria <- CritDef
  LogSectionSize = 2
  MaxSections = 2
  LogWord = 32
  ParentOf <- ParentDef
  StoredNumber <- StoredNumberDef
  Canonical <- CanonDef
  MaxHeaderFetch = 3
  MaxAmount = 4
  HeaderWord = 12
  ProtoKinds <- KindsDef
  ProtoLength <- LengthDef
  baseProtocolLength = 2
  LookNodes = {"n0", "n1", "n2", "n3", "n4", "n5"}
  LookSelf = "n0"
  DistTo <- DistDef
  Tables <- TablesDef
  Seeds = {"n1", "n3"}
  KnownBy <- KnownDef
  NotRelayed <- NotRelayedDef
  Unbondable = {"n4"}
  lookupSize = 3
  alpha = 2
  maxNeighbors = 2
  TrieKeys <- KeysDef
  TrieValues <- ValuesDef
  SmallValues = {"s"}
  Radix = 2
  Cachelimit = 1
  MaxTrieCommits = 2
  Txs = {"p", "q", "r", "l"}
  Prio <- PrioDef
  LocalTxs = {"l"}
  MaxCopies = 2
  MinStales <- MinStalesDef
  KadNodes = {"n0", "n1", "n2", "n3"}
  KadSelf = "n0"
  BucketOf <- BucketDef
  Bonds = {"b1", "b2"}
  FirstEntries <- EntriesDef
  bucketSize = 2
  maxBondingPingPongs = 1
  maxFindnodeFailures = 1
  MaxAges = 1
INVARIANTS
  CodecExact
  StateReverts
  ExecutionAgrees
  FetcherTracks
  SectionsCanonical
  LogsComplete
  HeadersAsked
  CodesAgree
  LookupClosest
  TrieHolds
  TableSound
PROPERTIES
  HeapSound
CHECK_DEADLOCK FALSE
