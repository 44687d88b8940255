SPECIFICATION PartsSpec
CONSTANTS
  Blocks <- SmallBlocks
  Genesis <- MCGenesis
  Parent <- SmallParent
  Number <- SmallNumber
  Txs <- MCTxs
  TxsOf <- SmallTxsOf
  Mined <- SmallMined
  Invalid <- MCInvalid
  MaxCrashes = 1
  MaxRewinds = 1
  MaxFailures = 1
  MaxBatch = 2
  None <- MCNone
  Starters = {"s1"}
  HeadChanSize = 1
  MaxImports = 1
  MaxCalls = 2
  Syncing = TRUE
  Errors = TRUE
INVARIANTS
  ChainSound
  HeadAnnounced
  OneLoop
PROPERTIES
  CycleLives
CHECK_DEADLOCK FALSE
