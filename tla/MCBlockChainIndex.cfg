SPECIFICATION PartsSpec
CONSTANTS
  Blocks <- MCBlocks
  Genesis <- MCGenesis
  Parent <- MCParent
  Number <- MCNumber
  Txs <- MCTxs
  TxsOf <- MCTxsOf
  Mined <- MCMined
  Invalid <- MCInvalid
  MaxCrashes = 1
  MaxRewinds = 0
  MaxFailures = 0
  MaxBatch = 3
  None <- MCNone
  Starters = {"s1"}
  HeadChanSize = 1
  MaxImports = 1
  MaxCalls = 2
  Syncing = TRUE
  Errors = TRUE
INVARIANTS
  AlwaysCanonical
CHECK_DEADLOCK FALSE
