SPECIFICATION Spec
CONSTANTS
  Accounts = {"a", "b"}
  Txs <- MCTxs
  From <- MCFrom
  Nonce <- MCNonce
  Prio <- MCPrio
  HeadNonces <- MCHeadNonces
  MaxNonce = 2
  MaxBatch = 2
  AccountSlots = 1
  GlobalSlots = 2
  AccountQueue = 1
  GlobalQueue = 1
INVARIANTS
  PoolSound
  EqualiseClosedForm
PROPERTIES
  SlotsFair
