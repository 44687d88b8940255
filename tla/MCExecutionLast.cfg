SPECIFICATION ExecSpecAlone
CONSTANTS
  Addresses = {a1}
  Keys = {k1}
  Codes = {7}
  MaxCalls = 3
  MaxRevisions = 2
  MaxRounds = 2
  a1 = a1
  k1 = k1
  uA = uA
  uB = uB
  uP = uP
  uR = uR
  zero = zero
  Contract = zero
  Users <- UsersDef
  ExecTxs <- ExecTxsDef
  Coinbase = uP
  Reward = 2
  MaxTried = 4
  MaxBlocks = 1
INVARIANT LastValue
CHECK_DEADLOCK FALSE
