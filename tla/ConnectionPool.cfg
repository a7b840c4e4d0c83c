SPECIFICATION ServedSpec
CONSTANTS
  p = p
  retry = retry
  q = q
  g = g
  w1 = w1
  w2 = w2
  Workers = {w1, w2}
  PoolSize = 3
  Requests = {p, retry, q, g}
  WorkerOf <- MC_WorkerOf
  Payers = {p, retry, q}
  KeyOf <- MC_KeyOf
  AccountOf <- MC_AccountOf
INVARIANTS
  PoolOK
  WaitsAreShort
  NoGridlock
PROPERTIES
  OnlyGridlockBlocks
