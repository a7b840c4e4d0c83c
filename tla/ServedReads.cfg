SPECIFICATION ServedSpec
CONSTANTS
  acme = acme
  globex = globex
  k1 = k1
  current = current
  savings = savings
  eur = eur
  usd = usd
  w1 = w1
  s1 = s1
  Clients = {acme, globex}
  Keys = {k1}
  Accounts = {current, savings}
  Currencies = {eur, usd}
  Owner <- MC_Owner
  BalanceTypeOf <- MC_BalanceTypeOf
  CreditLimitOf <- MC_CreditLimitOf
  Commands <- MC_Commands
  TTL = 1
  BigIntMax = 3
  MaxRequests = 1
  MaxClock = 0
  Readers = {r1, r2}
  Workers = {w1}
  Worker = w1
  WorkerOf <- MC_WorkerOf
  Queries <- MC_Queries
  NoQuery = NoQuery
  NoBalance = NoBalance
  Nothing = Nothing
  NoLimit = NoLimit
  NoRow = NoRow
  NoAnswer = NoAnswer
  WindowCapacity = 1
  ProbationCapacity = 1
  ProtectedCapacity = 1
  Seeds = {s1}
  Columns = {0, 1}
  Index <- MC_Index
  MaxCounter = 1
  ResetAfter = 3
SYMMETRY ReadersAreAlike
INVARIANTS
  ReadInv
  ReadsAreCurrent
  CachesAgreeWithLedger
PROPERTIES
  ImplementsReads
CHECK_DEADLOCK FALSE
