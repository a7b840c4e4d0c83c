SPECIFICATION Spec
CONSTANTS
  acme = acme
  globex = globex
  k1 = k1
  k2 = k2
  current = current
  savings = savings
  eur = eur
  usd = usd
  Clients = {acme, globex}
  Keys = {k1, k2}
  Accounts = {current, savings}
  Currencies = {eur, usd}
  Owner <- MC_Owner
  BalanceTypeOf <- MC_BalanceTypeOf
  CreditLimitOf <- MC_CreditLimitOf
  Commands <- MC_Race
  TTL = 1
  BigIntMax = 3
  MaxRequests = 2
  MaxClock = 1
  Handlers = {h1}
  NoHandler = NoHandler
  NoJob = NoJob
  NoLimit = NoLimit
  NoRow = NoRow
  NoAnswer = NoAnswer
SYMMETRY HandlersAreAlike
INVARIANTS
  MismatchedHashConflicts
CHECK_DEADLOCK FALSE
