\* Three transactions on the rows of two accounts; an operation on a chain of three
\* providers; four commands of two students over three connections.
SPECIFICATION SumSpec
CONSTANTS
  p1 = p1
  p2 = p2
  env = env
  t1 = t1
  t2 = t2
  t3 = t3
  c1 = c1
  c2 = c2
  c3 = c3
  c4 = c4
  ann = ann
  bob = bob
  o1 = o1
  e1 = e1
\* BillingLocks
  Accounts = {ann, bob}
  Bills = {o1}
  Grants = {e1}
  Deals = {t1, t2, t3}
  Of <- OfOne
  By <- ByOrder
  Referees <- ReferredOther
\* ProviderChain
  Order <- TwoAndEnv
  EnvProvider = env
  Nobody = nobody
  Tiers = 2
  ChainBudget = 12
  TimeLimit = 4
  LoadLimit = 1
  RecordLimit = 1
  Rounds = 2
  MaxDeltas = 1
\* PlanLocks
  Commands = {c1, c2, c3, c4}
  Owner <- TwoStudents
  PoolSize = 3
PROPERTIES
  TransactionsEnd
  ChainHolds
  RequestsEnd
\* An operation that has ended stays so.
CHECK_DEADLOCK FALSE
