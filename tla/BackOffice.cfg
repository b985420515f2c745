\* Two requests at a time on two orders, on the mocks of a guest and an account over a bank
\* of two materials; two replicas with one daily limit; two administrators on a bank of one
\* provider and that of the environment; two replicas that see two visitors; a post and two
\* accounts, of which one moderates and is on the list of super administrators and the other
\* applies to write; a material of each skill with two editors.
SPECIFICATION SumSpec
CONSTANTS
  t1 = t1
  t2 = t2
  o1 = o1
  o2 = o2
  ann = ann
  moe = moe
  short = short
  long = long
  m1 = m1
  m2 = m2
  s1 = s1
  None = none
\* BillingOrders
  Orders = {o1, o2}
  Refs = {o1, o2}
  Txs = {t1, t2}
  AccessDays = 2
  GrantDays = {1}
  MaxRows = 3
  MaxNow = 1
\* MockSessions
  Guests = {g1}
  Accounts = {a1}
  MockTests = {c1}
  MockSkills = {s1}
  Bank = {m1, m2}
  BankSkill <- OneBank
  MockTxs = {t1, t2}
  NoMock = none
  Billed = TRUE
  MaxVersion = 1
  StartLimit = 3
  MaxMocks = 3
  MaxDraws = 2
\* DailyLimits
  Replicas = {t1, t2}
  Scopes = {"writing"}
  Handins = {h1, h2}
  DefaultLimit = 2
  MaxLimit = 2
  MaxUpdates = 2
\* ProviderBank
  Administrators = {t1, t2}
  Slots = {o1, o2}
  Env = env
  MaxChain = 1
  Levels = {1, 2}
  MaxSaves = 2
\* Presence
  Servers = {t1, t2}
  Visitors = {v1, v2}
  Trims = {t1, t2}
  OnlineWindow = 1
  MaxTime = 3
\* Blog
  Posts = {p1}
  Members = {ann, moe}
  Moderators = {moe}
  SuperAdmins = {moe}
  Bodies = {short, long}
  Drafty = {short}
  Desks = {t1, t2}
  Applicants = {ann}
  MaxApplications = 2
  MaxAppointed = 1
\* Materials
  MaterialKinds = {"reading", "listening", "writing", "speaking"}
  Editors = {t1, t2}
  Students = {s1}
  Assets = {u1}
  NoAsset = none
  MaxVersions = 3
  MaxRevision = 3
  MaxTestRevision = 2
SYMMETRY Symmetry
INVARIANTS
  Queued
  PaidOnce
  LimitsHold
  PresenceHolds
PROPERTIES
  OrdersKept
  MocksHold
  BankHolds
  BlogHolds
  MaterialsHold
\* Orders, mocks, saves and the clock are bounded.
CHECK_DEADLOCK FALSE
