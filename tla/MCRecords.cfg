SPECIFICATION Spec
CONSTANTS
  Rounds = {r1, r2}
  Orders = {o1}
  Amount = 1
  LastDay = 3
  c1 = c1
  c2 = c2
  c3 = c3
  c4 = c4
  Checks = {c1, c2, c3, c4}
  Asked <- Payments
  PerTransaction = 2
  DailyLimit = 3
  MonthlyLimit = 4
  Window = 2
  MaxAttempts = 2
  SplitCount = 2
  Large = 2
  Hour = 2
  Day = 3
  Month = 6
  RateKeys = {k1, k2}
  Burst = 5
  TokenCost = 3
  Refill = 2
  MaxLimiters = 1
  FirstTick = 4
  LastTick = 9
  MaxAccepted = 3
  s0 = s0
  t1 = t1
  DbSources = {s0}
  DefaultSource = s0
  DbTenants = {t1}
  Mappings <- TenantMappings
  NoSource = NoSource
  Template <- MadeUp
  DbSessions = {x1}
  Admins = {d1, d2}
  NoAdmin = NoAdmin
  MaxEngines = 3
  ra = ra
  rb = rb
  Runs = {ra, rb}
  NoRun = NoRun
  Titles <- PullTitles
  FirstVersion <- Initial
  MaxReruns = 1
  MaxNumber = 2
  Codes = {g1}
  Default = Default
  Readers = {q1, q2}
  Editors = {e1, e2}
  MaxCached = 1
  MaxVersion = 2
CHECK_DEADLOCK FALSE
SYMMETRY Symmetry
INVARIANTS BookedIsPaid ReversalsSound AuditedBillAccounted LimitsSound SourcesSound ReleasesSound ConfigsSound
