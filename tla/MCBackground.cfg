SPECIFICATION Spec
CONSTANTS
  c1 = c1
  c2 = c2
  c3 = c3
  i1 = i1
  i2 = i2
  a1 = a1
  u1 = u1
  u2 = u2
  u3 = u3
  Calls = {c1, c2}
  ThreadCalls = {c2}
  Ids = {i1, i2, a1}
  IdOf <- Own
  Loop = loop
  Workers = {w1}
  NoCall = none
  MaxRecords = 1
  QueueSize = 1
  MaxBeats = 1
  Outcomes = {"FAILED"}
  Audits = {a1}
  PoolUsers = {u1, u2, u3}
  PoolSize <- Sizes
  MaxPools = 3
  Instances = {s1, s2}
  Manual = {s1}
  JobTasks = {job}
  UseLock = TRUE
  FailureLimit = 2
  Base = 1
  Backoff = 1
  BackoffCap = 1
  Unlocked = Unlocked
  Orphan = Orphan
  NoTask = NoTask
  MaxCrashes = 1
CHECK_DEADLOCK FALSE
INVARIANTS TasksSound SchedulingSound
PROPERTIES OutcomeRace EndsUp
