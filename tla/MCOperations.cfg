SPECIFICATION OperationsSpec
CONSTANTS
  Targets = {me, x1}
  Self = me
  Reports = {r1}
  Setups <- Deployed
  WindowSize = 1
  ServedLimit <- Answered
  LoopLimit = 2
  ta = ta
  tb = tb
  DocIds = {d1, d2, d3}
  Terms = {ta, tb}
  Bodies <- Frequencies
  NoBody = NoBody
  MaxDocuments = 2
  VectorIds = {v1, v2, v3}
  MaxVectors = 2
  StoreKinds = {"memory", "elasticsearch"}
  Searches = {s1}
  TopK = 2
  NeighborWindow = 1
  LineKinds = {"fence", "heading", "row", "rule", "prose", "blank"}
  MaxLines = 5
  ia = ia
  ib = ib
  pa = pa
  ua = ua
  ub = ub
  uc = uc
  ud = ud
  oa = oa
  ob = ob
  oc = oc
  IdThreads = {ia, ib}
  IdProcess <- Runs
  IdProcesses = {pa}
  Worker <- Numbered
  MaxSequence = 1
  MaxTime = 3
  MaxIds = 3
  LockUsers = {ua, ub, uc, ud}
  LockObject <- Owned
  MaxHandles = 4
  ca = ca
  cb = cb
  Requests = {q1, q2, q3}
  MaxSamples = 2
  Components = {ca, cb}
  ProbeOrder <- InOrder
  Probes = {y1, y2}
  Sustain = 2
  History = 3
  MaxUsageSamples = 3
  LastMinute = 4
  Allowed <- Shares
  MaxCalls = 6
  docker = docker
  cgnat = cgnat
  public = public
  cloud = cloud
  office = office
  Addresses = {docker, cgnat, public, cloud, office}
  PrivateNets = {docker, cgnat}
  DefaultCidrs = {docker}
  AllowedCidrs = {office}
  ProxyLists = {{}, {cloud}}
  Paths <- Ways
  Claims <- Brought
  Numerals <- Inputs
  MaxSample = 3
  Percents = {0, 10, 34, 49, 50, 95, 100}
  Bits = 3
  Kilo = 4
  Units = 3
  Places <- Written
  OpenPlaces = {"table"}
  MaxPart = 1
  MaxDev = 1
  MaxWrites = 3
  Foreign = {f1, f2, f3}
  MaxRelease = 2
  Sources = {"testpypi", "local", "pypi"}
  Plans <- Asked
  Changes <- Redefined
  MaxChanges = 1
  Getters = {g1, g2, g3}
  Factories = {"f1", "f2"}
  Makers = {g1, g2}
  MaxPlaced = 2
  ModelCalls = {n1, n2}
  MaxConnections = 2
  MaxDeltas = 1
  Closers = {k1, k2}
  MaxMade = 2
  Seekers = {e1, e2}
  Dimensions = {"model", "provider", "tenant"}
  Values = {"", "x"}
  MaxRecords = 2
  Variables <- Holes
  Templates <- Prompts
  Given <- Filling
  Tenants = {t1, t2}
  Unset = Unset
  OrmSessions = {z1}
  Selects <- AskedOf
  MaxRows = 2
  MaxPending = 1
  NewTenants = {Unset, t2}
  SetTenants = {Unset, t2}
  RedisCallers = {c1, c2}
  RedisThreads = {h1, h2}
  MongoCallers = {m1, m2}
  DocModels = {i1, i2}
  MaxClients = 2
  Links = {l1}
  SlowAfter = 1
  CriticalAfter = 2
  LeakAfter = 2
  LongAfter = 1
  MaxClock = 4
  MaxStatements = 2
  UrlParams <- UrlParameters
  MaxParams = 3
  RocketSenders = {n1, n2}
  RocketDelays = {0, 1, 7, 7200, 7201}
  ServiceNames = {"s1", "s2"}
  Routes = {"p1", "p2"}
  Verbs = {"get"}
  Bounds <- Latencies
  Durations = {1, 2, 5}
  MaxRecorded = 2
  MaxSlowSql = 2
  Bases = {"a", "b"}
  BuiltinGroups <- OfFramework
  GroupNames = {"other", "mine", "cache"}
  MaxMetrics = 2
  MaxProviders = 2
  NamingTasks = {j1, j2}
  Ports = {1, 2}
  MaxNaming = 2
  Hosts = {w1, w2}
  Weights = {0, 1, 3}
  MaxChoices = 4
  BreakerThreads = {b1, b2, b3}
  Dialogues <- Dialogue
  Askers <- Chatters
  Temperatures = {"none"}
  Words = {"a", "b"}
  BlockRules <- Forbidden
  ModelTexts <- Completions
  MaxWords = 4
  MaxAsked = 2
  MaxText = 24
  Limits = {4, 9}
  TokensOf <- Tokenized
  MaxAttempts = 3
  Readers = {t1, t2}
  Dirs = {d1, d2, d3}
  MaxLoaded = 2
  MaxLoads = 4
  ModelPlans <- Configured
  MaxProvided = 4
  EsTenants <- EsTenantNames
  EsIndexes <- EsIndexNames
  EsIds = {"e1"}
  MaxEsIndexes = 2
  Platforms = {"linux", "windows", "psutil", "none"}
  MaxTicks = 1
  MaxAnswered = 1
  MaxEvents = 2
  WorkUnits = {t1, t2}
  MaxUnitWrites = 2
CHECK_DEADLOCK FALSE
INVARIANTS Measured FoundAndTold KeptApart BuiltAsAsked
