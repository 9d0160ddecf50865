SPECIFICATION Spec
CONSTANTS
  r1 = r1
  r2 = r2
  r3 = r3
  r4 = r4
  m1 = m1
  m2 = m2
  t1 = t1
  u1 = u1
  k1 = k1
  p1 = p1
  p2 = p2
  p3 = p3
  p4 = p4
  p5 = p5
  ua = ua
  ub = ub
  ik = ik
  l1 = l1
  l2 = l2
  l3 = l3
  d1 = d1
  d2 = d2
  f1 = f1
  f2 = f2
  f3 = f3
  ip = ip
  put1 = put1
  put2 = put2
  put3 = put3
  done1 = done1
  done2 = done2
  drop1 = drop1
  e1 = e1
  e2 = e2
  e3 = e3
  ghost = ghost
  Requests = {r1, r2, r3, r4}
  Entry <- Entries
  Models = {m1, m2}
  RouteOf <- Routes
  Denied <- Refused
  Registered = {m1, m2}
  ScopesOf <- Quotas
  Scopes = {t1, u1}
  KeyOf <- CacheKeys
  Keys = {k1}
  MaxConcurrency = 1
  QueueCapacity = 2
  GatewayRetries = 1
  MaxCalls = 2
  MaxTokens = 1
  MaxChunks = 1
  MaxWindows = 1
  SvcCalls = {c1, c2, c3}
  Instances = {i1}
  SvcTries = 2
  WindowSize = 2
  MinimumCalls = 2
  Permitted = 2
  FailureRate = 5
  SlowRate = 8
  GuardedCalls = {c1, c2}
  GuardRetries = 1
  Posts = {p1, p2, p3, p4, p5}
  WebUsers = {ua, ub}
  Sender <- Senders
  Claims <- Headers
  IdemKeys = {ik}
  IdemKeyOf <- PostKeys
  Digest <- Digests
  NoKey = NoKey
  Nobody = Nobody
  IdemStores = {"memory", "redis"}
  Logins = {l1, l2, l3}
  Devices = {d1, d2}
  DeviceOf <- LoginDevices
  TokenStores = {"memory", "redis"}
  Failures = {f1, f2}
  Accounts = {ua, ub}
  AccountOf <- FailedFor
  Address = ip
  Asked = {ua}
  FailLimit <- Limits
  None = None
  Storages = {"local", "minio"}
  LastPart = 2
  Puts = {put1, put2, put3}
  PutPart <- PutParts
  PutData <- PutContents
  Completes = {done1, done2}
  WithDigest = {done1}
  Cancels = {drop1}
  w1 = w1
  w2 = w2
  w3 = w3
  ObjectCalls = {w1, w2, w3}
  ObjectTexts <- PutTexts
  MaxFiles = 2
  Extensions = {e1, e2, e3}
  Strangers = {ghost}
  Components = 2
INVARIANTS GatewaySound CallsSound Idempotent CredentialsSound UploadsSound AssembledInOrder
CHECK_DEADLOCK FALSE
