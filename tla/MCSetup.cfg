SPECIFICATION SetupSpec
CONSTANTS
  h = h
  u = u
  m = m
  first = first
  second = second
  Section = {h, u}
  Mode = m
  Declarations <- Declared
  Properties = {first, second}
  NextProperty <- Refers
  ProfileNames = {"stage"}
  Bundles <- Made
  Apps = {p1, p2}
  NoApp = NoApp
  Models = {g1}
  Types <- Offered
  ua = ua
  ub = ub
  v1 = v1
  v2 = v2
  v3 = v3
  Openids = {o1}
  SignInUsers = {ua, ub}
  NoUser = NoUser
  Visits = {v1, v2, v3}
  VisitUser <- Whose
  Shows = {s1, s2}
  MaxIssued = 2
  BindingStores = {"memory", "database"}
  wa = wa
  wb = wb
  wc = wc
  pa = pa
  pb = pb
  Calls = {wa, wb, wc}
  CallKind <- Kinds
  CallProcess <- Runner
  Retries = 1
  LastSerial = 2
  BillChecks = {TRUE, FALSE}
CHECK_DEADLOCK FALSE
INVARIANTS ConfigurationLayered WiredAsDeclared SignInSound ChannelTrusted
