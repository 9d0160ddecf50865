SPECIFICATION LostSpec
CONSTANTS
  put1 = put1
  put2 = put2
  done1 = done1
  Storages = {"local"}
  LastPart = 2
  Puts = {put1, put2}
  PutPart <- PutParts
  PutData <- PutContents
  Completes = {done1}
  WithDigest = {done1}
  Cancels = {}
  ObjectCalls = {}
  ObjectTexts = {}
  MaxFiles = 0
  p1 = p1
  p2 = p2
  ua = ua
  ik = ik
  Posts = {p1, p2}
  WebUsers = {ua}
  Sender <- Senders
  Claims <- Headers
  IdemKeys = {ik}
  IdemKeyOf <- PostKeys
  Digest <- Digests
  NoKey = NoKey
  Nobody = Nobody
  IdemStores = {"redis"}
INVARIANT CompletedHasObject
CHECK_DEADLOCK FALSE
