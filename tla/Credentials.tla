---------------------------- MODULE Credentials -----------------------------
(* What the login of a user leaves in shared stores
   (capabilities/security): the tokens JWTUtil issues, in memory or in
   Redis, and the counters and locks of LoginFailLockService in Redis.

   A step is one command of Redis, or one critical section of the store in
   memory; any command may fail or be the last one before a crash.  All
   logins are of one user; each has its own jti, which names it here. *)
EXTENDS Naturals, FiniteSets

CONSTANTS Logins, Devices, DeviceOf, \* generate_token: a jti and its device
          TokenStores,               \* which stores: "memory", "redis"
          Failures,                  \* calls of record_failure
          Accounts, AccountOf,       \* the account each is about
          Asked,                     \* accounts is_locked is asked about
          Address,                   \* the one IP address they come from
          FailLimit,                 \* by key: failures that lock it
          None

ASSUME CredentialsAssumption ==
  /\ DeviceOf \in [Logins -> Devices] /\ TokenStores \subseteq {"memory", "redis"}
  /\ AccountOf \in [Failures -> Accounts] /\ Address \notin Accounts
  /\ Asked \subseteq Accounts
  /\ FailLimit \in [Accounts \cup {Address} -> Nat \ {0}] /\ None \notin Logins
  /\ {"none", "free"} \cap (Accounts \cup {Address}) = {}

----------------------------------------
VARIABLES tokenStore, \* the store the application was built with
          login,      \* [at, old] of each generate_token
          valid,      \* jtis with a state key
          userSet,    \* jtis in the set of the user
          device,     \* _device_map, or the device keys: the jti, or None
          logout,     \* jtis whose revoke is between its two commands
          disturbed,  \* ghost: devices with logins that overlapped or broke
          ended       \* ghost: jtis that were revoked or whose time was over

tokenVars == <<tokenStore, login, valid, userSet, device, logout, disturbed,
               ended>>

TokenInit ==
  /\ tokenStore \in TokenStores
  /\ login = [l \in Logins |-> [at |-> "new", old |-> None]]
  /\ valid = {} /\ userSet = {} /\ logout = {} /\ disturbed = {} /\ ended = {}
  /\ device = [d \in Devices |-> None]

Steps == {"delete", "srem", "token", "set", "device"}
UnderWay(l) == login[l].at \in Steps
Beside(l) == \E m \in Logins \ {l} : UnderWay(m) /\ DeviceOf[m] = DeviceOf[l]
MoveLogin(l, from, to) ==
  login[l].at = from /\ login' = [login EXCEPT ![l].at = to]

(* The store in memory: _prune_user, which takes the devices of tokens
   that are not in the set only if some token is left in it, and then the
   token of the device is replaced. *)
Kept == userSet \cap valid
SaveInMemory(l) ==
  LET d == DeviceOf[l]
      pruned == [e \in Devices |-> IF Kept = {} \/ device[e] \in Kept
                                   THEN device[e] ELSE None]
  IN  /\ tokenStore = "memory" /\ MoveLogin(l, "new", "done")
      /\ valid' = (valid \ {pruned[d]}) \cup {l}
      /\ userSet' = (Kept \ {pruned[d]}) \cup {l}
      /\ device' = [pruned EXCEPT ![d] = l]
      /\ UNCHANGED <<tokenStore, logout, disturbed, ended>>

(* The store on Redis, save: get the device key, ... *)
GetDevice(l) ==
  /\ tokenStore = "redis" /\ login[l].at = "new"
  /\ login' = [login EXCEPT ![l] =
                 [at |-> IF device[DeviceOf[l]] = None THEN "token" ELSE "delete",
                  old |-> device[DeviceOf[l]]]]
  /\ disturbed' = IF Beside(l) THEN disturbed \cup {DeviceOf[l]} ELSE disturbed
  /\ UNCHANGED <<tokenStore, valid, userSet, device, logout, ended>>

(* ... delete the state of the old token and take it from the set, ... *)
DeleteOld(l) ==
  /\ MoveLogin(l, "delete", "srem") /\ valid' = valid \ {login[l].old}
  /\ UNCHANGED <<tokenStore, userSet, device, logout, disturbed, ended>>
RemoveOld(l) ==
  /\ MoveLogin(l, "srem", "token") /\ userSet' = userSet \ {login[l].old}
  /\ UNCHANGED <<tokenStore, valid, device, logout, disturbed, ended>>

(* ... set the state of the new one, add it to the set, ... *)
SetToken(l) ==
  /\ MoveLogin(l, "token", "set") /\ valid' = valid \cup {l}
  /\ UNCHANGED <<tokenStore, userSet, device, logout, disturbed, ended>>
AddToSet(l) ==
  /\ MoveLogin(l, "set", "device") /\ userSet' = userSet \cup {l}
  /\ UNCHANGED <<tokenStore, valid, device, logout, disturbed, ended>>

(* ... and set the device key. *)
SetDevice(l) ==
  /\ MoveLogin(l, "device", "done") /\ device' = [device EXCEPT ![DeviceOf[l]] = l]
  /\ UNCHANGED <<tokenStore, valid, userSet, logout, disturbed, ended>>

(* A command fails, or was the last before a crash: save raises, no token
   is handed out, and one that was set already is not known to the device. *)
LoginBreaks(l) ==
  /\ UnderWay(l)
  /\ login' = [login EXCEPT ![l].at = "failed"]
  /\ disturbed' = IF l \in valid THEN disturbed \cup {DeviceOf[l]} ELSE disturbed
  /\ UNCHANGED <<tokenStore, valid, userSet, device, logout, ended>>

(* invalidate_token. *)
Revoke(l) ==
  /\ login[l].at = "done" /\ l \in valid /\ valid' = valid \ {l}
  /\ ended' = ended \cup {l}
  /\ IF tokenStore = "memory" THEN userSet' = userSet \ {l} /\ UNCHANGED logout
     ELSE logout' = logout \cup {l} /\ UNCHANGED userSet
  /\ UNCHANGED <<tokenStore, login, device, disturbed>>
RemoveRevoked(l) ==
  /\ l \in logout /\ logout' = logout \ {l} /\ userSet' = userSet \ {l}
  /\ UNCHANGED <<tokenStore, login, valid, device, disturbed, ended>>

(* The time of a token is over; that of its device key is set after it and
   ends after it.  In memory exists() takes the token from the set too. *)
TokenExpires(l) ==
  /\ l \in valid /\ valid' = valid \ {l}
  /\ ended' = ended \cup {l}
  /\ \/ UNCHANGED userSet
     \/ tokenStore = "memory" /\ userSet' = userSet \ {l}
  /\ UNCHANGED <<tokenStore, login, device, logout, disturbed>>
DeviceExpires(d) ==
  /\ tokenStore = "redis" /\ device[d] # None /\ device[d] \notin valid
  /\ device' = [device EXCEPT ![d] = None]
  /\ UNCHANGED <<tokenStore, login, valid, userSet, logout, disturbed, ended>>

(* get_current_device_jti: the device key, or the entry of _device_map,
   which revoke leaves as it is.  Called inside a running loop it asks in
   the loop of a thread of its own, where a client of Redis may fail; the
   error stays in the thread, and the answer is None. *)
CurrentJti(d) ==
  IF tokenStore = "redis" THEN {device[d], None} ELSE {device[d]}

TokenNext ==
  \/ \E l \in Logins :
       \/ SaveInMemory(l) \/ GetDevice(l) \/ DeleteOld(l) \/ RemoveOld(l)
       \/ SetToken(l) \/ AddToSet(l) \/ SetDevice(l) \/ LoginBreaks(l)
       \/ Revoke(l) \/ RemoveRevoked(l) \/ TokenExpires(l)
  \/ \E d \in Devices : DeviceExpires(d)

----------------------------------------
VARIABLES record,  \* where each record_failure is
          seen,    \* the counts it was given, of account and address
          count,   \* failure counters
          timed,   \* those that have a time to live
          locked,  \* lock keys
          broken,  \* ghost: counters whose EXPIRE may have been lost
          credit,  \* ghost: failures counted since the last clear, and
                   \* those under way at that time
          check,   \* the key is_locked asks about, or its answer if "free"
          held     \* ghost: the locks that were there since it began

checkVars == <<check, held>>
lockVars == <<record, seen, count, timed, locked, broken, credit, checkVars>>
LockKeys == Accounts \cup {Address}

NothingSeen == [account |-> 0, address |-> 0]

LockInit ==
  /\ record = [f \in Failures |-> "new"]
  /\ seen = [f \in Failures |-> NothingSeen]
  /\ count = [k \in LockKeys |-> 0] /\ credit = [k \in LockKeys |-> 0]
  /\ timed = {} /\ locked = {} /\ broken = {} /\ held = {}
  /\ check = "none"

(* The account of a record, or its address. *)
KeyOfStep(f, dim) == IF dim = "account" THEN AccountOf[f] ELSE Address
MoveRecord(f, from, to) == record[f] = from /\ record' = [record EXCEPT ![f] = to]

Forgets(f) == seen' = [seen EXCEPT ![f] = NothingSeen]

(* incr; the first failure of a key goes on to set its time to live. *)
Incr(f, dim, from, expire, next) ==
  LET k == KeyOfStep(f, dim) IN
  /\ MoveRecord(f, from, IF count[k] = 0 THEN expire ELSE next)
  /\ count' = [count EXCEPT ![k] = @ + 1]
  /\ seen' = [seen EXCEPT ![f][dim] = count[k] + 1]
  /\ credit' = [credit EXCEPT ![k] = @ + 1]
  /\ UNCHANGED <<timed, locked, broken, checkVars>>

SetExpiry(f, dim, from, next) ==
  LET k == KeyOfStep(f, dim) IN
  /\ MoveRecord(f, from, next)
  /\ timed' = IF count[k] > 0 THEN timed \cup {k} ELSE timed
  /\ UNCHANGED <<seen, count, locked, broken, credit, checkVars>>

(* A mutant: one failure less is enough. *)
ReachesEarly(f, dim) == seen[f][dim] + 1 >= FailLimit[KeyOfStep(f, dim)]

Reaches(f, dim) == seen[f][dim] >= FailLimit[KeyOfStep(f, dim)]

Lock(f, dim, from, next) ==
  /\ MoveRecord(f, from, next)
  /\ locked' = IF Reaches(f, dim) THEN locked \cup {KeyOfStep(f, dim)} ELSE locked
  /\ IF next = "done" THEN Forgets(f) ELSE UNCHANGED seen
  /\ UNCHANGED <<count, timed, broken, credit, checkVars>>

RecordFailure(f) ==
  \/ Incr(f, "account", "new", "expire", "address")
  \/ SetExpiry(f, "account", "expire", "address")
  \/ Incr(f, "address", "address", "expireAddress", "lock")
  \/ SetExpiry(f, "address", "expireAddress", "lock")
  \/ Lock(f, "account", "lock", "lockAddress")
  \/ Lock(f, "address", "lockAddress", "done")

ExpiringFor(f, k) ==
  \/ record[f] = "expire" /\ AccountOf[f] = k
  \/ record[f] = "expireAddress" /\ Address = k

(* except RedisError: the rest is left out; a crash does the same. *)
RecordBreaks(f) ==
  /\ record[f] \notin {"new", "done"} /\ record' = [record EXCEPT ![f] = "done"]
  /\ broken' = broken \cup {k \in LockKeys : ExpiringFor(f, k)}
  /\ Forgets(f) /\ UNCHANGED <<count, timed, locked, credit, checkVars>>

CanRecord(a) == {f \in Failures : AccountOf[f] = a \/ a = Address}
UnderWayFor(k) == {f \in CanRecord(k) : record[f] \notin {"new", "done"}}

(* clear, after a login that succeeded: one DEL of all four keys. *)
ClearLock(a) ==
  LET gone == {a, Address} IN
  /\ count' = [k \in LockKeys |-> IF k \in gone THEN 0 ELSE count[k]]
  /\ credit' = [k \in LockKeys |-> IF k \notin gone THEN credit[k]
                                   ELSE IF UnderWayFor(k) = {} THEN 0
                                   ELSE FailLimit[k]]
  /\ timed' = timed \ gone /\ locked' = locked \ gone /\ broken' = broken \ gone
  /\ held' = held \ gone /\ UNCHANGED <<record, seen, check>>

CountExpires(k) ==
  /\ k \in timed /\ timed' = timed \ {k} /\ count' = [count EXCEPT ![k] = 0]
  /\ UNCHANGED <<record, seen, locked, broken, credit, checkVars>>
LockExpires(k) ==
  /\ k \in locked /\ locked' = locked \ {k} /\ held' = held \ {k}
  /\ UNCHANGED <<record, seen, count, timed, broken, credit, check>>

(* is_locked: one EXISTS for the account, and one for the address unless
   the first says yes; an error counts as not locked. *)
AsksAccount(a) ==
  /\ check = "none" /\ check' = a /\ held' = locked \cap {a, Address}
AsksAddress ==
  /\ check \in Asked \ locked /\ check' = Address /\ UNCHANGED held
IsLocked ==
  \/ /\ check \in LockKeys /\ check' = "none" /\ held' = {}
  \/ /\ check \in {Address} \ locked /\ check' = "free" /\ UNCHANGED held
  \/ /\ check = "free" /\ check' = "none" /\ held' = {}

LockNext ==
  \/ \E f \in Failures : RecordFailure(f) \/ RecordBreaks(f)
  \/ \E a \in Accounts : ClearLock(a)
  \/ \E k \in LockKeys : CountExpires(k) \/ LockExpires(k)
  \/ /\ IsLocked \/ AsksAddress \/ \E a \in Asked : AsksAccount(a)
     /\ UNCHANGED <<record, seen, count, timed, locked, broken, credit>>

(* Tokens and locks share no key; their commands interleave. *)
CredentialsSpec ==
  /\ TokenInit /\ LockInit
  /\ [][\/ TokenNext /\ UNCHANGED lockVars
        \/ LockNext /\ UNCHANGED tokenVars]_<<tokenVars, lockVars>>

----------------------------------------
CredentialsTypeOK ==
  /\ tokenStore \in TokenStores
  /\ login \in [Logins -> [at : Steps \cup {"new", "done", "failed"},
                           old : Logins \cup {None}]]
  /\ valid \cup userSet \cup logout \subseteq Logins
  /\ device \in [Devices -> Logins \cup {None}] /\ disturbed \subseteq Devices
  /\ ended \subseteq Logins
  /\ record \in [Failures -> {"new", "expire", "address", "expireAddress",
                              "lock", "lockAddress", "done"}]
  /\ seen \in [Failures -> [account : Nat, address : Nat]]
  /\ count \in [LockKeys -> Nat] /\ credit \in [LockKeys -> Nat]
  /\ timed \cup locked \cup broken \cup held \subseteq LockKeys
  /\ check \in LockKeys \cup {"none", "free"}

(* What outlives its reason in the shared stores is explained: two tokens
   of one device by logins that overlapped or broke off; a failure counter
   that never runs out by a record that broke off; and a lock set with
   fewer failures than its limit since the last login that succeeded by a
   record that was under way during that login.  What the device is said
   to have is valid unless it ended or a login was replacing it, and a
   check that says not locked overlooks no lock that was there throughout. *)
LeftoversExplained ==
  /\ \A l, m \in valid : l # m /\ DeviceOf[l] = DeviceOf[m]
                         => DeviceOf[l] \in disturbed
  /\ \A k \in LockKeys : count[k] > 0 /\ k \notin timed
                         => k \in broken \/ \E f \in Failures : ExpiringFor(f, k)
  /\ \A k \in locked : credit[k] >= FailLimit[k]
  /\ \A d \in Devices : CurrentJti(d) \subseteq {None} \cup valid \cup ended
                             \cup {login[l].old : l \in {m \in Logins :
                                    login[m].at # "done"}}
  /\ check = "free" => held = {}

(* Whatever is left in the token stores and in the counters and locks of
   logins has a reason: a login or a record that overlapped another or
   broke off (JWTUtil, RedisJwtTokenStore, LoginFailLockService). *)
CredentialsSound == CredentialsTypeOK /\ LeftoversExplained
=============================================================================
