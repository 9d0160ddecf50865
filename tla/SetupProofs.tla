---------------------------- MODULE SetupProofs -----------------------------
(***************************************************************************)
(* Proofs about Credentials: tokens and login locks, for any number of     *)
(* logins, devices, accounts and failures, and either store of tokens;     *)
(* about SignIn: accounts of a platform and the tokens of requests, for    *)
(* any number of users, calls and requests, and either store of bindings;  *)
(* and about Assembly: any number of applications and models, and any      *)
(* types of components.                                                    *)
(***************************************************************************)
EXTENDS Credentials, SignIn, Assembly, FiniteSetTheorems, SequenceTheorems, TLAPS

----------------------------------------
(* Tokens: the inductive invariant. *)

LoginSteps == Steps \cup {"new", "done", "failed"}

TokenTypes ==
  /\ tokenStore \in TokenStores
  /\ login \in [Logins -> [at : LoginSteps, old : Logins \cup {None}]]
  /\ valid \subseteq Logins /\ userSet \subseteq Logins /\ logout \subseteq Logins
  /\ device \in [Devices -> Logins \cup {None}]
  /\ disturbed \subseteq Devices /\ ended \subseteq Logins

(* The store in memory saves in one step, and knows the device of every
   token that is valid. *)
InMemory ==
  tokenStore = "memory" =>
    /\ logout = {}
    /\ \A l \in Logins : login[l].at \in {"new", "done"} /\ login[l].old = None
    /\ \A m \in valid : m \in userSet /\ device[DeviceOf[m]] = m

(* What a device key holds, or held when a login read it, is a token of
   that device whose login was done. *)
KeysFit ==
  /\ \A d \in Devices : device[d] # None => DeviceOf[device[d]] = d /\ login[device[d]].at = "done"
  /\ \A l \in Logins : login[l].old # None =>
       DeviceOf[login[l].old] = DeviceOf[l] /\ login[login[l].old].at = "done"

(* How far a login has come. *)
LoginFits ==
  \A l \in Logins :
    /\ login[l].at \in {"new", "delete", "srem", "token"} => l \notin valid
    /\ login[l].at = "new" => login[l].old = None
    /\ login[l].at \in {"set", "device"} => l \in valid \cup ended

Replaced(j) == \E l \in Logins : login[l].at # "done" /\ login[l].old = j

KeysAccounted ==
  \A d \in Devices : device[d] # None => device[d] \in valid \cup ended \/ Replaced(device[d])

(* While logins on a device neither overlap nor break off, one is under
   way at most, and a valid token is that login's own, or the one it is
   about to delete, or what the device key holds. *)
Undisturbed ==
  \A d \in Devices \ disturbed :
    /\ \A l, m \in Logins :
         UnderWay(l) /\ UnderWay(m) /\ DeviceOf[l] = d /\ DeviceOf[m] = d => l = m
    /\ \A m \in valid : DeviceOf[m] = d => UnderWay(m) \/ device[d] = m
    /\ \A m \in valid : \A l \in Logins \ {m} : DeviceOf[m] = d /\ DeviceOf[l] = d /\ UnderWay(l) =>
           login[l].at = "delete" /\ login[l].old = m

TokenInv == TokenTypes /\ InMemory /\ KeysFit /\ LoginFits /\ KeysAccounted /\ Undisturbed

----------------------------------------
(* Locks: the inductive invariant. *)

RecordSteps == {"new", "expire", "address", "expireAddress", "lock", "lockAddress", "done"}

LockTypes ==
  /\ record \in [Failures -> RecordSteps]
  /\ seen \in [Failures -> [account : Nat, address : Nat]]
  /\ count \in [LockKeys -> Nat] /\ credit \in [LockKeys -> Nat]
  /\ timed \subseteq LockKeys /\ locked \subseteq LockKeys /\ broken \subseteq LockKeys
  /\ held \subseteq locked
  /\ check \in LockKeys \cup {"none", "free"}

(* n failures of a key are credited, or as many as lock it. *)
Credited(k, n) == n <= credit[k] \/ FailLimit[k] <= credit[k]

CountersFit ==
  /\ \A k \in LockKeys : Credited(k, count[k])
  /\ \A f \in Failures :
     /\ Credited(AccountOf[f], seen[f].account)
     /\ Credited(Address, seen[f].address)
     /\ record[f] \in {"new", "done"} => seen[f] = NothingSeen

Timed ==
  \A k \in LockKeys : count[k] > 0 /\ k \notin timed
                      => k \in broken \/ \E f \in Failures : ExpiringFor(f, k)

LocksEarned == \A k \in locked : credit[k] >= FailLimit[k]

(* The locks a check may still overlook are those it has not asked for. *)
ChecksFit ==
  /\ check \in Accounts => held \subseteq {check, Address}
  /\ check = Address => held \subseteq {Address}
  /\ check \in {"none", "free"} => held = {}

LockInv == LockTypes /\ CountersFit /\ Timed /\ LocksEarned /\ ChecksFit

----------------------------------------
(* Locks: every step. *)

LEMMA KeysDiffer ==
  ASSUME CredentialsAssumption, NEW f \in Failures
  PROVE  /\ AccountOf[f] \in Accounts /\ AccountOf[f] \in LockKeys /\ Address \in LockKeys
         /\ AccountOf[f] # Address
         /\ \A k \in LockKeys : FailLimit[k] \in Nat \ {0} /\ k # "none" /\ k # "free"
  BY DEF CredentialsAssumption, LockKeys

LEMMA InitLocks == ASSUME CredentialsAssumption, LockInit PROVE LockInv
<1>1. LockTypes BY DEF LockInit, LockTypes, RecordSteps, NothingSeen
<1>2. CountersFit BY KeysDiffer DEF LockInit, CountersFit, Credited, NothingSeen
<1>3. Timed /\ LocksEarned BY DEF LockInit, Timed, LocksEarned
<1>4. ChecksFit BY DEF LockInit, ChecksFit, CredentialsAssumption
<1> QED BY <1>1, <1>2, <1>3, <1>4 DEF LockInv

(* One more failure: its count is credited with it. *)
LEMMA IncrStep ==
  ASSUME LockInv, CredentialsAssumption, NEW f \in Failures, NEW dim, NEW from, NEW expire, NEW next,
         \/ dim = "account" /\ from = "new" /\ expire = "expire" /\ next = "address"
         \/ dim = "address" /\ from = "address" /\ expire = "expireAddress" /\ next = "lock",
         Incr(f, dim, from, expire, next)
  PROVE  LockInv'
<1> DEFINE k == KeyOfStep(f, dim)
           step == IF count[k] = 0 THEN expire ELSE next
<1>1. k \in LockKeys /\ (dim = "account" => k = AccountOf[f]) /\ (dim = "address" => k = Address)
  BY KeysDiffer DEF KeyOfStep
<1>2. /\ record[f] = from /\ record' = [record EXCEPT ![f] = step]
      /\ count' = [count EXCEPT ![k] = @ + 1]
      /\ seen' = [seen EXCEPT ![f][dim] = count[k] + 1]
      /\ credit' = [credit EXCEPT ![k] = @ + 1]
      /\ UNCHANGED <<timed, locked, broken, check, held>>
  BY DEF Incr, MoveRecord, checkVars
<1>3. step \in RecordSteps /\ step \notin {"new", "done"} BY DEF RecordSteps
<1>s. step \in {expire, next} /\ (count[k] = 0 => step = expire) OBVIOUS
<1> HIDE DEF k, step
<1>4. /\ \A x \in LockKeys : count'[x] = IF x = k THEN count[x] + 1 ELSE count[x]
      /\ \A x \in LockKeys : credit'[x] = IF x = k THEN credit[x] + 1 ELSE credit[x]
      /\ count' \in [LockKeys -> Nat] /\ credit' \in [LockKeys -> Nat]
      /\ record' \in [Failures -> RecordSteps]
      /\ record'[f] = step /\ \A g \in Failures \ {f} : record'[g] = record[g]
  BY <1>1, <1>2, <1>3 DEF LockInv, LockTypes
<1>5. /\ seen' \in [Failures -> [account : Nat, address : Nat]]
      /\ \A g \in Failures \ {f} : seen'[g] = seen[g]
      /\ dim = "account" => seen'[f].account = count[k] + 1 /\ seen'[f].address = seen[f].address
      /\ dim = "address" => seen'[f].address = count[k] + 1 /\ seen'[f].account = seen[f].account
  <2>1. count[k] + 1 \in Nat BY <1>1 DEF LockInv, LockTypes
  <2>2. CASE dim = "account" BY <1>2, <2>1, <2>2 DEF LockInv, LockTypes
  <2>3. CASE dim = "address" BY <1>2, <2>1, <2>3 DEF LockInv, LockTypes
  <2> QED BY <2>2, <2>3
<1>6. LockTypes' BY <1>2, <1>4, <1>5 DEF LockInv, LockTypes
<1>7. CountersFit'
  <2>1. \A x \in LockKeys : Credited(x, count[x])'
    BY <1>4, KeysDiffer DEF LockInv, LockTypes, CountersFit, Credited
  <2>2. ASSUME NEW x \in LockKeys, NEW n \in Nat, Credited(x, n) PROVE Credited(x, n)'
    BY <1>4, <2>2, KeysDiffer DEF LockInv, LockTypes, Credited
  <2>3. ASSUME NEW g \in Failures
        PROVE  Credited(AccountOf[g], seen[g].account)' /\ Credited(Address, seen[g].address)'
    <3>1. seen[g].account \in Nat /\ seen[g].address \in Nat BY DEF LockInv, LockTypes
    <3>2. Credited(AccountOf[g], seen[g].account) /\ Credited(Address, seen[g].address)
      BY DEF LockInv, CountersFit
    <3>3. CASE g # f BY <1>5, <2>2, <3>1, <3>2, <3>3, KeysDiffer DEF Credited
    <3>4. CASE g = f /\ dim = "account"
      BY <1>1, <1>4, <1>5, <2>1, <2>2, <3>1, <3>2, <3>4, KeysDiffer DEF Credited
    <3>5. CASE g = f /\ dim = "address"
      BY <1>1, <1>4, <1>5, <2>1, <2>2, <3>1, <3>2, <3>5, KeysDiffer DEF Credited
    <3> QED BY <3>3, <3>4, <3>5
  <2>4. \A g \in Failures : record'[g] \in {"new", "done"} => seen'[g] = NothingSeen
    BY <1>3, <1>4, <1>5 DEF LockInv, CountersFit
  <2> QED BY <2>1, <2>3, <2>4 DEF CountersFit, NothingSeen
<1>8. Timed'
  <2> SUFFICES ASSUME NEW x \in LockKeys, count'[x] > 0, x \notin timed'
               PROVE  x \in broken' \/ \E g \in Failures : ExpiringFor(g, x)'
    BY DEF Timed
  <2>1. CASE count[x] > 0
    <3>1. x \in broken \/ \E g \in Failures : ExpiringFor(g, x) BY <1>2, <2>1 DEF LockInv, Timed
    <3>2. \A g \in Failures : ExpiringFor(g, x) => ExpiringFor(g, x)' BY <1>2, <1>4 DEF ExpiringFor
    <3> QED BY <1>2, <3>1, <3>2
  <2>2. CASE ~(count[x] > 0)
    <3>1. x = k /\ count[k] = 0 BY <1>4, <2>2 DEF LockInv, LockTypes
    <3>2. ExpiringFor(f, x)' BY <1>1, <1>4, <1>s, <3>1 DEF ExpiringFor
    <3> QED BY <3>2
  <2> QED BY <2>1, <2>2
<1>9. LocksEarned'
  <2> SUFFICES ASSUME NEW x \in locked PROVE credit'[x] >= FailLimit[x] BY <1>2 DEF LocksEarned
  <2>1. x \in LockKeys /\ credit[x] \in Nat /\ FailLimit[x] \in Nat /\ credit[x] >= FailLimit[x]
    BY KeysDiffer DEF LockInv, LockTypes, LocksEarned
  <2> QED BY <1>4, <2>1
<1>10. ChecksFit' BY <1>2 DEF LockInv, ChecksFit
<1> QED BY <1>6, <1>7, <1>8, <1>9, <1>10 DEF LockInv

(* The time to live is set; a record goes on, or breaks off. *)
LEMMA SetExpiryStep ==
  ASSUME LockInv, CredentialsAssumption, NEW f \in Failures, NEW dim, NEW from, NEW next,
         \/ dim = "account" /\ from = "expire" /\ next = "address"
         \/ dim = "address" /\ from = "expireAddress" /\ next = "lock",
         SetExpiry(f, dim, from, next)
  PROVE  LockInv'
<1> DEFINE k == KeyOfStep(f, dim)
<1>1. k \in LockKeys /\ (dim = "account" => k = AccountOf[f]) /\ (dim = "address" => k = Address)
  BY KeysDiffer DEF KeyOfStep
<1>2. /\ record[f] = from /\ record' = [record EXCEPT ![f] = next]
      /\ timed' = IF count[k] > 0 THEN timed \cup {k} ELSE timed
      /\ UNCHANGED <<seen, count, locked, broken, credit, check, held>>
  BY DEF SetExpiry, MoveRecord, checkVars
<1> HIDE DEF k
<1>3. /\ record' \in [Failures -> RecordSteps]
      /\ record'[f] = next /\ \A g \in Failures \ {f} : record'[g] = record[g]
  BY <1>2 DEF LockInv, LockTypes, RecordSteps
<1>4. LockTypes' BY <1>1, <1>2, <1>3 DEF LockInv, LockTypes
<1>5. CountersFit' BY <1>2, <1>3 DEF LockInv, CountersFit, Credited
<1>6. Timed'
  <2> SUFFICES ASSUME NEW x \in LockKeys, count[x] > 0, x \notin timed'
               PROVE  x \in broken \/ \E g \in Failures : ExpiringFor(g, x)'
    BY <1>2 DEF Timed
  <2>1. x # k /\ x \notin timed BY <1>2
  <2>2. x \in broken \/ \E g \in Failures : ExpiringFor(g, x) BY <2>1 DEF LockInv, Timed
  <2>3. ~ExpiringFor(f, x) BY <1>1, <1>2, <2>1 DEF ExpiringFor
  <2>4. \A g \in Failures \ {f} : ExpiringFor(g, x) => ExpiringFor(g, x)' BY <1>3 DEF ExpiringFor
  <2> QED BY <2>2, <2>3, <2>4
<1>7. LocksEarned' /\ ChecksFit' BY <1>2 DEF LockInv, LocksEarned, ChecksFit
<1> QED BY <1>4, <1>5, <1>6, <1>7 DEF LockInv

(* A lock is set by a record whose failures are credited. *)
LEMMA LockStep ==
  ASSUME LockInv, CredentialsAssumption, NEW f \in Failures, NEW dim, NEW from, NEW next,
         \/ dim = "account" /\ from = "lock" /\ next = "lockAddress"
         \/ dim = "address" /\ from = "lockAddress" /\ next = "done",
         Lock(f, dim, from, next)
  PROVE  LockInv'
<1> DEFINE k == KeyOfStep(f, dim)
<1>1. k \in LockKeys /\ (dim = "account" => k = AccountOf[f]) /\ (dim = "address" => k = Address)
  BY KeysDiffer DEF KeyOfStep
<1>2. /\ record[f] = from /\ record' = [record EXCEPT ![f] = next]
      /\ locked' = IF Reaches(f, dim) THEN locked \cup {k} ELSE locked
      /\ IF next = "done" THEN Forgets(f) ELSE UNCHANGED seen
      /\ UNCHANGED <<count, timed, broken, credit, check, held>>
  BY DEF Lock, MoveRecord, checkVars
<1>r. Reaches(f, dim) => FailLimit[k] <= credit[k]
  <2>1. /\ Credited(AccountOf[f], seen[f].account) /\ Credited(Address, seen[f].address)
        /\ seen[f].account \in Nat /\ seen[f].address \in Nat
        /\ credit[k] \in Nat /\ FailLimit[k] \in Nat
    BY <1>1, KeysDiffer DEF LockInv, LockTypes, CountersFit
  <2>2. CASE dim = "account" BY <1>1, <2>1, <2>2 DEF Reaches, Credited, KeyOfStep
  <2>3. CASE dim = "address" BY <1>1, <2>1, <2>3 DEF Reaches, Credited, KeyOfStep
  <2> QED BY <2>2, <2>3
<1> HIDE DEF k
<1>3. /\ record' \in [Failures -> RecordSteps]
      /\ record'[f] = next /\ \A g \in Failures \ {f} : record'[g] = record[g]
  BY <1>2 DEF LockInv, LockTypes, RecordSteps
<1>s. /\ seen' \in [Failures -> [account : Nat, address : Nat]]
      /\ \A g \in Failures \ {f} : seen'[g] = seen[g]
      /\ seen'[f] = seen[f] \/ seen'[f] = NothingSeen
      /\ next = "done" => seen'[f] = NothingSeen
  BY <1>2 DEF LockInv, LockTypes, Forgets, NothingSeen
<1>4. LockTypes' BY <1>1, <1>2, <1>3, <1>s DEF LockInv, LockTypes
<1>5. CountersFit'
  <2>1. \A x \in LockKeys : Credited(x, 0) BY KeysDiffer DEF LockInv, LockTypes, Credited
  <2>2. \A g \in Failures :
    /\ Credited(AccountOf[g], seen'[g].account)
    /\ Credited(Address, seen'[g].address)
    BY <1>s, <2>1, KeysDiffer DEF LockInv, CountersFit, NothingSeen
  <2>3. \A g \in Failures : record'[g] \in {"new", "done"} => seen'[g] = NothingSeen
    BY <1>3, <1>s DEF LockInv, CountersFit
  <2> QED BY <1>2, <2>2, <2>3 DEF LockInv, CountersFit, Credited, NothingSeen
<1>6. Timed'
  <2>1. \A g \in Failures, x \in LockKeys : ExpiringFor(g, x) => ExpiringFor(g, x)'
    BY <1>2, <1>3 DEF ExpiringFor
  <2> QED BY <1>2, <2>1 DEF LockInv, Timed
<1>7. LocksEarned' BY <1>1, <1>2, <1>r, KeysDiffer DEF LockInv, LockTypes, LocksEarned
<1>8. ChecksFit' BY <1>2 DEF LockInv, ChecksFit
<1> QED BY <1>4, <1>5, <1>6, <1>7, <1>8 DEF LockInv

LEMMA RecordBreaksStep ==
  ASSUME LockInv, CredentialsAssumption, NEW f \in Failures, RecordBreaks(f) PROVE LockInv'
<1>2. /\ record' = [record EXCEPT ![f] = "done"]
      /\ broken' = broken \cup {k \in LockKeys : ExpiringFor(f, k)}
      /\ Forgets(f) /\ UNCHANGED <<count, timed, locked, credit, check, held>>
  BY DEF RecordBreaks, checkVars
<1>3. /\ record' \in [Failures -> RecordSteps]
      /\ record'[f] = "done" /\ \A g \in Failures \ {f} : record'[g] = record[g]
  BY <1>2 DEF LockInv, LockTypes, RecordSteps
<1>s. /\ seen' \in [Failures -> [account : Nat, address : Nat]]
      /\ \A g \in Failures \ {f} : seen'[g] = seen[g]
      /\ seen'[f] = NothingSeen
  BY <1>2 DEF LockInv, LockTypes, Forgets, NothingSeen
<1>4. LockTypes' BY <1>2, <1>3, <1>s DEF LockInv, LockTypes
<1>5. CountersFit'
  <2>1. \A x \in LockKeys : Credited(x, 0) BY KeysDiffer DEF LockInv, LockTypes, Credited
  <2>2. \A g \in Failures :
    /\ Credited(AccountOf[g], seen'[g].account)
    /\ Credited(Address, seen'[g].address)
    BY <1>s, <2>1, KeysDiffer DEF LockInv, CountersFit, NothingSeen
  <2>3. \A g \in Failures : record'[g] \in {"new", "done"} => seen'[g] = NothingSeen
    BY <1>3, <1>s DEF LockInv, CountersFit
  <2> QED BY <1>2, <2>2, <2>3 DEF LockInv, CountersFit, Credited, NothingSeen
<1>6. Timed'
  <2>1. \A g \in Failures \ {f}, x \in LockKeys : ExpiringFor(g, x) => ExpiringFor(g, x)'
    BY <1>3 DEF ExpiringFor
  <2>2. \A x \in LockKeys : ExpiringFor(f, x) => x \in broken' BY <1>2
  <2> QED BY <1>2, <2>1, <2>2 DEF LockInv, Timed
<1>7. LocksEarned' /\ ChecksFit' BY <1>2 DEF LockInv, LocksEarned, ChecksFit
<1> QED BY <1>4, <1>5, <1>6, <1>7 DEF LockInv

(* A login that succeeded forgives what was counted, but a record under
   way may still write what it saw. *)
LEMMA ClearLockStep ==
  ASSUME LockInv, CredentialsAssumption, NEW a \in Accounts, ClearLock(a) PROVE LockInv'
<1> DEFINE gone == {a, Address}
<1>1. /\ count' = [k \in LockKeys |-> IF k \in gone THEN 0 ELSE count[k]]
      /\ credit' = [k \in LockKeys |-> IF k \notin gone THEN credit[k]
                                       ELSE IF UnderWayFor(k) = {} THEN 0 ELSE FailLimit[k]]
      /\ timed' = timed \ gone /\ locked' = locked \ gone /\ broken' = broken \ gone
      /\ held' = held \ gone /\ UNCHANGED <<record, seen, check>>
  BY DEF ClearLock
<1>0. gone \subseteq LockKeys /\ \A k \in LockKeys : FailLimit[k] \in Nat
  BY DEF LockKeys, CredentialsAssumption
<1> HIDE DEF gone
<1>2. /\ \A k \in LockKeys : count'[k] = IF k \in gone THEN 0 ELSE count[k]
      /\ \A k \in LockKeys : credit'[k] = IF k \notin gone THEN credit[k]
                                ELSE IF UnderWayFor(k) = {} THEN 0 ELSE FailLimit[k]
      /\ count' \in [LockKeys -> Nat] /\ credit' \in [LockKeys -> Nat]
  BY <1>0, <1>1 DEF LockInv, LockTypes
<1>3. LockTypes' BY <1>1, <1>2 DEF LockInv, LockTypes
<1>4. CountersFit'
  <2>1. \A k \in LockKeys : Credited(k, count[k])'
    BY <1>0, <1>2 DEF LockInv, LockTypes, CountersFit, Credited
  <2>2. ASSUME NEW f \in Failures, NEW k \in {AccountOf[f], Address}, NEW n \in Nat,
               Credited(k, n), record[f] \in {"new", "done"} => n = 0
        PROVE  Credited(k, n)'
    <3>0. k \in LockKeys BY KeysDiffer
    <3>1. CASE k \notin gone BY <1>2, <2>2, <3>0, <3>1 DEF Credited
    <3>2. CASE k \in gone /\ UnderWayFor(k) # {} BY <1>0, <1>2, <2>2, <3>0, <3>2 DEF Credited
    <3>3. CASE k \in gone /\ UnderWayFor(k) = {}
      <4>1. f \in CanRecord(k) BY KeysDiffer DEF CanRecord
      <4>2. record[f] \in {"new", "done"} BY <3>3, <4>1 DEF UnderWayFor
      <4> QED BY <1>2, <2>2, <3>0, <3>3, <4>2 DEF Credited
    <3> QED BY <3>1, <3>2, <3>3
  <2>3. ASSUME NEW f \in Failures
        PROVE  Credited(AccountOf[f], seen[f].account)' /\ Credited(Address, seen[f].address)'
    <3>1. /\ seen[f].account \in Nat /\ seen[f].address \in Nat
          /\ Credited(AccountOf[f], seen[f].account) /\ Credited(Address, seen[f].address)
          /\ record[f] \in {"new", "done"} => seen[f].account = 0 /\ seen[f].address = 0
      BY DEF LockInv, LockTypes, CountersFit, NothingSeen
    <3>2. Credited(AccountOf[f], seen[f].account)'
      <4>1. PICK n \in Nat : n = seen[f].account BY <3>1
      <4>2. Credited(AccountOf[f], n)' BY <2>2, <3>1, <4>1
      <4> QED BY <1>1, <4>1, <4>2 DEF Credited
    <3>3. Credited(Address, seen[f].address)'
      <4>1. PICK n \in Nat : n = seen[f].address BY <3>1
      <4>2. Credited(Address, n)' BY <2>2, <3>1, <4>1
      <4> QED BY <1>1, <4>1, <4>2 DEF Credited
    <3> QED BY <3>2, <3>3
  <2>4. \A f \in Failures : record'[f] \in {"new", "done"} => seen'[f] = NothingSeen
    BY <1>1 DEF LockInv, CountersFit
  <2> QED BY <2>1, <2>3, <2>4 DEF CountersFit, NothingSeen
<1>5. Timed'
  <2>1. \A f \in Failures, k \in LockKeys : ExpiringFor(f, k) => ExpiringFor(f, k)'
    BY <1>1 DEF ExpiringFor
  <2>2. \A k \in LockKeys : count'[k] > 0 => k \notin gone /\ count[k] > 0 BY <1>2
  <2> QED BY <1>1, <2>1, <2>2 DEF LockInv, Timed
<1>6. LocksEarned' BY <1>1, <1>2 DEF LockInv, LockTypes, LocksEarned
<1>7. ChecksFit' BY <1>1 DEF LockInv, ChecksFit
<1> QED BY <1>3, <1>4, <1>5, <1>6, <1>7 DEF LockInv

LEMMA CountExpiresStep ==
  ASSUME LockInv, CredentialsAssumption, NEW k \in LockKeys, CountExpires(k) PROVE LockInv'
<1>1. /\ timed' = timed \ {k} /\ count' = [count EXCEPT ![k] = 0]
      /\ UNCHANGED <<record, seen, locked, broken, credit, check, held>>
  BY DEF CountExpires, checkVars
<1>2. /\ count' \in [LockKeys -> Nat]
      /\ \A x \in LockKeys : count'[x] = IF x = k THEN 0 ELSE count[x]
  BY <1>1 DEF LockInv, LockTypes
<1>3. LockTypes' BY <1>1, <1>2 DEF LockInv, LockTypes
<1>4. CountersFit'
  <2>1. \A x \in LockKeys : Credited(x, count[x])'
    BY <1>1, <1>2 DEF LockInv, LockTypes, CountersFit, Credited
  <2> QED BY <1>1, <2>1 DEF LockInv, CountersFit, Credited
<1>5. Timed'
  <2>1. \A f \in Failures, x \in LockKeys : ExpiringFor(f, x) => ExpiringFor(f, x)'
    BY <1>1 DEF ExpiringFor
  <2> QED BY <1>1, <1>2, <2>1 DEF LockInv, Timed
<1>6. LocksEarned' /\ ChecksFit' BY <1>1 DEF LockInv, LocksEarned, ChecksFit
<1> QED BY <1>3, <1>4, <1>5, <1>6 DEF LockInv

LEMMA LockExpiresStep ==
  ASSUME LockInv, NEW k \in LockKeys, LockExpires(k) PROVE LockInv'
<1>1. /\ locked' = locked \ {k} /\ held' = held \ {k}
      /\ UNCHANGED <<record, seen, count, timed, broken, credit, check>>
  BY DEF LockExpires
<1> QED BY <1>1 DEF LockInv, LockTypes, CountersFit, Credited, Timed, ExpiringFor, LocksEarned,
           ChecksFit, NothingSeen

LEMMA CheckStep ==
  ASSUME LockInv, CredentialsAssumption, IsLocked \/ AsksAddress \/ \E a \in Asked : AsksAccount(a),
         UNCHANGED <<record, seen, count, timed, locked, broken, credit>>
  PROVE  LockInv'
<1>0. /\ Asked \subseteq Accounts /\ Address \in LockKeys /\ Accounts \subseteq LockKeys
      /\ Address \notin Accounts /\ \A k \in LockKeys : k \notin {"none", "free"}
      /\ LockKeys = Accounts \cup {Address} /\ held \subseteq locked /\ locked \subseteq LockKeys
  BY DEF CredentialsAssumption, LockKeys, LockInv, LockTypes
<1>1. CountersFit' /\ Timed' /\ LocksEarned'
  BY DEF LockInv, CountersFit, Credited, Timed, ExpiringFor, LocksEarned, NothingSeen
<1>2. /\ check' \in LockKeys \cup {"none", "free"} /\ held' \subseteq locked
      /\ ChecksFit'
  <2>1. ASSUME NEW a \in Asked, AsksAccount(a)
        PROVE  check' \in LockKeys \cup {"none", "free"} /\ held' \subseteq locked /\ ChecksFit'
    <3>1. check' = a /\ held' = locked \cap {a, Address} BY <2>1 DEF AsksAccount
    <3> QED BY <1>0, <3>1 DEF ChecksFit
  <2>2. CASE AsksAddress
    <3>1. check \in Asked /\ check \notin locked /\ check' = Address /\ held' = held
      BY <2>2 DEF AsksAddress
    <3>2. held \subseteq {check, Address} BY <1>0, <3>1 DEF LockInv, ChecksFit
    <3>3. check \notin held BY <1>0, <3>1
    <3> QED BY <1>0, <3>1, <3>2, <3>3 DEF ChecksFit
  <2>3. CASE check' = "none" /\ held' = {} BY <1>0, <2>3 DEF ChecksFit
  <2>4. CASE check \in {Address} \ locked /\ check' = "free" /\ UNCHANGED held
    <3>1. held \subseteq {Address} /\ Address \notin held BY <1>0, <2>4 DEF LockInv, ChecksFit
    <3> QED BY <1>0, <2>4, <3>1 DEF ChecksFit
  <2> QED BY <2>1, <2>2, <2>3, <2>4 DEF IsLocked
<1> QED BY <1>1, <1>2 DEF LockInv, LockTypes

LEMMA LockNextKeeps == ASSUME CredentialsAssumption, LockInv, LockNext PROVE LockInv'
<1>1. ASSUME NEW f \in Failures, RecordFailure(f) PROVE LockInv'
  <2>1. CASE Incr(f, "account", "new", "expire", "address") BY <2>1, IncrStep
  <2>2. CASE SetExpiry(f, "account", "expire", "address") BY <2>2, SetExpiryStep
  <2>3. CASE Incr(f, "address", "address", "expireAddress", "lock") BY <2>3, IncrStep
  <2>4. CASE SetExpiry(f, "address", "expireAddress", "lock") BY <2>4, SetExpiryStep
  <2>5. CASE Lock(f, "account", "lock", "lockAddress") BY <2>5, LockStep
  <2>6. CASE Lock(f, "address", "lockAddress", "done") BY <2>6, LockStep
  <2> QED BY <1>1, <2>1, <2>2, <2>3, <2>4, <2>5, <2>6 DEF RecordFailure
<1>2. ASSUME NEW f \in Failures, RecordBreaks(f) PROVE LockInv' BY <1>2, RecordBreaksStep
<1>3. ASSUME NEW a \in Accounts, ClearLock(a) PROVE LockInv' BY <1>3, ClearLockStep
<1>4. ASSUME NEW k \in LockKeys, CountExpires(k) \/ LockExpires(k) PROVE LockInv'
  BY <1>4, CountExpiresStep, LockExpiresStep
<1>5. CASE /\ IsLocked \/ AsksAddress \/ \E a \in Asked : AsksAccount(a)
           /\ UNCHANGED <<record, seen, count, timed, locked, broken, credit>>
  BY <1>5, CheckStep
<1> QED BY <1>1, <1>2, <1>3, <1>4, <1>5 DEF LockNext

----------------------------------------
(* Tokens: every step. *)

LEMMA TokenConstants ==
  ASSUME CredentialsAssumption
  PROVE  /\ None \notin Logins /\ \A l \in Logins : DeviceOf[l] \in Devices /\ l # None
         /\ "memory" # "redis"
  BY DEF CredentialsAssumption

LEMMA InitTokens == ASSUME CredentialsAssumption, TokenInit PROVE TokenInv
  BY DEF TokenInit, TokenInv, TokenTypes, InMemory, KeysFit, LoginFits, KeysAccounted,
     Undisturbed, LoginSteps, UnderWay, Steps

(* One login moves on, and keeps what it read. *)
LEMMA Moves ==
  ASSUME TokenTypes, NEW l \in Logins, NEW from, NEW to \in LoginSteps, MoveLogin(l, from, to)
  PROVE  /\ login[l].at = from
         /\ login' \in [Logins -> [at : LoginSteps, old : Logins \cup {None}]]
         /\ login'[l].at = to /\ login'[l].old = login[l].old
         /\ \A m \in Logins \ {l} : login'[m] = login[m]
  BY DEF MoveLogin, TokenTypes

(* The store in memory: the token of the device is replaced. *)
LEMMA SaveInMemoryStep ==
  ASSUME TokenInv, CredentialsAssumption, NEW l \in Logins, SaveInMemory(l) PROVE TokenInv'
<1> DEFINE d == DeviceOf[l]
           pruned == [e \in Devices |-> IF Kept = {} \/ device[e] \in Kept
                                        THEN device[e] ELSE None]
<1>1. /\ tokenStore = "memory" /\ MoveLogin(l, "new", "done")
      /\ valid' = (valid \ {pruned[d]}) \cup {l}
      /\ userSet' = (Kept \ {pruned[d]}) \cup {l}
      /\ device' = [pruned EXCEPT ![d] = l]
      /\ UNCHANGED <<tokenStore, logout, disturbed, ended>>
  BY DEF SaveInMemory
<1>2. /\ \A e \in Devices : pruned[e] \in {device[e], None}
      /\ pruned \in [Devices -> Logins \cup {None}]
      /\ \A m \in valid : pruned[DeviceOf[m]] = m
  <2>1. \A m \in valid : m \in Kept /\ device[DeviceOf[m]] = m /\ DeviceOf[m] \in Devices
    BY <1>1, TokenConstants DEF TokenInv, TokenTypes, InMemory, Kept
  <2> QED BY <2>1 DEF TokenInv, TokenTypes
<1>k. Kept \subseteq Logins /\ valid \subseteq Kept BY <1>1 DEF Kept, TokenInv, TokenTypes, InMemory
<1>d. d \in Devices BY TokenConstants
<1> HIDE DEF pruned
<1>3. /\ login[l].at = "new"
      /\ login' \in [Logins -> [at : LoginSteps, old : Logins \cup {None}]]
      /\ login'[l].at = "done" /\ login'[l].old = login[l].old
      /\ \A m \in Logins \ {l} : login'[m] = login[m]
  BY <1>1, Moves DEF LoginSteps, TokenInv
<1>4. /\ device'[d] = l /\ \A e \in Devices \ {d} : device'[e] = pruned[e]
      /\ device' \in [Devices -> Logins \cup {None}]
  BY <1>1, <1>2, <1>d
<1>5. TokenTypes' BY <1>1, <1>3, <1>4, <1>k DEF TokenInv, TokenTypes
<1>6. \A m \in Logins : login'[m].at \in {"new", "done"} /\ login'[m].old = None
  BY <1>1, <1>3 DEF TokenInv, InMemory
<1>7. \A m \in valid' : m = l \/ (m \in valid /\ DeviceOf[m] # d /\ pruned[DeviceOf[m]] = m)
  BY <1>1, <1>2
<1>8. InMemory'
  <2>1. \A m \in valid' : m \in userSet' /\ device'[DeviceOf[m]] = m
    <3> SUFFICES ASSUME NEW m \in valid' PROVE m \in userSet' /\ device'[DeviceOf[m]] = m OBVIOUS
    <3>1. CASE m = l BY <1>1, <1>4, <3>1
    <3>2. CASE m # l
      <4>1. m \in valid /\ DeviceOf[m] # d /\ pruned[DeviceOf[m]] = m /\ m # pruned[d]
        BY <1>1, <1>7, <3>2
      <4>2. DeviceOf[m] \in Devices /\ m \in Kept
        BY <4>1, <1>k, TokenConstants DEF TokenInv, TokenTypes
      <4>3. m \in userSet' BY <1>1, <4>1, <4>2
      <4> QED BY <1>4, <4>1, <4>2, <4>3
    <3> QED BY <3>1, <3>2
  <2>2. logout' = {} BY <1>1 DEF TokenInv, InMemory
  <2> QED BY <1>6, <2>1, <2>2 DEF InMemory
<1>9. KeysFit'
  <2> SUFFICES ASSUME NEW e \in Devices, device'[e] # None
               PROVE  DeviceOf[device'[e]] = e /\ login'[device'[e]].at = "done"
    BY <1>6 DEF KeysFit
  <2>1. CASE e = d BY <1>3, <1>4, <2>1
  <2>2. CASE e # d
    <3>1. device'[e] = device[e] /\ device[e] # None /\ device[e] \in Logins
      BY <1>2, <1>4, <2>2 DEF TokenInv, TokenTypes
    <3> QED BY <1>3, <3>1 DEF TokenInv, KeysFit
  <2> QED BY <2>1, <2>2
<1>10. LoginFits' BY <1>1, <1>3, <1>6 DEF TokenInv, LoginFits
<1>11. KeysAccounted'
  <2> SUFFICES ASSUME NEW e \in Devices, device'[e] # None PROVE device'[e] \in valid' \cup ended'
    BY DEF KeysAccounted
  <2>1. CASE e = d BY <1>1, <1>4, <2>1
  <2>2. CASE e # d
    <3>1. device'[e] = device[e] /\ device[e] # None /\ device[e] \in Logins
      BY <1>2, <1>4, <2>2 DEF TokenInv, TokenTypes
    <3>2. ~Replaced(device[e]) BY <1>1, <3>1, TokenConstants DEF TokenInv, InMemory, Replaced
    <3>3. device[e] \in valid \cup ended BY <3>1, <3>2 DEF TokenInv, KeysAccounted
    <3>4. DeviceOf[device[e]] = e BY <3>1 DEF TokenInv, KeysFit
    <3>5. pruned[d] # device[e]
      BY <1>2, <1>d, <2>2, <3>1, <3>4, TokenConstants DEF TokenInv, KeysFit
    <3> QED BY <1>1, <3>1, <3>3, <3>5
  <2> QED BY <2>1, <2>2
<1>12. Undisturbed'
  <2>1. \A m \in Logins : ~UnderWay(m)' BY <1>6 DEF UnderWay, Steps
  <2> QED BY <1>1, <1>8, <2>1 DEF InMemory, Undisturbed
<1> QED BY <1>5, <1>8, <1>9, <1>10, <1>11, <1>12 DEF TokenInv

(* The store on Redis: a login reads the device key. *)
LEMMA GetDeviceStep ==
  ASSUME TokenInv, CredentialsAssumption, NEW l \in Logins, GetDevice(l) PROVE TokenInv'
<1> DEFINE d == DeviceOf[l]
<1>1. /\ tokenStore = "redis" /\ login[l].at = "new"
      /\ login' = [login EXCEPT ![l] = [at |-> IF device[d] = None THEN "token" ELSE "delete",
                                        old |-> device[d]]]
      /\ disturbed' = IF Beside(l) THEN disturbed \cup {d} ELSE disturbed
      /\ UNCHANGED <<tokenStore, valid, userSet, device, logout, ended>>
  BY DEF GetDevice
<1>2. d \in Devices /\ device[d] \in Logins \cup {None} BY TokenConstants DEF TokenInv, TokenTypes
<1>3. /\ login' \in [Logins -> [at : LoginSteps, old : Logins \cup {None}]]
      /\ login'[l].at = IF device[d] = None THEN "token" ELSE "delete"
      /\ login'[l].old = device[d]
      /\ \A m \in Logins \ {l} : login'[m] = login[m]
  BY <1>1, <1>2 DEF TokenInv, TokenTypes, LoginSteps, Steps
<1>4. TokenTypes' /\ InMemory' BY <1>1, <1>2, <1>3 DEF TokenInv, TokenTypes, InMemory
<1>5. \A j \in Logins : login[j].at = "done" => login'[j].at = "done" BY <1>1, <1>3
<1>6. KeysFit'
  <2>1. \A e \in Devices : device'[e] # None =>
          DeviceOf[device'[e]] = e /\ login'[device'[e]].at = "done"
    BY <1>1, <1>5 DEF TokenInv, TokenTypes, KeysFit
  <2>2. ASSUME NEW m \in Logins, login'[m].old # None
        PROVE  DeviceOf[login'[m].old] = DeviceOf[m] /\ login'[login'[m].old].at = "done"
    <3>1. CASE m = l BY <1>1, <1>2, <1>3, <2>1, <2>2, <3>1
    <3>2. CASE m # l
      <4>1. login'[m] = login[m] /\ login[m].old \in Logins
        BY <1>3, <2>2, <3>2 DEF TokenInv, TokenTypes
      <4> QED BY <1>5, <2>2, <4>1 DEF TokenInv, KeysFit
    <3> QED BY <3>1, <3>2
  <2> QED BY <2>1, <2>2 DEF KeysFit
<1>7. LoginFits' BY <1>1, <1>3 DEF TokenInv, LoginFits
<1>8. KeysAccounted'
  <2>1. \A j \in Logins : Replaced(j) => Replaced(j)'
    BY <1>1, <1>3, TokenConstants DEF Replaced, TokenInv, LoginFits
  <2>2. \A e \in Devices : device[e] # None => device[e] \in Logins BY DEF TokenInv, TokenTypes
  <2> QED BY <1>1, <2>1, <2>2 DEF TokenInv, KeysAccounted
<1>9. Undisturbed'
  <2> SUFFICES ASSUME NEW e \in Devices \ disturbed'
               PROVE  /\ \A m, n \in Logins :
                           UnderWay(m)' /\ UnderWay(n)' /\ DeviceOf[m] = e /\ DeviceOf[n] = e => m = n
                      /\ \A m \in valid' : DeviceOf[m] = e => UnderWay(m)' \/ device'[e] = m
                      /\ \A m \in valid' : \A n \in Logins \ {m} :
                           DeviceOf[m] = e /\ DeviceOf[n] = e /\ UnderWay(n)' =>
                             login'[n].at = "delete" /\ login'[n].old = m
    BY DEF Undisturbed
  <2>1. e \in Devices \ disturbed /\ (e = d => ~Beside(l)) BY <1>1
  <2>2. \A m \in Logins \ {l} : UnderWay(m)' <=> UnderWay(m) BY <1>3 DEF UnderWay
  <2>3. ~UnderWay(l) /\ l \notin valid /\ valid \subseteq Logins
    BY <1>1 DEF UnderWay, Steps, TokenInv, LoginFits, TokenTypes
  <2>4. CASE e # d BY <1>1, <1>3, <2>1, <2>2, <2>3, <2>4 DEF TokenInv, Undisturbed
  <2>5. CASE e = d
    <3>1. \A m \in Logins \ {l} : DeviceOf[m] = d => ~UnderWay(m) BY <2>1, <2>5 DEF Beside
    <3>2. \A m \in valid : DeviceOf[m] = d => device[d] = m
      BY <2>1, <2>3, <2>5, <3>1 DEF TokenInv, Undisturbed
    <3> QED BY <1>1, <1>3, <2>2, <2>3, <2>5, <3>1, <3>2, TokenConstants
  <2> QED BY <2>4, <2>5
<1> QED BY <1>4, <1>6, <1>7, <1>8, <1>9 DEF TokenInv

(* Steps that set no device key, and undo no login. *)
LEMMA KeysStay ==
  ASSUME TokenInv, UNCHANGED device,
         \A j \in Logins : login[j].at = "done" => login'[j].at = "done",
         \A j \in Logins : login'[j].old = login[j].old
  PROVE  KeysFit'
<1>1. \A e \in Devices : device[e] # None => device[e] \in Logins BY DEF TokenInv, TokenTypes
<1>2. \A j \in Logins : login[j].old # None => login[j].old \in Logins BY DEF TokenInv, TokenTypes
<1> QED BY <1>1, <1>2 DEF TokenInv, KeysFit

(* ... and take nothing from valid but what is ended or replaced. *)
LEMMA AccountsStay ==
  ASSUME TokenInv, UNCHANGED device, ended \subseteq ended',
         \A j \in Logins : login[j].at # "done" => login'[j].at # "done",
         \A j \in Logins : login'[j].old = login[j].old,
         \A j \in valid : j \in valid' \cup ended' \/ Replaced(j)'
  PROVE  KeysAccounted'
<1>1. \A j \in Logins : Replaced(j) => Replaced(j)' BY DEF Replaced
<1>2. \A e \in Devices : device[e] # None => device[e] \in Logins BY DEF TokenInv, TokenTypes
<1> QED BY <1>1, <1>2 DEF TokenInv, KeysAccounted

LEMMA OnRedis ==
  ASSUME TokenInv, NEW l \in Logins, UnderWay(l) PROVE tokenStore # "memory"
  BY DEF TokenInv, InMemory, UnderWay, Steps

(* A login under way, alone on an undisturbed device, goes on: no token of
   another one is left once the old one is deleted. *)
LEMMA GoesOn ==
  ASSUME TokenInv, CredentialsAssumption, NEW l \in Logins, UnderWay(l),
         UNCHANGED <<device, disturbed>>,
         \A m \in Logins \ {l} : login'[m] = login[m],
         login'[l].at \in Steps, login'[l].old = login[l].old,
         login'[l].at # "delete",
         \/ valid' = valid \ {login[l].old}
         \/ login[l].at # "delete" /\ valid' \in {valid, valid \cup {l}}
  PROVE  Undisturbed'
<1>1. \A m \in Logins : UnderWay(m)' <=> UnderWay(m) BY DEF UnderWay
<1>2. SUFFICES ASSUME NEW e \in Devices \ disturbed
               PROVE  /\ \A m, n \in Logins :
                           UnderWay(m) /\ UnderWay(n) /\ DeviceOf[m] = e /\ DeviceOf[n] = e => m = n
                      /\ \A m \in valid' : DeviceOf[m] = e => UnderWay(m) \/ device[e] = m
                      /\ \A m \in valid' : \A n \in Logins \ {m} :
                           DeviceOf[m] = e /\ DeviceOf[n] = e /\ UnderWay(n) =>
                             login'[n].at = "delete" /\ login'[n].old = m
  <2>1. valid' \subseteq Logins /\ UNCHANGED device /\ UNCHANGED disturbed
    BY DEF TokenInv, TokenTypes
  <2> QED BY <1>1, <1>2, <2>1 DEF Undisturbed
<1>3. /\ \A m, n \in Logins :
           UnderWay(m) /\ UnderWay(n) /\ DeviceOf[m] = e /\ DeviceOf[n] = e => m = n
      /\ \A m \in valid : DeviceOf[m] = e => UnderWay(m) \/ device[e] = m
      /\ \A m \in valid : \A n \in Logins \ {m} :
           DeviceOf[m] = e /\ DeviceOf[n] = e /\ UnderWay(n) =>
             login[n].at = "delete" /\ login[n].old = m
  BY DEF TokenInv, Undisturbed
<1>4. \A m \in valid' : DeviceOf[m] = e => UnderWay(m) \/ device[e] = m BY <1>3
<1>5. ASSUME NEW m \in valid', NEW n \in Logins \ {m}, DeviceOf[m] = e, DeviceOf[n] = e, UnderWay(n)
      PROVE  login'[n].at = "delete" /\ login'[n].old = m
  <2>1. CASE m = l BY <1>3, <1>5, <2>1
  <2>2. CASE m # l /\ n = l
    <3>1. m \in valid /\ login[l].at = "delete" /\ login[l].old = m BY <1>3, <1>5, <2>2
    <3> QED BY <1>5, <3>1
  <2>3. CASE m # l /\ n # l BY <1>3, <1>5, <2>3
  <2> QED BY <2>1, <2>2, <2>3
<1> QED BY <1>3, <1>4, <1>5

LEMMA DeleteOldStep ==
  ASSUME TokenInv, CredentialsAssumption, NEW l \in Logins, DeleteOld(l) PROVE TokenInv'
<1>1. /\ MoveLogin(l, "delete", "srem") /\ valid' = valid \ {login[l].old}
      /\ UNCHANGED <<tokenStore, userSet, device, logout, disturbed, ended>>
  BY DEF DeleteOld
<1>2. /\ login[l].at = "delete"
      /\ login' \in [Logins -> [at : LoginSteps, old : Logins \cup {None}]]
      /\ login'[l].at = "srem" /\ login'[l].old = login[l].old
      /\ \A m \in Logins \ {l} : login'[m] = login[m]
  BY <1>1, Moves DEF LoginSteps, Steps, TokenInv
<1>3. UnderWay(l) BY <1>2 DEF UnderWay, Steps
<1>4. TokenTypes' /\ InMemory' BY <1>1, <1>2, <1>3, OnRedis DEF TokenInv, TokenTypes, InMemory
<1>5. KeysFit' BY <1>1, <1>2, KeysStay
<1>6. LoginFits'
  <2>1. \A m \in Logins : login[m].at \in {"set", "device"} => m # login[l].old
    BY DEF TokenInv, KeysFit
  <2> QED BY <1>1, <1>2, <2>1 DEF TokenInv, LoginFits
<1>7. KeysAccounted'
  <2>1. \A j \in valid : j \in valid' \/ Replaced(j)' BY <1>1, <1>2 DEF Replaced
  <2> QED BY <1>1, <1>2, <2>1, AccountsStay
<1>8. Undisturbed' BY <1>1, <1>2, <1>3, GoesOn DEF Steps
<1> QED BY <1>4, <1>5, <1>6, <1>7, <1>8 DEF TokenInv

(* The commands on the set of the user tell nothing of tokens. *)
LEMMA RemoveOldStep ==
  ASSUME TokenInv, CredentialsAssumption, NEW l \in Logins, RemoveOld(l) PROVE TokenInv'
<1>1. /\ MoveLogin(l, "srem", "token") /\ userSet' = userSet \ {login[l].old}
      /\ UNCHANGED <<tokenStore, valid, device, logout, disturbed, ended>>
  BY DEF RemoveOld
<1>2. /\ login[l].at = "srem"
      /\ login' \in [Logins -> [at : LoginSteps, old : Logins \cup {None}]]
      /\ login'[l].at = "token" /\ login'[l].old = login[l].old
      /\ \A m \in Logins \ {l} : login'[m] = login[m]
  BY <1>1, Moves DEF LoginSteps, Steps, TokenInv
<1>3. UnderWay(l) BY <1>2 DEF UnderWay, Steps
<1>4. TokenTypes' /\ InMemory' BY <1>1, <1>2, <1>3, OnRedis DEF TokenInv, TokenTypes, InMemory
<1>5. KeysFit' /\ KeysAccounted' BY <1>1, <1>2, KeysStay, AccountsStay
<1>6. LoginFits' BY <1>1, <1>2 DEF TokenInv, LoginFits
<1>8. Undisturbed' BY <1>1, <1>2, <1>3, GoesOn DEF Steps
<1> QED BY <1>4, <1>5, <1>6, <1>8 DEF TokenInv

LEMMA SetTokenStep ==
  ASSUME TokenInv, CredentialsAssumption, NEW l \in Logins, SetToken(l) PROVE TokenInv'
<1>1. /\ MoveLogin(l, "token", "set") /\ valid' = valid \cup {l}
      /\ UNCHANGED <<tokenStore, userSet, device, logout, disturbed, ended>>
  BY DEF SetToken
<1>2. /\ login[l].at = "token"
      /\ login' \in [Logins -> [at : LoginSteps, old : Logins \cup {None}]]
      /\ login'[l].at = "set" /\ login'[l].old = login[l].old
      /\ \A m \in Logins \ {l} : login'[m] = login[m]
  BY <1>1, Moves DEF LoginSteps, Steps, TokenInv
<1>3. UnderWay(l) BY <1>2 DEF UnderWay, Steps
<1>4. TokenTypes' /\ InMemory' BY <1>1, <1>2, <1>3, OnRedis DEF TokenInv, TokenTypes, InMemory
<1>5. KeysFit' /\ KeysAccounted' BY <1>1, <1>2, KeysStay, AccountsStay
<1>6. LoginFits' BY <1>1, <1>2 DEF TokenInv, LoginFits
<1>8. Undisturbed' BY <1>1, <1>2, <1>3, GoesOn DEF Steps
<1> QED BY <1>4, <1>5, <1>6, <1>8 DEF TokenInv

LEMMA AddToSetStep ==
  ASSUME TokenInv, CredentialsAssumption, NEW l \in Logins, AddToSet(l) PROVE TokenInv'
<1>1. /\ MoveLogin(l, "set", "device") /\ userSet' = userSet \cup {l}
      /\ UNCHANGED <<tokenStore, valid, device, logout, disturbed, ended>>
  BY DEF AddToSet
<1>2. /\ login[l].at = "set"
      /\ login' \in [Logins -> [at : LoginSteps, old : Logins \cup {None}]]
      /\ login'[l].at = "device" /\ login'[l].old = login[l].old
      /\ \A m \in Logins \ {l} : login'[m] = login[m]
  BY <1>1, Moves DEF LoginSteps, Steps, TokenInv
<1>3. UnderWay(l) BY <1>2 DEF UnderWay, Steps
<1>4. TokenTypes' /\ InMemory' BY <1>1, <1>2, <1>3, OnRedis DEF TokenInv, TokenTypes, InMemory
<1>5. KeysFit' /\ KeysAccounted' BY <1>1, <1>2, KeysStay, AccountsStay
<1>6. LoginFits' BY <1>1, <1>2 DEF TokenInv, LoginFits
<1>8. Undisturbed' BY <1>1, <1>2, <1>3, GoesOn DEF Steps
<1> QED BY <1>4, <1>5, <1>6, <1>8 DEF TokenInv

(* The device key is written last: what it held before is its login's old
   token, or is of nobody else's concern. *)
LEMMA SetDeviceStep ==
  ASSUME TokenInv, CredentialsAssumption, NEW l \in Logins, SetDevice(l) PROVE TokenInv'
<1> DEFINE d == DeviceOf[l]
<1>1. /\ MoveLogin(l, "device", "done") /\ device' = [device EXCEPT ![d] = l]
      /\ UNCHANGED <<tokenStore, valid, userSet, logout, disturbed, ended>>
  BY DEF SetDevice
<1>2. /\ login[l].at = "device"
      /\ login' \in [Logins -> [at : LoginSteps, old : Logins \cup {None}]]
      /\ login'[l].at = "done" /\ login'[l].old = login[l].old
      /\ \A m \in Logins \ {l} : login'[m] = login[m]
  BY <1>1, Moves DEF LoginSteps, Steps, TokenInv
<1>3. UnderWay(l) /\ d \in Devices BY <1>2, TokenConstants DEF UnderWay, Steps
<1>d. /\ device' \in [Devices -> Logins \cup {None}]
      /\ device'[d] = l /\ \A e \in Devices \ {d} : device'[e] = device[e]
  BY <1>1, <1>3 DEF TokenInv, TokenTypes
<1>4. TokenTypes' /\ InMemory' BY <1>1, <1>2, <1>3, <1>d, OnRedis DEF TokenInv, TokenTypes, InMemory
<1>5. KeysFit'
  <2>1. \A j \in Logins : login[j].at = "done" => login'[j].at = "done" BY <1>2
  <2>2. ASSUME NEW e \in Devices, device'[e] # None
        PROVE  DeviceOf[device'[e]] = e /\ login'[device'[e]].at = "done"
    <3>1. CASE e = d BY <1>2, <1>d, <3>1
    <3>2. CASE e # d
      <4>1. device'[e] = device[e] /\ device[e] \in Logins
        BY <1>d, <2>2, <3>2 DEF TokenInv, TokenTypes
      <4> QED BY <2>1, <2>2, <4>1 DEF TokenInv, KeysFit
    <3> QED BY <3>1, <3>2
  <2>3. \A j \in Logins : login'[j].old = login[j].old /\ (login[j].old # None => login[j].old \in Logins)
    BY <1>2 DEF TokenInv, TokenTypes
  <2> QED BY <2>1, <2>2, <2>3 DEF TokenInv, KeysFit
<1>6. LoginFits' BY <1>1, <1>2 DEF TokenInv, LoginFits
<1>7. KeysAccounted'
  <2> SUFFICES ASSUME NEW e \in Devices, device'[e] # None
               PROVE  device'[e] \in valid \cup ended \/ Replaced(device[e])'
    BY <1>1 DEF KeysAccounted
  <2>1. CASE e = d BY <1>2, <1>d, <2>1 DEF TokenInv, LoginFits
  <2>2. CASE e # d
    <3>1. device'[e] = device[e] /\ device[e] \in Logins /\ DeviceOf[device[e]] = e
      BY <1>d, <2>2 DEF TokenInv, TokenTypes, KeysFit
    <3>2. login[l].old # device[e] BY <2>2, <3>1, TokenConstants DEF TokenInv, KeysFit
    <3>3. Replaced(device[e]) => Replaced(device[e])' BY <1>2, <3>1, <3>2 DEF Replaced
    <3> QED BY <3>1, <3>3, TokenConstants DEF TokenInv, KeysAccounted
  <2> QED BY <2>1, <2>2
<1>8. Undisturbed'
  <2>1. \A m \in Logins : UnderWay(m)' <=> UnderWay(m) /\ m # l BY <1>2 DEF UnderWay, Steps
  <2>2. SUFFICES ASSUME NEW e \in Devices \ disturbed
                 PROVE  /\ \A m, n \in Logins : UnderWay(m) /\ UnderWay(n) /\ m # l /\ n # l
                                /\ DeviceOf[m] = e /\ DeviceOf[n] = e => m = n
                        /\ \A m \in valid : DeviceOf[m] = e => (UnderWay(m) /\ m # l) \/ device'[e] = m
                        /\ \A m \in valid : \A n \in Logins \ {m} :
                             DeviceOf[m] = e /\ DeviceOf[n] = e /\ UnderWay(n) /\ n # l =>
                               login'[n].at = "delete" /\ login'[n].old = m
    <3>1. valid \subseteq Logins BY DEF TokenInv, TokenTypes
    <3> QED BY <1>1, <2>1, <2>2, <3>1 DEF Undisturbed
  <2>3. /\ \A m, n \in Logins :
             UnderWay(m) /\ UnderWay(n) /\ DeviceOf[m] = e /\ DeviceOf[n] = e => m = n
        /\ \A m \in valid : DeviceOf[m] = e => UnderWay(m) \/ device[e] = m
        /\ \A m \in valid : \A n \in Logins \ {m} :
             DeviceOf[m] = e /\ DeviceOf[n] = e /\ UnderWay(n) =>
               login[n].at = "delete" /\ login[n].old = m
    BY DEF TokenInv, Undisturbed
  <2>4. CASE e # d BY <1>2, <1>d, <2>3, <2>4
  <2>5. CASE e = d
    <3>1. \A m \in valid \ {l} : DeviceOf[m] # d BY <1>2, <1>3, <2>3, <2>5
    <3>2. \A n \in Logins \ {l} : DeviceOf[n] = d => ~UnderWay(n) BY <1>3, <2>3, <2>5
    <3> QED BY <1>d, <2>3, <2>5, <3>1, <3>2
  <2> QED BY <2>4, <2>5
<1> QED BY <1>4, <1>5, <1>6, <1>7, <1>8 DEF TokenInv

LEMMA LoginBreaksStep ==
  ASSUME TokenInv, CredentialsAssumption, NEW l \in Logins, LoginBreaks(l) PROVE TokenInv'
<1> DEFINE d == DeviceOf[l]
<1>1. /\ UnderWay(l) /\ login' = [login EXCEPT ![l].at = "failed"]
      /\ disturbed' = IF l \in valid THEN disturbed \cup {d} ELSE disturbed
      /\ UNCHANGED <<tokenStore, valid, userSet, device, logout, ended>>
  BY DEF LoginBreaks
<1>2. /\ login[l].at \in Steps
      /\ login' \in [Logins -> [at : LoginSteps, old : Logins \cup {None}]]
      /\ login'[l].at = "failed" /\ login'[l].old = login[l].old
      /\ \A m \in Logins \ {l} : login'[m] = login[m]
  BY <1>1 DEF LoginSteps, UnderWay, TokenInv, TokenTypes
<1>3. d \in Devices /\ login[l].at # "done" BY <1>2, TokenConstants DEF Steps
<1>4. TokenTypes' /\ InMemory' BY <1>1, <1>2, <1>3, OnRedis DEF TokenInv, TokenTypes, InMemory
<1>5. KeysFit' /\ KeysAccounted' BY <1>1, <1>2, <1>3, KeysStay, AccountsStay
<1>6. LoginFits' BY <1>1, <1>2 DEF TokenInv, LoginFits
<1>7. Undisturbed'
  <2>1. \A m \in Logins : UnderWay(m)' <=> UnderWay(m) /\ m # l BY <1>2 DEF UnderWay, Steps
  <2>2. SUFFICES ASSUME NEW e \in Devices \ disturbed, l \in valid => e # d
                 PROVE  /\ \A m, n \in Logins : UnderWay(m) /\ UnderWay(n) /\ m # l /\ n # l
                                /\ DeviceOf[m] = e /\ DeviceOf[n] = e => m = n
                        /\ \A m \in valid : DeviceOf[m] = e => (UnderWay(m) /\ m # l) \/ device[e] = m
                        /\ \A m \in valid : \A n \in Logins \ {m} :
                             DeviceOf[m] = e /\ DeviceOf[n] = e /\ UnderWay(n) /\ n # l =>
                               login'[n].at = "delete" /\ login'[n].old = m
    <3>1. valid \subseteq Logins BY DEF TokenInv, TokenTypes
    <3> QED BY <1>1, <2>1, <2>2, <3>1 DEF Undisturbed
  <2>3. /\ \A m, n \in Logins :
             UnderWay(m) /\ UnderWay(n) /\ DeviceOf[m] = e /\ DeviceOf[n] = e => m = n
        /\ \A m \in valid : DeviceOf[m] = e => UnderWay(m) \/ device[e] = m
        /\ \A m \in valid : \A n \in Logins \ {m} :
             DeviceOf[m] = e /\ DeviceOf[n] = e /\ UnderWay(n) =>
               login[n].at = "delete" /\ login[n].old = m
    BY DEF TokenInv, Undisturbed
  <2> QED BY <1>2, <2>2, <2>3
<1> QED BY <1>4, <1>5, <1>6, <1>7 DEF TokenInv

(* A token is revoked, or its time is over: it is ended. *)
LEMMA EndsStep ==
  ASSUME TokenInv, CredentialsAssumption, NEW l \in Logins, l \in valid,
         valid' = valid \ {l}, ended' = ended \cup {l},
         \/ UNCHANGED userSet
         \/ userSet' = userSet \ {l},
         logout' \in {logout, logout \cup {l}}, tokenStore = "memory" => UNCHANGED logout,
         UNCHANGED <<tokenStore, login, device, disturbed>>
  PROVE  TokenInv'
<1>1. TokenTypes' /\ InMemory' BY DEF TokenInv, TokenTypes, InMemory
<1>2. KeysFit' BY DEF TokenInv, KeysFit
<1>3. KeysAccounted' BY AccountsStay
<1>4. LoginFits' BY DEF TokenInv, LoginFits
<1>5. Undisturbed'
  <2>1. \A m \in Logins : UnderWay(m)' <=> UnderWay(m) BY DEF UnderWay
  <2>2. valid' \subseteq valid /\ valid \subseteq Logins BY DEF TokenInv, TokenTypes
  <2> QED BY <2>1, <2>2 DEF TokenInv, Undisturbed
<1> QED BY <1>1, <1>2, <1>3, <1>4, <1>5 DEF TokenInv

LEMMA RemoveRevokedStep ==
  ASSUME TokenInv, CredentialsAssumption, NEW l \in Logins, RemoveRevoked(l) PROVE TokenInv'
<1>1. /\ logout' = logout \ {l} /\ userSet' = userSet \ {l}
      /\ UNCHANGED <<tokenStore, login, valid, device, disturbed, ended>>
  BY DEF RemoveRevoked
<1>2. tokenStore # "memory" BY DEF RemoveRevoked, TokenInv, InMemory
<1>3. TokenTypes' /\ InMemory' BY <1>1, <1>2 DEF TokenInv, TokenTypes, InMemory
<1>4. KeysFit' /\ KeysAccounted' /\ LoginFits' /\ Undisturbed'
  BY <1>1 DEF TokenInv, KeysFit, KeysAccounted, Replaced, LoginFits, Undisturbed, UnderWay
<1> QED BY <1>3, <1>4 DEF TokenInv

LEMMA DeviceExpiresStep ==
  ASSUME TokenInv, CredentialsAssumption, NEW d \in Devices, DeviceExpires(d) PROVE TokenInv'
<1>1. /\ tokenStore = "redis" /\ device[d] \notin valid
      /\ device' = [device EXCEPT ![d] = None]
      /\ UNCHANGED <<tokenStore, login, valid, userSet, logout, disturbed, ended>>
  BY DEF DeviceExpires
<1>2. /\ device' \in [Devices -> Logins \cup {None}]
      /\ device'[d] = None /\ \A e \in Devices \ {d} : device'[e] = device[e]
  BY <1>1 DEF TokenInv, TokenTypes
<1>3. TokenTypes' /\ InMemory' BY <1>1, <1>2 DEF TokenInv, TokenTypes, InMemory
<1>4. KeysFit' /\ LoginFits' BY <1>1, <1>2 DEF TokenInv, KeysFit, LoginFits
<1>5. KeysAccounted'
  <2> SUFFICES ASSUME NEW e \in Devices, device'[e] # None PROVE e # d /\ device'[e] = device[e]
    BY <1>1 DEF TokenInv, KeysAccounted, Replaced
  <2> QED BY <1>2
<1>6. Undisturbed'
  <2>1. \A m \in Logins : UnderWay(m)' <=> UnderWay(m) BY <1>1 DEF UnderWay
  <2>2. valid \subseteq Logins BY DEF TokenInv, TokenTypes
  <2>3. \A e \in Devices : \A m \in valid : device[e] = m => device'[e] = m BY <1>1, <1>2
  <2> QED BY <1>1, <2>1, <2>2, <2>3 DEF TokenInv, Undisturbed
<1> QED BY <1>3, <1>4, <1>5, <1>6 DEF TokenInv

LEMMA TokenNextKeeps == ASSUME CredentialsAssumption, TokenInv, TokenNext PROVE TokenInv'
<1>1. ASSUME NEW l \in Logins, SaveInMemory(l) \/ GetDevice(l) \/ DeleteOld(l) \/ RemoveOld(l)
      PROVE  TokenInv'
  BY <1>1, SaveInMemoryStep, GetDeviceStep, DeleteOldStep, RemoveOldStep
<1>2. ASSUME NEW l \in Logins, SetToken(l) \/ AddToSet(l) \/ SetDevice(l) \/ LoginBreaks(l)
      PROVE  TokenInv'
  BY <1>2, SetTokenStep, AddToSetStep, SetDeviceStep, LoginBreaksStep
<1>3. ASSUME NEW l \in Logins, Revoke(l) PROVE TokenInv'
  <2>1. /\ l \in valid /\ valid' = valid \ {l} /\ ended' = ended \cup {l}
        /\ UNCHANGED userSet \/ userSet' = userSet \ {l}
        /\ logout' \in {logout, logout \cup {l}} /\ (tokenStore = "memory" => UNCHANGED logout)
        /\ UNCHANGED <<tokenStore, login, device, disturbed>>
    BY <1>3 DEF Revoke
  <2> QED BY <2>1, EndsStep
<1>4. ASSUME NEW l \in Logins, TokenExpires(l) PROVE TokenInv'
  <2>1. /\ l \in valid /\ valid' = valid \ {l} /\ ended' = ended \cup {l}
        /\ UNCHANGED userSet \/ userSet' = userSet \ {l}
        /\ logout' \in {logout, logout \cup {l}} /\ (tokenStore = "memory" => UNCHANGED logout)
        /\ UNCHANGED <<tokenStore, login, device, disturbed>>
    BY <1>4 DEF TokenExpires
  <2> QED BY <2>1, EndsStep
<1>5. ASSUME NEW l \in Logins, RemoveRevoked(l) PROVE TokenInv' BY <1>5, RemoveRevokedStep
<1>6. ASSUME NEW d \in Devices, DeviceExpires(d) PROVE TokenInv' BY <1>6, DeviceExpiresStep
<1> QED BY <1>1, <1>2, <1>3, <1>4, <1>5, <1>6 DEF TokenNext

----------------------------------------
(* What the invariants say of what is left in the stores. *)

LEMMA TokensExplained ==
  ASSUME CredentialsAssumption, TokenInv
  PROVE  /\ \A l, m \in valid : l # m /\ DeviceOf[l] = DeviceOf[m] => DeviceOf[l] \in disturbed
         /\ \A d \in Devices : CurrentJti(d) \subseteq {None} \cup valid \cup ended
                                 \cup {login[l].old : l \in {m \in Logins : login[m].at # "done"}}
<1>1. ASSUME NEW l \in valid, NEW m \in valid, l # m, DeviceOf[l] = DeviceOf[m],
             DeviceOf[l] \notin disturbed
      PROVE  FALSE
  <2>1. PICK d \in Devices \ disturbed : d = DeviceOf[l]
    BY <1>1, TokenConstants DEF TokenInv, TokenTypes
  <2>2. l \in Logins /\ m \in Logins BY DEF TokenInv, TokenTypes
  <2>3. ~(UnderWay(l) /\ UnderWay(m)) /\ (UnderWay(l) \/ device[d] = l) /\ (UnderWay(m) \/ device[d] = m)
    BY <1>1, <2>1, <2>2 DEF TokenInv, Undisturbed
  <2>4. UnderWay(l) => login[l].at = "delete" BY <1>1, <2>1, <2>2 DEF TokenInv, Undisturbed
  <2>5. UnderWay(m) => login[m].at = "delete" BY <1>1, <2>1, <2>2 DEF TokenInv, Undisturbed
  <2>6. ~UnderWay(l) /\ ~UnderWay(m) BY <2>2, <2>4, <2>5 DEF TokenInv, LoginFits
  <2> QED BY <1>1, <2>3, <2>6
<1>2. ASSUME NEW d \in Devices, NEW j \in CurrentJti(d), j # None
      PROVE  j \in valid \cup ended
               \cup {login[l].old : l \in {m \in Logins : login[m].at # "done"}}
  <2>1. j = device[d] BY <1>2 DEF CurrentJti
  <2> QED BY <1>2, <2>1 DEF TokenInv, KeysAccounted, Replaced
<1> QED BY <1>1, <1>2

LEMMA Sound == ASSUME CredentialsAssumption, TokenInv, LockInv PROVE CredentialsSound
<1>1. CredentialsTypeOK
  BY DEF TokenInv, TokenTypes, LockInv, LockTypes, CredentialsTypeOK, LoginSteps, RecordSteps
<1>2. LeftoversExplained
  <2>1. \A k \in LockKeys : count[k] > 0 /\ k \notin timed
                            => k \in broken \/ \E f \in Failures : ExpiringFor(f, k)
    BY DEF LockInv, Timed
  <2>2. \A k \in locked : credit[k] >= FailLimit[k] BY DEF LockInv, LocksEarned
  <2>3. check = "free" => held = {} BY DEF LockInv, ChecksFit
  <2> QED BY <2>1, <2>2, <2>3, TokensExplained DEF LeftoversExplained
<1> QED BY <1>1, <1>2 DEF CredentialsSound

(* Whatever logins, logouts, expirations, failures and crashes interleave,
   in memory or on Redis: two valid tokens of one device, and a counter
   that never runs out, come from a login or a record that overlapped or
   broke off; a lock has as many failures as its limit since the last
   login that succeeded, but for records under way then; and a check that
   says not locked overlooks no lock that was there throughout. *)
THEOREM CredentialsHold == CredentialsSpec => []CredentialsSound
<1>1. TokenInit /\ LockInit => TokenInv /\ LockInv BY CredentialsAssumption, InitTokens, InitLocks
<1>2. TokenInv /\ UNCHANGED tokenVars => TokenInv'
  BY DEF tokenVars, TokenInv, TokenTypes, InMemory, KeysFit, LoginFits, KeysAccounted, Replaced,
     Undisturbed, UnderWay
<1>3. LockInv /\ UNCHANGED lockVars => LockInv'
  BY DEF lockVars, checkVars, LockInv, LockTypes, CountersFit, Credited, Timed, ExpiringFor,
     LocksEarned, ChecksFit, NothingSeen
<1>4. TokenInv /\ LockInv /\ [\/ TokenNext /\ UNCHANGED lockVars
                              \/ LockNext /\ UNCHANGED tokenVars]_<<tokenVars, lockVars>>
      => (TokenInv /\ LockInv)'
  BY <1>2, <1>3, CredentialsAssumption, TokenNextKeeps, LockNextKeeps
<1>5. TokenInv /\ LockInv => CredentialsSound BY CredentialsAssumption, Sound
<1> QED BY <1>1, <1>4, <1>5, PTL DEF CredentialsSpec

----------------------------------------
(* Who is signed in: the inductive invariant. *)

Tokens == [user : SignInUsers, use : {"access", "refresh"}, age : {"fresh", "closing", "over"}]
VisitSteps == {"new", "binding", "raced", "removing", "ended"}
ShowSteps == {"new", "decoded", "accepted", "refused"}

(* Whoever was told owns the account; a removal that waits is of a store
   in a database. *)
BindingsInv ==
  /\ bindStore \in BindingStores
  /\ bindings \in [Openids -> SignInUsers \cup {NoUser}]
  /\ told \in [Openids -> SUBSET SignInUsers]
  /\ visit \in [Visits -> [at : VisitSteps, openid : Openids \cup {NoUser}]]
  /\ \A v \in Visits :
       visit[v].at \in {"binding", "raced", "removing"} => visit[v].openid \in Openids
  /\ \A o \in Openids : told[o] \subseteq {bindings[o]}
  /\ wronged # {} \/ (\E v \in Visits : visit[v].at = "removing") => bindStore = "database"

(* A token is known to one store at most, and to none once its logout was
   confirmed. *)
StoresInv ==
  /\ issued \in [TokenNo -> Tokens] /\ (\E n \in Nat : TokenNo = 1..n)
  /\ jwtStore \in {"none", "memory", "redis"} /\ jwtConfig \in BOOLEAN
  /\ alive \in [{"memory", "redis"} -> SUBSET TokenNo]
  /\ alive["memory"] \cap alive["redis"] = {}
  /\ out \subseteq TokenNo
  /\ \A s \in {"memory", "redis"} : alive[s] \cap out = {}

(* What was logged out when a request came stays so. *)
ShowsInv ==
  /\ shown \in [Shows -> [at : ShowSteps, token : Nat, barred : SUBSET Nat]]
  /\ \A r \in Shows :
       /\ shown[r].barred \subseteq out
       /\ shown[r].at \in {"decoded", "accepted"} =>
            shown[r].token \in TokenNo /\ issued[shown[r].token].use = "access"
       /\ shown[r].at = "accepted" => shown[r].token \notin shown[r].barred

SignInInv == BindingsInv /\ StoresInv /\ ShowsInv

----------------------------------------
(* Who is signed in: every step. *)

LEMMA SignInConstants ==
  ASSUME SignInAssumption
  PROVE  /\ NoUser \notin SignInUsers
         /\ \A v \in Visits : VisitUser[v] \in SignInUsers
         /\ \A b \in BindingStores : b \in {"memory", "database"}
  BY DEF SignInAssumption

LEMMA InitSignIn == ASSUME SignInAssumption, SignInInit PROVE SignInInv
<1>1. BindingsInv BY DEF SignInInit, BindingsInv, Resting, VisitSteps
<1>2. TokenNo = 1..0 /\ issued \in [TokenNo -> Tokens] BY FS_EmptySet DEF SignInInit, TokenNo
<1>3. StoresInv BY <1>2 DEF SignInInit, StoresInv
<1>4. ShowsInv BY DEF SignInInit, ShowsInv, NotShown, ShowSteps
<1> QED BY <1>1, <1>3, <1>4 DEF SignInInv

(* The next number is that of no token yet. *)
LEMMA NewToken ==
  ASSUME StoresInv, NEW t \in Tokens, NEW n, n = Cardinality(TokenNo) + 1,
         issued' = [k \in 1..n |-> IF k = n THEN t ELSE issued[k]]
  PROVE  /\ n \in Nat /\ n \notin TokenNo
         /\ TokenNo' = TokenNo \cup {n} /\ TokenNo' = 1..n
         /\ issued' \in [TokenNo' -> Tokens]
         /\ \A k \in TokenNo : issued'[k] = issued[k]
<1>1. PICK m \in Nat : TokenNo = 1..m BY DEF StoresInv
<1>2. Cardinality(1..m) = m BY FS_Interval
<1>3. n = m + 1 BY <1>1, <1>2
<1>4. DOMAIN issued' = 1..n OBVIOUS
<1>5. Cardinality(1..n) = n BY <1>3, FS_Interval
<1>6. TokenNo' = 1..n BY <1>4, <1>5 DEF TokenNo
<1>7. issued' \in [1..n -> Tokens] BY <1>1, <1>3 DEF StoresInv
<1> QED BY <1>1, <1>3, <1>6, <1>7

LEMMA InUse ==
  ASSUME StoresInv PROVE StoreInUse \in {"memory", "redis"}
  BY DEF StoresInv, StoreInUse

(* A token is handed out: it is known to the store in use, and no token
   changes its use. *)
LEMMA GenerateStep ==
  ASSUME StoresInv, NEW user \in SignInUsers, GenerateToken(user), UNCHANGED <<jwtConfig, out>>
  PROVE  StoresInv' /\ (\A k \in TokenNo : k \in TokenNo' /\ issued'[k] = issued[k])
<1> DEFINE n == Cardinality(TokenNo) + 1
           t == [user |-> user, use |-> "access", age |-> "fresh"]
           S == StoreInUse
<1>1. t \in Tokens BY DEF Tokens
<1>2. /\ issued' = [k \in 1..n |-> IF k = n THEN t ELSE issued[k]]
      /\ jwtStore' = S
      /\ alive' = [alive EXCEPT ![S] = (@ \ OwnedBy(user)) \cup {n}]
  BY DEF GenerateToken, SaveToken
<1>3. S \in {"memory", "redis"} BY InUse
<1> HIDE DEF t, S, n
<1>4. /\ n \notin TokenNo /\ n \in Nat
      /\ TokenNo' = TokenNo \cup {n} /\ TokenNo' = 1..n
      /\ issued' \in [TokenNo' -> Tokens]
      /\ \A k \in TokenNo : issued'[k] = issued[k]
  BY <1>1, <1>2, NewToken DEF n
<1>5. /\ alive'[S] = (alive[S] \ OwnedBy(user)) \cup {n}
      /\ \A s \in {"memory", "redis"} \ {S} : alive'[s] = alive[s]
      /\ alive' \in [{"memory", "redis"} -> SUBSET TokenNo']
  BY <1>2, <1>3, <1>4 DEF StoresInv
<1>6. /\ \A s \in {"memory", "redis"} : alive[s] \subseteq TokenNo /\ alive[s] \cap out = {}
      /\ out \subseteq TokenNo
      /\ alive["memory"] \cap alive["redis"] = {}
  BY DEF StoresInv
<1>7. alive'["memory"] \cap alive'["redis"] = {} BY <1>3, <1>4, <1>5, <1>6
<1>8. \A s \in {"memory", "redis"} : alive'[s] \cap out = {} BY <1>3, <1>4, <1>5, <1>6
<1>9. out' \subseteq TokenNo' BY <1>4, <1>6
<1> QED BY <1>2, <1>3, <1>4, <1>5, <1>7, <1>8, <1>9 DEF StoresInv

LEMMA ShowsStay ==
  ASSUME StoresInv, ShowsInv, UNCHANGED shown, out \subseteq out',
         \A k \in TokenNo : k \in TokenNo' /\ issued'[k].use = issued[k].use
  PROVE  ShowsInv'
  BY DEF ShowsInv

LEMMA BindingsStay ==
  ASSUME BindingsInv, UNCHANGED <<bindVars, visit>> PROVE BindingsInv'
  BY DEF BindingsInv, bindVars

(* SetRedisConfig: a store is exchanged, and no token moves. *)
LEMMA SetRedisConfigStep ==
  ASSUME SignInInv, SetRedisConfig PROVE SignInInv'
<1>1. /\ UNCHANGED <<bindVars, visit, issued, out, shown>>
      /\ jwtConfig' = ~jwtConfig
      /\ jwtStore' \in {"none", jwtStore}
      /\ alive' = alive \/ alive' = [alive EXCEPT !.memory = {}]
  BY DEF SetRedisConfig
<1>2. TokenNo' = TokenNo BY <1>1 DEF TokenNo
<1>3. /\ alive' \in [{"memory", "redis"} -> SUBSET TokenNo]
      /\ \A s \in {"memory", "redis"} : alive'[s] \subseteq alive[s]
  BY <1>1 DEF SignInInv, StoresInv
<1>4. StoresInv' BY <1>1, <1>2, <1>3 DEF SignInInv, StoresInv
<1> QED BY <1>1, <1>2, <1>4, ShowsStay, BindingsStay DEF SignInInv

LEMMA CreateRefreshTokenStep ==
  ASSUME SignInInv, NEW user \in SignInUsers, CreateRefreshToken(user) PROVE SignInInv'
<1> DEFINE n == Cardinality(TokenNo) + 1
           t == [user |-> user, use |-> "refresh", age |-> "fresh"]
<1>1. t \in Tokens BY DEF Tokens
<1>2. /\ issued' = [k \in 1..n |-> IF k = n THEN t ELSE issued[k]]
      /\ UNCHANGED <<bindVars, visit, jwtStore, jwtConfig, alive, out, shown>>
  BY DEF CreateRefreshToken
<1> HIDE DEF t, n
<1>3. /\ n \notin TokenNo /\ n \in Nat
      /\ TokenNo' = TokenNo \cup {n} /\ TokenNo' = 1..n
      /\ issued' \in [TokenNo' -> Tokens]
      /\ \A k \in TokenNo : issued'[k] = issued[k]
  BY <1>1, <1>2, NewToken DEF n, SignInInv
<1>4. StoresInv' BY <1>2, <1>3 DEF SignInInv, StoresInv
<1> QED BY <1>2, <1>3, <1>4, ShowsStay, BindingsStay DEF SignInInv

LEMMA GeneratesStep ==
  ASSUME SignInInv, NEW user \in SignInUsers, GenerateToken(user),
         UNCHANGED <<bindVars, visit, jwtConfig, out, shown>>
  PROVE  SignInInv'
<1>1. StoresInv' /\ (\A k \in TokenNo : k \in TokenNo' /\ issued'[k] = issued[k])
  BY GenerateStep DEF SignInInv
<1> QED BY <1>1, ShowsStay, BindingsStay DEF SignInInv

LEMMA GrowOldStep ==
  ASSUME SignInInv, NEW n \in TokenNo, GrowOld(n) PROVE SignInInv'
<1>1. /\ UNCHANGED <<bindVars, visit, jwtStore, jwtConfig, out, shown>>
      /\ alive' = alive \/ alive' = [s \in DOMAIN alive |-> alive[s] \ {n}]
  BY DEF GrowOld
<1>2. PICK a \in {"closing", "over"} : issued' = [issued EXCEPT ![n].age = a] BY DEF GrowOld
<1>3. /\ issued' \in [TokenNo -> Tokens]
      /\ \A k \in TokenNo : issued'[k].use = issued[k].use
  BY <1>2 DEF SignInInv, StoresInv, Tokens
<1>4. TokenNo' = TokenNo
  <2>1. DOMAIN issued' = DOMAIN issued BY <1>3 DEF SignInInv, StoresInv
  <2> QED BY <2>1 DEF TokenNo
<1>5. /\ alive' \in [{"memory", "redis"} -> SUBSET TokenNo]
      /\ \A s \in {"memory", "redis"} : alive'[s] \subseteq alive[s]
  BY <1>1 DEF SignInInv, StoresInv
<1>6. StoresInv' BY <1>1, <1>3, <1>4, <1>5 DEF SignInInv, StoresInv
<1> QED BY <1>1, <1>3, <1>4, <1>6, ShowsStay, BindingsStay DEF SignInInv

(* A logout is confirmed by the one store that knew the token, and it
   forgets it: no other store can know it. *)
LEMMA InvalidateTokenStep ==
  ASSUME SignInInv, NEW n \in TokenNo, InvalidateToken(n) PROVE SignInInv'
<1> DEFINE S == StoreInUse
<1>1. /\ jwtStore' = S
      /\ out' = IF n \in alive[S] THEN out \cup {n} ELSE out
      /\ alive' = [alive EXCEPT ![S] = @ \ {n}]
      /\ UNCHANGED <<bindVars, visit, issued, jwtConfig, shown>>
  BY DEF InvalidateToken
<1>2. S \in {"memory", "redis"} BY InUse DEF SignInInv
<1> HIDE DEF S
<1>3. TokenNo' = TokenNo BY <1>1 DEF TokenNo
<1>4. /\ alive' \in [{"memory", "redis"} -> SUBSET TokenNo]
      /\ alive'[S] = alive[S] \ {n}
      /\ \A s \in {"memory", "redis"} \ {S} : alive'[s] = alive[s]
  BY <1>1, <1>2 DEF SignInInv, StoresInv
<1>5. \A s \in {"memory", "redis"} : alive'[s] \cap out' = {}
  BY <1>1, <1>2, <1>4 DEF SignInInv, StoresInv
<1>6. StoresInv' BY <1>1, <1>2, <1>3, <1>4, <1>5 DEF SignInInv, StoresInv
<1> QED BY <1>1, <1>3, <1>6, ShowsStay, BindingsStay DEF SignInInv

LEMMA ShowStep ==
  ASSUME SignInInv, NEW r \in Shows, NEW n \in TokenNo, Show(r, n) PROVE SignInInv'
<1> DEFINE at == IF issued[n].use = "access" /\ issued[n].age # "over" THEN "decoded" ELSE "refused"
           x == [at |-> at, token |-> n, barred |-> out]
<1>1. shown' = [shown EXCEPT ![r] = x] /\ UNCHANGED <<bindVars, visit, tokenVarsOf>> BY DEF Show
<1>2. UNCHANGED <<issued, jwtStore, jwtConfig, alive, out>> /\ TokenNo' = TokenNo
  BY <1>1 DEF tokenVarsOf, TokenNo
<1>3. TokenNo \subseteq Nat /\ out \subseteq Nat BY DEF SignInInv, StoresInv
<1>4. /\ x \in [at : ShowSteps, token : Nat, barred : SUBSET Nat]
      /\ x.at \in {"decoded", "refused"} /\ x.token = n /\ x.barred = out
      /\ x.at = "decoded" => issued[n].use = "access"
  BY <1>3 DEF ShowSteps
<1> HIDE DEF x
<1>5. /\ shown' \in [Shows -> [at : ShowSteps, token : Nat, barred : SUBSET Nat]]
      /\ shown'[r] = x /\ \A q \in Shows \ {r} : shown'[q] = shown[q]
  BY <1>1, <1>4 DEF SignInInv, ShowsInv
<1>6. ShowsInv' BY <1>2, <1>4, <1>5 DEF SignInInv, ShowsInv
<1>7. StoresInv' BY <1>2 DEF SignInInv, StoresInv
<1> QED BY <1>1, <1>6, <1>7, BindingsStay DEF SignInInv

(* A request is let in with a token a store knows: its logout was not
   confirmed, neither now nor when it came. *)
LEMMA AskStoreStep ==
  ASSUME SignInInv, NEW r \in Shows, AskStore(r) PROVE SignInInv'
<1> DEFINE S == StoreInUse
           at == IF shown[r].token \in alive[S] THEN "accepted" ELSE "refused"
<1>1. /\ shown[r].at = "decoded" /\ jwtStore' = S
      /\ shown' = [shown EXCEPT ![r].at = at]
      /\ UNCHANGED <<bindVars, visit, issued, jwtConfig, alive, out>>
  BY DEF AskStore, MoveShow
<1>2. S \in {"memory", "redis"} BY InUse DEF SignInInv
<1>3. at \in {"accepted", "refused"} /\ (at = "accepted" => shown[r].token \in alive[S]) OBVIOUS
<1> HIDE DEF S, at
<1>4. TokenNo' = TokenNo BY <1>1 DEF TokenNo
<1>5. /\ shown' \in [Shows -> [at : ShowSteps, token : Nat, barred : SUBSET Nat]]
      /\ shown'[r].at = at /\ shown'[r].token = shown[r].token /\ shown'[r].barred = shown[r].barred
      /\ \A q \in Shows \ {r} : shown'[q] = shown[q]
  BY <1>1, <1>3 DEF SignInInv, ShowsInv, ShowSteps
<1>6. at = "accepted" => shown[r].token \notin shown[r].barred
  BY <1>2, <1>3 DEF SignInInv, StoresInv, ShowsInv
<1>7. ShowsInv' BY <1>1, <1>3, <1>4, <1>5, <1>6 DEF SignInInv, ShowsInv
<1>8. StoresInv' BY <1>1, <1>2, <1>4 DEF SignInInv, StoresInv
<1> QED BY <1>1, <1>7, <1>8, BindingsStay DEF SignInInv

(* The calls of bind, unbind and login. *)
LEMMA VisitMoves ==
  ASSUME BindingsInv, NEW v \in Visits, NEW next \in VisitSteps,
         NEW o \in Openids \cup {NoUser}, MoveVisit(v, next, o)
  PROVE  /\ visit' \in [Visits -> [at : VisitSteps, openid : Openids \cup {NoUser}]]
         /\ visit'[v].at = next /\ visit'[v].openid = o
         /\ \A w \in Visits \ {v} : visit'[w] = visit[w]
  BY DEF MoveVisit, BindingsInv

LEMMA OtherVars ==
  ASSUME StoresInv, ShowsInv, UNCHANGED <<tokenVarsOf, shown>> PROVE StoresInv' /\ ShowsInv'
<1>1. UNCHANGED <<issued, jwtStore, jwtConfig, alive, out>> /\ TokenNo' = TokenNo
  BY DEF tokenVarsOf, TokenNo
<1> QED BY <1>1, ShowsStay DEF StoresInv

(* Somebody is told that an account is theirs when it is. *)
LEMMA TellStep ==
  ASSUME BindingsInv, NEW v \in Visits, NEW next \in VisitSteps \ {"removing"},
         NEW o \in Openids \cup {NoUser}, MoveVisit(v, next, o),
         next \in {"binding", "raced"} => o \in Openids,
         NEW p \in Openids, NEW u \in SignInUsers,
         UNCHANGED <<bindStore, wronged>>,
         \/ UNCHANGED <<bindings, told>>
         \/ UNCHANGED bindings /\ Tell(p, u) /\ bindings[p] = u
         \/ bindings[p] = NoUser /\ NoUser \notin SignInUsers
            /\ bindings' = [bindings EXCEPT ![p] = u] /\ Tell(p, u)
  PROVE  BindingsInv'
<1>1. /\ visit' \in [Visits -> [at : VisitSteps, openid : Openids \cup {NoUser}]]
      /\ visit'[v].at = next /\ visit'[v].openid = o
      /\ \A w \in Visits \ {v} : visit'[w] = visit[w]
  BY VisitMoves
<1>2. /\ \A w \in Visits :
           visit'[w].at \in {"binding", "raced", "removing"} => visit'[w].openid \in Openids
      /\ wronged' # {} \/ (\E w \in Visits : visit'[w].at = "removing") => bindStore' = "database"
  BY <1>1 DEF BindingsInv
<1>3. /\ bindings' \in [Openids -> SignInUsers \cup {NoUser}]
      /\ told' \in [Openids -> SUBSET SignInUsers]
      /\ \A q \in Openids : told'[q] \subseteq {bindings'[q]}
  <2>1. CASE UNCHANGED <<bindings, told>> BY <2>1 DEF BindingsInv
  <2>2. CASE UNCHANGED bindings /\ Tell(p, u) /\ bindings[p] = u BY <2>2 DEF BindingsInv, Tell
  <2>3. CASE bindings[p] = NoUser /\ NoUser \notin SignInUsers
             /\ bindings' = [bindings EXCEPT ![p] = u] /\ Tell(p, u)
    <3>1. told[p] = {} BY <2>3 DEF BindingsInv
    <3> QED BY <2>3, <3>1 DEF BindingsInv, Tell
  <2> QED BY <2>1, <2>2, <2>3
<1> QED BY <1>1, <1>2, <1>3 DEF BindingsInv

LEMMA BindLooksStep ==
  ASSUME SignInInv, SignInAssumption, NEW v \in Visits, NEW o \in Openids, BindLooks(v, o)
  PROVE  SignInInv'
<1>1. UNCHANGED <<bindStore, bindings, wronged>> /\ UNCHANGED <<tokenVarsOf, shown>>
  BY DEF BindLooks
<1>2. VisitUser[v] \in SignInUsers BY SignInConstants
<1>3. CASE bindings[o] = NoUser
  <2>1. MoveVisit(v, "binding", o) /\ UNCHANGED told BY <1>3 DEF BindLooks
  <2>2. "binding" \in VisitSteps \ {"removing"} BY DEF VisitSteps
  <2>3. BindingsInv' BY <1>1, <1>2, <2>1, <2>2, TellStep DEF SignInInv
  <2> QED BY <1>1, <2>3, OtherVars DEF SignInInv
<1>4. CASE bindings[o] # NoUser
  <2>1. MoveVisit(v, "ended", NoUser)
        /\ (UNCHANGED told \/ (Tell(o, VisitUser[v]) /\ bindings[o] = VisitUser[v]))
    BY <1>4 DEF BindLooks
  <2>2. "ended" \in VisitSteps \ {"removing"} BY DEF VisitSteps
  <2>3. BindingsInv' BY <1>1, <1>2, <2>1, <2>2, TellStep DEF SignInInv
  <2> QED BY <1>1, <2>3, OtherVars DEF SignInInv
<1> QED BY <1>3, <1>4

LEMMA BindWritesStep ==
  ASSUME SignInInv, SignInAssumption, NEW v \in Visits, BindWrites(v) PROVE SignInInv'
<1>0. visit[v].at = "binding" /\ visit[v].openid \in Openids
  BY DEF BindWrites, SignInInv, BindingsInv
<1>o. PICK o \in Openids : o = visit[v].openid BY <1>0
<1>1. UNCHANGED <<bindStore, wronged>> /\ UNCHANGED <<tokenVarsOf, shown>> BY DEF BindWrites
<1>2. VisitUser[v] \in SignInUsers /\ NoUser \notin SignInUsers BY SignInConstants
<1>3. CASE bindings[o] = NoUser
  <2>1. /\ bindings' = [bindings EXCEPT ![o] = VisitUser[v]]
        /\ Tell(o, VisitUser[v]) /\ MoveVisit(v, "ended", NoUser)
    BY <1>3, <1>o DEF BindWrites
  <2>2. "ended" \in VisitSteps \ {"removing"} BY DEF VisitSteps
  <2>3. BindingsInv' BY <1>1, <1>2, <1>3, <2>1, <2>2, TellStep DEF SignInInv
  <2> QED BY <1>1, <2>3, OtherVars DEF SignInInv
<1>4. CASE bindings[o] # NoUser
  <2>1. MoveVisit(v, "raced", o) /\ UNCHANGED <<bindings, told>> BY <1>4, <1>o DEF BindWrites
  <2>2. "raced" \in VisitSteps \ {"removing"} BY DEF VisitSteps
  <2>3. BindingsInv' BY <1>1, <1>2, <2>1, <2>2, TellStep DEF SignInInv
  <2> QED BY <1>1, <2>3, OtherVars DEF SignInInv
<1> QED BY <1>3, <1>4

LEMMA BindLooksAgainStep ==
  ASSUME SignInInv, SignInAssumption, NEW v \in Visits, BindLooksAgain(v) PROVE SignInInv'
<1>0. visit[v].at = "raced" /\ visit[v].openid \in Openids
  BY DEF BindLooksAgain, SignInInv, BindingsInv
<1>o. PICK o \in Openids : o = visit[v].openid BY <1>0
<1>1. UNCHANGED <<bindStore, bindings, wronged>> /\ UNCHANGED <<tokenVarsOf, shown>>
  BY DEF BindLooksAgain
<1>2. VisitUser[v] \in SignInUsers BY SignInConstants
<1>3. MoveVisit(v, "ended", NoUser)
      /\ (UNCHANGED told \/ (Tell(o, VisitUser[v]) /\ bindings[o] = VisitUser[v]))
  BY <1>o DEF BindLooksAgain
<1>4. "ended" \in VisitSteps \ {"removing"} BY DEF VisitSteps
<1>5. BindingsInv' BY <1>1, <1>2, <1>3, <1>4, TellStep DEF SignInInv
<1> QED BY <1>1, <1>5, OtherVars DEF SignInInv

(* A binding goes: its owner's word is withdrawn, and only in a database
   may it be another one's by then. *)
LEMMA RemovedStep ==
  ASSUME BindingsInv, NEW v \in Visits, NEW o \in Openids, Removed(v, o),
         MoveVisit(v, "ended", NoUser), UNCHANGED bindStore,
         bindings[o] = VisitUser[v] \/ bindStore = "database"
  PROVE  BindingsInv'
<1>1. /\ visit' \in [Visits -> [at : VisitSteps, openid : Openids \cup {NoUser}]]
      /\ visit'[v].at = "ended"
      /\ \A w \in Visits \ {v} : visit'[w] = visit[w]
  BY VisitMoves DEF VisitSteps
<1>2. /\ bindings' \in [Openids -> SignInUsers \cup {NoUser}]
      /\ told' \in [Openids -> SUBSET SignInUsers]
      /\ \A q \in Openids : told'[q] \subseteq {bindings'[q]}
  BY DEF BindingsInv, Removed
<1>3. wronged' # {} => wronged # {} \/ bindStore = "database" BY DEF Removed
<1>4. wronged' # {} \/ (\E w \in Visits : visit'[w].at = "removing") => bindStore' = "database"
  BY <1>1, <1>3 DEF BindingsInv
<1>5. \A w \in Visits :
        visit'[w].at \in {"binding", "raced", "removing"} => visit'[w].openid \in Openids
  BY <1>1 DEF BindingsInv
<1> QED BY <1>1, <1>2, <1>4, <1>5 DEF BindingsInv

LEMMA UnbindLooksStep ==
  ASSUME SignInInv, SignInAssumption, NEW v \in Visits, NEW o \in Openids, UnbindLooks(v, o)
  PROVE  SignInInv'
<1>1. UNCHANGED bindStore /\ UNCHANGED <<tokenVarsOf, shown>> BY DEF UnbindLooks
<1>2. VisitUser[v] \in SignInUsers BY SignInConstants
<1>3. CASE MoveVisit(v, "ended", NoUser) /\ UNCHANGED <<bindings, told, wronged>>
  <2>1. "ended" \in VisitSteps \ {"removing"} BY DEF VisitSteps
  <2>2. BindingsInv' BY <1>1, <1>2, <1>3, <2>1, TellStep DEF SignInInv
  <2> QED BY <1>1, <2>2, OtherVars DEF SignInInv
<1>4. CASE Removed(v, o) /\ MoveVisit(v, "ended", NoUser) /\ bindings[o] = VisitUser[v]
  <2>1. BindingsInv' BY <1>1, <1>4, RemovedStep DEF SignInInv
  <2> QED BY <1>1, <2>1, OtherVars DEF SignInInv
<1>5. CASE bindStore # "memory" /\ MoveVisit(v, "removing", o) /\ UNCHANGED <<bindings, told, wronged>>
  <2>1. /\ visit' \in [Visits -> [at : VisitSteps, openid : Openids \cup {NoUser}]]
        /\ visit'[v].at = "removing" /\ visit'[v].openid = o
        /\ \A w \in Visits \ {v} : visit'[w] = visit[w]
    BY <1>5, VisitMoves DEF VisitSteps, SignInInv
  <2>2. bindStore = "database" BY <1>5, SignInConstants DEF SignInInv, BindingsInv
  <2>3. BindingsInv' BY <1>1, <1>5, <2>1, <2>2 DEF SignInInv, BindingsInv
  <2> QED BY <1>1, <2>3, OtherVars DEF SignInInv
<1> QED BY <1>3, <1>4, <1>5 DEF UnbindLooks

LEMMA UnbindWritesStep ==
  ASSUME SignInInv, NEW v \in Visits, UnbindWrites(v) PROVE SignInInv'
<1>1. visit[v].at = "removing" /\ visit[v].openid \in Openids /\ bindStore = "database"
  BY DEF UnbindWrites, SignInInv, BindingsInv
<1>2. PICK o \in Openids : o = visit[v].openid BY <1>1
<1>3. /\ Removed(v, o) /\ MoveVisit(v, "ended", NoUser) /\ UNCHANGED bindStore
      /\ UNCHANGED <<tokenVarsOf, shown>>
  BY <1>2 DEF UnbindWrites
<1>4. BindingsInv' BY <1>1, <1>3, RemovedStep DEF SignInInv
<1> QED BY <1>3, <1>4, OtherVars DEF SignInInv

LEMMA LoginStep ==
  ASSUME SignInInv, SignInAssumption, NEW v \in Visits, NEW o \in Openids, Login(v, o)
  PROVE  SignInInv'
<1>1. /\ bindings[o] # NoUser /\ GenerateToken(bindings[o]) /\ MoveVisit(v, "ended", NoUser)
      /\ UNCHANGED <<bindVars, jwtConfig, out, shown>>
  BY DEF Login
<1>2. bindings[o] \in SignInUsers BY <1>1 DEF SignInInv, BindingsInv
<1>3. StoresInv' /\ (\A k \in TokenNo : k \in TokenNo' /\ issued'[k] = issued[k])
  BY <1>1, <1>2, GenerateStep DEF SignInInv
<1>4. UNCHANGED <<bindStore, bindings, told, wronged>> BY <1>1 DEF bindVars
<1>5. "ended" \in VisitSteps \ {"removing"} /\ VisitUser[v] \in SignInUsers
  BY SignInConstants DEF VisitSteps
<1>6. BindingsInv' BY <1>1, <1>4, <1>5, TellStep DEF SignInInv
<1> QED BY <1>1, <1>3, <1>6, ShowsStay DEF SignInInv

LEMMA ReturnsStep ==
  ASSUME SignInInv, NEW v \in Visits, Returns(v) PROVE SignInInv'
<1>1. /\ visit' = [visit EXCEPT ![v] = Resting]
      /\ UNCHANGED <<bindStore, bindings, told, wronged>>
      /\ UNCHANGED <<tokenVarsOf, shown>>
  BY DEF Returns, bindVars
<1>2. /\ visit' \in [Visits -> [at : VisitSteps, openid : Openids \cup {NoUser}]]
      /\ visit'[v].at = "new" /\ \A w \in Visits \ {v} : visit'[w] = visit[w]
  BY <1>1 DEF SignInInv, BindingsInv, Resting, VisitSteps
<1>3. BindingsInv' BY <1>1, <1>2 DEF SignInInv, BindingsInv
<1> QED BY <1>1, <1>3, OtherVars DEF SignInInv

LEMMA SignInNextKeeps ==
  ASSUME SignInAssumption, SignInInv, BindingNext \/ TokensNext PROVE SignInInv'
<1>1. ASSUME NEW v \in Visits, BindWrites(v) \/ BindLooksAgain(v) \/ UnbindWrites(v) \/ Returns(v)
      PROVE  SignInInv'
  BY <1>1, BindWritesStep, BindLooksAgainStep, UnbindWritesStep, ReturnsStep
<1>2. ASSUME NEW v \in Visits, NEW o \in Openids,
             BindLooks(v, o) \/ UnbindLooks(v, o) \/ Login(v, o)
      PROVE  SignInInv'
  BY <1>2, BindLooksStep, UnbindLooksStep, LoginStep
<1>3. CASE SetRedisConfig BY <1>3, SetRedisConfigStep
<1>4. ASSUME NEW u \in SignInUsers, CreateRefreshToken(u) \/ IssueClientToken(u) PROVE SignInInv'
  BY <1>4, CreateRefreshTokenStep, GeneratesStep DEF IssueClientToken
<1>5. ASSUME NEW n \in TokenNo, Refresh(n) PROVE SignInInv'
  <2>1. issued[n].user \in SignInUsers BY DEF SignInInv, StoresInv, Tokens
  <2>2. PICK u \in SignInUsers : u = issued[n].user BY <2>1
  <2> QED BY <1>5, <2>2, GeneratesStep DEF Refresh
<1>6. ASSUME NEW n \in TokenNo, GrowOld(n) \/ InvalidateToken(n) PROVE SignInInv'
  BY <1>6, GrowOldStep, InvalidateTokenStep
<1>7. ASSUME NEW r \in Shows, AskStore(r) \/ \E n \in TokenNo : Show(r, n) PROVE SignInInv'
  BY <1>7, AskStoreStep, ShowStep
<1> QED BY <1>1, <1>2, <1>3, <1>4, <1>5, <1>6, <1>7 DEF BindingNext, TokensNext

(* An account of a platform belongs to whoever was told so, until it is
   freed; only its owner frees it, unless the bindings are in a database;
   and a request is let in with an access token alone, and never with one
   whose logout was confirmed before it came: for any number of users,
   calls, requests and tokens, and however JWTUtil's store is exchanged. *)
THEOREM SignInHolds == SignInSpec => []SignInSound
<1>1. SignInInit => SignInInv BY SignInAssumption, InitSignIn
<1>2. SignInInv /\ [BindingNext \/ TokensNext]_signInVars => SignInInv'
  <2>1. SignInInv /\ UNCHANGED signInVars => SignInInv'
    <3> SUFFICES ASSUME SignInInv, UNCHANGED signInVars PROVE SignInInv' OBVIOUS
    <3>1. UNCHANGED <<bindVars, visit>> /\ UNCHANGED <<tokenVarsOf, shown>>
      BY DEF signInVars, bindVars, tokenVarsOf
    <3> QED BY <3>1, BindingsStay, OtherVars DEF SignInInv
  <2> QED BY <2>1, SignInAssumption, SignInNextKeeps
<1>3. SignInInv => SignInSound
  BY DEF SignInInv, BindingsInv, ShowsInv, SignInSound, AccountsOwned, LoggedOutStaysOut
<1> QED BY <1>1, <1>2, <1>3, PTL DEF SignInSpec

----------------------------------------
(* Assembly: the inductive invariant. *)

Settings == UNION {Types[s] : s \in DOMAIN Types}
Choices == UNION {[D -> Settings] : D \in SUBSET AskedAgain}

PartNames == {"cache", "db", "storage", "mq", "registry", "ai_model_config_store",
              "ai_registrar", "ai", "mongo"}

AppStates ==
  [at : {"new", "building", "built", "running", "ended", "failed"},
   step : 1..12, chosen : Choices, parts : Seq(PartNames)]

AsmTypes ==
  /\ app \in [Apps -> AppStates]
  /\ providers \in [Models -> Apps \cup {NoApp}]
  /\ opened \subseteq Apps /\ jwtRedis \in Apps \cup {NoApp}

(* The registrar is made at the seventh step, and once. *)
NoRegistrar(parts) == \A i \in DOMAIN parts : parts[i] # "ai_registrar"
OneRegistrar(parts) ==
  \A i, j \in DOMAIN parts : parts[i] = "ai_registrar" /\ parts[j] = "ai_registrar" => i = j

(* What was chosen at a step that build has passed: the application has it
   and it is wired to what was chosen before. *)
CacheWired(x) ==
  /\ "cache" \in DOMAIN x.chosen
  /\ x.chosen["cache"] = "redis" => jwtRedis # NoApp
AiWired(x) ==
  /\ "ai" \in DOMAIN x.chosen
  /\ x.at # "running" /\ x.chosen["ai"] # "off" => ~NoRegistrar(x.parts)
WebWired(x) ==
  /\ "web" \in DOMAIN x.chosen
  /\ x.chosen["web"] = "redis" => x.chosen["cache"] = "redis"

Wired(x) ==
  /\ x.step > 2 => CacheWired(x) /\ x.parts # <<>>
  /\ x.step > 7 => AiWired(x)
  /\ x.step > 9 => WebWired(x)

BuildFits(x) ==
  /\ x.at = "new" => x.step = 1 /\ x.parts = <<>>
  /\ x.at = "building" => x.step < 12
  /\ x.at \in {"built", "running"} => x.step = 12
  /\ x.at \in {"building", "built", "running"} => Wired(x)
  /\ x.step < 8 => NoRegistrar(x.parts)
  /\ OneRegistrar(x.parts)
  /\ x.at = "ended" => x.parts = <<>>

(* What is open is closed by a registrar, unless build has failed. *)
HasRegistrar(x) == x.at = "failed" \/ ~NoRegistrar(x.parts)
OpenedFit == \A a \in opened : HasRegistrar(app[a])

ProvidersFit ==
  opened # {} =>
    \A m \in Models :
      /\ providers[m] # NoApp
      /\ providers[m] \notin opened => RegistrarClosed(providers[m])

AsmInv ==
  /\ AsmTypes
  /\ \A a \in Apps : BuildFits(app[a])
  /\ OpenedFit
  /\ ProvidersFit

AsmSpec == AsmInit /\ [][AsmNext]_asmVars

(* Where the steps are that the invariant speaks of. *)
LEMMA StepsAt ==
  \A i \in 1..12 :
    /\ (At(i) = "cache") <=> (i = 2)
    /\ (At(i) = "db") <=> (i = 3)
    /\ (At(i) = "ai") <=> (i = 7)
    /\ (At(i) = "web") <=> (i = 9)
    /\ (At(i) = "built") <=> (i = 12)
<1> DEFINE S == <<"logging", "cache", "db", "storage", "mq", "registry", "ai", "mongo",
                  "web", "tenant", "capacity">>
           Fits(i, s) ==
             /\ (s = "cache") <=> (i = 2)
             /\ (s = "db") <=> (i = 3)
             /\ (s = "ai") <=> (i = 7)
             /\ (s = "web") <=> (i = 9)
             /\ (s = "built") <=> (i = 12)
<1>1. DOMAIN S = 1..11 OBVIOUS
<1>2. \A i \in 1..11 : At(i) = S[i] BY <1>1 DEF At, BuildSteps
<1>3. At(12) = "built" BY <1>1 DEF At, BuildSteps
<1>4. /\ S[1] = "logging" /\ S[2] = "cache" /\ S[3] = "db" /\ S[4] = "storage" /\ S[5] = "mq"
      /\ S[6] = "registry" /\ S[7] = "ai" /\ S[8] = "mongo" /\ S[9] = "web" /\ S[10] = "tenant"
      /\ S[11] = "capacity"
  OBVIOUS
<1>5. /\ Fits(1, "logging") /\ Fits(2, "cache") /\ Fits(3, "db") /\ Fits(4, "storage")
      /\ Fits(5, "mq") /\ Fits(6, "registry") /\ Fits(7, "ai") /\ Fits(8, "mongo")
      /\ Fits(9, "web") /\ Fits(10, "tenant") /\ Fits(11, "capacity") /\ Fits(12, "built")
  OBVIOUS
<1> HIDE DEF S, Fits
<1>6. ASSUME NEW i \in 1..12 PROVE Fits(i, At(i))
  <2>1. i = 1 \/ i = 2 \/ i = 3 \/ i = 4 \/ i = 5 \/ i = 6 \/ i = 7 \/ i = 8 \/ i = 9 \/ i = 10
        \/ i = 11 \/ i = 12
    OBVIOUS
  <2>2. /\ Fits(1, At(1)) /\ Fits(2, At(2)) /\ Fits(3, At(3)) /\ Fits(4, At(4))
        /\ Fits(5, At(5)) /\ Fits(6, At(6)) /\ Fits(7, At(7)) /\ Fits(8, At(8))
        /\ Fits(9, At(9)) /\ Fits(10, At(10)) /\ Fits(11, At(11)) /\ Fits(12, At(12))
    BY <1>2, <1>3, <1>4, <1>5
  <2> QED BY <2>1, <2>2
<1> QED BY <1>6 DEF Fits

(* A choice is one of the settings that are asked for again. *)
LEMMA ChooseFits ==
  ASSUME NEW x \in AppStates, NEW s, NEW t \in Settings
  PROVE  Choose(x, s, t) \in Choices /\ DOMAIN x.chosen \subseteq AskedAgain
<1> DEFINE D == (DOMAIN x.chosen \cup {s}) \cap AskedAgain
           c == Choose(x, s, t)
<1>1. x.chosen \in Choices BY DEF AppStates
<1>2. PICK E \in SUBSET AskedAgain : x.chosen \in [E -> Settings] BY <1>1 DEF Choices
<1>3. DOMAIN x.chosen = E /\ \A k \in E : x.chosen[k] \in Settings BY <1>2
<1>4. c = [k \in D |-> IF k = s THEN t ELSE x.chosen[k]] BY DEF Choose
<1>5. \A k \in D : k = s \/ k \in E BY <1>3
<1>6. c \in [D -> Settings] /\ D \in SUBSET AskedAgain BY <1>3, <1>4, <1>5
<1>7. c \in Choices BY <1>6 DEF Choices
<1> QED BY <1>2, <1>3, <1>7

(* What is built, joined and closed: the registrar is there at most once. *)
LEMMA AddsFit ==
  ASSUME NEW s, NEW t
  PROVE  /\ Adds(s, t) \in Seq(PartNames)
         /\ s # "ai" => NoRegistrar(Adds(s, t))
         /\ s = "ai" /\ t # "off" => ~NoRegistrar(Adds(s, t))
         /\ OneRegistrar(Adds(s, t))
         /\ s = "cache" => Adds(s, t) # <<>>
<1> DEFINE Fits(q) == q \in Seq(PartNames) /\ OneRegistrar(q)
<1>1. /\ Fits(<<>>) /\ Fits(<<"ai">>) /\ Fits(<<"ai_registrar", "ai">>)
      /\ Fits(<<"ai_model_config_store", "ai_registrar", "ai">>)
  BY DEF PartNames, OneRegistrar
<1>2. /\ Fits(<<"cache">>) /\ Fits(<<"db">>) /\ Fits(<<"storage">>) /\ Fits(<<"mq">>)
      /\ Fits(<<"registry">>) /\ Fits(<<"mongo">>)
  BY DEF PartNames, OneRegistrar
<1>3. /\ NoRegistrar(<<>>) /\ NoRegistrar(<<"cache">>) /\ NoRegistrar(<<"db">>)
      /\ NoRegistrar(<<"storage">>) /\ NoRegistrar(<<"mq">>) /\ NoRegistrar(<<"registry">>)
      /\ NoRegistrar(<<"mongo">>)
  BY DEF NoRegistrar
<1> HIDE DEF Fits
<1>4. CASE s = "ai"
  <2>1. Adds(s, t) = AiParts(t) BY <1>4 DEF Adds
  <2>2. Fits(AiParts(t)) BY <1>1 DEF AiParts
  <2>3. t # "off" => ~NoRegistrar(AiParts(t))
    <3>1. /\ ~NoRegistrar(<<"ai_registrar", "ai">>)
          /\ ~NoRegistrar(<<"ai_model_config_store", "ai_registrar", "ai">>)
      <4> DEFINE q == <<"ai_registrar", "ai">>
                 v == <<"ai_model_config_store", "ai_registrar", "ai">>
      <4>1. 1 \in DOMAIN q /\ q[1] = "ai_registrar" /\ 2 \in DOMAIN v /\ v[2] = "ai_registrar"
        OBVIOUS
      <4> HIDE DEF q, v
      <4>2. ~NoRegistrar(q) /\ ~NoRegistrar(v) BY <4>1 DEF NoRegistrar
      <4> QED BY <4>2 DEF q, v
    <3> QED BY <3>1 DEF AiParts
  <2> QED BY <1>4, <2>1, <2>2, <2>3 DEF Fits
<1>5. CASE s = "mongo"
  <2>1. Adds(s, t) = <<>> \/ Adds(s, t) = <<"mongo">> BY <1>5 DEF Adds
  <2>2. s # "cache" /\ s # "ai" BY <1>5
  <2> QED BY <2>1, <2>2, <1>1, <1>2, <1>3 DEF Fits
<1>6. CASE s \in {"cache", "db", "storage", "mq", "registry"}
  <2>1. Adds(s, t) = <<s>> BY <1>6 DEF Adds
  <2> QED BY <2>1, <1>6, <1>2, <1>3 DEF Fits
<1>7. CASE s \notin {"ai", "mongo", "cache", "db", "storage", "mq", "registry"}
  <2>1. Adds(s, t) = <<>> BY <1>7 DEF Adds
  <2> QED BY <2>1, <1>7, <1>1, <1>3 DEF Fits
<1> QED BY <1>4, <1>5, <1>6, <1>7

LEMMA PartsJoined ==
  ASSUME NEW p \in Seq(PartNames), NEW q \in Seq(PartNames)
  PROVE  /\ p \o q \in Seq(PartNames)
         /\ p # <<>> \/ q # <<>> => p \o q # <<>>
         /\ NoRegistrar(p) /\ NoRegistrar(q) => NoRegistrar(p \o q)
         /\ NoRegistrar(p \o q) => NoRegistrar(p) /\ NoRegistrar(q)
         /\ NoRegistrar(p) /\ OneRegistrar(q) => OneRegistrar(p \o q)
         /\ OneRegistrar(p) /\ NoRegistrar(q) => OneRegistrar(p \o q)
<1> DEFINE r == p \o q
<1>1. /\ r \in Seq(PartNames) /\ Len(p) \in Nat /\ Len(q) \in Nat /\ Len(r) = Len(p) + Len(q)
      /\ DOMAIN p = 1..Len(p) /\ DOMAIN q = 1..Len(q) /\ DOMAIN r = 1..Len(r)
  BY ConcatProperties, LenProperties
<1>2. \A i \in DOMAIN r : r[i] = IF i <= Len(p) THEN p[i] ELSE q[i - Len(p)]
  BY <1>1, ConcatProperties
<1>3. p # <<>> \/ q # <<>> => r # <<>> BY <1>1, EmptySeq
<1> HIDE DEF r
<1>4. \A i \in DOMAIN r :
  \/ i \in DOMAIN p /\ r[i] = p[i]
  \/ i - Len(p) \in DOMAIN q /\ r[i] = q[i - Len(p)] /\ i > Len(p)
  BY <1>1, <1>2
<1>5. \A i \in DOMAIN r : i \in Int BY <1>1
<1>6. NoRegistrar(p) /\ NoRegistrar(q) => NoRegistrar(r) BY <1>4 DEF NoRegistrar
<1>7. NoRegistrar(p) /\ OneRegistrar(q) => OneRegistrar(r)
  <2> SUFFICES ASSUME NoRegistrar(p), OneRegistrar(q),
                      NEW i \in DOMAIN r, NEW j \in DOMAIN r,
                      r[i] = "ai_registrar", r[j] = "ai_registrar"
               PROVE  i = j
    BY DEF OneRegistrar
  <2>1. i - Len(p) \in DOMAIN q /\ q[i - Len(p)] = "ai_registrar" BY <1>4 DEF NoRegistrar
  <2>2. j - Len(p) \in DOMAIN q /\ q[j - Len(p)] = "ai_registrar" BY <1>4 DEF NoRegistrar
  <2>3. i - Len(p) = j - Len(p) BY <2>1, <2>2 DEF OneRegistrar
  <2> QED BY <2>3, <1>5, <1>1
<1>8. OneRegistrar(p) /\ NoRegistrar(q) => OneRegistrar(r) BY <1>4 DEF NoRegistrar, OneRegistrar
<1>9. NoRegistrar(r) => NoRegistrar(p) /\ NoRegistrar(q)
  <2>1. \A i \in DOMAIN p : i \in DOMAIN r /\ r[i] = p[i] BY <1>1, <1>2
  <2>2. \A i \in DOMAIN q : i + Len(p) \in DOMAIN r /\ r[i + Len(p)] = q[i] BY <1>1, <1>2
  <2> QED BY <2>1, <2>2 DEF NoRegistrar
<1> QED BY <1>1, <1>3, <1>6, <1>7, <1>8, <1>9 DEF r

LEMMA PartsLeft ==
  ASSUME NEW p \in Seq(PartNames), p # <<>>
  PROVE  /\ Tail(p) \in Seq(PartNames)
         /\ (Len(p) = 1) <=> (Tail(p) = <<>>)
         /\ ~NoRegistrar(p) /\ Head(p) # "ai_registrar" => ~NoRegistrar(Tail(p))
         /\ OneRegistrar(p) => OneRegistrar(Tail(p))
         /\ NoRegistrar(p) => NoRegistrar(Tail(p))
         /\ OneRegistrar(p) /\ Head(p) = "ai_registrar" => NoRegistrar(Tail(p))
<1> DEFINE r == Tail(p)
<1>0. Len(p) \in Nat /\ Len(p) # 0 /\ DOMAIN p = 1..Len(p) BY LenProperties, EmptySeq
<1>1. /\ r \in Seq(PartNames) /\ Len(r) = Len(p) - 1 /\ DOMAIN r = 1..Len(r)
      /\ \A i \in 1..Len(r) : r[i] = p[i + 1]
  <2>1. r \in Seq(PartNames) /\ Len(r) = Len(p) - 1 /\ \A i \in 1..Len(r) : r[i] = p[i + 1]
    BY HeadTailProperties
  <2> QED BY <2>1, LenProperties
<1> HIDE DEF r
<1>2. (Len(p) = 1) <=> (r = <<>>)
  <2>1. (Len(p) = 1) <=> (Len(r) = 0) BY <1>0, <1>1
  <2>2. (Len(r) = 0) <=> (r = <<>>) BY <1>1, EmptySeq
  <2> QED BY <2>1, <2>2
<1>3. \A i \in DOMAIN r : i + 1 \in DOMAIN p /\ r[i] = p[i + 1] /\ i + 1 # 1 /\ i \in Int
  BY <1>0, <1>1
<1>4. OneRegistrar(p) => OneRegistrar(r)
  <2> SUFFICES ASSUME OneRegistrar(p), NEW i \in DOMAIN r, NEW j \in DOMAIN r,
                      r[i] = "ai_registrar", r[j] = "ai_registrar"
               PROVE  i = j
    BY DEF OneRegistrar
  <2>1. i + 1 = j + 1 BY <1>3 DEF OneRegistrar
  <2> QED BY <2>1, <1>3
<1>5. NoRegistrar(p) => NoRegistrar(r) BY <1>3 DEF NoRegistrar
<1>6. OneRegistrar(p) /\ Head(p) = "ai_registrar" => NoRegistrar(r)
  <2>1. 1 \in DOMAIN p /\ Head(p) = p[1] BY <1>0
  <2> QED BY <2>1, <1>3 DEF NoRegistrar, OneRegistrar
<1>7. NoRegistrar(r) /\ Head(p) # "ai_registrar" => NoRegistrar(p)
  <2>1. Head(p) = p[1] BY <1>0
  <2>2. \A i \in DOMAIN p : i = 1 \/ (i - 1 \in DOMAIN r /\ r[i - 1] = p[i]) BY <1>0, <1>1
  <2> QED BY <2>1, <2>2 DEF NoRegistrar
<1> QED BY <1>1, <1>2, <1>4, <1>5, <1>6, <1>7 DEF r

LEMMA InitAssembly ==
  ASSUME AsmInit PROVE AsmInv
<1>1. [s \in {} |-> ""] \in Choices
  <2>1. [s \in {} |-> ""] \in [{} -> Settings] /\ {} \in SUBSET AskedAgain OBVIOUS
  <2> QED BY <2>1 DEF Choices
<1>2. NewApp \in AppStates
  <2>1. <<>> \in Seq(PartNames) /\ 1 \in 1..12 OBVIOUS
  <2> QED BY <1>1, <2>1 DEF NewApp, AppStates
<1>3. BuildFits(NewApp) BY DEF BuildFits, NewApp, NoRegistrar, OneRegistrar
<1>4. AsmTypes BY <1>2 DEF AsmInit, AsmTypes
<1>5. \A a \in Apps : BuildFits(app[a]) BY <1>3 DEF AsmInit
<1> QED BY <1>4, <1>5 DEF AsmInit, AsmInv, OpenedFit, ProvidersFit

(* A step of one application: what the invariant says of the others stays. *)
LEMMA OneMoves ==
  ASSUME AsmInv, NEW a \in Apps, NEW y \in AppStates, app' = [app EXCEPT ![a] = y],
         jwtRedis # NoApp => jwtRedis' # NoApp, BuildFits(y)',
         providers' \in [Models -> Apps \cup {NoApp}], opened' \subseteq Apps,
         jwtRedis' \in Apps \cup {NoApp},
         opened' \subseteq opened \cup {a}, a \in opened' => HasRegistrar(y)
  PROVE  AsmTypes' /\ (\A b \in Apps : BuildFits(app[b])') /\ OpenedFit'
<1>1. app \in [Apps -> AppStates] /\ \A b \in Apps : BuildFits(app[b]) BY DEF AsmInv, AsmTypes
<1>2. AsmTypes' BY <1>1 DEF AsmTypes
<1>3. ASSUME NEW b \in Apps PROVE BuildFits(app[b])'
  <2>1. CASE b = a
    <3>1. app'[b] = y BY <2>1, <1>1
    <3> QED BY <3>1 DEF BuildFits, Wired, CacheWired, AiWired, WebWired
  <2>2. CASE b # a
    <3>1. app'[b] = app[b] BY <2>2, <1>1
    <3> QED BY <3>1, <1>1 DEF BuildFits, Wired, CacheWired, AiWired, WebWired
  <2> QED BY <2>1, <2>2
<1>4. ASSUME NEW b \in opened' PROVE HasRegistrar(app'[b])
  <2>1. CASE b = a BY <2>1, <1>1, <1>4
  <2>2. CASE b # a
    <3>1. b \in Apps /\ app'[b] = app[b] BY <2>2, <1>1, <1>4
    <3> QED BY <2>2, <3>1, <1>4 DEF AsmInv, OpenedFit
  <2> QED BY <2>1, <2>2
<1>5. OpenedFit' BY <1>4 DEF OpenedFit, HasRegistrar
<1> QED BY <1>2, <1>3, <1>5

(* A registrar that was closed stays closed, or the same is registered. *)
LEMMA ProvidersStay ==
  ASSUME AsmInv, NEW a \in Apps, app' = [app EXCEPT ![a] = app'[a]],
         UNCHANGED <<providers, opened>>, RegistrarClosed(a) => RegistrarClosed(a)'
  PROVE  ProvidersFit'
<1>1. app \in [Apps -> AppStates] /\ providers \in [Models -> Apps \cup {NoApp}]
  BY DEF AsmInv, AsmTypes
<1>2. ASSUME NEW b \in Apps, RegistrarClosed(b) PROVE RegistrarClosed(b)'
  <2>1. CASE b = a BY <2>1, <1>2
  <2>2. CASE b # a
    <3>1. app'[b] = app[b] BY <2>2, <1>1
    <3> QED BY <3>1, <1>2 DEF RegistrarClosed
  <2> QED BY <2>1, <2>2
<1>3. SUFFICES ASSUME opened # {}, NEW m \in Models
               PROVE  /\ providers[m] # NoApp
                      /\ providers[m] \notin opened => RegistrarClosed(providers[m])'
  BY DEF ProvidersFit, RegistrarClosed
<1>4. /\ providers[m] # NoApp
      /\ providers[m] \notin opened => RegistrarClosed(providers[m])
  BY <1>3 DEF AsmInv, ProvidersFit
<1> QED BY <1>1, <1>2, <1>4

LEMMA ProvidersRegistered ==
  ASSUME AsmInv, NEW a \in Apps, RegisterConfigs(a)
  PROVE  /\ ProvidersFit'
         /\ providers' \in [Models -> Apps \cup {NoApp}] /\ opened' \subseteq Apps
<1>1. opened \subseteq Apps BY DEF AsmInv, AsmTypes
<1>2. providers' = [m \in Models |-> a] /\ opened' = opened \cup {a} BY DEF RegisterConfigs
<1>3. \A m \in Models : providers'[m] = a /\ a \in opened' BY <1>2
<1>4. ProvidersFit' BY <1>3, AssemblyAssumption DEF ProvidersFit
<1> QED BY <1>1, <1>2, <1>4

(* build begins. *)
LEMMA BeginFits ==
  ASSUME AsmInv, NEW a \in Apps, Begin(a) PROVE AsmInv'
<1>1. app \in [Apps -> AppStates] /\ app[a] \in AppStates /\ BuildFits(app[a])
  BY DEF AsmInv, AsmTypes
<1>2. /\ app[a].at = "new" /\ app' = [app EXCEPT ![a].at = "building"]
      /\ UNCHANGED <<providers, opened, jwtRedis>>
  BY DEF Begin
<1>3. PICK y \in AppStates :
  /\ app' = [app EXCEPT ![a] = y] /\ y.at = "building"
  /\ y.step = app[a].step /\ y.parts = app[a].parts
  <2> DEFINE z == [app[a] EXCEPT !.at = "building"]
  <2>1. z \in AppStates /\ z.at = "building" /\ z.step = app[a].step /\ z.parts = app[a].parts
    BY <1>1 DEF AppStates
  <2>2. app' = [app EXCEPT ![a] = z] BY <1>2
  <2> HIDE DEF z
  <2> QED BY <2>1, <2>2
<1>4. y.step = 1 /\ y.parts = <<>> BY <1>1, <1>2, <1>3 DEF BuildFits
<1>5. BuildFits(y)' BY <1>3, <1>4 DEF BuildFits, Wired, NoRegistrar, OneRegistrar
<1>10. a \in opened' => HasRegistrar(y) BY <1>2, <1>3 DEF AsmInv, OpenedFit, HasRegistrar
<1>6. AsmTypes' /\ (\A b \in Apps : BuildFits(app[b])') /\ OpenedFit'
  BY <1>2, <1>3, <1>5, <1>10, OneMoves DEF AsmInv, AsmTypes
<1>7. RegistrarClosed(a) => RegistrarClosed(a)' BY <1>2 DEF RegistrarClosed
<1>8. app' = [app EXCEPT ![a] = app'[a]] BY <1>1, <1>3
<1>9. ProvidersFit' BY <1>2, <1>7, <1>8, ProvidersStay
<1> QED BY <1>6, <1>9 DEF AsmInv

(* The lifespan begins. *)
LEMMA StartupFits ==
  ASSUME AsmInv, NEW a \in Apps, Startup(a) PROVE AsmInv'
<1>1. app \in [Apps -> AppStates] /\ app[a] \in AppStates /\ BuildFits(app[a])
  BY DEF AsmInv, AsmTypes
<1>2. /\ app[a].at = "built" /\ app' = [app EXCEPT ![a].at = "running"]
      /\ jwtRedis' = jwtRedis
      /\ \/ Chosen(a, "ai") \in {"db", "custom"} /\ RegisterConfigs(a)
         \/ UNCHANGED <<providers, opened>>
  BY DEF Startup
<1>3. PICK y \in AppStates :
  /\ app' = [app EXCEPT ![a] = y] /\ y.at = "running"
  /\ y.step = app[a].step /\ y.parts = app[a].parts
  /\ y.chosen = app[a].chosen
  <2> DEFINE z == [app[a] EXCEPT !.at = "running"]
  <2>1. /\ z \in AppStates /\ z.at = "running" /\ z.step = app[a].step
        /\ z.parts = app[a].parts /\ z.chosen = app[a].chosen
    BY <1>1 DEF AppStates
  <2>2. app' = [app EXCEPT ![a] = z] BY <1>2
  <2> HIDE DEF z
  <2> QED BY <2>1, <2>2
<1>4. /\ app[a].step = 12 /\ Wired(app[a]) /\ OneRegistrar(app[a].parts) BY <1>1, <1>2 DEF BuildFits
<1>5. BuildFits(y)'
  <2>1. Wired(y)' BY <1>2, <1>3, <1>4 DEF Wired, CacheWired, AiWired, WebWired
  <2> QED BY <2>1, <1>3, <1>4 DEF BuildFits
<1>6. providers' \in [Models -> Apps \cup {NoApp}] /\ opened' \subseteq Apps
  BY <1>2, ProvidersRegistered DEF AsmInv, AsmTypes
<1>9. (a \in opened' => HasRegistrar(y)) /\ opened' \subseteq opened \cup {a}
  <2>1. CASE Chosen(a, "ai") \in {"db", "custom"} /\ RegisterConfigs(a)
    <3>1. ~NoRegistrar(app[a].parts) BY <2>1, <1>2, <1>4 DEF Wired, AiWired, Chosen
    <3>2. opened' = opened \cup {a} BY <2>1 DEF RegisterConfigs
    <3> QED BY <3>1, <3>2, <1>3 DEF HasRegistrar
  <2>2. CASE UNCHANGED <<providers, opened>>
    <3>1. a \in opened' => HasRegistrar(app[a]) BY <2>2 DEF AsmInv, OpenedFit
    <3> QED BY <2>2, <3>1, <1>2, <1>3 DEF HasRegistrar
  <2> QED BY <1>2, <2>1, <2>2
<1>7. AsmTypes' /\ (\A b \in Apps : BuildFits(app[b])') /\ OpenedFit'
  BY <1>2, <1>3, <1>5, <1>6, <1>9, OneMoves DEF AsmInv, AsmTypes
<1>8. ProvidersFit'
  <2>1. CASE RegisterConfigs(a) BY <2>1, ProvidersRegistered
  <2>2. CASE UNCHANGED <<providers, opened>>
    <3>1. ~RegistrarClosed(a) BY <1>2 DEF RegistrarClosed
    <3>2. app' = [app EXCEPT ![a] = app'[a]] BY <1>1, <1>3
    <3> QED BY <2>2, <3>1, <3>2, ProvidersStay
  <2> QED BY <1>2, <2>1, <2>2
<1> QED BY <1>7, <1>8 DEF AsmInv

(* A component is closed. *)
LEMMA ShutdownFits ==
  ASSUME AsmInv, NEW a \in Apps, Shutdown(a) PROVE AsmInv'
<1> DEFINE p == app[a].parts
           now == IF Len(p) = 1 THEN "ended" ELSE "running"
<1>1. app \in [Apps -> AppStates] /\ app[a] \in AppStates /\ BuildFits(app[a])
  BY DEF AsmInv, AsmTypes
<1>2. /\ app[a].at = "running"
      /\ app' = [app EXCEPT ![a].at = now, ![a].parts = Tail(p)]
      /\ jwtRedis' = jwtRedis /\ providers' = providers
      /\ opened' = IF Head(p) = "ai_registrar" THEN opened \ {a} ELSE opened
  BY <1>1 DEF Shutdown, CloseComponent
<1>3. /\ app[a].step = 12 /\ Wired(app[a]) /\ OneRegistrar(p) /\ p \in Seq(PartNames)
      /\ p # <<>>
  BY <1>1, <1>2 DEF BuildFits, Wired, AppStates
<1> HIDE DEF p
<1>4. /\ Tail(p) \in Seq(PartNames) /\ OneRegistrar(Tail(p))
      /\ (Len(p) = 1) <=> (Tail(p) = <<>>)
      /\ ~NoRegistrar(p) /\ Head(p) # "ai_registrar" => ~NoRegistrar(Tail(p))
      /\ NoRegistrar(p) => NoRegistrar(Tail(p))
      /\ Head(p) = "ai_registrar" => NoRegistrar(Tail(p))
  BY <1>3, PartsLeft
<1>5. PICK y \in AppStates :
  /\ app' = [app EXCEPT ![a] = y] /\ y.at = now
  /\ y.step = app[a].step /\ y.parts = Tail(p)
  /\ y.chosen = app[a].chosen
  <2> DEFINE w == [app[a] EXCEPT !.at = now]
             z == [w EXCEPT !.parts = Tail(p)]
  <2>1. now \in {"running", "ended"} OBVIOUS
  <2> HIDE DEF now
  <2>2. w \in AppStates /\ w.at = now /\ w.step = app[a].step /\ w.chosen = app[a].chosen
    BY <1>1, <2>1 DEF AppStates
  <2>4. z = [app[a] EXCEPT !.at = now, !.parts = Tail(p)] BY <1>1 DEF AppStates
  <2> HIDE DEF w
  <2>5. /\ z \in AppStates /\ z.at = w.at /\ z.step = w.step
        /\ z.parts = Tail(p) /\ z.chosen = w.chosen
    BY <1>4, <2>2 DEF AppStates
  <2>3. app' = [app EXCEPT ![a] = z] BY <1>2, <2>4
  <2> HIDE DEF z
  <2> QED BY <2>2, <2>3, <2>5
<1>6. BuildFits(y)'
  <2>1. now = "running" => Wired(y)'
    BY <1>2, <1>3, <1>4, <1>5 DEF Wired, CacheWired, AiWired, WebWired
  <2>2. now \in {"running", "ended"} OBVIOUS
  <2> HIDE DEF now
  <2>3. y.step = 12 /\ OneRegistrar(y.parts) BY <1>3, <1>4, <1>5
  <2>4. y.at = "ended" => y.parts = <<>> BY <1>4, <1>5 DEF now
  <2> QED BY <2>1, <2>2, <2>3, <2>4, <1>5 DEF BuildFits
<1>12. (a \in opened' => HasRegistrar(y)) /\ opened' \subseteq opened \cup {a}
  <2>1. ASSUME a \in opened' PROVE HasRegistrar(y)
    <3>1. Head(p) # "ai_registrar" /\ a \in opened BY <2>1, <1>2
    <3>2. ~NoRegistrar(p)
      <4>1. HasRegistrar(app[a]) BY <3>1 DEF AsmInv, OpenedFit
      <4> QED BY <4>1, <1>2 DEF HasRegistrar, p
    <3> QED BY <3>1, <3>2, <1>4, <1>5 DEF HasRegistrar
  <2> QED BY <2>1, <1>2
<1>7. AsmTypes' /\ (\A b \in Apps : BuildFits(app[b])') /\ OpenedFit'
  <2>1. opened' \subseteq Apps BY <1>2 DEF AsmInv, AsmTypes
  <2> QED BY <2>1, <1>2, <1>5, <1>6, <1>12, OneMoves DEF AsmInv, AsmTypes
<1>8. app'[a] = y /\ app' = [app EXCEPT ![a] = app'[a]] BY <1>1, <1>5
<1>9. NoRegistrar(Tail(p)) => RegistrarClosed(a)' BY <1>5, <1>8 DEF RegistrarClosed, NoRegistrar
<1>10. RegistrarClosed(a) => RegistrarClosed(a)'
  <2>1. RegistrarClosed(a) => NoRegistrar(p) BY DEF RegistrarClosed, NoRegistrar, p
  <2> QED BY <2>1, <1>4, <1>9
<1>11. ProvidersFit'
  <2>1. CASE opened' = opened BY <2>1, <1>2, <1>8, <1>10, ProvidersStay
  <2>2. CASE Head(p) = "ai_registrar"
    <3>1. RegistrarClosed(a)' /\ opened' = opened \ {a} BY <2>2, <1>2, <1>4, <1>9
    <3>2. ASSUME NEW b \in Apps, RegistrarClosed(b) PROVE RegistrarClosed(b)'
      <4>1. CASE b = a BY <4>1, <3>1
      <4>2. CASE b # a
        <5>1. app'[b] = app[b] BY <4>2, <1>1, <1>5
        <5> QED BY <5>1, <3>2 DEF RegistrarClosed
      <4> QED BY <4>1, <4>2
    <3>3. SUFFICES ASSUME opened' # {}, NEW m \in Models
                   PROVE  /\ providers'[m] # NoApp
                          /\ providers'[m] \notin opened' => RegistrarClosed(providers[m])'
      BY DEF ProvidersFit
    <3>4. /\ providers[m] # NoApp /\ providers'[m] = providers[m]
          /\ providers[m] \notin opened => RegistrarClosed(providers[m])
          /\ providers[m] \in Apps
      BY <3>1, <3>3, <1>2 DEF AsmInv, AsmTypes, ProvidersFit
    <3>5. PICK b \in Apps : b = providers[m] /\ b = providers'[m] BY <3>4
    <3>6. b \notin opened' => RegistrarClosed(b)' BY <3>1, <3>2, <3>4, <3>5
    <3>7. RegistrarClosed(b)' => RegistrarClosed(providers[m])' BY <3>5 DEF RegistrarClosed
    <3> QED BY <3>4, <3>5, <3>6, <3>7
  <2> QED BY <2>1, <2>2, <1>2
<1> QED BY <1>7, <1>11 DEF AsmInv

(* A step of build that finds what it wants. *)
LEMMA BuildStepWires ==
  ASSUME AsmInv, NEW a \in Apps, NEW t \in Settings, BuildStep(a, t),
         Satisfied(a, At(app[a].step), t)
  PROVE  AsmInv'
<1> DEFINE x == app[a]
           s == At(x.step)
           now == IF At(x.step + 1) = "built" THEN "built" ELSE "building"
           c == Choose(x, s, t)
           p == x.parts \o Adds(s, t)
<1>1. app \in [Apps -> AppStates] /\ x \in AppStates /\ BuildFits(x) BY DEF AsmInv, AsmTypes
<1>2. /\ x.at = "building"
      /\ app' = [app EXCEPT ![a] = [at |-> now, step |-> x.step + 1, chosen |-> c, parts |-> p]]
      /\ jwtRedis' = IF s = "cache" /\ t = "redis" THEN a ELSE jwtRedis
      /\ \/ s = "ai" /\ t = "yml" /\ RegisterConfigs(a)
         \/ UNCHANGED <<providers, opened>>
  BY DEF BuildStep, CacheMade
<1>3. /\ x.step \in 1..11 /\ Wired(x) /\ OneRegistrar(x.parts) /\ x.parts \in Seq(PartNames)
      /\ x.step < 8 => NoRegistrar(x.parts)
  BY <1>1, <1>2 DEF BuildFits, AppStates
<1>4. /\ x.step + 1 \in 1..12 /\ now \in {"building", "built"}
      /\ (now = "built") <=> (x.step + 1 = 12)
  BY <1>3, StepsAt
<1>5. /\ (s = "cache") <=> (x.step = 2)
      /\ (s = "db") <=> (x.step = 3)
      /\ (s = "ai") <=> (x.step = 7)
      /\ (s = "web") <=> (x.step = 9)
  BY <1>3, StepsAt
<1>6. /\ c \in Choices
      /\ \A k \in DOMAIN x.chosen : k \in DOMAIN c /\ (k # s => c[k] = x.chosen[k])
      /\ s \in AskedAgain => s \in DOMAIN c /\ c[s] = t
  <2>1. x \in AppStates /\ t \in Settings /\ c = Choose(x, s, t) BY <1>1
  <2> HIDE DEF x, s, c
  <2>2. c \in Choices /\ DOMAIN x.chosen \subseteq AskedAgain BY <2>1, ChooseFits
  <2>3. c = [k \in (DOMAIN x.chosen \cup {s}) \cap AskedAgain |-> IF k = s THEN t ELSE x.chosen[k]]
    BY <2>1 DEF Choose
  <2>4. \A k \in DOMAIN x.chosen : k \in DOMAIN c /\ (k # s => c[k] = x.chosen[k]) BY <2>2, <2>3
  <2>5. s \in AskedAgain => s \in DOMAIN c /\ c[s] = t BY <2>3
  <2> QED BY <2>2, <2>4, <2>5
<1>7. /\ p \in Seq(PartNames) /\ OneRegistrar(p)
      /\ x.parts # <<>> \/ s = "cache" => p # <<>>
      /\ x.step < 7 => NoRegistrar(p)
      /\ NoRegistrar(p) => NoRegistrar(x.parts) /\ (s = "ai" => t = "off")
  <2> DEFINE q == Adds(s, t)
  <2>1. /\ q \in Seq(PartNames) /\ OneRegistrar(q)
        /\ s # "ai" => NoRegistrar(q)
        /\ s = "ai" /\ t # "off" => ~NoRegistrar(q)
        /\ s = "cache" => q # <<>>
    BY AddsFit
  <2> HIDE DEF q, s, x
  <2>2. /\ p \in Seq(PartNames)
        /\ x.parts # <<>> \/ q # <<>> => p # <<>>
        /\ NoRegistrar(x.parts) /\ NoRegistrar(q) => NoRegistrar(p)
        /\ NoRegistrar(p) => NoRegistrar(x.parts) /\ NoRegistrar(q)
        /\ NoRegistrar(x.parts) /\ OneRegistrar(q) => OneRegistrar(p)
        /\ OneRegistrar(x.parts) /\ NoRegistrar(q) => OneRegistrar(p)
    BY <1>3, <2>1, PartsJoined DEF q
  <2>3. x.step < 8 \/ s # "ai" BY <1>3, <1>5
  <2>4. x.step < 7 => s # "ai" /\ x.step < 8 BY <1>3, <1>5
  <2> QED BY <1>3, <2>1, <2>2, <2>3, <2>4
<1>8. s = "web" => (t = "redis" => x.chosen["cache"] = "redis")
  BY DEF Satisfied, IdempotencyFound, Chosen
<1> HIDE DEF now, c, p
<1>9. PICK y \in AppStates :
  /\ app' = [app EXCEPT ![a] = y] /\ y.at = now
  /\ y.step = x.step + 1 /\ y.parts = p /\ y.chosen = c
  <2> DEFINE z == [at |-> now, step |-> x.step + 1, chosen |-> c, parts |-> p]
  <2>1. z \in AppStates /\ z.at = now /\ z.step = x.step + 1 /\ z.parts = p /\ z.chosen = c
    BY <1>4, <1>6, <1>7 DEF AppStates
  <2>2. app' = [app EXCEPT ![a] = z] BY <1>2
  <2> HIDE DEF z
  <2> QED BY <2>1, <2>2
<1>10. jwtRedis # NoApp => jwtRedis' # NoApp BY <1>2, AssemblyAssumption
<1>11. jwtRedis' \in Apps \cup {NoApp} BY <1>2 DEF AsmInv, AsmTypes
<1>12. s = "cache" /\ t = "redis" => jwtRedis' # NoApp BY <1>2, AssemblyAssumption
<1>13. Wired(y)'
  <2> HIDE DEF s, x
  <2>1. y.step > 2 => CacheWired(y)' /\ y.parts # <<>>
    <3>1. CASE x.step > 2
      <4>1. CacheWired(x) /\ x.parts # <<>> /\ s # "cache" BY <3>1, <1>3, <1>5 DEF Wired
      <4>2. "cache" \in DOMAIN c /\ c["cache"] = x.chosen["cache"] BY <4>1, <1>6 DEF CacheWired
      <4> QED BY <4>1, <4>2, <1>7, <1>9, <1>10 DEF CacheWired
    <3>2. CASE x.step = 2
      <4>1. s = "cache" /\ s \in AskedAgain BY <3>2, <1>5 DEF AskedAgain
      <4>2. "cache" \in DOMAIN c /\ c["cache"] = t BY <4>1, <1>6
      <4> QED BY <4>1, <4>2, <1>7, <1>9, <1>12 DEF CacheWired
    <3> QED BY <3>1, <3>2, <1>3, <1>9
  <2>3. y.step > 7 => AiWired(y)
    <3>0. y.at # "running" /\ x.at # "running" BY <1>2, <1>4, <1>9
    <3>1. CASE x.step > 7
      <4>1. AiWired(x) /\ s # "ai" BY <3>1, <1>3, <1>5 DEF Wired
      <4>2. "ai" \in DOMAIN c /\ c["ai"] = x.chosen["ai"] BY <4>1, <1>6 DEF AiWired
      <4> QED BY <3>0, <4>1, <4>2, <1>7, <1>9 DEF AiWired
    <3>2. CASE x.step = 7
      <4>1. s = "ai" /\ s \in AskedAgain BY <3>2, <1>5 DEF AskedAgain
      <4>2. "ai" \in DOMAIN c /\ c["ai"] = t BY <4>1, <1>6
      <4> QED BY <4>1, <4>2, <1>7, <1>9 DEF AiWired
    <3> QED BY <3>1, <3>2, <1>3, <1>9
  <2>4. y.step > 9 => WebWired(y)
    <3>1. CASE x.step > 9
      <4>1. WebWired(x) /\ CacheWired(x) /\ s # "web" /\ s # "cache" BY <3>1, <1>3, <1>5 DEF Wired
      <4>2. /\ "web" \in DOMAIN c /\ c["web"] = x.chosen["web"]
            /\ c["cache"] = x.chosen["cache"]
        BY <4>1, <1>6 DEF WebWired, CacheWired
      <4> QED BY <4>1, <4>2, <1>9 DEF WebWired
    <3>2. CASE x.step = 9
      <4>1. s = "web" /\ s \in AskedAgain /\ "cache" # s /\ CacheWired(x)
        BY <3>2, <1>3, <1>5 DEF AskedAgain, Wired
      <4>2. "web" \in DOMAIN c /\ c["web"] = t /\ c["cache"] = x.chosen["cache"]
        BY <4>1, <1>6 DEF CacheWired
      <4> QED BY <4>1, <4>2, <1>8, <1>9 DEF WebWired
    <3> QED BY <3>1, <3>2, <1>3, <1>9
  <2>6. AiWired(y)' <=> AiWired(y) BY DEF AiWired, NoRegistrar
  <2>7. WebWired(y)' <=> WebWired(y) BY DEF WebWired
  <2> QED BY <2>1, <2>3, <2>4, <2>6, <2>7 DEF Wired
<1>14. BuildFits(y)'
  <2>1. y.at = "building" => y.step < 12 BY <1>4, <1>9
  <2>2. y.at = "built" => y.step = 12 BY <1>4, <1>9
  <2>3. y.at \in {"building", "built"} BY <1>4, <1>9
  <2>4. y.step < 8 => NoRegistrar(y.parts) BY <1>3, <1>7, <1>9
  <2>5. OneRegistrar(y.parts) BY <1>7, <1>9
  <2> QED BY <2>1, <2>2, <2>3, <2>4, <2>5, <1>13 DEF BuildFits
<1>15. providers' \in [Models -> Apps \cup {NoApp}] /\ opened' \subseteq Apps
  BY <1>2, ProvidersRegistered DEF AsmInv, AsmTypes
<1>18. (a \in opened' => HasRegistrar(y)) /\ opened' \subseteq opened \cup {a}
  <2>1. CASE s = "ai" /\ t = "yml" /\ RegisterConfigs(a)
    <3>1. ~NoRegistrar(p) BY <2>1, <1>7
    <3>2. opened' = opened \cup {a} BY <2>1 DEF RegisterConfigs
    <3> QED BY <3>1, <3>2, <1>9 DEF HasRegistrar
  <2>2. CASE UNCHANGED <<providers, opened>>
    <3>1. a \in opened' => HasRegistrar(x) BY <2>2 DEF AsmInv, OpenedFit
    <3> HIDE DEF x
    <3> QED BY <2>2, <3>1, <1>2, <1>7, <1>9 DEF HasRegistrar
  <2> QED BY <1>2, <2>1, <2>2
<1>16. AsmTypes' /\ (\A b \in Apps : BuildFits(app[b])') /\ OpenedFit'
  BY <1>9, <1>10, <1>11, <1>14, <1>15, <1>18, OneMoves
<1>17. ProvidersFit'
  <2>1. CASE RegisterConfigs(a) BY <2>1, ProvidersRegistered
  <2>2. CASE UNCHANGED <<providers, opened>>
    <3>1. ~RegistrarClosed(a) BY <1>2 DEF RegistrarClosed
    <3>2. app' = [app EXCEPT ![a] = app'[a]] BY <1>1, <1>9
    <3> QED BY <2>2, <3>1, <3>2, ProvidersStay
  <2> QED BY <1>2, <2>1, <2>2
<1> QED BY <1>16, <1>17 DEF AsmInv

(* A step of build that ends in ConfigError. *)
LEMMA BuildStepFails ==
  ASSUME AsmInv, NEW a \in Apps, NEW t \in Settings, BuildStep(a, t),
         ~Satisfied(a, At(app[a].step), t)
  PROVE  AsmInv'
<1> DEFINE c == Choose(app[a], At(app[a].step), t)
<1>1. app \in [Apps -> AppStates] /\ app[a] \in AppStates /\ c \in Choices
  BY ChooseFits DEF AsmInv, AsmTypes
<1>2. /\ app[a].at = "building"
      /\ app' = [app EXCEPT ![a].at = "failed", ![a].parts = <<>>, ![a].chosen = c]
      /\ UNCHANGED <<providers, opened, jwtRedis>>
  BY DEF BuildStep
<1> HIDE DEF c
<1>3. PICK y \in AppStates :
  /\ app' = [app EXCEPT ![a] = y] /\ y.at = "failed"
  /\ y.parts = <<>>
  <2> DEFINE v == [app[a] EXCEPT !.at = "failed"]
             w == [v EXCEPT !.parts = <<>>]
             z == [w EXCEPT !.chosen = c]
  <2>1. v \in AppStates /\ v.at = "failed" BY <1>1 DEF AppStates
  <2>2. app' = [app EXCEPT ![a] = z] BY <1>1, <1>2 DEF AppStates
  <2> HIDE DEF v
  <2>3. w \in AppStates /\ w.at = v.at /\ w.parts = <<>>
    <3>1. <<>> \in Seq(PartNames) OBVIOUS
    <3> QED BY <3>1, <2>1 DEF AppStates
  <2> HIDE DEF w
  <2>4. z \in AppStates /\ z.at = w.at /\ z.parts = w.parts BY <1>1, <2>3 DEF AppStates
  <2> HIDE DEF z
  <2> QED BY <2>1, <2>2, <2>3, <2>4
<1>4. BuildFits(y)' BY <1>3 DEF BuildFits, NoRegistrar, OneRegistrar
<1>7. HasRegistrar(y) BY <1>3 DEF HasRegistrar
<1>5. AsmTypes' /\ (\A b \in Apps : BuildFits(app[b])') /\ OpenedFit'
  BY <1>2, <1>3, <1>4, <1>7, OneMoves DEF AsmInv, AsmTypes
<1>6. ProvidersFit'
  <2>1. ~RegistrarClosed(a) BY <1>2 DEF RegistrarClosed
  <2>2. app' = [app EXCEPT ![a] = app'[a]] BY <1>1, <1>3
  <2> QED BY <1>2, <2>1, <2>2, ProvidersStay
<1> QED BY <1>5, <1>6 DEF AsmInv

LEMMA AsmInductive == AsmInv /\ [AsmNext]_asmVars => AsmInv'
<1> SUFFICES ASSUME AsmInv, [AsmNext]_asmVars PROVE AsmInv' OBVIOUS
<1>1. CASE UNCHANGED asmVars
  BY <1>1 DEF asmVars, AsmInv, AsmTypes, BuildFits, Wired, CacheWired, AiWired, WebWired,
              OpenedFit, HasRegistrar, ProvidersFit, RegistrarClosed
<1>2. ASSUME NEW a \in Apps, NEW t \in Settings, BuildStep(a, t) PROVE AsmInv'
  BY <1>2, BuildStepWires, BuildStepFails
<1> QED BY <1>1, <1>2, BeginFits, StartupFits, ShutdownFits DEF AsmNext, Settings

(* What the applications of one process leave in the state they share: one
   that has ended has closed the providers it opened; while a registrar is
   open every model is registered by an application whose registrar is
   open, or was closed by its own shutdown; JWTUtil knows a Redis when a
   cache is one, and idempotency keys in Redis have a Redis cache. *)
THEOREM AssemblyHolds == AsmSpec => []WiredAsDeclared
<1>1. AsmInv => WiredAsDeclared
  <2> SUFFICES ASSUME AsmInv, NEW a \in Apps
               PROVE
                 /\ app[a].at = "ended" => a \notin opened
                 /\ a \in opened =>
                      \A m \in Models :
                        /\ providers[m] # NoApp
                        /\ providers[m] \notin opened => RegistrarClosed(providers[m])
                 /\ app[a].at \in {"built", "running"} =>
                      /\ Chosen(a, "web") = "redis" => Chosen(a, "cache") = "redis"
                      /\ Chosen(a, "cache") = "redis" => jwtRedis # NoApp
    BY DEF WiredAsDeclared
  <2>1. ASSUME app[a].at \in {"built", "running"} PROVE CacheWired(app[a]) /\ WebWired(app[a])
    <3>1. app[a].step = 12 /\ Wired(app[a]) BY <2>1 DEF AsmInv, BuildFits
    <3> QED BY <3>1 DEF Wired
  <2>2. a \in opened => \A m \in Models :
                          /\ providers[m] # NoApp
                          /\ providers[m] \notin opened => RegistrarClosed(providers[m])
    BY DEF AsmInv, ProvidersFit
  <2>3. ASSUME app[a].at = "ended", a \in opened PROVE FALSE
    <3>1. HasRegistrar(app[a]) /\ app[a].parts = <<>> BY <2>3 DEF AsmInv, OpenedFit, BuildFits
    <3> QED BY <2>3, <3>1 DEF HasRegistrar, NoRegistrar
  <2> QED BY <2>1, <2>2, <2>3 DEF CacheWired, WebWired, Chosen
<1> QED BY <1>1, InitAssembly, AsmInductive, PTL DEF AsmSpec
=============================================================================
