--------------------------- MODULE ServingProofs ---------------------------
(***************************************************************************)
(* Theorems about ServiceCall and ModelGateway, for any number of calls,   *)
(* requests, models, retries and permits.                                  *)
(***************************************************************************)
EXTENDS ServiceCall, ModelGateway, FiniteSetTheorems, SequenceTheorems, TLAPS

----------------------------------------
(* The inductive invariant of ServiceCall. *)

Calls == [at : {"idle", "attempt", "sent", "backoff"}, attempt : 0..(SvcTries - 1), probe : BOOLEAN]

(* Calls that hold a permit of the half-open breaker. *)
Probes == {c \in SvcCalls : Running(c) /\ call[c].probe}
GuardedProbes == {g \in GuardedCalls : Guarding(g) /\ guard[g].probe}

(* Only a half-open breaker has probes out, and it has one at least. *)
PermitsCounted ==
  /\ breaker # "HALF_OPEN" => Probes = {} /\ GuardedProbes = {}
  /\ breaker = "HALF_OPEN" =>
       /\ IsFiniteSet(Probes) /\ IsFiniteSet(GuardedProbes)
       /\ inflight = Cardinality(Probes) + Cardinality(GuardedProbes)
       /\ inflight \in 1..Permitted

Places == {"idle", "trying", "sleeping", "recording", "done"}
Tellings == {"none", "open", "value", "error", "interrupted", "fallback", "type error"}
Guards == [at : Places, probe : BOOLEAN, tries : Nat, last : FunctionEnds \cup {"none"},
           told : Tellings, noted : Nat]

(* Where a guarded call has come to, and what it has behind it. *)
GuardTold(x) ==
  /\ x.noted = (IF x.tries = 0 THEN 0 ELSE 1)
  /\ x.told = "value" <=> x.last = "ok"
  /\ x.last = "transient" => x.tries = GuardRetries + 1
  /\ x.told = "open" => fallback = "none" /\ x.tries = 0
  /\ x.told = "type error" => sync /\ fallback = "awaitable"
GuardAlong(x) ==
  /\ x.tries <= GuardRetries + 1
  /\ x.at = "trying" => x.tries <= GuardRetries /\ x.last \in {"none", "transient"}
  /\ x.at = "sleeping" => x.tries > 0 /\ x.tries <= GuardRetries /\ x.last = "transient"
  /\ x.at = "recording" =>
       /\ x.tries > 0 /\ x.last # "none"
       /\ x.last = "transient" => x.tries = GuardRetries + 1
  /\ x.at = "done" => GuardTold(x)
  /\ x.at # "done" => x.noted = 0
GuardShape ==
  /\ guard \in [GuardedCalls -> Guards] /\ sync \in BOOLEAN
  /\ fallback \in {"none", "value", "awaitable"}
  /\ \A g \in GuardedCalls : GuardAlong(guard[g])

(* Who waits for its backoff has an attempt left. *)
AttemptLeft ==
  \A c \in SvcCalls : call[c].at = "backoff" => call[c].attempt + 1 < SvcTries

CallsIInv == ServiceTypeOK /\ AttemptLeft /\ PermitsCounted /\ GuardShape

(* A breaker is that of a FeignClient or one its caller guards with: the
   calls of one kind use it, those of the other have never begun. *)
OfClient == guard = [g \in GuardedCalls |-> Unguarded]
OfGuard == call = [c \in SvcCalls |-> Rest]
callsVars == <<serviceVars, guardedVars>>
ClientNext == ServiceNext /\ UNCHANGED guardedVars
ClientSpec == ServiceInit /\ GuardedInit /\ [][ClientNext]_callsVars
GuardedSpec == ServiceInit /\ GuardedInit /\ [][GuardedNext]_callsVars

----------------------------------------
(* The breaker. *)

(* The window keeps the latest results only. *)
LEMMA WindowKept ==
  ASSUME NEW s \in Seq(Results), Len(s) <= WindowSize, NEW x \in Results
  PROVE  Latest(Append(s, x)) \in Seq(Results) /\ Len(Latest(Append(s, x))) <= WindowSize
<1>1. /\ Append(s, x) \in Seq(Results) /\ Len(Append(s, x)) = Len(s) + 1
      /\ Len(s) \in Nat
  BY AppendProperties, LenProperties
<1>2. CASE Len(Append(s, x)) > WindowSize
  <2>1. Append(s, x) # <<>> BY <1>1, LenProperties
  <2>2. Tail(Append(s, x)) \in Seq(Results) /\ Len(Tail(Append(s, x))) = Len(s)
    BY <1>1, <2>1, HeadTailProperties
  <2> QED BY <1>2, <2>2 DEF Latest
<1>3. CASE ~(Len(Append(s, x)) > WindowSize) BY <1>1, <1>3, ServiceAssumption DEF Latest
<1> QED BY <1>2, <1>3

BreakerShape ==
  /\ breaker \in {"CLOSED", "OPEN", "HALF_OPEN"}
  /\ recent \in Seq(Results) /\ Len(recent) <= WindowSize
  /\ inflight \in 0..Permitted /\ rested \in BOOLEAN

(* A result decides a half-open breaker. *)
LEMMA RecordBreaker ==
  ASSUME BreakerShape, NEW ok \in BOOLEAN, NEW slow \in BOOLEAN, Record(ok, slow)
  PROVE  BreakerShape' /\ breaker' # "HALF_OPEN"
<1> DEFINE results1 == Latest(Append(recent, [ok |-> ok, slow |-> slow]))
<1>1. results1 \in Seq(Results) /\ Len(results1) <= WindowSize
  <2>1. [ok |-> ok, slow |-> slow] \in Results BY DEF Results
  <2> QED BY <2>1, WindowKept DEF BreakerShape
<1>2. recent' = IF breaker = "HALF_OPEN" /\ ok THEN <<>> ELSE results1 BY DEF Record
<1> HIDE DEF results1
<1>3. recent' \in Seq(Results) /\ Len(recent') <= WindowSize BY <1>1, <1>2, ServiceAssumption
<1>4. breaker' \in {"CLOSED", "OPEN"} /\ inflight' \in 0..Permitted
  BY ServiceAssumption DEF Record, BreakerShape
<1>5. rested' \in BOOLEAN BY DEF Record
<1> QED BY <1>3, <1>4, <1>5 DEF BreakerShape

(* Whoever is let through an open breaker makes it half open. *)
LEMMA LetThrough ==
  ASSUME BreakerShape, CanExecute
  PROVE  /\ BreakerShape'
         /\ breaker = "CLOSED" => breaker' = "CLOSED" /\ inflight' = inflight
         /\ breaker = "OPEN" => breaker' = "HALF_OPEN" /\ inflight' = 1
         /\ breaker = "HALF_OPEN" =>
            /\ breaker' = "HALF_OPEN" /\ inflight' = inflight + 1
            /\ inflight' \in 1..Permitted
BY ServiceAssumption DEF CanExecute, BreakerShape, FullOfProbes, Opened

----------------------------------------
(* Calls of the client. *)

LEMMA RestTyped == Rest \in Calls /\ Rest.at = "idle" /\ ~Rest.probe
BY ServiceAssumption DEF Rest, Calls

LEMMA UnguardedTyped ==
  /\ Unguarded \in Guards /\ GuardAlong(Unguarded) /\ Unguarded.at = "idle"
  /\ Unguarded.probe = FALSE /\ Unguarded.tries = 0 /\ Unguarded.last = "none"
  /\ Unguarded.told = "none" /\ Unguarded.noted = 0
<1>1. /\ Unguarded \in Guards /\ Unguarded.at = "idle"
      /\ Unguarded.probe = FALSE /\ Unguarded.tries = 0 /\ Unguarded.last = "none"
      /\ Unguarded.told = "none" /\ Unguarded.noted = 0
  BY DEF Unguarded, Guards, Places, Tellings
<1> QED BY <1>1, ServiceAssumption DEF GuardAlong

LEMMA NoGuardedProbes ==
  ASSUME OfClient PROVE GuardedProbes = {}
BY UnguardedTyped DEF OfClient, GuardedProbes, Guarding

LEMMA NoProbes ==
  ASSUME OfGuard PROVE Probes = {}
BY RestTyped DEF OfGuard, Probes, Running

LEMMA TypeParts ==
  ServiceTypeOK <=>
    /\ call \in [SvcCalls -> Calls]
    /\ bucket \in [Instances -> {"fresh", "stale", "absent"}]
    /\ BreakerShape
BY DEF ServiceTypeOK, BreakerShape, Calls

(* The other kind of calls is left as it was. *)
LEMMA ClientKeeps ==
  ASSUME CallsIInv, UNCHANGED guardedVars PROVE GuardShape'
BY DEF CallsIInv, GuardShape, GuardAlong, GuardTold, guardedVars

(* The permits when nothing of the breaker changes. *)
LEMMA PermitsKept ==
  ASSUME PermitsCounted, UNCHANGED <<breaker, inflight>>,
         Probes' = Probes, GuardedProbes' = GuardedProbes
  PROVE  PermitsCounted'
BY DEF PermitsCounted

(* A call ends with a result: no probe is out then. *)
LEMMA EndsWithIInv ==
  ASSUME CallsIInv, OfClient, NEW c \in SvcCalls, NEW ok \in BOOLEAN, EndsWith(c, ok),
         UNCHANGED guardedVars, bucket' \in [Instances -> {"fresh", "stale", "absent"}]
  PROVE  CallsIInv' /\ OfClient'
<1>1. /\ call \in [SvcCalls -> Calls] /\ BreakerShape /\ PermitsCounted BY TypeParts DEF CallsIInv
<1>2. BreakerShape' /\ breaker' # "HALF_OPEN" BY <1>1, RecordBreaker DEF EndsWith
<1>3. \A x \in SvcCalls :
  /\ call[x] \in Calls
  /\ [call[x] EXCEPT !.probe = FALSE] \in Calls
  /\ ~[call[x] EXCEPT !.probe = FALSE].probe
  /\ [call[x] EXCEPT !.probe = FALSE].at = call[x].at
  /\ [call[x] EXCEPT !.probe = FALSE].attempt = call[x].attempt
  BY <1>1 DEF Calls
<1>4. call' \in [SvcCalls -> Calls] BY <1>3, RestTyped DEF EndsWith, Ends
<1>5. Probes' = {}
  <2>1. CASE breaker = "HALF_OPEN"
    <3>1. \A x \in SvcCalls : ~call'[x].probe BY <1>3, <2>1, RestTyped DEF EndsWith, Ends
    <3> QED BY <3>1 DEF Probes
  <2>2. CASE breaker # "HALF_OPEN"
    <3>1. \A x \in SvcCalls : x \notin Probes BY <1>1, <2>2 DEF PermitsCounted
    <3>2. \A x \in SvcCalls : call'[x] = call[x] \/ call'[x] = Rest BY <2>2 DEF EndsWith, Ends
    <3> QED BY <3>1, <3>2, RestTyped DEF Probes, Running
  <2> QED BY <2>1, <2>2
<1>6. OfClient' BY DEF OfClient, guardedVars
<1>7. GuardedProbes' = {} BY <1>6, UnguardedTyped DEF OfClient, GuardedProbes, Guarding
<1>8. PermitsCounted' BY <1>2, <1>5, <1>7 DEF PermitsCounted
<1>9. ServiceTypeOK' BY <1>2, <1>4 DEF ServiceTypeOK, BreakerShape, Calls
<1>10. AttemptLeft'
  <2>1. \A x \in SvcCalls :
          \/ call'[x].at = "idle"
          \/ call'[x].at = call[x].at /\ call'[x].attempt = call[x].attempt
    <3> TAKE x \in SvcCalls
    <3>1. CASE x = c
      <4>1. call'[x] = Rest BY <3>1 DEF EndsWith, Ends
      <4> QED BY <4>1, RestTyped
    <3>2. CASE x # c /\ breaker = "HALF_OPEN"
      <4>1. call'[x] = [call[x] EXCEPT !.probe = FALSE] BY <3>2 DEF EndsWith, Ends
      <4> QED BY <1>3, <4>1
    <3>3. CASE x # c /\ breaker # "HALF_OPEN" BY <3>3 DEF EndsWith, Ends
    <3> QED BY <3>1, <3>2, <3>3
  <2> QED BY <2>1 DEF CallsIInv, AttemptLeft
<1> QED BY <1>6, <1>8, <1>9, <1>10, ClientKeeps DEF CallsIInv

(* A call goes on and has its permit still. *)
LEMMA GoesOnIInv ==
  ASSUME CallsIInv, OfClient, NEW c \in SvcCalls, NEW e \in Calls,
         Running(c), e.at # "idle", e.probe = call[c].probe,
         e.at = "backoff" => e.attempt + 1 < SvcTries,
         call' = [call EXCEPT ![c] = e], UNCHANGED <<breakerVars, guardedVars>>,
         bucket' \in [Instances -> {"fresh", "stale", "absent"}]
  PROVE  CallsIInv' /\ OfClient'
<1>1. /\ call \in [SvcCalls -> Calls] /\ BreakerShape /\ PermitsCounted BY TypeParts DEF CallsIInv
<1>2. Probes' = Probes BY <1>1 DEF Probes, Running
<1>3. OfClient' /\ GuardedProbes' = GuardedProbes
  BY DEF OfClient, guardedVars, GuardedProbes, Guarding
<1>4. PermitsCounted' BY <1>1, <1>2, <1>3, PermitsKept DEF breakerVars
<1>5. ServiceTypeOK' BY <1>1 DEF ServiceTypeOK, BreakerShape, Calls, breakerVars
<1>6. AttemptLeft' BY <1>1 DEF CallsIInv, AttemptLeft
<1> QED BY <1>3, <1>4, <1>5, <1>6, ClientKeeps DEF CallsIInv

LEMMA StartCallIInv ==
  ASSUME CallsIInv, OfClient, NEW c \in SvcCalls, StartCall(c), UNCHANGED guardedVars
  PROVE  CallsIInv' /\ OfClient'
<1> DEFINE e == [at |-> "attempt", attempt |-> 0, probe |-> breaker # "CLOSED"]
<1>1. /\ call \in [SvcCalls -> Calls] /\ BreakerShape /\ PermitsCounted
      /\ ~Running(c) /\ CanExecute /\ call' = [call EXCEPT ![c] = e] /\ bucket' = bucket
  BY TypeParts DEF CallsIInv, StartCall
<1>2. e \in Calls /\ e.at = "attempt" /\ (e.probe <=> breaker # "CLOSED")
  <2>1. 0 \in 0..(SvcTries - 1) BY ServiceAssumption
  <2> QED BY <2>1 DEF Calls
<1> HIDE DEF e
<1>3. /\ BreakerShape'
      /\ breaker = "CLOSED" => breaker' = "CLOSED" /\ inflight' = inflight
      /\ breaker = "OPEN" => breaker' = "HALF_OPEN" /\ inflight' = 1
      /\ breaker = "HALF_OPEN" =>
         /\ breaker' = "HALF_OPEN" /\ inflight' = inflight + 1
         /\ inflight' \in 1..Permitted
  BY <1>1, LetThrough
<1>4. Probes' = IF breaker = "CLOSED" THEN Probes ELSE Probes \cup {c}
  BY <1>1, <1>2 DEF Probes, Running
<1>5. c \notin Probes BY <1>1 DEF Probes
<1>6. OfClient' /\ GuardedProbes' = {} /\ GuardedProbes = {}
  BY UnguardedTyped DEF OfClient, guardedVars, GuardedProbes, Guarding
<1>7. PermitsCounted'
  <2>1. CASE breaker = "CLOSED" BY <1>1, <1>3, <1>4, <1>6, <2>1 DEF PermitsCounted
  <2>2. CASE breaker = "OPEN"
    <3>1. Probes' = {c} BY <1>1, <1>4, <2>2 DEF PermitsCounted
    <3>2. IsFiniteSet(Probes') /\ Cardinality(Probes') = 1 BY <3>1, FS_Singleton
    <3> QED BY <1>3, <1>6, <2>2, <3>2, FS_EmptySet, ServiceAssumption DEF PermitsCounted
  <2>3. CASE breaker = "HALF_OPEN"
    <3>1. IsFiniteSet(Probes') /\ Cardinality(Probes') = Cardinality(Probes) + 1
      BY <1>1, <1>4, <1>5, <2>3, FS_AddElement DEF PermitsCounted
    <3>2. Cardinality(Probes) \in Nat /\ inflight = Cardinality(Probes)
      BY <1>1, <1>6, <2>3, FS_EmptySet, FS_CardinalityType DEF PermitsCounted
    <3> QED BY <1>3, <1>6, <2>3, <3>1, <3>2, FS_EmptySet DEF PermitsCounted
  <2> QED BY <1>1, <2>1, <2>2, <2>3 DEF BreakerShape
<1>8. ServiceTypeOK'
  <2>1. bucket \in [Instances -> {"fresh", "stale", "absent"}] BY TypeParts DEF CallsIInv
  <2> QED BY <1>1, <1>2, <1>3, <2>1 DEF ServiceTypeOK, BreakerShape, Calls
<1>9. AttemptLeft' BY <1>1, <1>2 DEF CallsIInv, AttemptLeft
<1> QED BY <1>6, <1>7, <1>8, <1>9, ClientKeeps DEF CallsIInv

LEMMA CallStepIInv ==
  ASSUME CallsIInv, OfClient, NEW c \in SvcCalls, UNCHANGED guardedVars,
         \/ Discover(c) \/ Responds(c) \/ RetriesCall(c) \/ CancelCall(c)
         \/ \E error \in {"timeout", "connect", "other"} : Fails(c, error)
  PROVE  CallsIInv' /\ OfClient'
<1>1. /\ call \in [SvcCalls -> Calls] /\ call[c] \in Calls
      /\ bucket \in [Instances -> {"fresh", "stale", "absent"}]
  BY TypeParts DEF CallsIInv
<1>2. ASSUME NEW place \in {"sent", "backoff"}
      PROVE  [call[c] EXCEPT !.at = place] \in Calls
             /\ [call[c] EXCEPT !.at = place].at = place
             /\ [call[c] EXCEPT !.at = place].probe = call[c].probe
             /\ [call[c] EXCEPT !.at = place].attempt = call[c].attempt
  BY <1>1 DEF Calls
<1>3. CASE Discover(c)
  <2>1. Running(c) /\ bucket' \in [Instances -> {"fresh", "stale", "absent"}]
    BY <1>3 DEF Discover, Running
  <2>2. CASE Healthy = {} BY <1>3, <2>1, <2>2, EndsWithIInv DEF Discover
  <2>3. CASE Healthy # {}
    <3>1. call' = [call EXCEPT ![c] = [call[c] EXCEPT !.at = "sent"]] /\ UNCHANGED breakerVars
      BY <1>3, <2>3 DEF Discover
    <3> QED BY <1>2, <2>1, <3>1, GoesOnIInv
  <2> QED BY <2>2, <2>3
<1>4. CASE Responds(c) BY <1>1, <1>4, EndsWithIInv DEF Responds
<1>5. CASE CancelCall(c) BY <1>1, <1>5, EndsWithIInv DEF CancelCall, CancelledExit
<1>6. ASSUME NEW error \in {"timeout", "connect", "other"}, Fails(c, error)
      PROVE  CallsIInv' /\ OfClient'
  <2>1. Running(c) /\ bucket' = bucket BY <1>6 DEF Fails, Running
  <2>2. CASE IsRetriable(error) /\ call[c].attempt + 1 < SvcTries
    <3>1. call' = [call EXCEPT ![c] = [call[c] EXCEPT !.at = "backoff"]] /\ UNCHANGED breakerVars
      BY <1>6, <2>2 DEF Fails
    <3> DEFINE e == [call[c] EXCEPT !.at = "backoff"]
    <3>2. /\ e \in Calls /\ e.at = "backoff" /\ e.probe = call[c].probe
          /\ e.attempt + 1 < SvcTries
      BY <1>2, <2>2
    <3>3. call' = [call EXCEPT ![c] = e] BY <3>1
    <3> HIDE DEF e
    <3> QED BY <1>1, <2>1, <3>1, <3>2, <3>3, GoesOnIInv
  <2>3. CASE ~(IsRetriable(error) /\ call[c].attempt + 1 < SvcTries)
    BY <1>1, <1>6, <2>1, <2>3, EndsWithIInv DEF Fails
  <2> QED BY <2>2, <2>3
<1>7. CASE RetriesCall(c)
  <2> DEFINE a == [call[c] EXCEPT !.at = "attempt"]
             b == [a EXCEPT !.attempt = call[c].attempt + 1]
  <2>1. call[c].at = "backoff" /\ call' = [call EXCEPT ![c] = b]
        /\ UNCHANGED <<bucket, breakerVars>>
    BY <1>1, <1>7 DEF RetriesCall
  <2>2. call[c].attempt + 1 \in 0..(SvcTries - 1)
    BY <1>1, <2>1, ServiceAssumption DEF CallsIInv, AttemptLeft, Calls
  <2>3. a \in Calls /\ a.at = "attempt" /\ a.probe = call[c].probe BY <1>1 DEF Calls
  <2> HIDE DEF a
  <2>4. b \in Calls /\ b.at = "attempt" /\ b.probe = call[c].probe BY <2>2, <2>3 DEF Calls
  <2> HIDE DEF b
  <2> QED BY <1>1, <2>1, <2>4, GoesOnIInv DEF Running
<1> QED BY <1>3, <1>4, <1>5, <1>6, <1>7

LEMMA ClientInductive == CallsIInv /\ OfClient /\ [ClientNext]_callsVars => CallsIInv' /\ OfClient'
<1> SUFFICES ASSUME CallsIInv, OfClient, [ClientNext]_callsVars PROVE CallsIInv' /\ OfClient'
  OBVIOUS
<1>0. /\ call \in [SvcCalls -> Calls] /\ BreakerShape /\ PermitsCounted
      /\ bucket \in [Instances -> {"fresh", "stale", "absent"}]
  BY TypeParts DEF CallsIInv
<1>1. ASSUME UNCHANGED <<call, breaker, recent, inflight, guardedVars>>, rested' \in BOOLEAN,
             bucket' \in [Instances -> {"fresh", "stale", "absent"}]
      PROVE  CallsIInv' /\ OfClient'
  <2>1. PermitsCounted'
    BY <1>0, <1>1, PermitsKept DEF Probes, Running, GuardedProbes, Guarding, guardedVars
  <2>2. ServiceTypeOK' BY <1>0, <1>1 DEF ServiceTypeOK, BreakerShape, Calls
  <2>3. OfClient' /\ AttemptLeft' BY <1>1 DEF OfClient, CallsIInv, AttemptLeft, guardedVars
  <2> QED BY <1>1, <2>1, <2>2, <2>3, ClientKeeps DEF CallsIInv
<1>2. CASE UNCHANGED callsVars
  BY <1>0, <1>1, <1>2 DEF callsVars, serviceVars, breakerVars, BreakerShape
<1>3. CASE Rests /\ UNCHANGED guardedVars BY <1>0, <1>1, <1>3 DEF Rests
<1>4. ASSUME NEW i \in Instances, RegisterInstance(i) \/ Deregister(i) \/ GoesStale(i),
             UNCHANGED guardedVars
      PROVE  CallsIInv' /\ OfClient'
  BY <1>0, <1>1, <1>4
  DEF RegisterInstance, Deregister, GoesStale, breakerVars, BreakerShape
<1>5. CASE \E c \in SvcCalls : StartCall(c) /\ UNCHANGED guardedVars BY <1>5, StartCallIInv
<1> QED BY <1>2, <1>3, <1>4, <1>5, CallStepIInv DEF ClientNext, ServiceNext

----------------------------------------
(* Guarded calls. *)

(* A guarded call goes on; nobody becomes a probe by it, or stops to be. *)
LEMMA GuardMoves ==
  ASSUME CallsIInv, OfGuard, NEW g \in GuardedCalls, NEW e \in Guards, GuardAlong(e),
         guard' = [guard EXCEPT ![g] = e],
         (e.at \in {"trying", "sleeping", "recording"} /\ e.probe) <=>
           (Guarding(g) /\ guard[g].probe),
         UNCHANGED <<serviceVars, fallback, sync>>
  PROVE  CallsIInv' /\ OfGuard'
<1>1. guard \in [GuardedCalls -> Guards] /\ PermitsCounted BY DEF CallsIInv, GuardShape
<1>2. guard'[g] = e /\ \A h \in GuardedCalls : h # g => guard'[h] = guard[h] BY <1>1
<1>3. GuardedProbes' = GuardedProbes BY <1>2 DEF GuardedProbes, Guarding
<1>4. OfGuard' /\ Probes' = Probes BY DEF OfGuard, serviceVars, Probes, Running
<1>5. PermitsCounted' BY <1>1, <1>3, <1>4, PermitsKept DEF serviceVars, breakerVars
<1>6. GuardShape'
  <2>1. guard' \in [GuardedCalls -> Guards] BY <1>1
  <2>2. \A h \in GuardedCalls : GuardAlong(guard[h])' = GuardAlong(guard'[h])
    BY DEF GuardAlong, GuardTold
  <2>3. \A h \in GuardedCalls : GuardAlong(guard'[h]) BY <1>2 DEF CallsIInv, GuardShape
  <2> QED BY <2>1, <2>2, <2>3 DEF CallsIInv, GuardShape
<1>7. ServiceTypeOK' /\ AttemptLeft'
  BY DEF CallsIInv, ServiceTypeOK, AttemptLeft, serviceVars, breakerVars
<1> QED BY <1>4, <1>5, <1>6, <1>7 DEF CallsIInv

LEMMA GuardParts ==
  ASSUME CallsIInv, NEW g \in GuardedCalls PROVE guard[g] \in Guards /\ GuardAlong(guard[g])
BY DEF CallsIInv, GuardShape

(* A record changed in one of its fields. *)
LEMMA AtSet ==
  ASSUME NEW x \in Guards, NEW v \in Places
  PROVE  LET e == [x EXCEPT !.at = v]
         IN  /\ e \in Guards /\ e.at = v
             /\ e.probe = x.probe /\ e.tries = x.tries
             /\ e.last = x.last /\ e.told = x.told /\ e.noted = x.noted
BY DEF Guards, Places, Tellings

LEMMA ProbeSet ==
  ASSUME NEW x \in Guards, NEW v \in BOOLEAN
  PROVE  LET e == [x EXCEPT !.probe = v]
         IN  /\ e \in Guards /\ e.probe = v
             /\ e.at = x.at /\ e.tries = x.tries
             /\ e.last = x.last /\ e.told = x.told /\ e.noted = x.noted
BY DEF Guards, Places, Tellings

LEMMA TriesSet ==
  ASSUME NEW x \in Guards, NEW v \in Nat
  PROVE  LET e == [x EXCEPT !.tries = v]
         IN  /\ e \in Guards /\ e.tries = v
             /\ e.at = x.at /\ e.probe = x.probe
             /\ e.last = x.last /\ e.told = x.told /\ e.noted = x.noted
BY DEF Guards, Places, Tellings

LEMMA LastSet ==
  ASSUME NEW x \in Guards, NEW v \in FunctionEnds \cup {"none"}
  PROVE  LET e == [x EXCEPT !.last = v]
         IN  /\ e \in Guards /\ e.last = v
             /\ e.at = x.at /\ e.probe = x.probe
             /\ e.tries = x.tries /\ e.told = x.told /\ e.noted = x.noted
BY DEF Guards, Places, Tellings

LEMMA ToldSet ==
  ASSUME NEW x \in Guards, NEW v \in Tellings
  PROVE  LET e == [x EXCEPT !.told = v]
         IN  /\ e \in Guards /\ e.told = v
             /\ e.at = x.at /\ e.probe = x.probe
             /\ e.tries = x.tries /\ e.last = x.last /\ e.noted = x.noted
BY DEF Guards, Places, Tellings

LEMMA NotedSet ==
  ASSUME NEW x \in Guards, NEW v \in Nat
  PROVE  LET e == [x EXCEPT !.noted = v]
         IN  /\ e \in Guards /\ e.noted = v
             /\ e.at = x.at /\ e.probe = x.probe
             /\ e.tries = x.tries /\ e.last = x.last /\ e.told = x.told
BY DEF Guards, Places, Tellings

LEMMA StartsGuardedIInv ==
  ASSUME CallsIInv, OfGuard, NEW g \in GuardedCalls, StartsGuarded(g), UNCHANGED <<call, bucket>>
  PROVE  CallsIInv' /\ OfGuard'
<1> DEFINE a == [Unguarded EXCEPT !.at = "trying"]
           e == [a EXCEPT !.probe = breaker # "CLOSED"]
<1>1. /\ guard \in [GuardedCalls -> Guards] /\ PermitsCounted /\ BreakerShape
      /\ guard[g].at = "idle" /\ CanExecute
      /\ guard' = [guard EXCEPT ![g] = e] /\ UNCHANGED <<fallback, sync>>
  BY TypeParts DEF CallsIInv, GuardShape, StartsGuarded
<1>2. /\ a \in Guards /\ a.at = "trying" /\ a.tries = 0 /\ a.last = "none" /\ a.noted = 0
  BY UnguardedTyped, AtSet DEF Places
<1> HIDE DEF a
<1>3. /\ e \in Guards /\ e.probe = (breaker # "CLOSED") /\ e.at = "trying" /\ e.tries = 0
      /\ e.last = "none" /\ e.noted = 0
  BY <1>2, ProbeSet
<1> HIDE DEF e
<1>4. e \in Guards /\ e.at = "trying" /\ (e.probe <=> breaker # "CLOSED") /\ GuardAlong(e)
  <2>1. GuardAlong(e) BY <1>3, ServiceAssumption DEF GuardAlong
  <2> QED BY <1>3, <2>1
<1>5. /\ BreakerShape'
      /\ breaker = "CLOSED" => breaker' = "CLOSED" /\ inflight' = inflight
      /\ breaker = "OPEN" => breaker' = "HALF_OPEN" /\ inflight' = 1
      /\ breaker = "HALF_OPEN" =>
         /\ breaker' = "HALF_OPEN" /\ inflight' = inflight + 1
         /\ inflight' \in 1..Permitted
  BY <1>1, LetThrough
<1>6. GuardedProbes' = IF breaker = "CLOSED" THEN GuardedProbes ELSE GuardedProbes \cup {g}
  BY <1>1, <1>4 DEF GuardedProbes, Guarding
<1>7. g \notin GuardedProbes BY <1>1 DEF GuardedProbes, Guarding
<1>8. OfGuard' /\ Probes' = {} /\ Probes = {} BY RestTyped DEF OfGuard, Probes, Running
<1>9. PermitsCounted'
  <2>1. CASE breaker = "CLOSED" BY <1>1, <1>5, <1>6, <1>8, <2>1 DEF PermitsCounted
  <2>2. CASE breaker = "OPEN"
    <3>1. GuardedProbes' = {g} BY <1>1, <1>6, <2>2 DEF PermitsCounted
    <3>2. IsFiniteSet(GuardedProbes') /\ Cardinality(GuardedProbes') = 1 BY <3>1, FS_Singleton
    <3> QED BY <1>5, <1>8, <2>2, <3>2, FS_EmptySet, ServiceAssumption DEF PermitsCounted
  <2>3. CASE breaker = "HALF_OPEN"
    <3>1. /\ IsFiniteSet(GuardedProbes')
          /\ Cardinality(GuardedProbes') = Cardinality(GuardedProbes) + 1
      BY <1>1, <1>6, <1>7, <2>3, FS_AddElement DEF PermitsCounted
    <3>2. Cardinality(GuardedProbes) \in Nat /\ inflight = Cardinality(GuardedProbes)
      BY <1>1, <1>8, <2>3, FS_EmptySet, FS_CardinalityType DEF PermitsCounted
    <3> QED BY <1>5, <1>8, <2>3, <3>1, <3>2, FS_EmptySet DEF PermitsCounted
  <2> QED BY <1>1, <2>1, <2>2, <2>3 DEF BreakerShape
<1>10. ServiceTypeOK' /\ AttemptLeft'
  BY <1>5 DEF CallsIInv, ServiceTypeOK, BreakerShape, AttemptLeft
<1>11. GuardShape'
  <2>1. guard' \in [GuardedCalls -> Guards] BY <1>1, <1>4
  <2>2. \A h \in GuardedCalls : guard'[h] = (IF h = g THEN e ELSE guard[h]) BY <1>1
  <2>3. \A h \in GuardedCalls : GuardAlong(guard'[h]) BY <1>4, <2>2 DEF CallsIInv, GuardShape
  <2>4. \A h \in GuardedCalls : GuardAlong(guard[h])' = GuardAlong(guard'[h])
    BY <1>1 DEF GuardAlong, GuardTold
  <2> QED BY <1>1, <2>1, <2>3, <2>4 DEF CallsIInv, GuardShape
<1> QED BY <1>8, <1>9, <1>10, <1>11 DEF CallsIInv

LEMMA RefusedGuardedIInv ==
  ASSUME CallsIInv, OfGuard, NEW g \in GuardedCalls, RefusedGuarded(g), UNCHANGED <<call, bucket>>
  PROVE  CallsIInv' /\ OfGuard'
<1> DEFINE a == [Unguarded EXCEPT !.at = "done"]
           e == [a EXCEPT !.told = FallsBack]
<1>1. /\ guard[g].at = "idle" /\ guard' = [guard EXCEPT ![g] = e]
      /\ UNCHANGED <<serviceVars, fallback, sync>>
  BY DEF RefusedGuarded, serviceVars
<1>2. /\ a \in Guards /\ a.at = "done" /\ a.tries = 0 /\ a.last = "none" /\ a.noted = 0
      /\ ~a.probe
  BY UnguardedTyped, AtSet DEF Places
<1>4. /\ FallsBack \in {"open", "fallback", "type error"}
      /\ FallsBack = "open" => fallback = "none"
      /\ FallsBack = "type error" => sync /\ fallback = "awaitable"
  BY DEF CallsIInv, GuardShape, FallsBack, RunFallback, RunFallbackAsync
<1> HIDE DEF a
<1>3. /\ e \in Guards /\ e.at = "done" /\ e.tries = 0 /\ e.last = "none" /\ e.noted = 0
      /\ e.told = FallsBack
  <2>1. FallsBack \in Tellings BY <1>4 DEF Tellings
  <2> QED BY <1>2, <2>1, ToldSet
<1> HIDE DEF e
<1>5. e \in Guards /\ e.at = "done" /\ GuardAlong(e)
  <2>1. GuardTold(e) BY <1>3, <1>4 DEF GuardTold
  <2>2. e.tries <= GuardRetries + 1 BY <1>3, ServiceAssumption
  <2> QED BY <1>3, <2>1, <2>2 DEF GuardAlong
<1>6. ~Guarding(g) BY <1>1 DEF Guarding
<1> QED BY <1>1, <1>5, <1>6, GuardMoves

LEMMA RetriedIInv ==
  ASSUME CallsIInv, OfGuard, NEW g \in GuardedCalls, NEW end \in FunctionEnds, Retried(g, end),
         UNCHANGED <<call, bucket>>
  PROVE  CallsIInv' /\ OfGuard'
<1> DEFINE x == guard[g]
           place == IF IsTransient(end) /\ x.tries < GuardRetries THEN "sleeping" ELSE "recording"
           a == [x EXCEPT !.tries = x.tries + 1]
           b == [a EXCEPT !.last = end]
           e == [b EXCEPT !.at = place]
<1>1. /\ guard[g].at = "trying" /\ guard' = [guard EXCEPT ![g] = e]
      /\ UNCHANGED <<serviceVars, fallback, sync>>
  BY DEF Retried, serviceVars, CallsIInv, GuardShape
<1>2. x \in Guards /\ x.at = "trying" /\ GuardAlong(x) BY <1>1, GuardParts
<1>3. /\ place \in {"sleeping", "recording"}
      /\ place = "sleeping" => end = "transient" /\ x.tries < GuardRetries
      /\ place = "recording" => (end = "transient" => ~(x.tries < GuardRetries))
  BY DEF IsTransient
<1> HIDE DEF x, place
<1>4. x.tries \in Nat /\ x.tries + 1 \in Nat /\ x.tries <= GuardRetries /\ x.noted = 0
  BY <1>2 DEF Guards, GuardAlong
<1>5. a \in Guards /\ a.tries = x.tries + 1 /\ a.noted = 0 /\ a.probe = x.probe
  BY <1>2, <1>4, TriesSet
<1> HIDE DEF a
<1>9. b \in Guards /\ b.last = end /\ b.tries = x.tries + 1 /\ b.noted = 0 /\ b.probe = x.probe
  BY <1>5, LastSet
<1> HIDE DEF b
<1>6. /\ e \in Guards /\ e.at = place /\ e.probe = x.probe /\ e.tries = x.tries + 1
      /\ e.last = end /\ e.noted = 0
  <2>1. place \in Places BY <1>3 DEF Places
  <2> QED BY <1>9, <2>1, AtSet
<1> HIDE DEF e
<1>7. GuardAlong(e) BY <1>3, <1>4, <1>6, ServiceAssumption DEF GuardAlong, FunctionEnds
<1>8. Guarding(g) /\ guard[g].probe = x.probe BY <1>1 DEF Guarding, x
<1> QED BY <1>1, <1>3, <1>6, <1>7, <1>8, GuardMoves

LEMMA PauseEndsIInv ==
  ASSUME CallsIInv, OfGuard, NEW g \in GuardedCalls, PauseEnds(g), UNCHANGED <<call, bucket>>
  PROVE  CallsIInv' /\ OfGuard'
<1> DEFINE x == guard[g]
<1>1. /\ x.at = "sleeping" /\ UNCHANGED <<serviceVars, fallback, sync>>
      /\ x \in Guards /\ GuardAlong(x) /\ guard \in [GuardedCalls -> Guards]
  BY GuardParts DEF PauseEnds, serviceVars, CallsIInv, GuardShape
<1>2. x.tries > 0 /\ x.tries <= GuardRetries /\ x.last = "transient" /\ x.noted = 0
      /\ x.tries \in Nat
  BY <1>1 DEF GuardAlong, Guards
<1>3. CASE guard' = [guard EXCEPT ![g].at = "trying"]
  <2> DEFINE e == [x EXCEPT !.at = "trying"]
  <2>1. guard' = [guard EXCEPT ![g] = e] BY <1>3
  <2> HIDE DEF x
  <2>2. /\ e \in Guards /\ e.at = "trying" /\ e.tries = x.tries /\ e.last = x.last
        /\ e.noted = x.noted /\ e.probe = x.probe
    <3>1. "trying" \in Places BY DEF Places
    <3> QED BY <1>1, <3>1, AtSet
  <2> HIDE DEF e
  <2>3. GuardAlong(e) BY <1>2, <2>2, ServiceAssumption DEF GuardAlong
  <2>4. Guarding(g) /\ guard[g].probe = x.probe BY <1>1 DEF Guarding, x
  <2> QED BY <1>1, <2>1, <2>2, <2>3, <2>4, GuardMoves
<1>4. CASE guard' = [guard EXCEPT ![g].at = "recording", ![g].last = "interrupted"]
  <2> DEFINE a == [x EXCEPT !.at = "recording"]
             e == [a EXCEPT !.last = "interrupted"]
  <2>1. guard' = [guard EXCEPT ![g] = e] BY <1>1, <1>4
  <2> HIDE DEF x
  <2>2. /\ a \in Guards /\ a.at = "recording" /\ a.tries = x.tries
        /\ a.noted = x.noted /\ a.probe = x.probe
    <3>1. "recording" \in Places BY DEF Places
    <3> QED BY <1>1, <3>1, AtSet
  <2> HIDE DEF a
  <2>3. /\ e \in Guards /\ e.at = "recording" /\ e.tries = x.tries /\ e.last = "interrupted"
        /\ e.noted = x.noted /\ e.probe = x.probe
    <3>1. "interrupted" \in FunctionEnds \cup {"none"} BY DEF FunctionEnds
    <3> QED BY <2>2, <3>1, LastSet
  <2> HIDE DEF e
  <2>4. GuardAlong(e) BY <1>2, <2>3, ServiceAssumption DEF GuardAlong
  <2>5. Guarding(g) /\ guard[g].probe = x.probe BY <1>1 DEF Guarding, x
  <2> QED BY <1>1, <2>1, <2>3, <2>4, <2>5, GuardMoves
<1> QED BY <1>3, <1>4 DEF PauseEnds

LEMMA CallsGuardedAgainIInv ==
  ASSUME CallsIInv, OfGuard, NEW g \in GuardedCalls, CallsGuardedAgain(g),
         UNCHANGED <<call, bucket>>
  PROVE  CallsIInv' /\ OfGuard'
<1>1. /\ guard' = [guard EXCEPT ![g] = Unguarded] /\ ~Guarding(g)
      /\ UNCHANGED <<serviceVars, fallback, sync>>
  BY DEF CallsGuardedAgain, serviceVars, Guarding
<1> QED BY <1>1, UnguardedTyped, GuardMoves

(* The result of a guarded call is recorded: no probe is out then. *)
LEMMA EndsGuardedIInv ==
  ASSUME CallsIInv, OfGuard, NEW g \in GuardedCalls, EndsGuarded(g), UNCHANGED <<call, bucket>>
  PROVE  CallsIInv' /\ OfGuard'
<1> DEFINE x == guard[g]
           outcome == CASE x.last = "ok" -> "value"
                        [] x.last = "interrupted" -> "interrupted"
                        [] OTHER -> IF fallback = "none" THEN "error" ELSE FallsBack
           a == [x EXCEPT !.at = "done"]
           b == [a EXCEPT !.probe = FALSE]
           d == [b EXCEPT !.told = outcome]
           e == [d EXCEPT !.noted = x.noted + 1]
           rests == [guard EXCEPT ![g] = e]
<1>1. /\ x.at = "recording" /\ x \in Guards /\ GuardAlong(x)
      /\ guard \in [GuardedCalls -> Guards] /\ BreakerShape /\ PermitsCounted
      /\ UNCHANGED <<fallback, sync>>
      /\ \A h \in GuardedCalls : GuardAlong(guard[h])
      /\ fallback \in {"none", "value", "awaitable"} /\ sync \in BOOLEAN
  BY GuardParts, TypeParts DEF EndsGuarded, CallsIInv, GuardShape
<1>3. BreakerShape' /\ breaker' # "HALF_OPEN"
  <2>1. PICK slow \in BOOLEAN : Record(x.last = "ok", slow) BY DEF EndsGuarded
  <2> DEFINE ok == x.last = "ok"
  <2>2. ok \in BOOLEAN /\ Record(ok, slow) BY <2>1
  <2> HIDE DEF ok
  <2> QED BY <1>1, <2>2, RecordBreaker
<1>4. /\ outcome \in Tellings /\ outcome # "open"
      /\ outcome = "value" <=> x.last = "ok"
      /\ outcome = "type error" => sync /\ fallback = "awaitable"
  <2>1. CASE x.last = "ok"
    <3>1. outcome = "value" BY <2>1
    <3> QED BY <2>1, <3>1 DEF Tellings
  <2>3. CASE x.last = "interrupted" BY <2>3 DEF Tellings
  <2>4. CASE x.last \notin {"ok", "interrupted"} /\ fallback = "none" BY <2>4 DEF Tellings
  <2>2. CASE x.last \notin {"ok", "interrupted"} /\ fallback # "none"
    <3>1. outcome = FallsBack BY <2>2
    <3>2. FallsBack \in {"fallback", "type error"}
          /\ (FallsBack = "type error" => sync /\ fallback = "awaitable")
      BY <1>1, <2>2 DEF FallsBack, RunFallback, RunFallbackAsync
    <3> QED BY <2>2, <3>1, <3>2 DEF Tellings
  <2> QED BY <2>1, <2>2, <2>3, <2>4
<1>2. guard' = IF breaker = "HALF_OPEN"
               THEN [h \in GuardedCalls |-> [rests[h] EXCEPT !.probe = FALSE]] ELSE rests
  <2> DEFINE r == [guard EXCEPT ![g].at = "done", ![g].probe = FALSE, ![g].told = outcome,
                                ![g].noted = @ + 1]
  <2>1. guard' = IF breaker = "HALF_OPEN"
                 THEN [h \in GuardedCalls |-> [r[h] EXCEPT !.probe = FALSE]] ELSE r
    BY DEF EndsGuarded
  <2> HIDE DEF outcome
  <2>2. r = rests
    <3> DEFINE r1 == [guard EXCEPT ![g].at = "done"]
               r2 == [r1 EXCEPT ![g].probe = FALSE]
               r3 == [r2 EXCEPT ![g].told = outcome]
               r4 == [r3 EXCEPT ![g].noted = @ + 1]
    <3>1. r = r4 OBVIOUS
    <3> HIDE DEF r
    <3>2. r1 = [guard EXCEPT ![g] = a] OBVIOUS
    <3>3. a.noted = x.noted /\ a \in Guards
      <4>1. "done" \in Places BY DEF Places
      <4> HIDE DEF x
      <4> QED BY <1>1, <4>1, AtSet
    <3> HIDE DEF r1, a
    <3>4. r2 = [guard EXCEPT ![g] = b] BY <1>1, <3>2
    <3>5. b.noted = x.noted /\ b \in Guards BY <3>3, ProbeSet
    <3> HIDE DEF r2, b
    <3>6. r3 = [guard EXCEPT ![g] = d] BY <1>1, <3>4
    <3>7. d.noted = x.noted BY <1>4, <3>5, ToldSet
    <3> HIDE DEF r3, d
    <3>8. r3[g] = d /\ r4 = [r3 EXCEPT ![g] = [d EXCEPT !.noted = x.noted + 1]] BY <1>1, <3>6, <3>7
    <3> HIDE DEF r4
    <3> QED BY <1>1, <3>1, <3>6, <3>8
  <2> HIDE DEF r, rests
  <2> QED BY <2>1, <2>2
<1> HIDE DEF outcome, x
<1>5. /\ x.tries \in Nat /\ x.tries > 0 /\ x.tries <= GuardRetries + 1 /\ x.last # "none"
      /\ x.last = "transient" => x.tries = GuardRetries + 1
      /\ x.noted = 0 /\ x.noted + 1 \in Nat /\ x.noted + 1 = 1
  BY <1>1 DEF GuardAlong, Guards
<1>6. a \in Guards /\ a.at = "done" /\ a.tries = x.tries /\ a.last = x.last
  <2>1. "done" \in Places BY DEF Places
  <2> QED BY <1>1, <2>1, AtSet
<1> HIDE DEF a
<1>7. b \in Guards /\ b.at = "done" /\ b.tries = x.tries /\ b.last = x.last /\ b.probe = FALSE
  BY <1>6, ProbeSet
<1> HIDE DEF b
<1>8. /\ d \in Guards /\ d.at = "done" /\ d.tries = x.tries /\ d.last = x.last /\ d.probe = FALSE
      /\ d.told = outcome
  BY <1>4, <1>7, ToldSet
<1> HIDE DEF d
<1>9. /\ e \in Guards /\ e.at = "done" /\ e.tries = x.tries /\ e.last = x.last /\ e.probe = FALSE
      /\ e.told = outcome /\ e.noted = 1
  BY <1>5, <1>8, NotedSet
<1> HIDE DEF e
<1>10. GuardAlong(e)
  <2>1. GuardTold(e)
    <3>1. e.noted = (IF e.tries = 0 THEN 0 ELSE 1) /\ (e.last = "transient" => e.tries = GuardRetries + 1)
      BY <1>5, <1>9
    <3>2. /\ e.told = "value" <=> e.last = "ok"
          /\ e.told # "open"
          /\ e.told = "type error" => sync /\ fallback = "awaitable"
      BY <1>4, <1>9
    <3> QED BY <3>1, <3>2 DEF GuardTold
  <2> QED BY <1>5, <1>9, <2>1 DEF GuardAlong
<1>11. \A h \in GuardedCalls : rests[h] \in Guards /\ GuardAlong(rests[h]) BY <1>1, <1>9, <1>10
<1>12. rests[g].at = "done" /\ \A h \in GuardedCalls : h # g => rests[h] = guard[h] BY <1>1, <1>9
<1>13. rests \in [GuardedCalls -> Guards] BY <1>1, <1>9
<1> HIDE DEF rests
<1>14. \A h \in GuardedCalls :
         /\ guard'[h] \in Guards /\ GuardAlong(guard'[h])
         /\ guard'[h].at = rests[h].at
         /\ guard'[h].probe => rests[h].probe /\ breaker # "HALF_OPEN"
  <2> TAKE h \in GuardedCalls
  <2>1. CASE breaker = "HALF_OPEN"
    <3> DEFINE f == [rests[h] EXCEPT !.probe = FALSE]
    <3>1. guard'[h] = f BY <1>2, <2>1
    <3>2. /\ f \in Guards /\ f.at = rests[h].at /\ f.tries = rests[h].tries
          /\ f.last = rests[h].last /\ f.told = rests[h].told /\ f.noted = rests[h].noted
          /\ f.probe = FALSE
      BY <1>11, ProbeSet
    <3> HIDE DEF f
    <3>3. GuardAlong(f) BY <1>11, <3>2 DEF GuardAlong, GuardTold
    <3> QED BY <3>1, <3>2, <3>3
  <2>2. CASE breaker # "HALF_OPEN" BY <1>2, <1>11, <2>2
  <2> QED BY <2>1, <2>2
<1>15. guard' = [h \in GuardedCalls |-> guard'[h]] BY <1>2, <1>13
<1>16. GuardShape'
  <2>1. guard' \in [GuardedCalls -> Guards] BY <1>14, <1>15
  <2>2. \A h \in GuardedCalls : GuardAlong(guard[h])' = GuardAlong(guard'[h])
    BY <1>1 DEF GuardAlong, GuardTold
  <2> QED BY <1>1, <1>14, <2>1, <2>2 DEF GuardShape
<1>17. GuardedProbes' = {}
  <2> SUFFICES ASSUME NEW h \in GuardedCalls, Guarding(h)', guard'[h].probe PROVE FALSE
    BY DEF GuardedProbes
  <2>1. h # g /\ breaker # "HALF_OPEN" /\ guard[h].at = guard'[h].at /\ guard[h].probe
    BY <1>12, <1>14 DEF Guarding
  <2>2. h \in GuardedProbes BY <2>1 DEF GuardedProbes, Guarding
  <2> QED BY <1>1, <2>1, <2>2 DEF PermitsCounted
<1>18. OfGuard' /\ Probes' = {} BY RestTyped DEF OfGuard, Probes, Running
<1>19. PermitsCounted' BY <1>3, <1>17, <1>18 DEF PermitsCounted
<1>20. ServiceTypeOK' /\ AttemptLeft'
  BY <1>3 DEF CallsIInv, ServiceTypeOK, BreakerShape, AttemptLeft
<1> QED BY <1>16, <1>18, <1>19, <1>20 DEF CallsIInv

LEMMA GuardedInductive == CallsIInv /\ OfGuard /\ [GuardedNext]_callsVars => CallsIInv' /\ OfGuard'
<1> SUFFICES ASSUME CallsIInv, OfGuard, [GuardedNext]_callsVars PROVE CallsIInv' /\ OfGuard' OBVIOUS
<1>1. ASSUME UNCHANGED <<call, bucket, breaker, recent, inflight, guardedVars>>, rested' \in BOOLEAN
      PROVE  CallsIInv' /\ OfGuard'
  <2>1. PermitsCounted'
    BY <1>1, PermitsKept DEF CallsIInv, Probes, Running, GuardedProbes, Guarding, guardedVars
  <2>2. ServiceTypeOK' BY <1>1 DEF CallsIInv, ServiceTypeOK
  <2>3. OfGuard' /\ AttemptLeft' BY <1>1 DEF OfGuard, CallsIInv, AttemptLeft
  <2> QED BY <1>1, <2>1, <2>2, <2>3, ClientKeeps DEF CallsIInv
<1>2. CASE UNCHANGED callsVars
  BY <1>1, <1>2 DEF callsVars, serviceVars, breakerVars, CallsIInv, ServiceTypeOK
<1>3. CASE Rests /\ UNCHANGED guardedVars BY <1>1, <1>3 DEF Rests
<1> QED BY <1>2, <1>3, StartsGuardedIInv, RefusedGuardedIInv, PauseEndsIInv, EndsGuardedIInv,
           CallsGuardedAgainIInv, RetriedIInv DEF GuardedNext

LEMMA CallsInitIInv == ServiceInit /\ GuardedInit => CallsIInv /\ OfClient /\ OfGuard
<1> SUFFICES ASSUME ServiceInit, GuardedInit PROVE CallsIInv /\ OfClient /\ OfGuard OBVIOUS
<1>1. OfClient /\ OfGuard BY DEF ServiceInit, GuardedInit, OfClient, OfGuard
<1>2. GuardedProbes = {} /\ Probes = {} BY <1>1, NoProbes, NoGuardedProbes
<1>3. PermitsCounted BY <1>2 DEF ServiceInit, PermitsCounted
<1>4. GuardShape
  <2>1. \A g \in GuardedCalls : guard[g] = Unguarded BY DEF GuardedInit
  <2>2. guard \in [GuardedCalls -> Guards] BY UnguardedTyped DEF GuardedInit
  <2>3. \A g \in GuardedCalls : GuardAlong(guard[g]) BY <2>1, UnguardedTyped
  <2>4. fallback \in {"none", "value", "awaitable"} /\ sync \in BOOLEAN BY DEF GuardedInit
  <2> QED BY <2>2, <2>3, <2>4 DEF GuardShape
<1>5. BreakerShape
  <2>1. recent \in Seq(Results) /\ Len(recent) = 0 BY DEF ServiceInit
  <2>2. 0 <= WindowSize /\ 0 \in 0..Permitted BY ServiceAssumption
  <2> QED BY <2>1, <2>2 DEF ServiceInit, BreakerShape
<1>6. ServiceTypeOK /\ AttemptLeft
  <2>1. /\ call \in [SvcCalls -> Calls] /\ \A c \in SvcCalls : call[c].at = "idle"
        /\ bucket \in [Instances -> {"fresh", "stale", "absent"}]
    BY RestTyped DEF ServiceInit
  <2> QED BY <1>5, <2>1, TypeParts DEF AttemptLeft
<1> QED BY <1>1, <1>3, <1>4, <1>6 DEF CallsIInv

LEMMA CallsIInvSound == CallsIInv => CallsSound
<1> SUFFICES ASSUME CallsIInv PROVE CallsSound OBVIOUS
<1>1. PermitsHeld BY DEF CallsIInv, PermitsCounted, PermitsHeld, Probes, GuardedProbes
<1>2. GuardedOnce
  <2> SUFFICES ASSUME NEW g \in GuardedCalls
               PROVE  /\ guard[g].tries <= GuardRetries + 1
                      /\ guard[g].at = "sleeping" => guard[g].last = "transient"
                      /\ guard[g].at = "done" => GuardTold(guard[g])
    BY DEF GuardedOnce, GuardTold
  <2> QED BY GuardParts DEF GuardAlong
<1> QED BY <1>1, <1>2 DEF CallsIInv, CallsSound

(* While a breaker is half open, its permits are held by calls that run
   and were let through since, and one of them is left to decide; a
   cancelled call gives its own back (FeignClient, CircuitBreaker). *)
THEOREM ClientCallsHold == ClientSpec => []CallsSound
<1>1. CallsIInv /\ OfClient /\ [ClientNext]_callsVars => CallsIInv' /\ OfClient' BY ClientInductive
<1> QED BY <1>1, CallsInitIInv, CallsIInvSound, PTL DEF ClientSpec

(* The same of a breaker its callers guard with; and each of their calls
   leaves one result with it, after as many tries as the retries allow
   (retry, _execute_sync, _execute_async). *)
THEOREM GuardedCallsHold == GuardedSpec => []CallsSound
<1>1. CallsIInv /\ OfGuard /\ [GuardedNext]_callsVars => CallsIInv' /\ OfGuard' BY GuardedInductive
<1> QED BY <1>1, CallsInitIInv, CallsIInvSound, PTL DEF GuardedSpec

----------------------------------------
(* The inductive invariant of ModelGateway. *)

Jobs == [at : Stages \cup Endings, model : Nat, attempt : Nat]
Counter == [calls : Nat, tokens : Nat]

(* A request that goes on has a route, a model of it, and a retry before
   it a backoff. *)
JobFits(r, x) ==
  /\ x.attempt <= GatewayRetries
  /\ Routed(r) => x.model \in DOMAIN RouteOf[r]
  /\ x.at \notin {"new"} \cup Endings => Routed(r)
  /\ x.at = "backoff" => x.attempt < GatewayRetries

(* What a request handed over and was charged, with what it is at: until
   it ends, all chunks are of its current attempt. *)
StreamFits(r, x, given, costs) ==
  /\ \A i, j \in DOMAIN given :
     /\ given[i].model = given[j].model
     /\ given[i].attempt = given[j].attempt
  /\ \A i \in DOMAIN given : given[i].kind = "error" => i = Len(given)
  /\ Entry[r] = "stream" /\ costs # {} =>
       \E i \in DOMAIN given :
         /\ given[i].kind = "last"
         /\ costs = {[model |-> given[i].model, attempt |-> given[i].attempt]}
  /\ x.at \notin Endings =>
       \A i \in DOMAIN given :
         /\ given[i].model = x.model /\ given[i].attempt = x.attempt
         /\ given[i].kind # "error"
  /\ given # <<>> => Entry[r] = "stream" /\ x.at \in Executing \cup Endings
  /\ x.at = "charging" =>
     /\ Entry[r] = "stream" /\ costs = {}
     /\ \E i \in DOMAIN given : given[i].kind = "last"

(* What is free and who holds the rest add up to the capacity. *)
Holders(stages) == [m \in Models |-> InStage(m, stages)]
Balanced(free, held, capacity) ==
  /\ free \in [Models -> 0..capacity]
  /\ \A m \in Models : IsFiniteSet(held[m]) /\ free[m] + Cardinality(held[m]) = capacity
GuardsBalanced ==
  /\ Balanced(places, Holders(InQueue), QueueCapacity)
  /\ Balanced(slots, Holders(Executing), MaxConcurrency)

GatewayShape ==
  /\ job \in [Requests -> Jobs] /\ out \in [Requests -> Seq(Chunk)]
  /\ charged \in [Requests -> SUBSET Attempt]
  /\ used \in [Scopes -> Counter] /\ results \subseteq Keys
  /\ clients \in [Models -> {"none", "live", "closed"}] /\ windows \in 0..MaxWindows
GatewayIInv ==
  /\ GatewayShape /\ GuardsBalanced
  /\ \A r \in Requests :
     /\ JobFits(r, job[r])
     /\ StreamFits(r, job[r], out[r], charged[r])

----------------------------------------
(* A semaphore of every model, and who holds it. *)

LEMMA Enters ==
  ASSUME NEW n \in Nat, NEW f, NEW f2, NEW g, NEW g2, Balanced(f, g, n),
         NEW m \in Models, NEW r, r \notin g[m], g2 = [g EXCEPT ![m] = @ \cup {r}],
         DOMAIN g = Models, f[m] > 0, f2 = [f EXCEPT ![m] = @ - 1]
  PROVE  Balanced(f2, g2, n)
<1>1. f \in [Models -> 0..n] /\ IsFiniteSet(g[m]) /\ f[m] + Cardinality(g[m]) = n BY DEF Balanced
<1>2. IsFiniteSet(g2[m]) /\ Cardinality(g2[m]) = Cardinality(g[m]) + 1
  <2>1. IsFiniteSet(g[m] \cup {r}) /\ Cardinality(g[m] \cup {r}) = Cardinality(g[m]) + 1
    BY <1>1, FS_AddElement
  <2>2. g2[m] = g[m] \cup {r} OBVIOUS
  <2> QED BY <2>1, <2>2
<1>3. Cardinality(g[m]) \in Nat BY <1>1, FS_CardinalityType
<1>4. /\ f2[m] = f[m] - 1 /\ f[m] - 1 \in 0..n /\ (f[m] - 1) + (Cardinality(g[m]) + 1) = n
      /\ \A k \in Models \ {m} : f2[k] = f[k]
  BY <1>1, <1>3
<1>5. f2 \in [Models -> 0..n] BY <1>1, <1>4
<1> QED BY <1>2, <1>4, <1>5 DEF Balanced

LEMMA Exits ==
  ASSUME NEW n \in Nat, NEW f, NEW f2, NEW g, NEW g2, Balanced(f, g, n),
         NEW m \in Models, NEW r, r \in g[m], g2 = [g EXCEPT ![m] = @ \ {r}],
         DOMAIN g = Models, f2 = [f EXCEPT ![m] = @ + 1]
  PROVE  Balanced(f2, g2, n)
<1>1. f \in [Models -> 0..n] /\ IsFiniteSet(g[m]) /\ f[m] + Cardinality(g[m]) = n BY DEF Balanced
<1>2. IsFiniteSet(g2[m]) /\ Cardinality(g2[m]) = Cardinality(g[m]) - 1
  <2>1. IsFiniteSet(g[m] \ {r}) /\ Cardinality(g[m] \ {r}) = Cardinality(g[m]) - 1
    BY <1>1, FS_RemoveElement
  <2>2. g2[m] = g[m] \ {r} OBVIOUS
  <2> QED BY <2>1, <2>2
<1>3. Cardinality(g[m]) \in Nat /\ Cardinality(g[m]) # 0 BY <1>1, FS_CardinalityType, FS_EmptySet
<1>4. /\ f2[m] = f[m] + 1 /\ f[m] + 1 \in 0..n /\ (f[m] + 1) + (Cardinality(g[m]) - 1) = n
      /\ \A k \in Models \ {m} : f2[k] = f[k]
  BY <1>1, <1>3
<1>5. f2 \in [Models -> 0..n] BY <1>1, <1>4
<1> QED BY <1>2, <1>4, <1>5 DEF Balanced

(* A request moves: among those that hold something, or not. *)
LEMMA StaysIn ==
  ASSUME job \in [Requests -> Jobs], NEW r \in Requests, NEW e \in Jobs,
         job' = [job EXCEPT ![r] = e], NEW S,
         At(r) \in S <=> e.at \in S, At(r) \in S => e.model = job[r].model
  PROVE  Holders(S)' = Holders(S)
<1>1. job'[r] = e /\ \A q \in Requests \ {r} : job'[q] = job[q] OBVIOUS
<1>2. \A m \in Models : InStage(m, S)' = InStage(m, S) BY <1>1 DEF InStage, At, Current
<1> QED BY <1>2 DEF Holders

LEMMA ComesIn ==
  ASSUME job \in [Requests -> Jobs], NEW r \in Requests, NEW e \in Jobs,
         job' = [job EXCEPT ![r] = e], NEW S, At(r) \notin S, e.at \in S,
         e.model = job[r].model, job[r].model \in DOMAIN RouteOf[r], Current(r) \in Models
  PROVE  /\ r \notin Holders(S)[Current(r)]
         /\ Holders(S)' = [Holders(S) EXCEPT ![Current(r)] = @ \cup {r}]
<1>1. job'[r] = e /\ \A q \in Requests \ {r} : job'[q] = job[q] OBVIOUS
<1>2. /\ r \notin InStage(Current(r), S)
      /\ \A m \in Models : InStage(m, S)' = InStage(m, S) \cup (IF m = Current(r) THEN {r} ELSE {})
  BY <1>1 DEF InStage, At, Current
<1> QED BY <1>2 DEF Holders

LEMMA GoesOut ==
  ASSUME job \in [Requests -> Jobs], NEW r \in Requests, NEW e \in Jobs,
         job' = [job EXCEPT ![r] = e], NEW S, At(r) \in S, e.at \notin S,
         job[r].model \in DOMAIN RouteOf[r], Current(r) \in Models
  PROVE  /\ r \in Holders(S)[Current(r)]
         /\ Holders(S)' = [Holders(S) EXCEPT ![Current(r)] = @ \ {r}]
<1>1. job'[r] = e /\ \A q \in Requests \ {r} : job'[q] = job[q] OBVIOUS
<1>2. /\ r \in InStage(Current(r), S)
      /\ \A m \in Models : InStage(m, S)' = InStage(m, S) \ (IF m = Current(r) THEN {r} ELSE {})
  BY <1>1 DEF InStage, At, Current
<1> QED BY <1>2 DEF Holders

(* Where a request is, and its model. *)
LEMMA OnItsWay ==
  ASSUME GatewayIInv, NEW r \in Requests, At(r) \notin {"new"} \cup Endings
  PROVE  /\ Routed(r) /\ job[r].model \in DOMAIN RouteOf[r]
         /\ Current(r) \in Models /\ RouteOf[r] \in Seq(Models)
         /\ Len(RouteOf[r]) \in Nat /\ DOMAIN RouteOf[r] = 1..Len(RouteOf[r])
<1>1. Routed(r) /\ job[r].model \in DOMAIN RouteOf[r] /\ RouteOf[r] \in Seq(Models)
  BY GatewayAssumption DEF GatewayIInv, JobFits, At
<1>2. Len(RouteOf[r]) \in Nat /\ DOMAIN RouteOf[r] = 1..Len(RouteOf[r]) BY <1>1, LenProperties
<1>3. Current(r) \in Models BY <1>1, <1>2, ElementOfSeq DEF Current
<1> QED BY <1>1, <1>2, <1>3

LEMMA FirstOfRoute == ASSUME NEW r \in Requests, Routed(r) PROVE 1 \in DOMAIN RouteOf[r]
<1>1. RouteOf[r] \in Seq(Models) /\ RouteOf[r] # <<>> BY GatewayAssumption DEF Routed
<1>2. Len(RouteOf[r]) \in Nat /\ DOMAIN RouteOf[r] = 1..Len(RouteOf[r]) /\ Len(RouteOf[r]) # 0
  BY <1>1, LenProperties, EmptySeq
<1> QED BY <1>2

(* Where Goto leads: an ending forgets the model and the attempt. *)
LEMMA Ended ==
  ASSUME job \in [Requests -> Jobs], NEW r \in Requests, NEW stage \in Endings, Goto(r, stage)
  PROVE  \E e \in Jobs : job' = [job EXCEPT ![r] = e] /\ e.at = stage /\ JobFits(r, e)
<1> DEFINE e == Begun(stage)
<1>1. e \in Jobs /\ e.at = stage /\ e.model = 1 /\ e.attempt = 0 BY DEF Begun, Jobs
<1>2. job' = [job EXCEPT ![r] = e] BY DEF Goto
<1> HIDE DEF e
<1>3. 0 <= GatewayRetries /\ stage # "backoff" BY GatewayAssumption DEF Endings
<1>4. JobFits(r, e) BY <1>1, <1>3, FirstOfRoute DEF JobFits
<1> QED BY <1>1, <1>2, <1>4

LEMMA Staged ==
  ASSUME job \in [Requests -> Jobs], NEW r \in Requests, NEW stage \in Stages, Goto(r, stage),
         JobFits(r, job[r]), Routed(r), stage = "backoff" => job[r].attempt < GatewayRetries
  PROVE  \E e \in Jobs :
    /\ job' = [job EXCEPT ![r] = e] /\ e.at = stage
    /\ e.model = job[r].model /\ e.attempt = job[r].attempt
    /\ JobFits(r, e)
<1> DEFINE e == [job[r] EXCEPT !.at = stage]
<1>1. stage \notin Endings /\ stage \in Stages \cup Endings BY DEF Stages, Endings
<1>2. job' = [job EXCEPT ![r] = e] BY <1>1 DEF Goto
<1>3. job[r] \in Jobs OBVIOUS
<1>4. e \in Jobs /\ e.at = stage /\ e.model = job[r].model /\ e.attempt = job[r].attempt
  BY <1>1, <1>3 DEF Jobs
<1> HIDE DEF e
<1>5. JobFits(r, e) BY <1>4 DEF JobFits
<1> QED BY <1>2, <1>4, <1>5

LEMMA BackedUp ==
  ASSUME GatewayIInv, NEW r \in Requests, At(r) \notin {"new"} \cup Endings, Backup(r)
  PROVE  \E e \in Jobs :
    /\ job' = [job EXCEPT ![r] = e] /\ e.at \in {"failed", "attach"}
    /\ JobFits(r, e)
<1>1. job \in [Requests -> Jobs] /\ job[r] \in Jobs /\ job[r].model \in Nat
  BY DEF GatewayIInv, GatewayShape, Jobs
<1>2. CASE Goto(r, "failed") BY <1>1, <1>2, Ended DEF Endings
<1>3. CASE /\ job[r].model # Len(RouteOf[r])
           /\ job' = [job EXCEPT ![r] = [at |-> "attach", model |-> @.model + 1, attempt |-> 0]]
  <2> DEFINE e == [at |-> "attach", model |-> job[r].model + 1, attempt |-> 0]
  <2>1. /\ e \in Jobs /\ e.at = "attach" /\ e.model = job[r].model + 1 /\ e.attempt = 0
        /\ job' = [job EXCEPT ![r] = e]
    BY <1>1, <1>3 DEF Jobs, Stages
  <2> HIDE DEF e
  <2>2. Routed(r) /\ job[r].model + 1 \in DOMAIN RouteOf[r] /\ 0 <= GatewayRetries
    BY <1>1, <1>3, OnItsWay, GatewayAssumption
  <2>3. JobFits(r, e) BY <2>1, <2>2 DEF JobFits
  <2> QED BY <2>1, <2>3
<1> QED BY <1>2, <1>3 DEF Backup, NextModel

(* One request moves. *)
LEMMA MoveKeeps ==
  ASSUME GatewayIInv, NEW r \in Requests, NEW e \in Jobs, job' = [job EXCEPT ![r] = e],
         JobFits(r, e), StreamFits(r, e, out'[r], charged'[r]), GuardsBalanced',
         out' \in [Requests -> Seq(Chunk)], charged' \in [Requests -> SUBSET Attempt],
         \A q \in Requests \ {r} : out'[q] = out[q] /\ charged'[q] = charged[q],
         used' \in [Scopes -> Counter], results' \subseteq Keys,
         clients' \in [Models -> {"none", "live", "closed"}], windows' = windows
  PROVE  GatewayIInv'
<1>1. /\ job' \in [Requests -> Jobs] /\ job'[r] = e
      /\ \A q \in Requests \ {r} : job'[q] = job[q]
  BY DEF GatewayIInv, GatewayShape
<1>2. GatewayShape' BY <1>1 DEF GatewayIInv, GatewayShape
<1>3. \A q \in Requests :
  /\ JobFits(q, job'[q])
  /\ StreamFits(q, job'[q], out'[q], charged'[q])
  BY <1>1 DEF GatewayIInv
<1>4. \A q \in Requests :
  /\ JobFits(q, job[q])' = JobFits(q, job'[q])
  /\ StreamFits(q, job[q], out[q], charged[q])' = StreamFits(q, job'[q], out'[q], charged'[q])
  BY DEF JobFits, StreamFits, Routed, Endings, Executing
<1> QED BY <1>2, <1>3, <1>4 DEF GatewayIInv

(* A request that handed nothing over goes on, or one ends. *)
LEMMA SilentFits ==
  ASSUME NEW r \in Requests, NEW x \in Jobs, NEW e \in Jobs, NEW given, NEW costs,
         StreamFits(r, x, given, costs), e.at # "charging",
         e.at \in Endings \/ given = <<>>
  PROVE  StreamFits(r, e, given, costs)
<1>1. CASE e.at \in Endings BY <1>1 DEF StreamFits
<1>2. CASE given = <<>>
  <2>1. DOMAIN given = {} BY <1>2
  <2> QED BY <1>2, <2>1 DEF StreamFits
<1> QED BY <1>1, <1>2

LEMMA SilentKeeps ==
  ASSUME GatewayIInv, NEW r \in Requests, NEW e \in Jobs, job' = [job EXCEPT ![r] = e],
         JobFits(r, e), e.at # "charging", (e.at \in Endings) \/ (out[r] = <<>>),
         GuardsBalanced', UNCHANGED <<out, charged, windows>>,
         used' \in [Scopes -> Counter], results' \subseteq Keys,
         clients' \in [Models -> {"none", "live", "closed"}]
  PROVE  GatewayIInv'
<1>1. job[r] \in Jobs /\ StreamFits(r, job[r], out[r], charged[r]) BY DEF GatewayIInv, GatewayShape
<1>2. StreamFits(r, e, out[r], charged[r]) BY <1>1, SilentFits
<1> QED BY <1>2, MoveKeeps DEF GatewayIInv, GatewayShape

LEMMA Silent ==
  ASSUME GatewayIInv, NEW r \in Requests, At(r) \notin Executing \cup Endings PROVE out[r] = <<>>
  BY DEF GatewayIInv, StreamFits, At

----------------------------------------
(* What a move does to the guards. *)

LEMMA GuardsKept ==
  ASSUME GatewayIInv, NEW r \in Requests, NEW e \in Jobs, job' = [job EXCEPT ![r] = e],
         UNCHANGED guardVars, At(r) \in InQueue <=> e.at \in InQueue,
         At(r) \in Executing <=> e.at \in Executing, At(r) \in InQueue => e.model = job[r].model
  PROVE  GuardsBalanced'
<1>1. job \in [Requests -> Jobs] /\ Executing \subseteq InQueue
  BY DEF GatewayIInv, GatewayShape, InQueue
<1>2. Holders(InQueue)' = Holders(InQueue) BY <1>1, StaysIn
<1>3. Holders(Executing)' = Holders(Executing) BY <1>1, StaysIn
<1> QED BY <1>2, <1>3 DEF GatewayIInv, GuardsBalanced, Balanced, guardVars

LEMMA StagesApart ==
  /\ Executing \subseteq InQueue /\ Executing \subseteq Stages /\ InQueue \subseteq Stages
  /\ InQueue \cap ({"new"} \cup Endings) = {} /\ "attach" \notin InQueue
  /\ "backoff" \notin InQueue /\ "attached" \notin InQueue /\ "queueing" \notin InQueue
  /\ "placed" \in InQueue \ Executing /\ "waiting" \in InQueue \ Executing
  /\ "calling" \in Executing /\ "charging" \in Executing /\ "yielded" \in Executing
  /\ Endings \cap Stages = {} /\ "new" \in Stages \ Executing
  BY DEF Executing, InQueue, Stages, Endings

LEMMA PlaceTaken ==
  ASSUME GatewayIInv, NEW r \in Requests, NEW e \in Jobs, job' = [job EXCEPT ![r] = e],
         At(r) \in {"attached", "queueing"}, e.at = "placed", e.model = job[r].model,
         Take(places, Current(r)), UNCHANGED slots
  PROVE  GuardsBalanced'
<1>1. job \in [Requests -> Jobs] /\ At(r) \notin InQueue /\ At(r) \notin Executing
  BY StagesApart DEF GatewayIInv, GatewayShape
<1>2. e.at \in InQueue /\ e.at \notin Executing BY StagesApart
<1>3. job[r].model \in DOMAIN RouteOf[r] /\ Current(r) \in Models BY OnItsWay DEF Endings
<1>4. Holders(Executing)' = Holders(Executing) BY <1>1, <1>2, StaysIn
<1>5. Balanced(slots, Holders(Executing), MaxConcurrency)'
  BY <1>4 DEF GatewayIInv, GuardsBalanced, Balanced
<1>6. /\ r \notin Holders(InQueue)[Current(r)]
      /\ Holders(InQueue)' = [Holders(InQueue) EXCEPT ![Current(r)] = @ \cup {r}]
  BY <1>1, <1>2, <1>3, ComesIn
<1>7. places[Current(r)] > 0 /\ places' = [places EXCEPT ![Current(r)] = @ - 1] BY DEF Take
<1>8. Balanced(places, Holders(InQueue), QueueCapacity) /\ QueueCapacity \in Nat
      /\ DOMAIN Holders(InQueue) = Models
  BY GatewayAssumption DEF GatewayIInv, GuardsBalanced, Holders
<1>9. Balanced(places', Holders(InQueue)', QueueCapacity) BY <1>3, <1>6, <1>7, <1>8, Enters
<1> QED BY <1>5, <1>9 DEF GuardsBalanced, Balanced

LEMMA SlotTaken ==
  ASSUME GatewayIInv, NEW r \in Requests, NEW e \in Jobs, job' = [job EXCEPT ![r] = e],
         At(r) \in {"placed", "waiting"}, e.at = "calling", e.model = job[r].model,
         Take(slots, Current(r)), UNCHANGED places
  PROVE  GuardsBalanced'
<1>1. job \in [Requests -> Jobs] /\ At(r) \in InQueue /\ At(r) \notin Executing
  BY StagesApart DEF GatewayIInv, GatewayShape
<1>2. e.at \in InQueue /\ e.at \in Executing BY StagesApart
<1>3. job[r].model \in DOMAIN RouteOf[r] /\ Current(r) \in Models BY OnItsWay DEF Endings
<1>4. Holders(InQueue)' = Holders(InQueue) BY <1>1, <1>2, StaysIn
<1>5. Balanced(places, Holders(InQueue), QueueCapacity)'
  BY <1>4 DEF GatewayIInv, GuardsBalanced, Balanced
<1>6. /\ r \notin Holders(Executing)[Current(r)]
      /\ Holders(Executing)' = [Holders(Executing) EXCEPT ![Current(r)] = @ \cup {r}]
  BY <1>1, <1>2, <1>3, ComesIn
<1>7. slots[Current(r)] > 0 /\ slots' = [slots EXCEPT ![Current(r)] = @ - 1] BY DEF Take
<1>8. /\ Balanced(slots, Holders(Executing), MaxConcurrency) /\ MaxConcurrency \in Nat
      /\ DOMAIN Holders(Executing) = Models
  BY GatewayAssumption DEF GatewayIInv, GuardsBalanced, Holders
<1>9. Balanced(slots', Holders(Executing)', MaxConcurrency) BY <1>3, <1>6, <1>7, <1>8, Enters
<1> QED BY <1>5, <1>9 DEF GuardsBalanced, Balanced

(* A place is given back by one that leaves the line. *)
LEMMA PlaceGiven ==
  ASSUME GatewayIInv, NEW r \in Requests, NEW e \in Jobs, job' = [job EXCEPT ![r] = e],
         At(r) \in InQueue, e.at \notin InQueue, Give(places, Current(r))
  PROVE  Balanced(places, Holders(InQueue), QueueCapacity)'
<1>1. job \in [Requests -> Jobs] /\ At(r) \notin {"new"} \cup Endings
  BY StagesApart DEF GatewayIInv, GatewayShape
<1>2. job[r].model \in DOMAIN RouteOf[r] /\ Current(r) \in Models BY <1>1, OnItsWay
<1>3. /\ r \in Holders(InQueue)[Current(r)]
      /\ Holders(InQueue)' = [Holders(InQueue) EXCEPT ![Current(r)] = @ \ {r}]
  BY <1>1, <1>2, GoesOut
<1>4. places' = [places EXCEPT ![Current(r)] = @ + 1] BY DEF Give
<1>5. /\ Balanced(places, Holders(InQueue), QueueCapacity) /\ QueueCapacity \in Nat
      /\ DOMAIN Holders(InQueue) = Models
  BY GatewayAssumption DEF GatewayIInv, GuardsBalanced, Holders
<1>6. Balanced(places', Holders(InQueue)', QueueCapacity) BY <1>2, <1>3, <1>4, <1>5, Exits
<1> QED BY <1>6 DEF Balanced

LEMMA GuardLeft ==
  ASSUME GatewayIInv, NEW r \in Requests, NEW e \in Jobs, job' = [job EXCEPT ![r] = e],
         At(r) \in Executing, e.at \notin InQueue, Leaves(r)
  PROVE  GuardsBalanced'
<1>1. /\ job \in [Requests -> Jobs] /\ At(r) \notin {"new"} \cup Endings
      /\ At(r) \in InQueue /\ e.at \notin Executing
  BY StagesApart DEF GatewayIInv, GatewayShape
<1>2. job[r].model \in DOMAIN RouteOf[r] /\ Current(r) \in Models BY <1>1, OnItsWay
<1>3. /\ r \in Holders(Executing)[Current(r)]
      /\ Holders(Executing)' = [Holders(Executing) EXCEPT ![Current(r)] = @ \ {r}]
  BY <1>1, <1>2, GoesOut
<1>4. slots' = [slots EXCEPT ![Current(r)] = @ + 1] /\ Give(places, Current(r)) BY DEF Give, Leaves
<1>5. /\ Balanced(slots, Holders(Executing), MaxConcurrency) /\ MaxConcurrency \in Nat
      /\ DOMAIN Holders(Executing) = Models
  BY GatewayAssumption DEF GatewayIInv, GuardsBalanced, Holders
<1>6. Balanced(slots', Holders(Executing)', MaxConcurrency) BY <1>2, <1>3, <1>4, <1>5, Exits
<1>7. Balanced(places, Holders(InQueue), QueueCapacity)' BY <1>1, <1>4, PlaceGiven
<1> QED BY <1>6, <1>7 DEF GuardsBalanced, Balanced

(* Leaving the line before a place was had, or with one. *)
LEMMA LineLeft ==
  ASSUME GatewayIInv, NEW r \in Requests, NEW e \in Jobs, job' = [job EXCEPT ![r] = e],
         At(r) \in {"queueing", "waiting"}, e.at \notin InQueue, DropLine(r)
  PROVE  GuardsBalanced'
<1>1. job \in [Requests -> Jobs] /\ e.at \notin Executing /\ At(r) \notin Executing
  BY StagesApart DEF GatewayIInv, GatewayShape
<1>2. CASE At(r) = "waiting"
  <2>1. At(r) \in InQueue /\ Give(places, Current(r)) /\ UNCHANGED slots
    BY <1>2, StagesApart DEF DropLine
  <2>2. Balanced(places, Holders(InQueue), QueueCapacity)' BY <2>1, PlaceGiven
  <2>3. Holders(Executing)' = Holders(Executing) BY <1>1, StaysIn
  <2> QED BY <2>1, <2>2, <2>3 DEF GatewayIInv, GuardsBalanced, Balanced
<1>3. CASE At(r) = "queueing"
  <2>1. At(r) \notin InQueue /\ UNCHANGED guardVars BY <1>3, StagesApart DEF DropLine, guardVars
  <2> QED BY <1>1, <2>1, GuardsKept
<1> QED BY <1>2, <1>3

----------------------------------------
(* Admission. *)

LEMMA CountsTyped ==
  ASSUME NEW r \in Requests, used \in [Scopes -> Counter],
         CountCalls(r) \/ ConsumeUsage(r) \/ UNCHANGED used
  PROVE  used' \in [Scopes -> Counter]
<1>1. CASE CountCalls(r)
  <2>1. \A s \in Scopes : [used[s] EXCEPT !.calls = @ + 1] \in Counter BY DEF Counter
  <2> QED BY <1>1, <2>1 DEF CountCalls
<1>2. CASE ConsumeUsage(r)
  <2>1. \A s \in Scopes : [used[s] EXCEPT !.tokens = @ + 1] \in Counter BY DEF Counter
  <2> QED BY <1>2, <2>1 DEF ConsumeUsage, Consumed
<1> QED BY <1>1, <1>2

LEMMA AdmitIInv == ASSUME GatewayIInv, NEW r \in Requests, Admit(r) PROVE GatewayIInv'
<1>1. /\ job \in [Requests -> Jobs] /\ JobFits(r, job[r]) /\ out[r] = <<>>
      /\ At(r) = "new" /\ UNCHANGED <<guardVars, results, clients, out, charged, windows>>
  BY Silent, StagesApart DEF Admit, GatewayIInv, GatewayShape
<1>2. used' \in [Scopes -> Counter] BY CountsTyped DEF Admit, GatewayIInv, GatewayShape
<1>3. PICK e \in Jobs :
  /\ job' = [job EXCEPT ![r] = e] /\ JobFits(r, e)
  /\ e.at \in {"refused", "cached", "attach"}
  <2>1. CASE Goto(r, "refused") \/ Goto(r, "cached") BY <1>1, <2>1, Ended DEF Endings
  <2>2. CASE Goto(r, "attach") /\ Routed(r) BY <1>1, <2>2, Staged DEF Stages
  <2> QED BY <2>1, <2>2 DEF Admit, Goes
<1>4. e.at \notin InQueue /\ e.at \notin Executing /\ At(r) \notin InQueue /\ At(r) \notin Executing
      /\ e.at # "charging"
  BY <1>1, <1>3 DEF InQueue, Executing
<1>5. GuardsBalanced' BY <1>1, <1>3, <1>4, GuardsKept
<1> QED BY <1>1, <1>2, <1>3, <1>4, <1>5, SilentKeeps DEF GatewayIInv, GatewayShape

LEMMA AttachIInv == ASSUME GatewayIInv, NEW r \in Requests, Attach(r) PROVE GatewayIInv'
<1>1. /\ job \in [Requests -> Jobs] /\ JobFits(r, job[r]) /\ out[r] = <<>>
      /\ At(r) = "attach" /\ UNCHANGED <<guardVars, used, results, out, charged, windows>>
  BY Silent DEF Attach, GatewayIInv, GatewayShape, Executing, Endings
<1>2. clients' \in [Models -> {"none", "live", "closed"}]
  BY DEF Attach, AttachClients, GatewayIInv, GatewayShape
<1>3. PICK e \in Jobs :
  /\ job' = [job EXCEPT ![r] = e] /\ JobFits(r, e)
  /\ e.at \in {"refused", "failed", "attached"}
  <2>1. CASE Goto(r, "refused") \/ Goto(r, "failed") BY <1>1, <2>1, Ended DEF Endings
  <2>2. CASE Goto(r, "attached")
    <3>1. Routed(r) BY <1>1 DEF JobFits, At, Endings
    <3> QED BY <1>1, <2>2, <3>1, Staged DEF Stages
  <2> QED BY <2>1, <2>2 DEF Attach
<1>4. e.at \notin InQueue /\ e.at \notin Executing /\ At(r) \notin InQueue /\ At(r) \notin Executing
      /\ e.at # "charging"
  BY <1>1, <1>3 DEF InQueue, Executing
<1>5. GuardsBalanced' BY <1>1, <1>3, <1>4, GuardsKept
<1> QED BY <1>1, <1>2, <1>3, <1>4, <1>5, SilentKeeps DEF GatewayIInv, GatewayShape

LEMMA TakePlaceIInv == ASSUME GatewayIInv, NEW r \in Requests, TakePlace(r) PROVE GatewayIInv'
<1>1. /\ job \in [Requests -> Jobs] /\ JobFits(r, job[r]) /\ out[r] = <<>>
      /\ At(r) \in {"attached", "queueing"} /\ Goto(r, "placed")
      /\ UNCHANGED <<slots, used, results, clients, out, charged, windows>>
  BY Silent DEF TakePlace, GatewayIInv, GatewayShape, Executing, Endings
<1>2. Routed(r) BY <1>1, OnItsWay DEF Endings
<1>3. PICK e \in Jobs :
  /\ job' = [job EXCEPT ![r] = e] /\ JobFits(r, e) /\ e.at = "placed"
  /\ e.model = job[r].model
  BY <1>1, <1>2, Staged DEF Stages
<1>4. GuardsBalanced' BY <1>1, <1>3, PlaceTaken DEF TakePlace
<1> QED BY <1>1, <1>3, <1>4, SilentKeeps DEF GatewayIInv, GatewayShape

LEMMA TakeSlotIInv == ASSUME GatewayIInv, NEW r \in Requests, TakeSlot(r) PROVE GatewayIInv'
<1>1. /\ job \in [Requests -> Jobs] /\ JobFits(r, job[r]) /\ out[r] = <<>>
      /\ At(r) \in {"placed", "waiting"} /\ Goto(r, "calling")
      /\ UNCHANGED <<places, used, results, clients, out, charged, windows>>
  BY Silent DEF TakeSlot, GatewayIInv, GatewayShape, Executing, Endings
<1>2. Routed(r) BY <1>1, OnItsWay DEF Endings
<1>3. PICK e \in Jobs :
  /\ job' = [job EXCEPT ![r] = e] /\ JobFits(r, e) /\ e.at = "calling"
  /\ e.model = job[r].model
  BY <1>1, <1>2, Staged DEF Stages
<1>4. GuardsBalanced' BY <1>1, <1>3, SlotTaken DEF TakeSlot
<1> QED BY <1>1, <1>3, <1>4, SilentKeeps DEF GatewayIInv, GatewayShape

LEMMA LineUpIInv == ASSUME GatewayIInv, NEW r \in Requests, LineUp(r) PROVE GatewayIInv'
<1>1. /\ job \in [Requests -> Jobs] /\ JobFits(r, job[r]) /\ out[r] = <<>>
      /\ At(r) \in {"attached", "placed"}
      /\ UNCHANGED <<guardVars, used, results, clients, out, charged, windows>>
  BY Silent DEF LineUp, GatewayIInv, GatewayShape, Executing, Endings
<1>2. Routed(r) BY <1>1, OnItsWay DEF Endings
<1>3. PICK e \in Jobs :
  /\ job' = [job EXCEPT ![r] = e] /\ JobFits(r, e)
  /\ e.model = job[r].model
  /\ \/ At(r) = "attached" /\ e.at = "queueing"
     \/ At(r) = "placed" /\ e.at = "waiting"
  <2>1. CASE At(r) = "attached" /\ Goto(r, "queueing") BY <1>1, <1>2, <2>1, Staged DEF Stages
  <2>2. CASE At(r) = "placed" /\ Goto(r, "waiting") BY <1>1, <1>2, <2>2, Staged DEF Stages
  <2> QED BY <2>1, <2>2 DEF LineUp
<1>4. At(r) \notin Executing /\ e.at \notin Executing /\ (At(r) \in InQueue <=> e.at \in InQueue)
      /\ e.at # "charging"
  BY <1>3 DEF InQueue, Executing
<1>5. GuardsBalanced' BY <1>1, <1>3, <1>4, GuardsKept
<1> QED BY <1>1, <1>3, <1>4, <1>5, SilentKeeps DEF GatewayIInv, GatewayShape

LEMMA GuardTimeoutIInv ==
  ASSUME GatewayIInv, NEW r \in Requests, GuardTimeout(r) PROVE GatewayIInv'
<1>1. /\ job \in [Requests -> Jobs] /\ out[r] = <<>> /\ At(r) \notin {"new"} \cup Endings
      /\ At(r) \in {"queueing", "waiting"} /\ DropLine(r)
      /\ UNCHANGED <<used, results, clients, out, charged, windows>>
  BY Silent DEF GuardTimeout, GatewayIInv, GatewayShape, Executing, Endings
<1>2. PICK e \in Jobs :
  /\ job' = [job EXCEPT ![r] = e] /\ e.at \in {"failed", "attach"}
  /\ JobFits(r, e)
  BY <1>1, BackedUp DEF GuardTimeout
<1>3. e.at \notin InQueue /\ e.at # "charging" BY <1>2 DEF InQueue, Executing
<1>4. GuardsBalanced' BY <1>1, <1>2, <1>3, LineLeft
<1> QED BY <1>1, <1>2, <1>3, <1>4, SilentKeeps DEF GatewayIInv, GatewayShape

LEMMA BackoffEndsIInv ==
  ASSUME GatewayIInv, NEW r \in Requests, BackoffEnds(r) PROVE GatewayIInv'
<1> DEFINE e == [job[r] EXCEPT !.at = "attached", !.attempt = @ + 1]
<1>1. /\ job \in [Requests -> Jobs] /\ job[r] \in Jobs /\ JobFits(r, job[r]) /\ out[r] = <<>>
      /\ At(r) = "backoff"
      /\ UNCHANGED <<guardVars, used, results, clients, out, charged, windows>>
  BY Silent DEF BackoffEnds, GatewayIInv, GatewayShape, Executing, Endings
<1>2. job' = [job EXCEPT ![r] = e]
  <2> DEFINE one == [job EXCEPT ![r].at = "attached"]
  <2>1. job' = [one EXCEPT ![r].attempt = @ + 1] BY DEF BackoffEnds
  <2>2. one[r] = [job[r] EXCEPT !.at = "attached"] /\ one[r].attempt = job[r].attempt
    BY <1>1 DEF Jobs
  <2>3. [one[r] EXCEPT !.attempt = @ + 1] = e BY <2>2
  <2>4. job' = [job EXCEPT ![r] = [one[r] EXCEPT !.attempt = @ + 1]] BY <1>1, <2>1
  <2> QED BY <2>3, <2>4
<1>3. "attached" \in Stages BY DEF Stages
<1>4. e \in Jobs /\ e.at = "attached" /\ e.model = job[r].model /\ e.attempt = job[r].attempt + 1
  <2> DEFINE x == job[r]
             one == [x EXCEPT !.at = "attached"]
  <2>1. /\ one \in Jobs /\ one.at = "attached" /\ one.model = x.model /\ one.attempt = x.attempt
        /\ x.attempt + 1 \in Nat
    BY <1>1, <1>3 DEF Jobs
  <2>2. e = [one EXCEPT !.attempt = x.attempt + 1] BY <1>1 DEF Jobs
  <2> HIDE DEF one, x, e
  <2> QED BY <2>1, <2>2 DEF Jobs, x
<1> HIDE DEF e
<1>5. job[r].attempt \in Nat /\ job[r].attempt < GatewayRetries /\ GatewayRetries \in Nat
  BY <1>1, GatewayAssumption DEF JobFits, At, Jobs
<1>6. Routed(r) /\ job[r].model \in DOMAIN RouteOf[r] BY <1>1, OnItsWay DEF Endings
<1>7. JobFits(r, e) BY <1>4, <1>5, <1>6 DEF JobFits
<1>8. e.at \notin InQueue /\ e.at \notin Executing /\ At(r) \notin InQueue /\ At(r) \notin Executing
      /\ e.at # "charging"
  BY <1>1, <1>4 DEF InQueue, Executing
<1>9. GuardsBalanced' BY <1>1, <1>2, <1>4, <1>8, GuardsKept
<1> QED BY <1>1, <1>2, <1>4, <1>7, <1>8, <1>9, SilentKeeps DEF GatewayIInv, GatewayShape

----------------------------------------
(* What the provider gives. *)

LEMMA Called ==
  ASSUME GatewayIInv, NEW r \in Requests, At(r) \in Executing
  PROVE  /\ job \in [Requests -> Jobs] /\ job[r] \in Jobs /\ JobFits(r, job[r]) /\ Routed(r)
         /\ StreamFits(r, job[r], out[r], charged[r])
         /\ out[r] \in Seq(Chunk) /\ Len(out[r]) \in Nat /\ DOMAIN out[r] = 1..Len(out[r])
         /\ charged[r] \in SUBSET Attempt
<1>1. At(r) \notin {"new"} \cup Endings BY DEF Executing, Endings
<1>2. /\ job \in [Requests -> Jobs] /\ job[r] \in Jobs /\ JobFits(r, job[r])
      /\ StreamFits(r, job[r], out[r], charged[r])
      /\ out[r] \in Seq(Chunk) /\ charged[r] \in SUBSET Attempt
  BY DEF GatewayIInv, GatewayShape
<1> QED BY <1>1, <1>2, OnItsWay, LenProperties

(* A call ends, and the request with it. *)
LEMMA CallEnds ==
  ASSUME GatewayIInv, NEW r \in Requests, At(r) \in Executing, Leaves(r),
         NEW stage \in Endings, Goto(r, stage), UNCHANGED windows,
         StreamFits(r, Begun(stage), out'[r], charged'[r]),
         out' \in [Requests -> Seq(Chunk)], charged' \in [Requests -> SUBSET Attempt],
         \A q \in Requests \ {r} : out'[q] = out[q] /\ charged'[q] = charged[q],
         used' \in [Scopes -> Counter], results' \subseteq Keys,
         clients' \in [Models -> {"none", "live", "closed"}]
  PROVE  GatewayIInv'
<1>1. PICK e \in Jobs : job' = [job EXCEPT ![r] = e] /\ e.at = stage /\ JobFits(r, e)
  BY Called, Ended
<1>2. e.at \notin InQueue BY <1>1, StagesApart
<1>3. GuardsBalanced' BY <1>1, <1>2, GuardLeft
<1>4. StreamFits(r, e, out'[r], charged'[r]) BY <1>1 DEF StreamFits, Begun
<1> QED BY <1>1, <1>3, <1>4, MoveKeeps

(* The same, when it hands nothing over and is charged nothing. *)
LEMMA CallEndsSilently ==
  ASSUME GatewayIInv, NEW r \in Requests, At(r) \in Executing, Leaves(r),
         NEW stage \in Endings, Goto(r, stage),
         UNCHANGED <<out, charged, used, results, clients, windows>>
  PROVE  GatewayIInv'
<1>1. StreamFits(r, Begun(stage), out[r], charged[r])
  <2>1. StreamFits(r, job[r], out[r], charged[r]) BY Called
  <2>2. Begun(stage).at = stage BY DEF Begun
  <2> QED BY <2>1, <2>2, StagesApart DEF StreamFits
<1> QED BY <1>1, CallEnds DEF GatewayIInv, GatewayShape

LEMMA Appended ==
  ASSUME NEW given \in Seq(Chunk), NEW c \in Chunk
  PROVE  /\ Append(given, c) \in Seq(Chunk) /\ Len(Append(given, c)) = Len(given) + 1
         /\ DOMAIN Append(given, c) = 1..(Len(given) + 1) /\ Len(given) + 1 \in Nat
         /\ Append(given, c)[Len(given) + 1] = c
         /\ \A i \in 1..Len(given) : i # Len(given) + 1 /\ Append(given, c)[i] = given[i]
         /\ 1..(Len(given) + 1) = 1..Len(given) \cup {Len(given) + 1}
<1>1. Len(given) \in Nat BY LenProperties
<1>2. /\ Append(given, c) \in Seq(Chunk) /\ Len(Append(given, c)) = Len(given) + 1
      /\ \A i \in 1..Len(given) : Append(given, c)[i] = given[i]
      /\ Append(given, c)[Len(given) + 1] = c
  BY AppendProperties
<1>3. DOMAIN Append(given, c) = 1..(Len(given) + 1) BY <1>2, LenProperties
<1> QED BY <1>1, <1>2, <1>3

(* A chunk is handed over by Append1: what that does to `out`. *)
LEMMA Append1Moves ==
  ASSUME GatewayIInv, NEW r \in Requests, NEW kind \in {"delta", "last", "error"}, Append1(r, kind)
  PROVE  \E c \in Chunk :
           /\ c.model = job[r].model /\ c.attempt = job[r].attempt /\ c.kind = kind
           /\ out'[r] = Append(out[r], c) /\ out' \in [Requests -> Seq(Chunk)]
           /\ \A q \in Requests \ {r} : out'[q] = out[q]
<1> DEFINE c == [model |-> job[r].model, attempt |-> job[r].attempt, kind |-> kind]
<1>1. job[r] \in Jobs /\ out \in [Requests -> Seq(Chunk)] BY DEF GatewayIInv, GatewayShape
<1>2. c \in Chunk /\ c.model = job[r].model /\ c.attempt = job[r].attempt /\ c.kind = kind
  BY <1>1 DEF Jobs, Chunk
<1>3. out' = [out EXCEPT ![r] = Append(@, c)] BY DEF Append1
<1> HIDE DEF c
<1>4. Append(out[r], c) \in Seq(Chunk) BY <1>1, <1>2, Appended
<1> QED BY <1>1, <1>2, <1>3, <1>4

LEMMA ErrorFits ==
  ASSUME NEW r \in Requests, NEW x \in Jobs, NEW given \in Seq(Chunk), NEW costs,
         StreamFits(r, x, given, costs), x.at = "calling", Entry[r] = "stream",
         NEW c \in Chunk, c.model = x.model, c.attempt = x.attempt, c.kind = "error",
         NEW e \in Jobs, e.at \in Endings
  PROVE  StreamFits(r, e, Append(given, c), costs)
<1> DEFINE more == Append(given, c)  n == Len(given)
<1>1. /\ n \in Nat /\ Len(more) = n + 1 /\ DOMAIN more = 1..n \cup {n + 1} /\ more[n + 1] = c
      /\ \A i \in 1..n : more[i] = given[i] /\ i # n + 1
      /\ DOMAIN given = 1..n
  BY Appended, LenProperties
<1>2. /\ \A i \in 1..n : /\ given[i].model = x.model /\ given[i].attempt = x.attempt
                         /\ given[i].kind # "error"
      /\ costs # {} => \E i \in 1..n :
         /\ given[i].kind = "last"
         /\ costs = {[model |-> given[i].model, attempt |-> given[i].attempt]}
  BY <1>1 DEF StreamFits, Endings
<1> HIDE DEF more, n
<1>3. e.at \notin {"charging"} BY DEF Endings
<1>4. \A i \in DOMAIN more :
  /\ more[i].model = x.model /\ more[i].attempt = x.attempt
  /\ more[i].kind = "error" => i = Len(more)
  BY <1>1, <1>2
<1>5. costs # {} => \E i \in DOMAIN more :
  /\ more[i].kind = "last"
  /\ costs = {[model |-> more[i].model, attempt |-> more[i].attempt]}
  BY <1>1, <1>2
<1> QED BY <1>3, <1>4, <1>5 DEF StreamFits, more

LEMMA YieldFits ==
  ASSUME NEW r \in Requests, NEW x \in Jobs, NEW given \in Seq(Chunk), NEW costs,
         StreamFits(r, x, given, costs), x.at = "calling", Entry[r] = "stream",
         \A i \in DOMAIN given : given[i].kind # "last",
         NEW c \in Chunk, c.model = x.model, c.attempt = x.attempt,
         c.kind \in {"delta", "last"},
         NEW e \in Jobs, e.model = x.model, e.attempt = x.attempt,
         e.at = (IF c.kind = "last" THEN "charging" ELSE "yielded")
  PROVE  StreamFits(r, e, Append(given, c), costs)
<1> DEFINE more == Append(given, c)  n == Len(given)
<1>1. /\ n \in Nat /\ Len(more) = n + 1 /\ DOMAIN more = 1..n \cup {n + 1} /\ more[n + 1] = c
      /\ \A i \in 1..n : more[i] = given[i] /\ i # n + 1
      /\ DOMAIN given = 1..n
  BY Appended, LenProperties
<1>2. /\ \A i \in 1..n : /\ given[i].model = x.model /\ given[i].attempt = x.attempt
                         /\ given[i].kind # "error"
      /\ costs = {}
  BY <1>1 DEF StreamFits, Endings
<1> HIDE DEF more, n
<1>3. e.at \in Executing /\ e.at \notin Endings BY DEF Executing, Endings
<1>4. \A i \in DOMAIN more :
  /\ more[i].model = x.model /\ more[i].attempt = x.attempt
  /\ more[i].kind # "error"
  BY <1>1, <1>2
<1>5. e.at = "charging" => \E i \in DOMAIN more : more[i].kind = "last" BY <1>1
<1> QED BY <1>2, <1>3, <1>4, <1>5 DEF StreamFits, more

LEMMA RaisesIInv ==
  ASSUME GatewayIInv, NEW r \in Requests, NEW error \in {"retryable", "fatal", "rejected"},
         Raises(r, error)
  PROVE  GatewayIInv'
<1>1. /\ At(r) = "calling" /\ At(r) \in Executing /\ At(r) \notin {"new"} \cup Endings
      /\ Leaves(r) /\ UNCHANGED <<used, results, clients, charged, windows>>
  BY DEF Raises, Executing, Endings
<1>2. CASE Goto(r, "refused") /\ UNCHANGED out
  <2>1. "refused" \in Endings BY DEF Endings
  <2> QED BY <1>1, <1>2, <2>1, CallEndsSilently
<1>3. CASE Entry[r] = "stream" /\ Goto(r, "answered") /\ Append1(r, "error")
  <2>1. PICK c \in Chunk :
           /\ c.model = job[r].model /\ c.attempt = job[r].attempt /\ c.kind = "error"
           /\ out'[r] = Append(out[r], c) /\ out' \in [Requests -> Seq(Chunk)]
           /\ \A q \in Requests \ {r} : out'[q] = out[q]
    BY <1>3, Append1Moves
  <2>2. "answered" \in Endings /\ Begun("answered") \in Jobs /\ Begun("answered").at = "answered"
    BY DEF Endings, Begun, Jobs
  <2>3. /\ job[r] \in Jobs /\ out[r] \in Seq(Chunk) /\ job[r].at = "calling"
        /\ StreamFits(r, job[r], out[r], charged[r])
    BY <1>1, Called DEF At
  <2>4. StreamFits(r, Begun("answered"), out'[r], charged[r]) BY <1>3, <2>1, <2>2, <2>3, ErrorFits
  <2> QED BY <1>1, <1>3, <2>1, <2>2, <2>4, CallEnds DEF GatewayIInv, GatewayShape
<1>4. CASE /\ (Goto(r, "backoff") /\ Retry(r)) \/ Backup(r)
           /\ UNCHANGED out /\ ~(Entry[r] = "stream" /\ Started(r))
  <2>1. PICK e \in Jobs :
    /\ job' = [job EXCEPT ![r] = e] /\ JobFits(r, e)
    /\ e.at \in {"failed", "attach", "backoff"}
    <3>1. CASE Backup(r) BY <1>1, <3>1, BackedUp
    <3>2. CASE Goto(r, "backoff") /\ Retry(r)
      <4>1. "backoff" \in Stages BY DEF Stages
      <4> QED BY <1>1, <3>2, <4>1, Called, Staged DEF Retry
    <3> QED BY <1>4, <3>1, <3>2
  <2>2. e.at \notin InQueue /\ e.at # "charging" BY <2>1 DEF InQueue, Executing
  <2>3. GuardsBalanced' BY <1>1, <2>1, <2>2, GuardLeft
  <2>4. out[r] = <<>> BY <1>1, <1>4, Called DEF StreamFits, Started
  <2> QED BY <1>1, <1>4, <2>1, <2>2, <2>3, <2>4, SilentKeeps DEF GatewayIInv, GatewayShape
<1> QED BY <1>2, <1>3, <1>4 DEF Raises

LEMMA AnswerIInv ==
  ASSUME GatewayIInv, NEW r \in Requests, Answers(r) \/ OutputBlocked(r) \/ Embeds(r)
  PROVE  GatewayIInv'
<1>1. /\ At(r) \in Executing /\ Leaves(r) /\ UNCHANGED <<clients, out, windows>>
      /\ Entry[r] # "stream"
  BY DEF Answers, OutputBlocked, Embeds, AnswerComes, Executing
<1>2. "answered" \in Endings /\ "refused" \in Endings BY DEF Endings
<1>3. CASE OutputBlocked(r) \/ Embeds(r)
  <2>1. CASE Goto(r, "refused") /\ UNCHANGED <<used, charged, results>>
    BY <1>1, <1>2, <2>1, CallEndsSilently
  <2>2. CASE Goto(r, "answered") /\ UNCHANGED <<used, charged, results>>
    BY <1>1, <1>2, <2>2, CallEndsSilently
  <2> QED BY <1>3, <2>1, <2>2 DEF OutputBlocked, Embeds
<1>4. CASE Answers(r)
  <2>1. /\ Goto(r, "answered") /\ ConsumeUsage(r) /\ WriteCache(r)
        /\ charged' = [charged EXCEPT ![r] = @ \cup {This(r)}]
    BY <1>4 DEF Answers, RecordSuccess, RecordCost
  <2>2. used' \in [Scopes -> Counter] BY <2>1, CountsTyped DEF GatewayIInv, GatewayShape
  <2>3. results' \subseteq Keys BY <2>1, GatewayAssumption DEF WriteCache, GatewayIInv, GatewayShape
  <2>4. /\ job[r] \in Jobs /\ charged[r] \in SUBSET Attempt
        /\ StreamFits(r, job[r], out[r], charged[r])
    BY <1>1, Called
  <2>5. This(r) \in Attempt BY <2>4 DEF This, Attempt, Jobs
  <2>6. /\ charged' \in [Requests -> SUBSET Attempt]
        /\ \A q \in Requests \ {r} : charged'[q] = charged[q]
    BY <2>1, <2>4, <2>5 DEF GatewayIInv, GatewayShape
  <2>7. Begun("answered").at = "answered" /\ "answered" # "charging" BY DEF Begun
  <2>8. StreamFits(r, Begun("answered"), out'[r], charged'[r])
    BY <1>1, <1>2, <2>4, <2>7 DEF StreamFits
  <2> QED BY <1>1, <1>2, <2>1, <2>2, <2>3, <2>6, <2>8, CallEnds DEF GatewayIInv, GatewayShape
<1> QED BY <1>3, <1>4

LEMMA YieldsIInv ==
  ASSUME GatewayIInv, NEW r \in Requests, NEW kind \in {"delta", "last"}, Yields(r, kind)
  PROVE  GatewayIInv'
<1> DEFINE stage == IF kind = "last" THEN "charging" ELSE "yielded"
<1>1. /\ At(r) = "calling" /\ At(r) \in Executing /\ Entry[r] = "stream"
      /\ \A i \in DOMAIN out[r] : out[r][i].kind # "last"
      /\ Append1(r, kind) /\ Goto(r, stage)
      /\ UNCHANGED <<guardVars, used, results, clients, charged, windows>>
  BY DEF Yields, Executing
<1>2. PICK c \in Chunk :
         /\ c.model = job[r].model /\ c.attempt = job[r].attempt /\ c.kind = kind
         /\ out'[r] = Append(out[r], c) /\ out' \in [Requests -> Seq(Chunk)]
         /\ \A q \in Requests \ {r} : out'[q] = out[q]
  BY <1>1, Append1Moves
<1>3. /\ job[r] \in Jobs /\ out[r] \in Seq(Chunk) /\ job[r].at = "calling"
      /\ job \in [Requests -> Jobs] /\ JobFits(r, job[r]) /\ Routed(r)
      /\ StreamFits(r, job[r], out[r], charged[r])
  BY <1>1, Called DEF At
<1>4. stage \in Stages /\ stage # "backoff" /\ stage \in Executing /\ stage \in InQueue
  BY DEF Stages, Executing, InQueue
<1>5. PICK e \in Jobs :
  /\ job' = [job EXCEPT ![r] = e] /\ e.at = stage
  /\ e.model = job[r].model /\ e.attempt = job[r].attempt
  /\ JobFits(r, e)
  <2> HIDE DEF stage
  <2> QED BY <1>1, <1>3, <1>4, Staged
<1>6. StreamFits(r, e, out'[r], charged[r]) BY <1>1, <1>2, <1>3, <1>5, YieldFits
<1> HIDE DEF stage
<1>7. At(r) \in InQueue BY <1>1, StagesApart
<1>8. GuardsBalanced' BY <1>1, <1>4, <1>5, <1>7, GuardsKept
<1> QED BY <1>1, <1>2, <1>5, <1>6, <1>8, MoveKeeps DEF GatewayIInv, GatewayShape

LEMMA ResumeFits ==
  ASSUME NEW r \in Requests, NEW x \in Jobs, NEW given, NEW costs, StreamFits(r, x, given, costs),
         x.at \in {"yielded", "charging"}, NEW e \in Jobs, e.at = "calling",
         e.model = x.model, e.attempt = x.attempt, NEW more,
         more = (IF x.at = "charging"
                 THEN costs \cup {[model |-> x.model, attempt |-> x.attempt]} ELSE costs)
  PROVE  StreamFits(r, e, given, more)
<1>1. x.at \notin Endings /\ x.at \in Executing /\ e.at \in Executing /\ e.at \notin Endings
  BY DEF Executing, Endings
<1>2. CASE x.at = "charging"
  <2>1. more = {[model |-> x.model, attempt |-> x.attempt]} BY <1>2 DEF StreamFits
  <2>2. PICK i \in DOMAIN given : given[i].kind = "last" BY <1>2 DEF StreamFits
  <2>3. given[i].model = x.model /\ given[i].attempt = x.attempt BY <1>1 DEF StreamFits
  <2> QED BY <1>1, <2>1, <2>2, <2>3 DEF StreamFits
<1>3. CASE x.at = "yielded"
  <2>1. more = costs BY <1>3
  <2> QED BY <1>1, <2>1 DEF StreamFits
<1> QED BY <1>2, <1>3

LEMMA ResumesIInv == ASSUME GatewayIInv, NEW r \in Requests, Resumes(r) PROVE GatewayIInv'
<1>1. /\ At(r) \in {"yielded", "charging"} /\ At(r) \in Executing /\ Goto(r, "calling")
      /\ UNCHANGED <<guardVars, results, clients, out, windows>>
  BY DEF Resumes, Executing
<1>2. /\ job[r] \in Jobs /\ job \in [Requests -> Jobs] /\ JobFits(r, job[r]) /\ Routed(r)
      /\ StreamFits(r, job[r], out[r], charged[r]) /\ charged[r] \in SUBSET Attempt
  BY <1>1, Called
<1>3. PICK e \in Jobs :
  /\ job' = [job EXCEPT ![r] = e] /\ e.at = "calling"
  /\ e.model = job[r].model /\ e.attempt = job[r].attempt
  /\ JobFits(r, e)
  <2>1. "calling" \in Stages BY DEF Stages
  <2> QED BY <1>1, <1>2, <2>1, Staged
<1>4. e.at \in Executing /\ e.at \in InQueue /\ At(r) \in InQueue BY <1>1, <1>3, StagesApart
<1>5. GuardsBalanced' BY <1>1, <1>3, <1>4, GuardsKept
<1>6. This(r) \in Attempt BY <1>2 DEF This, Attempt, Jobs
<1>7. /\ charged' \in [Requests -> SUBSET Attempt]
      /\ \A q \in Requests \ {r} : charged'[q] = charged[q]
      /\ charged'[r] = IF job[r].at = "charging"
                       THEN charged[r] \cup {[model |-> job[r].model, attempt |-> job[r].attempt]}
                       ELSE charged[r]
  <2>1. CASE At(r) = "charging"
    <3>1. charged' = [charged EXCEPT ![r] = @ \cup {This(r)}] BY <2>1 DEF Resumes, RecordCost
    <3> QED BY <1>2, <1>6, <2>1, <3>1 DEF GatewayIInv, GatewayShape, This, At
  <2>2. CASE At(r) # "charging" BY <2>2 DEF Resumes, GatewayIInv, GatewayShape, At
  <2> QED BY <2>1, <2>2
<1>8. job[r].at \in {"yielded", "charging"} BY <1>1 DEF At
<1>9. StreamFits(r, e, out[r], charged'[r]) BY <1>2, <1>3, <1>7, <1>8, ResumeFits
<1>10. used' \in [Scopes -> Counter] BY CountsTyped DEF Resumes, GatewayIInv, GatewayShape
<1> QED BY <1>1, <1>3, <1>5, <1>7, <1>9, <1>10, MoveKeeps DEF GatewayIInv, GatewayShape

LEMMA StreamEndsIInv == ASSUME GatewayIInv, NEW r \in Requests, StreamEnds(r) PROVE GatewayIInv'
<1>1. /\ At(r) \in Executing /\ Leaves(r) /\ Goto(r, "answered") /\ "answered" \in Endings
      /\ UNCHANGED <<used, results, clients, out, charged, windows>>
  BY DEF StreamEnds, Executing, Endings
<1> QED BY <1>1, CallEndsSilently

LEMMA CancelRequestIInv ==
  ASSUME GatewayIInv, NEW r \in Requests, CancelRequest(r) PROVE GatewayIInv'
<1>1. /\ Goto(r, "cancelled") /\ "cancelled" \in Endings
      /\ At(r) \in {"queueing", "waiting", "backoff"} \cup Executing
      /\ UNCHANGED <<used, results, clients, out, charged, windows>>
  BY DEF CancelRequest, Endings
<1>2. CASE At(r) \in Executing BY <1>1, <1>2, CallEndsSilently DEF CancelRequest
<1>3. CASE At(r) \notin Executing
  <2>1. PICK e \in Jobs : job' = [job EXCEPT ![r] = e] /\ e.at = "cancelled" /\ JobFits(r, e)
    BY <1>1, Ended DEF GatewayIInv, GatewayShape
  <2>2. e.at \notin InQueue /\ e.at \notin Executing /\ e.at # "charging"
    BY <2>1 DEF InQueue, Executing
  <2>3. GuardsBalanced'
    <3>1. CASE At(r) = "backoff"
      <4>1. UNCHANGED guardVars /\ At(r) \notin InQueue
        BY <1>3, <3>1 DEF CancelRequest, InQueue, Executing
      <4> QED BY <1>3, <2>1, <2>2, <4>1, GuardsKept
    <3>2. CASE At(r) \in {"queueing", "waiting"}
      <4>1. DropLine(r) BY <1>3, <3>2 DEF CancelRequest
      <4> QED BY <2>1, <2>2, <3>2, <4>1, LineLeft
    <3> QED BY <1>1, <1>3, <3>1, <3>2
  <2> QED BY <1>1, <2>1, <2>2, <2>3, SilentKeeps DEF GatewayIInv, GatewayShape
<1> QED BY <1>2, <1>3

(* No request moves. *)
LEMMA RequestsStay ==
  ASSUME GatewayIInv, UNCHANGED <<job, guardVars, out, charged>>,
         used' \in [Scopes -> Counter], results' \subseteq Keys, windows' \in 0..MaxWindows,
         clients' \in [Models -> {"none", "live", "closed"}]
  PROVE  GatewayIInv'
<1>1. Holders(InQueue)' = Holders(InQueue) /\ Holders(Executing)' = Holders(Executing)
  BY DEF Holders, InStage, At, Current
<1>2. GuardsBalanced' BY <1>1 DEF GatewayIInv, GuardsBalanced, Balanced, guardVars
<1>3. GatewayShape' BY DEF GatewayIInv, GatewayShape
<1>4. \A q \in Requests :
  /\ JobFits(q, job[q])' = JobFits(q, job[q])
  /\ StreamFits(q, job[q], out[q], charged[q])' = StreamFits(q, job[q], out[q], charged[q])
  BY DEF JobFits, StreamFits, Routed, Endings, Executing
<1> QED BY <1>2, <1>3, <1>4 DEF GatewayIInv

LEMMA ExpireIInv == ASSUME GatewayIInv, Expire PROVE GatewayIInv'
<1>1. /\ UNCHANGED <<job, guardVars, clients, out, charged>>
      /\ windows < MaxWindows /\ windows' = windows + 1
  BY DEF Expire
<1>2. windows' \in 0..MaxWindows BY <1>1, GatewayAssumption DEF GatewayIInv, GatewayShape
<1>3. used' \in [Scopes -> Counter] /\ results' \subseteq Keys
  <2>1. [calls |-> 0, tokens |-> 0] \in Counter BY DEF Counter
  <2>2. CASE /\ \E s \in Scopes : used' = [used EXCEPT ![s] = [calls |-> 0, tokens |-> 0]]
             /\ UNCHANGED results
    BY <2>1, <2>2 DEF GatewayIInv, GatewayShape
  <2>3. CASE \E k \in results : results' = results \ {k} /\ UNCHANGED used
    BY <2>3 DEF GatewayIInv, GatewayShape
  <2> QED BY <2>2, <2>3 DEF Expire
<1> QED BY <1>1, <1>2, <1>3, RequestsStay DEF GatewayIInv, GatewayShape

LEMMA CloseGatewayIInv == ASSUME GatewayIInv, CloseGateway PROVE GatewayIInv'
<1>1. clients' \in [Models -> {"none", "live", "closed"}]
  BY DEF CloseGateway, GatewayIInv, GatewayShape
<1> QED BY <1>1, RequestsStay DEF CloseGateway, GatewayIInv, GatewayShape

LEMMA GatewayInductive == GatewayIInv /\ [GatewayNext]_gatewayVars => GatewayIInv'
<1> SUFFICES ASSUME GatewayIInv, [GatewayNext]_gatewayVars PROVE GatewayIInv' OBVIOUS
<1>1. CASE UNCHANGED gatewayVars
  <2>1. UNCHANGED <<job, guardVars, used, results, clients, out, charged, windows>>
    BY <1>1 DEF gatewayVars, guardVars
  <2> QED BY <2>1, RequestsStay DEF GatewayIInv, GatewayShape
<1>2. CASE Expire \/ CloseGateway BY <1>2, ExpireIInv, CloseGatewayIInv
<1>3. CASE \E r \in Requests : Admit(r) \/ Attach(r) \/ TakePlace(r) \/ TakeSlot(r) \/ LineUp(r)
  BY <1>3, AdmitIInv, AttachIInv, TakePlaceIInv, TakeSlotIInv, LineUpIInv
<1>4. CASE \E r \in Requests :
  \/ GuardTimeout(r) \/ BackoffEnds(r) \/ Resumes(r)
  \/ StreamEnds(r) \/ CancelRequest(r)
  BY <1>4, GuardTimeoutIInv, BackoffEndsIInv, ResumesIInv, StreamEndsIInv, CancelRequestIInv
<1>5. CASE \E r \in Requests : Answers(r) \/ OutputBlocked(r) \/ Embeds(r) BY <1>5, AnswerIInv
<1>6. CASE \E r \in Requests :
  \/ \E e \in {"retryable", "fatal", "rejected"} : Raises(r, e)
  \/ \E k \in {"delta", "last"} : Yields(r, k)
  BY <1>6, RaisesIInv, YieldsIInv
<1> QED BY <1>1, <1>2, <1>3, <1>4, <1>5, <1>6 DEF GatewayNext

LEMMA GatewayInitIInv == GatewayInit => GatewayIInv
<1> SUFFICES ASSUME GatewayInit PROVE GatewayIInv OBVIOUS
<1>1. Begun("new") \in Jobs /\ Begun("new").at = "new" /\ Begun("new").model = 1
      /\ Begun("new").attempt = 0
  BY DEF Begun, Jobs, Stages
<1>2. \A r \in Requests : /\ job[r] = Begun("new") /\ out[r] = <<>> /\ charged[r] = {}
  BY DEF GatewayInit
<1>3. GatewayShape
  <2>1. /\ job \in [Requests -> Jobs] /\ out \in [Requests -> Seq(Chunk)]
        /\ charged \in [Requests -> SUBSET Attempt]
    BY <1>1 DEF GatewayInit
  <2>2. [calls |-> 0, tokens |-> 0] \in Counter /\ 0 \in 0..MaxWindows
    BY GatewayAssumption DEF Counter
  <2> QED BY <2>1, <2>2 DEF GatewayInit, GatewayShape
<1>4. GuardsBalanced
  <2>1. \A S : "new" \notin S => Holders(S) = [m \in Models |-> {}]
    BY <1>1, <1>2 DEF Holders, InStage, At
  <2>2. "new" \notin InQueue /\ "new" \notin Executing BY StagesApart
  <2>3. IsFiniteSet({}) /\ Cardinality({}) = 0 BY FS_EmptySet
  <2>4. \A n \in Nat : n + 0 = n /\ n \in 0..n OBVIOUS
  <2> QED BY <2>1, <2>2, <2>3, <2>4, GatewayAssumption DEF GatewayInit, GuardsBalanced, Balanced
<1>5. \A r \in Requests : JobFits(r, job[r])
  <2>1. 0 <= GatewayRetries BY GatewayAssumption
  <2> QED BY <1>1, <1>2, <2>1, FirstOfRoute DEF JobFits
<1>6. \A r \in Requests : StreamFits(r, job[r], out[r], charged[r])
  BY <1>1, <1>2, StagesApart DEF StreamFits
<1> QED BY <1>3, <1>4, <1>5, <1>6 DEF GatewayIInv

LEMMA GatewayIInvSound == GatewayIInv => GatewaySound
<1> SUFFICES ASSUME GatewayIInv PROVE GatewaySound OBVIOUS
<1>1. GatewayTypeOK
  <2>1. /\ places \in [Models -> 0..QueueCapacity] /\ slots \in [Models -> 0..MaxConcurrency]
    BY DEF GatewayIInv, GuardsBalanced, Balanced
  <2>2. \A r \in Requests :
    /\ job[r].attempt <= GatewayRetries
    /\ Routed(r) => job[r].model \in DOMAIN RouteOf[r]
    BY DEF GatewayIInv, JobFits
  <2> QED BY <2>1, <2>2 DEF GatewayIInv, GatewayShape, GatewayTypeOK, Jobs, Counter
<1>2. SlotsConserved BY DEF GatewayIInv, GuardsBalanced, Balanced, Holders, SlotsConserved
<1>3. StreamFromOneAttempt
  <2> SUFFICES ASSUME NEW r \in Requests
      PROVE /\ \A i, j \in DOMAIN out[r] :
               /\ out[r][i].model = out[r][j].model
               /\ out[r][i].attempt = out[r][j].attempt
            /\ \A i \in DOMAIN out[r] : out[r][i].kind = "error" => i = Len(out[r])
            /\ Entry[r] = "stream" /\ charged[r] # {} =>
                 /\ Cardinality(charged[r]) = 1
                 /\ \E i \in DOMAIN out[r] :
                    /\ out[r][i].kind = "last"
                    /\ charged[r] = {[model |-> out[r][i].model, attempt |-> out[r][i].attempt]}
    BY DEF StreamFromOneAttempt
  <2>1. StreamFits(r, job[r], out[r], charged[r]) BY DEF GatewayIInv
  <2>2. \A x : Cardinality({x}) = 1 BY FS_Singleton
  <2>3. ASSUME Entry[r] = "stream", charged[r] # {}
        PROVE  /\ Cardinality(charged[r]) = 1
               /\ \E i \in DOMAIN out[r] :
                  /\ out[r][i].kind = "last"
                  /\ charged[r] = {[model |-> out[r][i].model, attempt |-> out[r][i].attempt]}
    <3>1. PICK i \in DOMAIN out[r] :
      /\ out[r][i].kind = "last"
      /\ charged[r] = {[model |-> out[r][i].model, attempt |-> out[r][i].attempt]}
      BY <2>1, <2>3 DEF StreamFits
    <3> QED BY <2>2, <3>1
  <2> QED BY <2>1, <2>3 DEF StreamFits
<1> QED BY <1>1, <1>2, <1>3 DEF GatewaySound

(* Whatever times out, fails, is cancelled or dropped, the guards of every
   model lose no place and no slot and make none, and the consumer of a
   stream gets the chunks of one attempt and is charged for that one at
   most (ModelGateway, ConcurrencyGuard). *)
THEOREM GatewayHolds == GatewaySpec => []GatewaySound
<1> QED BY GatewayInitIInv, GatewayInductive, GatewayIInvSound, PTL DEF GatewaySpec
=============================================================================
