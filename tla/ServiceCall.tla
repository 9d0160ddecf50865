---------------------------- MODULE ServiceCall -----------------------------
(* Calls of another service: FeignClient (capabilities/http) with its
   circuit breaker (infra/resilience), the in-memory registry
   (capabilities/registry) and a load balancer.

   The calls of one client on one event loop; a step ends where the call
   waits for the network or for its backoff.  A slot of SvcCalls makes one
   call after the other.  Beside it, calls of any function that its caller
   guards himself: by a breaker with a fallback, around retries. *)
EXTENDS Naturals, Sequences, FiniteSets

CONSTANTS SvcCalls,   \* slots for calls under way at one time
          Instances,  \* instances of the service
          SvcTries,   \* retries of FeignClient: attempts of one call
          WindowSize, MinimumCalls, Permitted,     \* CircuitBreakerConfig
          FailureRate, SlowRate, \* thresholds, in tenths
          GuardedCalls, \* calls of functions guarded by a breaker
          GuardRetries  \* RetryConfig.max_retries

ASSUME ServiceAssumption ==
  /\ SvcTries \in Nat \ {0} /\ WindowSize \in Nat \ {0}
  /\ MinimumCalls \in 1..WindowSize /\ Permitted \in Nat \ {0}
  /\ FailureRate \in 1..10 /\ SlowRate \in 1..10
  /\ GuardRetries \in Nat

VARIABLES call,     \* [at, attempt, probe] of each slot
          bucket,   \* InMemoryServiceRegistry: fresh, stale or absent
          breaker,  \* CircuitBreaker._state
          recent,   \* _window: the last results
          inflight, \* _half_open_inflight
          rested,   \* monotonic() >= _open_until
          fallback, \* _fallback: none, or what it returns
          sync,     \* execute, of threads; or execute_async
          guard     \* of each guarded call: [at, probe, tries, last, told, noted]

breakerVars == <<breaker, recent, inflight, rested>>
serviceVars == <<call, bucket, breakerVars>>
guardedVars == <<fallback, sync, guard>>

Rest == [at |-> "idle", attempt |-> 0, probe |-> FALSE]
Running(c) == call[c].at # "idle"
Results == [ok : BOOLEAN, slow : BOOLEAN]

ServiceInit ==
  /\ call = [c \in SvcCalls |-> Rest]
  /\ bucket = [i \in Instances |-> "absent"]
  /\ breaker = "CLOSED" /\ recent = <<>> /\ inflight = 0 /\ rested = FALSE

----------------------------------------
(* The registry; its entries live by register being repeated. *)

RegisterInstance(i) ==
  bucket' = [bucket EXCEPT ![i] = "fresh"] /\ UNCHANGED <<call, breakerVars>>

Deregister(i) ==
  /\ bucket[i] # "absent"
  /\ bucket' = [bucket EXCEPT ![i] = "absent"] /\ UNCHANGED <<call, breakerVars>>

GoesStale(i) ==
  /\ bucket[i] = "fresh"
  /\ bucket' = [bucket EXCEPT ![i] = "stale"] /\ UNCHANGED <<call, breakerVars>>

Healthy == {i \in Instances : bucket[i] = "fresh"}

----------------------------------------
(* The breaker. *)

Opened == breaker = "OPEN" /\ ~rested

(* A mutant: one probe too many. *)
FullOneLate == breaker = "HALF_OPEN" /\ inflight > Permitted

FullOfProbes == breaker = "HALF_OPEN" /\ inflight >= Permitted

(* can_execute lets the call go, and makes an open breaker that has waited
   long enough half open. *)
CanExecute ==
  /\ ~Opened /\ ~FullOfProbes
  /\ IF breaker = "CLOSED" THEN UNCHANGED <<breaker, inflight>>
     ELSE /\ breaker' = "HALF_OPEN"
          /\ inflight' = IF breaker = "OPEN" THEN 1 ELSE inflight + 1
  /\ UNCHANGED <<recent, rested>>

Latest(s) == IF Len(s) > WindowSize THEN Tail(s) ELSE s
Share(s, P(_)) == Cardinality({i \in DOMAIN s : P(s[i])})
Trips(s) ==
  /\ Len(s) >= MinimumCalls
  /\ LET failed(x) == ~x.ok
         late(x) == x.slow
     IN  \/ 10 * Share(s, failed) >= FailureRate * Len(s)
         \/ 10 * Share(s, late) >= SlowRate * Len(s)

(* _record: in HALF_OPEN whoever comes first decides, a call from before
   the breaker opened as well. *)
Record(ok, slow) ==
  LET results == Latest(Append(recent, [ok |-> ok, slow |-> slow]))
      trips == breaker = "CLOSED" /\ Trips(results)
  IN  /\ recent' = IF breaker = "HALF_OPEN" /\ ok THEN <<>> ELSE results
      /\ breaker' = IF breaker = "HALF_OPEN"
                    THEN IF ok THEN "CLOSED" ELSE "OPEN"
                    ELSE IF trips THEN "OPEN" ELSE breaker
      /\ inflight' = IF breaker = "HALF_OPEN" /\ inflight > 0
                     THEN inflight - 1 ELSE inflight
      /\ rested' = (rested /\ breaker # "HALF_OPEN" /\ ~trips)

Rests ==
  /\ breaker = "OPEN" /\ ~rested
  /\ rested' = TRUE /\ UNCHANGED <<call, bucket, breaker, recent, inflight>>

----------------------------------------
(* A call. *)

(* Half open is over when a result came: no running call is a probe then. *)
Ends(c) ==
  call' = [x \in SvcCalls |->
             IF x = c THEN Rest
             ELSE IF breaker = "HALF_OPEN" THEN [call[x] EXCEPT !.probe = FALSE]
             ELSE call[x]]

EndsWith(c, ok) ==
  /\ \E slow \in BOOLEAN : Record(ok, slow)
  /\ Ends(c)

StartCall(c) ==
  /\ ~Running(c) /\ CanExecute
  /\ call' = [call EXCEPT ![c] = [at |-> "attempt", attempt |-> 0,
                                  probe |-> breaker # "CLOSED"]]
  /\ UNCHANGED bucket

(* The instances, the stale ones dropped from the registry, and one chosen
   by the balancer; without any the call fails at once. *)
Discover(c) ==
  /\ call[c].at = "attempt"
  /\ bucket' = [i \in Instances |-> IF i \in Healthy THEN "fresh" ELSE "absent"]
  /\ IF Healthy = {} THEN EndsWith(c, FALSE)
     ELSE call' = [call EXCEPT ![c].at = "sent"] /\ UNCHANGED breakerVars

(* Any response is a success, one of status 5xx or 429 too: nothing raises
   HTTPStatusError. *)
Responds(c) == call[c].at = "sent" /\ EndsWith(c, TRUE) /\ UNCHANGED bucket

(* A timeout or a failed connection is tried again, other errors are not:
   that of a connection that breaks, say, or of an address refused by the
   caller's validator. *)
IsRetriable(error) == error \in {"timeout", "connect"}
Fails(c, error) ==
  /\ call[c].at = "sent"
  /\ IF IsRetriable(error) /\ call[c].attempt + 1 < SvcTries
     THEN call' = [call EXCEPT ![c].at = "backoff"] /\ UNCHANGED breakerVars
     ELSE EndsWith(c, FALSE)
  /\ UNCHANGED bucket

RetriesCall(c) ==
  /\ call[c].at = "backoff"
  /\ call' = [call EXCEPT ![c].at = "attempt", ![c].attempt = @ + 1]
  /\ UNCHANGED <<bucket, breakerVars>>

(* The exit of a cancelled call that leaves the breaker alone: a mutant. *)
EndsUnrecorded(c) == call' = [call EXCEPT ![c] = Rest]
                     /\ UNCHANGED breakerVars

(* except CancelledError: recorded as a failure, then raised on. *)
CancelledExit(c) == EndsWith(c, FALSE)

CancelCall(c) ==
  /\ call[c].at \in {"sent", "backoff"}
  /\ CancelledExit(c) /\ UNCHANGED bucket

ServiceNext ==
  \/ Rests
  \/ \E i \in Instances : RegisterInstance(i) \/ Deregister(i) \/ GoesStale(i)
  \/ \E c \in SvcCalls :
     \/ StartCall(c) \/ Discover(c) \/ Responds(c)
     \/ RetriesCall(c) \/ CancelCall(c)
     \/ \E error \in {"timeout", "connect", "other"} : Fails(c, error)

ServiceSpec == ServiceInit /\ [][ServiceNext]_serviceVars

----------------------------------------
(* Guarded calls: the breaker around a function that the retry decorator
   wraps.  Threads interleave between the locked sections of the breaker.
   `tries` counts calls of the function, `noted` results recorded. *)

Unguarded == [at |-> "idle", probe |-> FALSE, tries |-> 0, last |-> "none", told |-> "none",
              noted |-> 0]

GuardedInit ==
  /\ fallback \in {"none", "value", "awaitable"} /\ sync \in BOOLEAN
  /\ guard = [g \in GuardedCalls |-> Unguarded]

Guarding(g) == guard[g].at \in {"trying", "sleeping", "recording"}

(* _run_fallback; _run_fallback_async. *)
RunFallback == CASE fallback = "none" -> "open" [] fallback = "value" -> "fallback"
                 [] OTHER -> "type error"
RunFallbackAsync == IF fallback = "none" THEN "open" ELSE "fallback"
FallsBack == IF sync THEN RunFallback ELSE RunFallbackAsync

StartsGuarded(g) ==
  /\ guard[g].at = "idle" /\ CanExecute
  /\ guard' = [guard EXCEPT ![g] =
                 [Unguarded EXCEPT !.at = "trying", !.probe = breaker # "CLOSED"]]
  /\ UNCHANGED <<fallback, sync>>

RefusedGuarded(g) ==
  /\ guard[g].at = "idle" /\ (Opened \/ FullOfProbes)
  /\ guard' = [guard EXCEPT ![g] = [Unguarded EXCEPT !.at = "done", !.told = FallsBack]]
  /\ UNCHANGED <<fallback, sync, breakerVars>>

(* A function returns, raises, or is cancelled or interrupted. *)
FunctionEnds == {"ok", "transient", "other", "interrupted"}
IsTransient(e) == e = "transient"

(* A mutant: whatever is raised is tried again. *)
RetriesAny(g, end) ==
  /\ guard[g].at = "trying"
  /\ guard' = [guard EXCEPT ![g].tries = @ + 1, ![g].last = end,
       ![g].at = IF end \in {"transient", "other"} /\ guard[g].tries < GuardRetries
                 THEN "sleeping" ELSE "recording"]
  /\ UNCHANGED <<fallback, sync, breakerVars>>

(* retry: the transient errors are tried again after a pause. *)
Retried(g, end) ==
  /\ guard[g].at = "trying"
  /\ guard' = [guard EXCEPT ![g].tries = @ + 1, ![g].last = end,
       ![g].at = IF IsTransient(end) /\ guard[g].tries < GuardRetries
                 THEN "sleeping" ELSE "recording"]
  /\ UNCHANGED <<fallback, sync, breakerVars>>

(* The pause of a coroutine may be cancelled, that of a thread interrupted. *)
PauseEnds(g) ==
  /\ guard[g].at = "sleeping"
  /\ \/ guard' = [guard EXCEPT ![g].at = "trying"]
     \/ guard' = [guard EXCEPT ![g].at = "recording", ![g].last = "interrupted"]
  /\ UNCHANGED <<fallback, sync, breakerVars>>

(* _execute_sync, _execute_async: the one result is recorded, and an error
   that is an Exception gives way to the fallback. *)
EndsGuarded(g) ==
  LET told == CASE guard[g].last = "ok" -> "value"
                [] guard[g].last = "interrupted" -> "interrupted"
                [] OTHER -> IF fallback = "none" THEN "error" ELSE FallsBack
      rests == [guard EXCEPT ![g].at = "done", ![g].probe = FALSE, ![g].told = told,
                             ![g].noted = @ + 1]
  IN  /\ guard[g].at = "recording"
      /\ \E slow \in BOOLEAN : Record(guard[g].last = "ok", slow)
      /\ guard' = IF breaker = "HALF_OPEN"
                  THEN [h \in GuardedCalls |-> [rests[h] EXCEPT !.probe = FALSE]] ELSE rests
      /\ UNCHANGED <<fallback, sync>>

CallsGuardedAgain(g) ==
  /\ guard[g].at = "done" /\ guard' = [guard EXCEPT ![g] = Unguarded]
  /\ UNCHANGED <<fallback, sync, breakerVars>>

GuardedNext ==
  \/ Rests /\ UNCHANGED guardedVars
  \/ /\ UNCHANGED <<call, bucket>>
     /\ \E g \in GuardedCalls :
          \/ StartsGuarded(g) \/ RefusedGuarded(g) \/ PauseEnds(g) \/ EndsGuarded(g)
          \/ CallsGuardedAgain(g) \/ \E end \in FunctionEnds : Retried(g, end)

----------------------------------------
(* Types. *)
ServiceTypeOK ==
  /\ call \in [SvcCalls -> [at : {"idle", "attempt", "sent", "backoff"},
                            attempt : 0..(SvcTries - 1), probe : BOOLEAN]]
  /\ bucket \in [Instances -> {"fresh", "stale", "absent"}]
  /\ breaker \in {"CLOSED", "OPEN", "HALF_OPEN"}
  /\ recent \in Seq(Results) /\ Len(recent) <= WindowSize
  /\ inflight \in 0..Permitted /\ rested \in BOOLEAN

(* The permits of a half-open breaker are held by calls that are running
   and were let through since it became half open: neither cancelled calls
   nor results that come late leave it half open with no probe to decide. *)
PermitsHeld ==
  breaker = "HALF_OPEN" =>
    /\ inflight = Cardinality({c \in SvcCalls : Running(c) /\ call[c].probe})
                  + Cardinality({g \in GuardedCalls : Guarding(g) /\ guard[g].probe})
    /\ inflight \in 1..Permitted

(* Whatever a guarded call comes to, it has called its function as often
   as the retries allow, and more than once after transient errors alone;
   it has left one result with the breaker, cancelled or not, or was
   refused and never called the function; and a value it returns without a
   fallback is that of the function (retry, _execute_sync, _execute_async). *)
GuardedOnce ==
  \A g \in GuardedCalls :
    /\ guard[g].tries <= GuardRetries + 1
    /\ guard[g].at = "sleeping" => guard[g].last = "transient"
    /\ guard[g].at = "done" =>
         /\ guard[g].noted = (IF guard[g].tries = 0 THEN 0 ELSE 1)
         /\ (guard[g].told = "value") <=> (guard[g].last = "ok")
         /\ guard[g].last = "transient" => guard[g].tries = GuardRetries + 1
         /\ guard[g].told = "open" => fallback = "none" /\ guard[g].tries = 0
         /\ guard[g].told = "type error" => sync /\ fallback = "awaitable"

(* A half-open breaker always has a probe left to decide, and a guarded
   call is repeated and reported as it should be (CircuitBreaker, retry). *)
CallsSound == ServiceTypeOK /\ PermitsHeld /\ GuardedOnce
=============================================================================
