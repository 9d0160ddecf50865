----------------------------- MODULE Scheduling -----------------------------
(* The task scheduler (capabilities/schedule) in several instances of the
   application that share the Redis lock of infra/resilience.  In each
   instance the schedule loop executes due tasks one after the other, and
   run_once may execute a task beside it. *)
EXTENDS Naturals

CONSTANTS Instances, JobTasks,
          Manual,       \* bound: the instances where run_once is called
          UseLock,      \* a lock_factory is given
          FailureLimit, \* consecutive_failure_limit
          Base, Backoff, BackoffCap, \* the intervals, in ticks
          Unlocked,     \* the lock key does not exist
          Orphan,       \* a token nobody remembers
          NoTask,
          MaxCrashes    \* bound: crashes of instances

ASSUME SchedulingAssumption ==
  /\ Manual \subseteq Instances /\ UseLock \in BOOLEAN /\ FailureLimit \in Nat \ {0}
  /\ Base \in Nat \ {0} /\ Backoff \in Nat /\ BackoffCap \in Nat
  /\ MaxCrashes \in Nat /\ NoTask \notin JobTasks /\ Unlocked # Orphan
  /\ {Unlocked, Orphan} \cap (Instances \X {"loop", "manual"}) = {}

Execs == Instances \X {"loop"} \cup Manual \X {"manual"}
Tokens == Execs \cup {Unlocked, Orphan}

VARIABLES exec,     \* what each execution is doing
          lock,     \* the lock key of each task in Redis
          late,     \* history: executions whose lease ran out under them
          looping,  \* TaskScheduler._running
          failures, \* _consecutive_failures
          paused,   \* _paused
          elapsed,  \* ticks since _last_run
          todo,     \* the rest of a pass of run_all_due, each task with
                    \* the time that had elapsed when the pass began
          crashes

schedVars == <<exec, lock, late, looping, failures, paused, elapsed, todo,
               crashes>>

Resting == [at |-> "idle", task |-> NoTask, result |-> "none"]
Doing(place, t, r) == [at |-> place, task |-> t, result |-> r]

(* next_interval: the interval and, after n failures, an exponential and
   capped backoff. *)
Interval(n) ==
  IF n = 0 THEN Base
  ELSE LET backoff == Backoff * 2^n
       IN  Base + (IF backoff < BackoffCap THEN backoff ELSE BackoffCap)
MaxElapsed == Base + BackoffCap

SchedInit ==
  /\ exec = [x \in Execs |-> Resting]
  /\ lock = [t \in JobTasks |-> Unlocked]
  /\ late = {}
  /\ looping = [i \in Instances |-> FALSE]
  /\ failures = [i \in Instances |-> [t \in JobTasks |-> 0]]
  /\ paused = [i \in Instances |-> {}]
  /\ elapsed = [i \in Instances |-> [t \in JobTasks |-> MaxElapsed]]
  /\ todo = [i \in Instances |-> {}]
  /\ crashes = 0

----------------------------------------
(* Operations on a scheduler. *)

(* register again: counts anew and is due at once, but stays paused. *)
Register(i, t) ==
  /\ failures' = [failures EXCEPT ![i][t] = 0]
  /\ elapsed' = [elapsed EXCEPT ![i][t] = MaxElapsed]
  /\ UNCHANGED <<exec, lock, late, looping, paused, todo, crashes>>

Resume(i, t) ==
  /\ paused' = [paused EXCEPT ![i] = @ \ {t}]
  /\ failures' = [failures EXCEPT ![i][t] = 0]
  /\ UNCHANGED <<exec, lock, late, looping, elapsed, todo, crashes>>

StartLoop(i) ==
  /\ ~looping[i]
  /\ looping' = [looping EXCEPT ![i] = TRUE]
  /\ UNCHANGED <<exec, lock, late, failures, paused, elapsed, todo, crashes>>

(* The end of a release that was cut short: the key, if it is this one's,
   has gone or stays with a token that nobody remembers. *)
LeavesKey(x, t) == lock' \in {[lock EXCEPT ![t] = IF @ = x THEN end ELSE @]
                              : end \in {Unlocked, Orphan}}

(* stop: the loop is cancelled where it waits.  In acquire() the lock may
   have been set already, in the handler the lock is released first, in
   release() the key may be left to its lease. *)
StopLoop(i) ==
  LET x == <<i, "loop">>
      t == exec[x].task
  IN  /\ looping[i]
      /\ looping' = [looping EXCEPT ![i] = FALSE]
      /\ todo' = [todo EXCEPT ![i] = {}]
      /\ \/ exec[x].at = "idle" /\ UNCHANGED <<exec, lock, late>>
         \/ /\ exec[x].at = "locking"
            /\ exec' = [exec EXCEPT ![x] = Resting]
            /\ lock' \in {lock} \cup (IF lock[t] = Unlocked
                                     THEN {[lock EXCEPT ![t] = Orphan]}
                                     ELSE {})
            /\ UNCHANGED late
         \/ /\ exec[x].at = "handler"
            /\ exec' = [exec EXCEPT ![x] =
                          IF UseLock THEN Doing("releasing", t, "cancelled")
                          ELSE Resting]
            /\ UNCHANGED <<lock, late>>
         \/ /\ exec[x].at = "releasing"
            /\ exec' = [exec EXCEPT ![x] = Resting]
            /\ late' = late \ {x}
            /\ LeavesKey(x, t)
      /\ UNCHANGED <<failures, paused, elapsed, crashes>>

(* The memory of a crashed instance is gone, its locks stay in Redis. *)
Crash(i) ==
  /\ crashes < MaxCrashes
  /\ crashes' = crashes + 1
  /\ exec' = [x \in Execs |-> IF x[1] = i THEN Resting ELSE exec[x]]
  /\ late' = {x \in late : x[1] # i}
  /\ lock' = [t \in JobTasks |->
                IF lock[t] \in Execs /\ lock[t][1] = i THEN Orphan
                ELSE lock[t]]
  /\ looping' = [looping EXCEPT ![i] = FALSE]
  /\ failures' = [failures EXCEPT ![i] = [t \in JobTasks |-> 0]]
  /\ paused' = [paused EXCEPT ![i] = {}]
  /\ elapsed' = [elapsed EXCEPT ![i] = [t \in JobTasks |-> MaxElapsed]]
  /\ todo' = [todo EXCEPT ![i] = {}]

----------------------------------------
(* _execute. *)

(* A paused task is skipped; otherwise the lock comes first, if there is
   one.  The loop notes the time of every execution, skipped ones too. *)
Enter(x, t) ==
  /\ exec' = [exec EXCEPT ![x] =
                IF t \in paused[x[1]] THEN Resting
                ELSE Doing(IF UseLock THEN "locking" ELSE "handler", t, "none")]
  /\ elapsed' = IF t \in paused[x[1]] /\ x[2] = "loop"
                THEN [elapsed EXCEPT ![x[1]][t] = 0] ELSE elapsed

RunOnce(i, t) ==
  /\ exec[<<i, "manual">>] = Resting
  /\ Enter(<<i, "manual">>, t)
  /\ UNCHANGED <<lock, late, looping, failures, paused, todo, crashes>>

(* run_all_due reads the clock once and then looks at each task in turn,
   with the count of failures it has by then. *)
RunAllDue(i) ==
  /\ looping[i] /\ exec[<<i, "loop">>] = Resting /\ todo[i] = {}
  /\ \E t \in JobTasks : elapsed[i][t] >= Interval(failures[i][t])
  /\ todo' = [todo EXCEPT ![i] =
                {[task |-> t, elapsed |-> elapsed[i][t]] : t \in JobTasks}]
  /\ UNCHANGED <<exec, lock, late, looping, failures, paused, elapsed,
                 crashes>>

NextDue(i, r) ==
  /\ exec[<<i, "loop">>] = Resting /\ r \in todo[i]
  /\ todo' = [todo EXCEPT ![i] = @ \ {r}]
  /\ IF r.elapsed >= Interval(failures[i][r.task])
     THEN Enter(<<i, "loop">>, r.task)
     ELSE UNCHANGED <<exec, elapsed>>
  /\ UNCHANGED <<lock, late, looping, failures, paused, crashes>>

LeaveLate(x, result) ==
  LET i == x[1]
      t == exec[x].task
      old == failures[i][t]
  IN  /\ exec' = [exec EXCEPT ![x] = Resting]
      /\ late' = late \ {x}
      /\ failures' = [failures EXCEPT ![i][t] =
                        CASE result = "failed" -> old + 1
                          [] result = "ok" -> 0 [] OTHER -> old]
      /\ paused' = IF result = "failed" /\ old >= FailureLimit
                   THEN [paused EXCEPT ![i] = @ \cup {t}] ELSE paused
      /\ elapsed' = IF x[2] = "loop" /\ result # "cancelled"
                    THEN [elapsed EXCEPT ![i][t] = 0] ELSE elapsed

(* What an execution leaves behind in its instance.  _record_failure
   pauses the task at the limit; a success only resets the count. *)
Leave(x, result) ==
  LET i == x[1]
      t == exec[x].task
      n == IF result = "failed" THEN failures[i][t] + 1
           ELSE IF result = "ok" THEN 0 ELSE failures[i][t]
  IN  /\ exec' = [exec EXCEPT ![x] = Resting]
      /\ late' = late \ {x}
      /\ failures' = [failures EXCEPT ![i][t] = n]
      /\ paused' = IF result = "failed" /\ n >= FailureLimit
                   THEN [paused EXCEPT ![i] = @ \cup {t}] ELSE paused
      /\ elapsed' = IF x[2] = "loop" /\ result # "cancelled"
                    THEN [elapsed EXCEPT ![i][t] = 0] ELSE elapsed

(* acquire: SET NX PX with a token of its own. *)
TakeLock(x) ==
  LET t == exec[x].task
  IN  /\ exec[x].at = "locking" /\ lock[t] = Unlocked
      /\ lock' = [lock EXCEPT ![t] = x]
      /\ exec' = [exec EXCEPT ![x].at = "handler"]
      /\ UNCHANGED <<late, looping, failures, paused, elapsed, todo, crashes>>

(* wait_timeout is over: TimeoutError before the lock was taken is a skip. *)
LockTimeout(x) ==
  /\ exec[x].at = "locking" /\ lock[exec[x].task] # Unlocked
  /\ Leave(x, "skipped")
  /\ UNCHANGED <<lock, looping, todo, crashes>>

(* SET raises: that is a failure, and the key may be set all the same. *)
LockError(x) ==
  LET t == exec[x].task
  IN  /\ exec[x].at = "locking"
      /\ lock' \in {lock} \cup (IF lock[t] = Unlocked
                               THEN {[lock EXCEPT ![t] = Orphan]} ELSE {})
      /\ Leave(x, "failed")
      /\ UNCHANGED <<looping, todo, crashes>>

(* The handler returns, raises or is timed out by wait_for. *)
HandlerEnds(x, result) ==
  /\ exec[x].at = "handler"
  /\ IF UseLock
     THEN /\ exec' = [exec EXCEPT ![x] =
                        Doing("releasing", exec[x].task, result)]
          /\ UNCHANGED <<late, failures, paused, elapsed>>
     ELSE Leave(x, result)
  /\ UNCHANGED <<lock, looping, todo, crashes>>

ReleaseAny(x) ==
  LET t == exec[x].task
  IN  /\ exec[x].at = "releasing"
      /\ lock' = [lock EXCEPT ![t] = Unlocked]
      /\ Leave(x, exec[x].result)
      /\ UNCHANGED <<looping, todo, crashes>>

(* release: the script deletes the key only when it holds this token. *)
Release(x) ==
  LET t == exec[x].task
  IN  /\ exec[x].at = "releasing"
      /\ lock' = [lock EXCEPT ![t] = IF @ = x THEN Unlocked ELSE @]
      /\ Leave(x, exec[x].result)
      /\ UNCHANGED <<looping, todo, crashes>>

(* release raises: the execution has failed, whatever its handler did. *)
ReleaseError(x) ==
  LET t == exec[x].task
  IN  /\ exec[x].at = "releasing"
      /\ LeavesKey(x, t)
      /\ Leave(x, "failed")
      /\ UNCHANGED <<looping, todo, crashes>>

(* px runs out, whoever still works under the lock. *)
LeaseExpires(t) ==
  /\ lock[t] # Unlocked
  /\ late' = IF lock[t] \in Execs THEN late \cup {lock[t]} ELSE late
  /\ lock' = [lock EXCEPT ![t] = Unlocked]
  /\ UNCHANGED <<exec, looping, failures, paused, elapsed, todo, crashes>>

Tick ==
  /\ \E i \in Instances, t \in JobTasks : elapsed[i][t] < MaxElapsed
  /\ elapsed' = [i \in Instances |-> [t \in JobTasks |->
       IF elapsed[i][t] < MaxElapsed THEN elapsed[i][t] + 1
       ELSE MaxElapsed]]
  /\ UNCHANGED <<exec, lock, late, looping, failures, paused, todo, crashes>>

ExecStep(x) ==
  \/ TakeLock(x) \/ LockTimeout(x) \/ LockError(x)
  \/ \E r \in {"ok", "failed"} : HandlerEnds(x, r)
  \/ Release(x) \/ ReleaseError(x)

SchedNext ==
  \/ \E i \in Instances :
     \/ StartLoop(i) \/ StopLoop(i) \/ Crash(i)
     \/ RunAllDue(i) \/ \E r \in todo[i] : NextDue(i, r)
  \/ \E i \in Instances, t \in JobTasks : Register(i, t) \/ Resume(i, t)
  \/ \E i \in Manual, t \in JobTasks : RunOnce(i, t)
  \/ \E x \in Execs : ExecStep(x)
  \/ \E t \in JobTasks : LeaseExpires(t)
  \/ Tick

SchedSpec == SchedInit /\ [][SchedNext]_schedVars

----------------------------------------
(* A task is counted as failed beyond the limit at most once for every
   other execution that was under way when it was paused. *)
SchedTypeOK ==
  /\ \A x \in Execs :
       /\ exec[x].at \in {"idle", "locking", "handler", "releasing"}
       /\ exec[x].task \in JobTasks \cup {NoTask}
       /\ exec[x].result \in {"none", "ok", "failed", "cancelled"}
  /\ lock \in [JobTasks -> Tokens] /\ late \subseteq Execs
  /\ looping \in [Instances -> BOOLEAN]
  /\ failures \in [Instances -> [JobTasks -> 0..(FailureLimit + 1)]]
  /\ paused \in [Instances -> SUBSET JobTasks]
  /\ elapsed \in [Instances -> [JobTasks -> 0..MaxElapsed]]
  /\ crashes \in 0..MaxCrashes

Working(t) == {x \in Execs : exec[x].at = "handler" /\ exec[x].task = t}

(* "Single instance only": two executions of a task work at a time, in one
   instance or in two, only if the lease of one has run out; and whoever
   lost the lock does not give away that of the next when it ends. *)
ExclusiveWhileLeased ==
  UseLock => \A t \in JobTasks : \A x, y \in Working(t) \ late : x = y

(* Of all executions of a job, by loops and by hand, in all instances,
   one works at a time, but for those whose lease ran out under them
   (TaskScheduler, DistributedLock). *)
SchedulingSound == SchedTypeOK /\ ExclusiveWhileLeased
=============================================================================
