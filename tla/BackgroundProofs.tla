-------------------------- MODULE BackgroundProofs --------------------------
(***************************************************************************)
(* Proofs about Scheduling, for any number of instances and tasks, with    *)
(* and without a lock, for every limit, interval and number of crashes;    *)
(* and about Tasks, for any number of calls, threads, ids and records, and *)
(* for any number of threads that ask for the shared pool.                 *)
(***************************************************************************)
EXTENDS Tasks, Scheduling, FiniteSetTheorems, FunctionTheorems, SequenceTheorems, TLAPS

----------------------------------------
(* The inductive invariant of Scheduling. *)

ExecStates == [at : {"idle", "locking", "handler", "releasing"}, task : JobTasks \cup {NoTask},
               result : {"none", "ok", "failed", "cancelled"}]

SchedShape ==
  /\ exec \in [Execs -> ExecStates]
  /\ \A x \in Execs : exec[x].at # "idle" => exec[x].task \in JobTasks
  /\ lock \in [JobTasks -> Tokens] /\ late \subseteq Execs
  /\ looping \in [Instances -> BOOLEAN]
  /\ paused \in [Instances -> SUBSET JobTasks]
  /\ elapsed \in [Instances -> [JobTasks -> 0..MaxElapsed]]
  /\ todo \in [Instances -> SUBSET [task : JobTasks, elapsed : 0..MaxElapsed]]
  /\ crashes \in 0..MaxCrashes

(* Without a lock_factory nobody asks for a lock. *)
LockUnused ==
  ~UseLock =>
    /\ \A x \in Execs : exec[x].at \in {"idle", "handler"}
    /\ late = {}
    /\ \A t \in JobTasks : lock[t] \notin Execs

Holding(x) == exec[x].at \in {"handler", "releasing"}

(* Whoever works under a lock has its token in Redis, as long as its lease
   lasts, and a token of an execution is that of one that works on the
   task; only those whose lease ran out are late. *)
HoldersHaveTokens ==
  UseLock => \A x \in Execs : Holding(x) /\ x \notin late => lock[exec[x].task] = x
TokensAreHeld ==
  \A t \in JobTasks : lock[t] \in Execs =>
    Holding(lock[t]) /\ exec[lock[t]].task = t /\ lock[t] \notin late
LateLostTheirs == \A x \in late : Holding(x) /\ lock[exec[x].task] # x

(* An instance works on a task at most once by its loop and once by hand. *)
Busy(i, kind, t) ==
  <<i, kind>> \in Execs /\ exec[<<i, kind>>].at # "idle" /\ exec[<<i, kind>>].task = t

(* A task at the limit is paused, and one execution at most that began
   before may still count another failure. *)
LimitPauses ==
  /\ failures \in [Instances -> [JobTasks -> 0..(FailureLimit + 1)]]
  /\ \A i \in Instances, t \in JobTasks :
       /\ failures[i][t] >= FailureLimit =>
            t \in paused[i] /\ ~(Busy(i, "loop", t) /\ Busy(i, "manual", t))
       /\ failures[i][t] > FailureLimit => ~Busy(i, "loop", t) /\ ~Busy(i, "manual", t)

SchedIInv == /\ SchedShape /\ LockUnused /\ HoldersHaveTokens /\ TokensAreHeld
             /\ LateLostTheirs /\ LimitPauses

----------------------------------------
(* Functions of two arguments, updated at one place. *)
LEMMA UpdateAt ==
  ASSUME NEW A, NEW B, NEW V, NEW f \in [A -> [B -> V]],
         NEW a \in A, NEW b \in B, NEW v \in V
  PROVE  /\ [f EXCEPT ![a][b] = v] \in [A -> [B -> V]]
         /\ \A c \in A, d \in B : [f EXCEPT ![a][b] = v][c][d] =
              IF c = a /\ d = b THEN v ELSE f[c][d]
  OBVIOUS

LEMMA ExecParts ==
  ASSUME NEW x \in Execs
  PROVE  x[1] \in Instances /\ x[2] \in {"loop", "manual"} /\ x = <<x[1], x[2]>>
  BY SchedulingAssumption DEF Execs

LEMMA NotTokens == Unlocked \notin Execs /\ Orphan \notin Execs /\ Unlocked # Orphan
  BY SchedulingAssumption DEF Execs

LEMMA SchedInitIInv == SchedInit => SchedIInv
<1> SUFFICES ASSUME SchedInit PROVE SchedIInv OBVIOUS
<1>1. SchedShape
  BY SchedulingAssumption DEF SchedInit, SchedShape, ExecStates, Resting, Tokens, MaxElapsed
<1>2. LockUnused /\ HoldersHaveTokens /\ TokensAreHeld /\ LateLostTheirs
  BY NotTokens DEF SchedInit, LockUnused, HoldersHaveTokens, TokensAreHeld,
     LateLostTheirs, Holding, Resting
<1>3. LimitPauses BY SchedulingAssumption DEF SchedInit, LimitPauses
<1> QED BY <1>1, <1>2, <1>3 DEF SchedIInv

(* An execution that leaves: what _record_failure and _record_success do
   keeps the count within the limit. *)
LEMMA LeaveKeeps ==
  ASSUME SchedIInv, NEW x \in Execs, NEW result, exec[x].at # "idle", Leave(x, result)
  PROVE  /\ exec' = [exec EXCEPT ![x] = Resting]
         /\ late' = late \ {x}
         /\ paused' \in [Instances -> SUBSET JobTasks]
         /\ elapsed' \in [Instances -> [JobTasks -> 0..MaxElapsed]]
         /\ LimitPauses'
<1> DEFINE i == x[1]
           t == exec[x].task
           n == IF result = "failed" THEN failures[i][t] + 1
                ELSE IF result = "ok" THEN 0 ELSE failures[i][t]
<1>1. i \in Instances /\ t \in JobTasks /\ x[2] \in {"loop", "manual"} /\ x = <<i, x[2]>>
  BY ExecParts DEF SchedIInv, SchedShape
<1>2. exec' = [exec EXCEPT ![x] = Resting] /\ late' = late \ {x} BY DEF Leave
<1>3. paused' \in [Instances -> SUBSET JobTasks] BY <1>1 DEF Leave, SchedIInv, SchedShape
<1>4. elapsed' \in [Instances -> [JobTasks -> 0..MaxElapsed]]
  <2>1. 0 \in 0..MaxElapsed BY SchedulingAssumption DEF MaxElapsed
  <2> QED BY <1>1, <2>1, UpdateAt DEF Leave, SchedIInv, SchedShape
<1>5. Busy(i, x[2], t) BY <1>1 DEF Busy
<1>6. failures[i][t] \in 0..FailureLimit /\ n \in 0..(FailureLimit + 1)
  BY <1>1, <1>5, SchedulingAssumption DEF SchedIInv, LimitPauses
<1>7. failures' \in [Instances -> [JobTasks -> 0..(FailureLimit + 1)]]
  BY <1>1, <1>6, UpdateAt DEF Leave, SchedIInv, LimitPauses
<1>8. ASSUME NEW j \in Instances, NEW u \in JobTasks
      PROVE  /\ failures'[j][u] >= FailureLimit =>
                  u \in paused'[j] /\ ~(Busy(j, "loop", u)' /\ Busy(j, "manual", u)')
             /\ failures'[j][u] > FailureLimit => ~Busy(j, "loop", u)' /\ ~Busy(j, "manual", u)'
  <2>1. \A kind \in {"loop", "manual"} : Busy(j, kind, u)' => Busy(j, kind, u) /\ <<j, kind>> # x
    BY <1>2 DEF Busy, Resting, SchedIInv, SchedShape
  <2>2. paused[j] \subseteq paused'[j] BY <1>1 DEF Leave, SchedIInv, SchedShape
  <2>3. CASE j = i /\ u = t
    <3>1. failures'[j][u] = n BY <1>1, <1>6, <2>3, UpdateAt DEF Leave, SchedIInv, LimitPauses
    <3>2. n >= FailureLimit => u \in paused'[j] BY <1>1, <1>6, <2>2, <2>3, SchedulingAssumption
      DEF Leave, SchedIInv, SchedShape, LimitPauses
    <3>3. ~(Busy(j, "loop", u)' /\ Busy(j, "manual", u)') BY <1>1, <2>1, <2>3
    <3>4. n > FailureLimit => ~Busy(j, "loop", u)' /\ ~Busy(j, "manual", u)'
      <4> SUFFICES ASSUME n > FailureLimit PROVE ~Busy(j, "loop", u)' /\ ~Busy(j, "manual", u)'
        OBVIOUS
      <4>1. failures[i][t] >= FailureLimit BY <1>6, SchedulingAssumption
      <4>2. ~(Busy(i, "loop", t) /\ Busy(i, "manual", t)) BY <1>1, <4>1 DEF SchedIInv, LimitPauses
      <4> QED BY <1>1, <1>5, <2>1, <2>3, <4>2
    <3> HIDE DEF n
    <3> QED BY <3>1, <3>2, <3>3, <3>4
  <2>4. CASE ~(j = i /\ u = t)
    <3>1. failures'[j][u] = failures[j][u]
      BY <1>1, <1>6, <2>4, UpdateAt DEF Leave, SchedIInv, LimitPauses
    <3> QED BY <3>1, <2>1, <2>2 DEF SchedIInv, LimitPauses
  <2> QED BY <2>3, <2>4
<1> QED BY <1>2, <1>3, <1>4, <1>7, <1>8 DEF LimitPauses

(* ... and what it leaves in Redis is nobody's. *)
LEMMA LeaveIInv ==
  ASSUME SchedIInv, NEW x \in Execs, NEW result, exec[x].at # "idle",
         Leave(x, result), lock' \in [JobTasks -> Tokens],
         \A u \in JobTasks :
           \/ lock'[u] = lock[u] /\ lock[u] # x
           \/ lock[u] \in {x, Unlocked} /\ lock'[u] \in {Unlocked, Orphan},
         UNCHANGED <<looping, todo, crashes>>
  PROVE  SchedIInv'
<1>1. /\ exec' = [exec EXCEPT ![x] = Resting] /\ late' = late \ {x}
      /\ paused' \in [Instances -> SUBSET JobTasks]
      /\ elapsed' \in [Instances -> [JobTasks -> 0..MaxElapsed]]
      /\ LimitPauses'
  BY LeaveKeeps
<1>2. SchedShape' BY <1>1 DEF SchedIInv, SchedShape, ExecStates, Resting
<1>3. /\ exec'[x].at = "idle"
      /\ \A y \in Execs : y # x => exec'[y] = exec[y]
  BY <1>1 DEF SchedIInv, SchedShape, Resting
<1>4. LockUnused' BY <1>1, <1>3, NotTokens DEF SchedIInv, LockUnused
<1>5. HoldersHaveTokens'
  <2> SUFFICES ASSUME UseLock, NEW y \in Execs, Holding(y)', y \notin late'
               PROVE  lock'[exec'[y].task] = y
    BY DEF HoldersHaveTokens
  <2>1. y # x /\ exec'[y] = exec[y] /\ y \notin late BY <1>1, <1>3 DEF Holding
  <2>2. lock[exec[y].task] = y /\ exec[y].task \in JobTasks
    BY <2>1 DEF SchedIInv, SchedShape, HoldersHaveTokens, Holding
  <2> QED BY <2>1, <2>2, NotTokens
<1>6. TokensAreHeld'
  <2> SUFFICES ASSUME NEW u \in JobTasks, lock'[u] \in Execs
               PROVE  Holding(lock[u])' /\ exec'[lock'[u]].task = u /\ lock'[u] \notin late'
    BY DEF TokensAreHeld, Holding
  <2>1. lock'[u] = lock[u] /\ lock[u] # x BY NotTokens
  <2> QED BY <1>1, <1>3, <2>1 DEF SchedIInv, TokensAreHeld, Holding
<1>7. LateLostTheirs'
  <2> SUFFICES ASSUME NEW y \in late' PROVE Holding(y)' /\ lock'[exec'[y].task] # y
    BY DEF LateLostTheirs
  <2>1. y \in late /\ y # x /\ y \in Execs /\ exec'[y] = exec[y]
    BY <1>1, <1>3 DEF SchedIInv, SchedShape
  <2>2. Holding(y) /\ exec[y].task \in JobTasks /\ lock[exec[y].task] # y
    BY <2>1 DEF SchedIInv, SchedShape, LateLostTheirs, Holding
  <2> QED BY <2>1, <2>2, NotTokens DEF Holding
<1> QED BY <1>1, <1>2, <1>4, <1>5, <1>6, <1>7 DEF SchedIInv

(* A step that begins no execution of a paused task and counts no failure. *)
LEMMA LimitKept ==
  ASSUME LimitPauses, UNCHANGED failures, \A i \in Instances : paused[i] \subseteq paused'[i],
         \A i \in Instances, t \in JobTasks, kind \in {"loop", "manual"} :
           t \in paused[i] /\ Busy(i, kind, t)' => Busy(i, kind, t)
  PROVE  LimitPauses'
<1> SUFFICES ASSUME NEW i \in Instances, NEW t \in JobTasks, failures[i][t] >= FailureLimit
             PROVE  /\ t \in paused'[i] /\ ~(Busy(i, "loop", t)' /\ Busy(i, "manual", t)')
                    /\ failures[i][t] > FailureLimit =>
                         ~Busy(i, "loop", t)' /\ ~Busy(i, "manual", t)'
  BY SchedulingAssumption DEF LimitPauses
<1>1. t \in paused[i] BY DEF LimitPauses
<1>2. \A kind \in {"loop", "manual"} : Busy(i, kind, t)' => Busy(i, kind, t) BY <1>1
<1> QED BY <1>1, <1>2 DEF LimitPauses

(* _execute begins, in an execution that rests. *)
LEMMA EnterIInv ==
  ASSUME SchedIInv, NEW x \in Execs, NEW t \in JobTasks, exec[x] = Resting,
         Enter(x, t), todo' \in [Instances -> SUBSET [task : JobTasks, elapsed : 0..MaxElapsed]],
         UNCHANGED <<lock, late, looping, failures, paused, crashes>>
  PROVE  SchedIInv'
<1>1. x[1] \in Instances BY ExecParts
<1> DEFINE s == IF t \in paused[x[1]] THEN Resting
                ELSE Doing(IF UseLock THEN "locking" ELSE "handler", t, "none")
<1>2. /\ s \in ExecStates /\ exec' = [exec EXCEPT ![x] = s]
      /\ s.at \in {"idle", "locking", "handler"}
      /\ s.at # "idle" => s.task = t /\ t \notin paused[x[1]]
      /\ s.at = "locking" => UseLock
      /\ s.at = "handler" => ~UseLock
  <2>1. exec' = [exec EXCEPT ![x] = s] BY DEF Enter
  <2>2. CASE t \in paused[x[1]] BY <2>1, <2>2 DEF ExecStates, Resting
  <2>3. CASE t \notin paused[x[1]] /\ UseLock BY <2>1, <2>3 DEF ExecStates, Doing
  <2>4. CASE t \notin paused[x[1]] /\ ~UseLock BY <2>1, <2>4 DEF ExecStates, Doing
  <2> QED BY <2>2, <2>3, <2>4
<1> HIDE DEF s
<1>3. /\ exec'[x] = s /\ exec[x].at = "idle"
      /\ \A y \in Execs : y # x => exec'[y] = exec[y]
  BY <1>2 DEF SchedIInv, SchedShape, Resting
<1>4. elapsed' \in [Instances -> [JobTasks -> 0..MaxElapsed]]
  <2>1. 0 \in 0..MaxElapsed BY SchedulingAssumption DEF MaxElapsed
  <2> QED BY <1>1, <2>1, UpdateAt DEF Enter, SchedIInv, SchedShape
<1>5. SchedShape' BY <1>2, <1>3, <1>4 DEF SchedIInv, SchedShape
<1>6. LockUnused' BY <1>2, <1>3 DEF SchedIInv, LockUnused
<1>7. HoldersHaveTokens' BY <1>2, <1>3 DEF SchedIInv, HoldersHaveTokens, Holding
<1>8. TokensAreHeld'
  <2>1. \A u \in JobTasks : lock[u] \in Execs => lock[u] # x
    BY <1>3 DEF SchedIInv, TokensAreHeld, Holding
  <2> QED BY <1>3, <2>1 DEF SchedIInv, TokensAreHeld, Holding
<1>9. LateLostTheirs'
  <2>1. x \notin late BY <1>3 DEF SchedIInv, LateLostTheirs, Holding
  <2> QED BY <1>3, <2>1 DEF SchedIInv, SchedShape, LateLostTheirs, Holding
<1>10. LimitPauses'
  <2>1. \A i \in Instances, u \in JobTasks, kind \in {"loop", "manual"} :
          Busy(i, kind, u)' =>
            \/ Busy(i, kind, u)
            \/ u = t /\ i = x[1] /\ t \notin paused[i]
    BY <1>2, <1>3 DEF Busy
  <2> QED BY <2>1, LimitKept DEF SchedIInv
<1> QED BY <1>5, <1>6, <1>7, <1>8, <1>9, <1>10 DEF SchedIInv

----------------------------------------
(* One lemma for each group of actions. *)

LEMMA RegisterResumeIInv ==
  ASSUME SchedIInv, NEW i \in Instances, NEW t \in JobTasks, Register(i, t) \/ Resume(i, t)
  PROVE  SchedIInv'
<1>1. 0 \in 0..(FailureLimit + 1) /\ MaxElapsed \in 0..MaxElapsed
  BY SchedulingAssumption DEF MaxElapsed
<1>2. /\ failures' \in [Instances -> [JobTasks -> 0..(FailureLimit + 1)]]
      /\ \A j \in Instances, u \in JobTasks :
           failures'[j][u] = IF j = i /\ u = t THEN 0 ELSE failures[j][u]
  <2>1. failures' = [failures EXCEPT ![i][t] = 0] BY DEF Register, Resume
  <2>2. failures \in [Instances -> [JobTasks -> 0..(FailureLimit + 1)]]
    BY DEF SchedIInv, LimitPauses
  <2>3. failures' \in [Instances -> [JobTasks -> 0..(FailureLimit + 1)]]
    BY <1>1, <2>1, <2>2, UpdateAt
  <2> QED BY <2>1, <2>2, <2>3
<1>3. elapsed' \in [Instances -> [JobTasks -> 0..MaxElapsed]]
  <2>1. elapsed' = elapsed \/ elapsed' = [elapsed EXCEPT ![i][t] = MaxElapsed]
    BY DEF Register, Resume
  <2>2. elapsed \in [Instances -> [JobTasks -> 0..MaxElapsed]] BY DEF SchedIInv, SchedShape
  <2>3. [elapsed EXCEPT ![i][t] = MaxElapsed] \in [Instances -> [JobTasks -> 0..MaxElapsed]]
    BY <1>1, <2>2, UpdateAt
  <2> QED BY <2>1, <2>2, <2>3
<1>4. /\ paused' \in [Instances -> SUBSET JobTasks]
      /\ \A j \in Instances, u \in JobTasks :
           u \in paused[j] /\ ~(j = i /\ u = t) => u \in paused'[j]
  BY DEF Register, Resume, SchedIInv, SchedShape
<1>5. UNCHANGED <<exec, lock, late, looping, todo, crashes>> BY DEF Register, Resume
<1>6. SchedShape' /\ LockUnused' /\ HoldersHaveTokens' /\ TokensAreHeld' /\ LateLostTheirs'
  BY <1>3, <1>4, <1>5 DEF SchedIInv, SchedShape, LockUnused, HoldersHaveTokens,
     TokensAreHeld, LateLostTheirs, Holding
<1>7. LimitPauses'
  <2>1. \A j \in Instances, u \in JobTasks, kind \in {"loop", "manual"} :
          Busy(j, kind, u)' <=> Busy(j, kind, u)
    BY <1>5 DEF Busy
  <2>2. ~(0 >= FailureLimit) BY SchedulingAssumption
  <2> QED BY <1>2, <1>4, <2>1, <2>2, SchedulingAssumption DEF SchedIInv, LimitPauses
<1> QED BY <1>6, <1>7 DEF SchedIInv

(* StartLoop, Tick and RunAllDue touch neither executions nor locks. *)
LEMMA LoopIInv ==
  ASSUME SchedIInv,
         \/ \E i \in Instances : StartLoop(i) \/ RunAllDue(i)
         \/ Tick
  PROVE  SchedIInv'
<1>1. UNCHANGED <<exec, lock, late, failures, paused, crashes>> BY DEF StartLoop, RunAllDue, Tick
<1>2. looping' \in [Instances -> BOOLEAN] BY DEF StartLoop, RunAllDue, Tick, SchedIInv, SchedShape
<1>3. elapsed' \in [Instances -> [JobTasks -> 0..MaxElapsed]]
  <2>1. CASE Tick
    <3>1. \A i \in Instances, t \in JobTasks : elapsed[i][t] \in 0..MaxElapsed /\ MaxElapsed \in Nat
      BY SchedulingAssumption DEF SchedIInv, SchedShape, MaxElapsed
    <3>2. \A i \in Instances, t \in JobTasks :
            (IF elapsed[i][t] < MaxElapsed THEN elapsed[i][t] + 1 ELSE MaxElapsed) \in 0..MaxElapsed
      BY <3>1
    <3> QED BY <2>1, <3>2 DEF Tick
  <2>2. CASE \E i \in Instances : StartLoop(i) \/ RunAllDue(i)
    BY <2>2 DEF StartLoop, RunAllDue, SchedIInv, SchedShape
  <2> QED BY <2>1, <2>2
<1>4. todo' \in [Instances -> SUBSET [task : JobTasks, elapsed : 0..MaxElapsed]]
  <2>1. ASSUME NEW i \in Instances, RunAllDue(i)
        PROVE  todo' \in [Instances -> SUBSET [task : JobTasks, elapsed : 0..MaxElapsed]]
    <3>1. \A t \in JobTasks : elapsed[i][t] \in 0..MaxElapsed BY DEF SchedIInv, SchedShape
    <3>2. {[task |-> t, elapsed |-> elapsed[i][t]] : t \in JobTasks}
            \in SUBSET [task : JobTasks, elapsed : 0..MaxElapsed]
      BY <3>1
    <3> QED BY <2>1, <3>2 DEF RunAllDue, SchedIInv, SchedShape
  <2> QED BY <2>1 DEF StartLoop, Tick, SchedIInv, SchedShape
<1>5. SchedShape' /\ LockUnused' /\ HoldersHaveTokens' /\ TokensAreHeld' /\ LateLostTheirs'
  BY <1>1, <1>2, <1>3, <1>4 DEF SchedIInv, SchedShape, LockUnused, HoldersHaveTokens,
     TokensAreHeld, LateLostTheirs, Holding
<1>6. LimitPauses' BY <1>1, LimitKept DEF SchedIInv, Busy
<1> QED BY <1>5, <1>6 DEF SchedIInv

LEMMA NextDueIInv ==
  ASSUME SchedIInv, NEW i \in Instances, NEW r \in todo[i], NextDue(i, r) PROVE SchedIInv'
<1>1. r.task \in JobTasks /\ <<i, "loop">> \in Execs BY DEF SchedIInv, SchedShape, Execs
<1>2. todo' \in [Instances -> SUBSET [task : JobTasks, elapsed : 0..MaxElapsed]]
  BY DEF NextDue, SchedIInv, SchedShape
<1>3. CASE Enter(<<i, "loop">>, r.task) BY <1>1, <1>2, <1>3, EnterIInv DEF NextDue
<1>4. CASE UNCHANGED <<exec, elapsed>>
  <2>1. UNCHANGED <<exec, lock, late, looping, failures, paused, elapsed, crashes>>
    BY <1>4 DEF NextDue
  <2>2. SchedShape' /\ LockUnused' /\ HoldersHaveTokens' /\ TokensAreHeld' /\ LateLostTheirs'
    BY <1>2, <2>1 DEF SchedIInv, SchedShape, LockUnused, HoldersHaveTokens,
       TokensAreHeld, LateLostTheirs, Holding
  <2>3. LimitPauses' BY <2>1, LimitKept DEF SchedIInv, Busy
  <2> QED BY <2>2, <2>3 DEF SchedIInv
<1> QED BY <1>3, <1>4 DEF NextDue

LEMMA RunOnceIInv ==
  ASSUME SchedIInv, NEW i \in Manual, NEW t \in JobTasks, RunOnce(i, t) PROVE SchedIInv'
<1>1. <<i, "manual">> \in Execs BY DEF Execs
<1>2. todo' \in [Instances -> SUBSET [task : JobTasks, elapsed : 0..MaxElapsed]]
  BY DEF RunOnce, SchedIInv, SchedShape
<1> QED BY <1>1, <1>2, EnterIInv DEF RunOnce

(* An execution moves on to another place of its work on the same task. *)
LEMMA MoveOn ==
  ASSUME SchedIInv, NEW x \in Execs, NEW s \in ExecStates, exec[x].at # "idle",
         exec' = [exec EXCEPT ![x] = s], s.at # "idle", s.task = exec[x].task,
         UNCHANGED <<failures, paused>>
  PROVE  /\ exec'[x] = s /\ \A y \in Execs : y # x => exec'[y] = exec[y]
         /\ exec' \in [Execs -> ExecStates]
         /\ \A y \in Execs : exec'[y].at # "idle" => exec'[y].task \in JobTasks
         /\ LimitPauses'
<1>1. exec'[x] = s /\ \A y \in Execs : y # x => exec'[y] = exec[y] BY DEF SchedIInv, SchedShape
<1>2. /\ exec' \in [Execs -> ExecStates]
      /\ \A y \in Execs : exec'[y].at # "idle" => exec'[y].task \in JobTasks
  BY <1>1 DEF SchedIInv, SchedShape
<1>3. LimitPauses' BY <1>1, LimitKept DEF SchedIInv, Busy
<1> QED BY <1>1, <1>2, <1>3

LEMMA TakeLockIInv ==
  ASSUME SchedIInv, NEW x \in Execs, TakeLock(x) PROVE SchedIInv'
<1> DEFINE t == exec[x].task
           s == [exec[x] EXCEPT !.at = "handler"]
<1>1. /\ exec[x].at = "locking" /\ lock[t] = Unlocked /\ t \in JobTasks
      /\ lock' = [lock EXCEPT ![t] = x] /\ exec' = [exec EXCEPT ![x] = s]
      /\ UNCHANGED <<late, looping, failures, paused, elapsed, todo, crashes>>
  BY DEF TakeLock, SchedIInv, SchedShape
<1>2. s \in ExecStates /\ s.at = "handler" /\ s.task = t BY DEF SchedIInv, SchedShape, ExecStates
<1> HIDE DEF s
<1>3. /\ exec'[x] = s /\ \A y \in Execs : y # x => exec'[y] = exec[y]
      /\ exec' \in [Execs -> ExecStates]
      /\ \A y \in Execs : exec'[y].at # "idle" => exec'[y].task \in JobTasks
      /\ LimitPauses'
  BY <1>1, <1>2, MoveOn
<1>4. UseLock /\ x \notin late BY <1>1 DEF SchedIInv, LockUnused, LateLostTheirs, Holding
<1>5. /\ lock' \in [JobTasks -> Tokens] /\ lock'[t] = x
      /\ \A u \in JobTasks : u # t => lock'[u] = lock[u]
  BY <1>1 DEF SchedIInv, SchedShape, Tokens
<1>6. SchedShape' BY <1>1, <1>3, <1>5 DEF SchedIInv, SchedShape
<1>7. LockUnused' BY <1>4 DEF LockUnused
<1>8. HoldersHaveTokens'
  <2> SUFFICES ASSUME NEW y \in Execs, Holding(y)', y \notin late PROVE lock'[exec'[y].task] = y
    BY <1>1 DEF HoldersHaveTokens
  <2>1. CASE y = x BY <2>1, <1>2, <1>3, <1>5
  <2>2. CASE y # x
    <3>1. lock[exec[y].task] = y /\ exec[y].task \in JobTasks
      BY <2>2, <1>3, <1>4 DEF SchedIInv, SchedShape, HoldersHaveTokens, Holding
    <3>2. exec[y].task # t BY <3>1, <1>1, NotTokens
    <3> QED BY <2>2, <3>1, <3>2, <1>3, <1>5
  <2> QED BY <2>1, <2>2
<1>9. TokensAreHeld'
  <2>1. \A u \in JobTasks : lock[u] # x BY <1>1 DEF SchedIInv, TokensAreHeld, Holding
  <2> QED BY <2>1, <1>1, <1>2, <1>3, <1>4, <1>5 DEF SchedIInv, TokensAreHeld, Holding
<1>10. LateLostTheirs'
  <2> SUFFICES ASSUME NEW y \in late PROVE Holding(y)' /\ lock'[exec'[y].task] # y
    BY <1>1 DEF LateLostTheirs
  <2>1. y \in Execs /\ y # x /\ exec[y].task \in JobTasks /\ Holding(y) /\ lock[exec[y].task] # y
    BY <1>4 DEF SchedIInv, SchedShape, LateLostTheirs, Holding
  <2> QED BY <2>1, <1>3, <1>5 DEF Holding
<1> QED BY <1>3, <1>6, <1>7, <1>8, <1>9, <1>10 DEF SchedIInv

LEMMA LockWaitIInv ==
  ASSUME SchedIInv, NEW x \in Execs, LockTimeout(x) \/ LockError(x) PROVE SchedIInv'
<1> DEFINE t == exec[x].task
<1>1. /\ exec[x].at = "locking" /\ t \in JobTasks
      /\ UNCHANGED <<looping, todo, crashes>>
  BY DEF LockTimeout, LockError, SchedIInv, SchedShape
<1>2. \A u \in JobTasks : lock[u] # x BY <1>1 DEF SchedIInv, TokensAreHeld, Holding
<1>3. lock' = lock \/ (lock[t] = Unlocked /\ lock' = [lock EXCEPT ![t] = Orphan])
  BY DEF LockTimeout, LockError
<1>4. /\ lock' \in [JobTasks -> Tokens]
      /\ \A u \in JobTasks :
           \/ lock'[u] = lock[u] /\ lock[u] # x
           \/ lock[u] \in {x, Unlocked} /\ lock'[u] \in {Unlocked, Orphan}
  BY <1>1, <1>2, <1>3 DEF SchedIInv, SchedShape, Tokens
<1> QED BY <1>1, <1>4, LeaveIInv DEF LockTimeout, LockError

(* What the end of release leaves: the key of the others, or nobody's. *)
LEMMA LeftKey ==
  ASSUME SchedIInv, NEW x \in Execs, NEW t \in JobTasks, exec[x].at = "releasing",
         exec[x].task = t, LeavesKey(x, t)
  PROVE  /\ lock' \in [JobTasks -> Tokens]
         /\ \A u \in JobTasks :
              \/ lock'[u] = lock[u] /\ lock[u] # x
              \/ lock[u] \in {x, Unlocked} /\ lock'[u] \in {Unlocked, Orphan}
<1>1. PICK end \in {Unlocked, Orphan} : lock' = [lock EXCEPT ![t] = IF @ = x THEN end ELSE @]
  BY DEF LeavesKey
<1>2. \A u \in JobTasks : lock[u] = x => u = t BY DEF SchedIInv, TokensAreHeld
<1> QED BY <1>1, <1>2 DEF SchedIInv, SchedShape, Tokens

LEMMA ReleaseIInv ==
  ASSUME SchedIInv, NEW x \in Execs, Release(x) \/ ReleaseError(x) PROVE SchedIInv'
<1> DEFINE t == exec[x].task
<1>1. /\ exec[x].at = "releasing" /\ t \in JobTasks
      /\ UNCHANGED <<looping, todo, crashes>>
  BY DEF Release, ReleaseError, SchedIInv, SchedShape
<1>2. LeavesKey(x, t) BY DEF Release, ReleaseError, LeavesKey
<1>3. PICK result : Leave(x, result) BY DEF Release, ReleaseError
<1> QED BY <1>1, <1>2, <1>3, LeftKey, LeaveIInv

LEMMA HandlerEndsIInv ==
  ASSUME SchedIInv, NEW x \in Execs, NEW r \in {"ok", "failed"}, HandlerEnds(x, r) PROVE SchedIInv'
<1> DEFINE t == exec[x].task
<1>1. /\ exec[x].at = "handler" /\ t \in JobTasks /\ exec[x] \in ExecStates
      /\ UNCHANGED <<lock, looping, todo, crashes>>
  BY DEF HandlerEnds, SchedIInv, SchedShape
<1>2. CASE ~UseLock
  <2>1. \A u \in JobTasks : lock[u] # x BY <1>2 DEF SchedIInv, LockUnused
  <2> QED BY <1>1, <1>2, <2>1, LeaveIInv DEF HandlerEnds, SchedIInv, SchedShape
<1>3. CASE UseLock
  <2> DEFINE s == Doing("releasing", t, r)
  <2>1. /\ exec' = [exec EXCEPT ![x] = s]
        /\ UNCHANGED <<late, failures, paused, elapsed, lock, looping, todo, crashes>>
    BY <1>3 DEF HandlerEnds
  <2>2. s \in ExecStates /\ s.at = "releasing" /\ s.task = t BY <1>1 DEF Doing, ExecStates
  <2> HIDE DEF s
  <2>3. /\ exec'[x] = s /\ \A y \in Execs : y # x => exec'[y] = exec[y]
        /\ exec' \in [Execs -> ExecStates]
        /\ \A y \in Execs : exec'[y].at # "idle" => exec'[y].task \in JobTasks
        /\ LimitPauses'
    BY <1>1, <2>1, <2>2, MoveOn
  <2>4. \A y \in Execs : Holding(y)' = Holding(y) /\ exec'[y].task = exec[y].task
    BY <1>1, <2>2, <2>3 DEF Holding
  <2>5. SchedShape' BY <2>1, <2>3 DEF SchedIInv, SchedShape
  <2>6. LockUnused' /\ HoldersHaveTokens' /\ TokensAreHeld'
    BY <1>3, <2>1, <2>4 DEF SchedIInv, LockUnused, HoldersHaveTokens, TokensAreHeld
  <2>7. LateLostTheirs' BY <2>1, <2>4 DEF SchedIInv, SchedShape, LateLostTheirs
  <2> QED BY <2>3, <2>5, <2>6, <2>7 DEF SchedIInv
<1> QED BY <1>2, <1>3

LEMMA LeaseIInv ==
  ASSUME SchedIInv, NEW t \in JobTasks, LeaseExpires(t) PROVE SchedIInv'
<1>1. UNCHANGED <<exec, looping, failures, paused, elapsed, todo, crashes>> BY DEF LeaseExpires
<1>2. /\ lock' \in [JobTasks -> Tokens] /\ lock'[t] = Unlocked
      /\ \A u \in JobTasks : u # t => lock'[u] = lock[u]
  BY DEF LeaseExpires, SchedIInv, SchedShape, Tokens
<1>3. /\ late' \subseteq Execs
      /\ \A x \in Execs : x \in late' <=> x \in late \/ x = lock[t]
  BY DEF LeaseExpires, SchedIInv, SchedShape
<1>4. SchedShape' BY <1>1, <1>2, <1>3 DEF SchedIInv, SchedShape
<1>5. LockUnused' /\ HoldersHaveTokens' BY <1>1, <1>2, <1>3, NotTokens
  DEF SchedIInv, SchedShape, LockUnused, HoldersHaveTokens, Holding
<1>6. TokensAreHeld'
  <2> SUFFICES ASSUME NEW u \in JobTasks, lock'[u] \in Execs
               PROVE  Holding(lock[u])' /\ exec[lock'[u]].task = u /\ lock'[u] \notin late'
    BY <1>1 DEF TokensAreHeld, Holding
  <2>1. u # t /\ lock'[u] = lock[u] /\ Holding(lock[u]) /\ exec[lock[u]].task = u
        /\ lock[u] \notin late
    BY <1>2, NotTokens DEF SchedIInv, TokensAreHeld
  <2>2. lock[t] # lock[u] BY <2>1 DEF SchedIInv, TokensAreHeld
  <2> QED BY <1>1, <1>3, <2>1, <2>2 DEF Holding
<1>7. LateLostTheirs'
  <2> SUFFICES ASSUME NEW y \in late' PROVE Holding(y)' /\ lock'[exec[y].task] # y
    BY <1>1 DEF LateLostTheirs
  <2>1. y \in Execs /\ (y \in late \/ y = lock[t]) BY <1>3
  <2>2. CASE y \in late
    BY <1>1, <1>2, <2>1, <2>2, NotTokens DEF SchedIInv, SchedShape, LateLostTheirs, Holding
  <2>3. CASE y = lock[t] BY <1>1, <1>2, <2>1, <2>3, NotTokens DEF SchedIInv, TokensAreHeld, Holding
  <2> QED BY <2>1, <2>2, <2>3
<1>8. LimitPauses' BY <1>1, LimitKept DEF SchedIInv, Busy
<1> QED BY <1>4, <1>5, <1>6, <1>7, <1>8 DEF SchedIInv

(* What a crash and a cancelled loop have in common: some executions rest,
   and no token of theirs is left in Redis. *)
LEMMA ManyRest ==
  ASSUME SchedIInv, NEW S \in SUBSET Execs,
         exec' = [x \in Execs |-> IF x \in S THEN Resting ELSE exec[x]],
         late' = late \ S, lock' \in [JobTasks -> Tokens],
         \A u \in JobTasks :
           \/ lock'[u] = lock[u] /\ lock[u] \notin S
           \/ lock[u] \in S \cup {Unlocked} /\ lock'[u] \in {Unlocked, Orphan}
  PROVE  /\ exec' \in [Execs -> ExecStates]
         /\ \A x \in Execs : exec'[x].at # "idle" => exec'[x].task \in JobTasks
         /\ LockUnused' /\ HoldersHaveTokens' /\ TokensAreHeld' /\ LateLostTheirs'
<1>1. /\ exec' \in [Execs -> ExecStates]
      /\ \A x \in S : exec'[x].at = "idle"
      /\ \A x \in Execs \ S : exec'[x] = exec[x]
  BY DEF SchedIInv, SchedShape, ExecStates, Resting
<1>2. \A x \in Execs : exec'[x].at # "idle" => exec'[x].task \in JobTasks
  BY <1>1 DEF SchedIInv, SchedShape
<1>3. LockUnused' BY <1>1, NotTokens DEF SchedIInv, LockUnused
<1>4. HoldersHaveTokens'
  <2> SUFFICES ASSUME UseLock, NEW y \in Execs, Holding(y)', y \notin late'
               PROVE  lock'[exec'[y].task] = y
    BY DEF HoldersHaveTokens
  <2>1. y \notin S /\ exec'[y] = exec[y] /\ y \notin late BY <1>1 DEF Holding
  <2>2. lock[exec[y].task] = y /\ exec[y].task \in JobTasks
    BY <2>1 DEF SchedIInv, SchedShape, HoldersHaveTokens, Holding
  <2> QED BY <2>1, <2>2, NotTokens
<1>5. TokensAreHeld'
  <2> SUFFICES ASSUME NEW u \in JobTasks, lock'[u] \in Execs
               PROVE  Holding(lock[u])' /\ exec'[lock'[u]].task = u /\ lock'[u] \notin late'
    BY DEF TokensAreHeld, Holding
  <2>1. lock'[u] = lock[u] /\ lock[u] \notin S BY NotTokens
  <2> QED BY <1>1, <2>1 DEF SchedIInv, TokensAreHeld, Holding
<1>6. LateLostTheirs'
  <2> SUFFICES ASSUME NEW y \in late' PROVE Holding(y)' /\ lock'[exec'[y].task] # y
    BY DEF LateLostTheirs
  <2>1. y \in late /\ y \notin S /\ y \in Execs /\ exec'[y] = exec[y]
    BY <1>1 DEF SchedIInv, SchedShape
  <2>2. Holding(y) /\ exec[y].task \in JobTasks /\ lock[exec[y].task] # y
    BY <2>1 DEF SchedIInv, SchedShape, LateLostTheirs, Holding
  <2> QED BY <2>1, <2>2, NotTokens DEF Holding
<1> QED BY <1>1, <1>2, <1>3, <1>4, <1>5, <1>6

LEMMA CrashIInv ==
  ASSUME SchedIInv, NEW i \in Instances, Crash(i) PROVE SchedIInv'
<1> DEFINE S == {x \in Execs : x[1] = i}
<1>1. /\ exec' = [x \in Execs |-> IF x \in S THEN Resting ELSE exec[x]]
      /\ late' = late \ S
  BY DEF Crash, SchedIInv, SchedShape
<1>2. /\ lock' \in [JobTasks -> Tokens]
      /\ \A u \in JobTasks :
           \/ lock'[u] = lock[u] /\ lock[u] \notin S
           \/ lock[u] \in S \cup {Unlocked} /\ lock'[u] \in {Unlocked, Orphan}
  BY DEF Crash, SchedIInv, SchedShape, Tokens
<1>3. /\ exec' \in [Execs -> ExecStates]
      /\ \A x \in Execs : exec'[x].at # "idle" => exec'[x].task \in JobTasks
      /\ LockUnused' /\ HoldersHaveTokens' /\ TokensAreHeld' /\ LateLostTheirs'
  <2> HIDE DEF S
  <2>1. S \in SUBSET Execs BY DEF S
  <2> QED BY <1>1, <1>2, <2>1, ManyRest
<1>4. /\ looping' \in [Instances -> BOOLEAN]
      /\ paused' \in [Instances -> SUBSET JobTasks]
      /\ todo' \in [Instances -> SUBSET [task : JobTasks, elapsed : 0..MaxElapsed]]
      /\ crashes' \in 0..MaxCrashes
  BY SchedulingAssumption DEF Crash, SchedIInv, SchedShape
<1>5. elapsed' \in [Instances -> [JobTasks -> 0..MaxElapsed]]
  BY SchedulingAssumption DEF Crash, SchedIInv, SchedShape, MaxElapsed
<1>6. SchedShape' BY <1>1, <1>2, <1>3, <1>4, <1>5 DEF SchedIInv, SchedShape
<1>7. LimitPauses'
  <2>1. failures' \in [Instances -> [JobTasks -> 0..(FailureLimit + 1)]]
    BY SchedulingAssumption DEF Crash, SchedIInv, LimitPauses
  <2>2. \A t \in JobTasks : failures'[i][t] = 0 BY DEF Crash, SchedIInv, LimitPauses
  <2>3. \A j \in Instances : j # i =>
          /\ failures'[j] = failures[j] /\ paused'[j] = paused[j]
          /\ \A kind \in {"loop", "manual"}, t \in JobTasks : Busy(j, kind, t)' <=> Busy(j, kind, t)
    BY DEF Crash, SchedIInv, SchedShape, LimitPauses, Busy
  <2> QED BY <2>1, <2>2, <2>3, SchedulingAssumption DEF SchedIInv, LimitPauses
<1> QED BY <1>3, <1>6, <1>7 DEF SchedIInv

LEMMA StopLoopIInv ==
  ASSUME SchedIInv, NEW i \in Instances, StopLoop(i) PROVE SchedIInv'
<1> DEFINE x == <<i, "loop">>
           t == exec[x].task
<1>1. /\ x \in Execs /\ exec[x] \in ExecStates
      /\ exec[x].at # "idle" => t \in JobTasks
  BY DEF Execs, SchedIInv, SchedShape
<1>2. /\ looping' \in [Instances -> BOOLEAN]
      /\ todo' \in [Instances -> SUBSET [task : JobTasks, elapsed : 0..MaxElapsed]]
      /\ UNCHANGED <<failures, paused, elapsed, crashes>>
  BY DEF StopLoop, SchedIInv, SchedShape
<1>3. CASE exec[x].at = "idle" /\ UNCHANGED <<exec, lock, late>>
  <2>1. SchedShape' /\ LockUnused' /\ HoldersHaveTokens' /\ TokensAreHeld' /\ LateLostTheirs'
    BY <1>2, <1>3 DEF SchedIInv, SchedShape, LockUnused, HoldersHaveTokens,
       TokensAreHeld, LateLostTheirs, Holding
  <2>2. LimitPauses' BY <1>2, <1>3, LimitKept DEF SchedIInv, Busy
  <2> QED BY <2>1, <2>2 DEF SchedIInv
(* In the handler: the release comes first, if there is a lock. *)
<1>4. CASE exec[x].at = "handler" /\ UseLock
  <2> DEFINE s == Doing("releasing", t, "cancelled")
  <2>1. exec' = [exec EXCEPT ![x] = s] /\ UNCHANGED <<lock, late>> BY <1>4 DEF StopLoop
  <2>2. s \in ExecStates /\ s.at = "releasing" /\ s.task = t BY <1>1, <1>4 DEF Doing, ExecStates
  <2> HIDE DEF s
  <2>3. /\ exec'[x] = s /\ \A y \in Execs : y # x => exec'[y] = exec[y]
        /\ exec' \in [Execs -> ExecStates]
        /\ \A y \in Execs : exec'[y].at # "idle" => exec'[y].task \in JobTasks
        /\ LimitPauses'
    BY <1>1, <1>2, <1>4, <2>1, <2>2, MoveOn
  <2>4. \A y \in Execs : Holding(y)' = Holding(y) /\ exec'[y].task = exec[y].task
    BY <1>4, <2>2, <2>3 DEF Holding
  <2>5. SchedShape' BY <1>2, <2>1, <2>3 DEF SchedIInv, SchedShape
  <2>6. LockUnused' /\ HoldersHaveTokens' /\ TokensAreHeld'
    BY <1>4, <2>1, <2>4 DEF SchedIInv, LockUnused, HoldersHaveTokens, TokensAreHeld
  <2>7. LateLostTheirs' BY <2>1, <2>4 DEF SchedIInv, SchedShape, LateLostTheirs
  <2> QED BY <2>3, <2>5, <2>6, <2>7 DEF SchedIInv
(* Otherwise the execution ends there, and perhaps its key stays. *)
<1>5. CASE exec[x].at \in {"locking", "releasing"} \/ (exec[x].at = "handler" /\ ~UseLock)
  <2>1. exec' = [exec EXCEPT ![x] = Resting] BY <1>5 DEF StopLoop
  <2>2. late' = late \ {x}
    <3>1. CASE exec[x].at = "releasing" BY <3>1 DEF StopLoop
    <3>2. CASE exec[x].at = "locking" BY <3>2 DEF StopLoop, SchedIInv, LateLostTheirs, Holding
    <3>3. CASE exec[x].at = "handler" /\ ~UseLock
      <4>1. x \notin late BY <3>3 DEF SchedIInv, LockUnused
      <4> QED BY <3>3, <4>1 DEF StopLoop
    <3> QED BY <1>5, <3>1, <3>2, <3>3
  <2>3. /\ lock' \in [JobTasks -> Tokens]
        /\ \A u \in JobTasks :
             \/ lock'[u] = lock[u] /\ lock[u] # x
             \/ lock[u] \in {x, Unlocked} /\ lock'[u] \in {Unlocked, Orphan}
    <3>1. CASE exec[x].at = "releasing" BY <1>1, <3>1, LeftKey DEF StopLoop
    <3>2. CASE exec[x].at = "locking"
      <4>1. \A u \in JobTasks : lock[u] # x BY <1>1, <3>2 DEF SchedIInv, TokensAreHeld, Holding
      <4>2. lock' = lock \/ (lock[t] = Unlocked /\ lock' = [lock EXCEPT ![t] = Orphan])
        BY <3>2 DEF StopLoop
      <4> QED BY <1>1, <3>2, <4>1, <4>2 DEF SchedIInv, SchedShape, Tokens
    <3>3. CASE exec[x].at = "handler" /\ ~UseLock
      <4>1. lock' = lock BY <3>3 DEF StopLoop
      <4>2. \A u \in JobTasks : lock[u] # x BY <1>1, <3>3 DEF SchedIInv, LockUnused
      <4>3. lock \in [JobTasks -> Tokens] BY DEF SchedIInv, SchedShape
      <4> QED BY ONLY <4>1, <4>2, <4>3
    <3> QED BY <1>5, <3>1, <3>2, <3>3
  <2>4. exec' = [y \in Execs |-> IF y \in {x} THEN Resting ELSE exec[y]]
    BY <2>1, <1>1 DEF SchedIInv, SchedShape
  <2>5. /\ exec' \in [Execs -> ExecStates]
        /\ \A y \in Execs : exec'[y].at # "idle" => exec'[y].task \in JobTasks
        /\ LockUnused' /\ HoldersHaveTokens' /\ TokensAreHeld' /\ LateLostTheirs'
    <3> DEFINE S == {x}
    <3>1. /\ S \in SUBSET Execs /\ late' = late \ S
          /\ exec' = [y \in Execs |-> IF y \in S THEN Resting ELSE exec[y]]
          /\ \A u \in JobTasks :
               \/ lock'[u] = lock[u] /\ lock[u] \notin S
               \/ lock[u] \in S \cup {Unlocked} /\ lock'[u] \in {Unlocked, Orphan}
      BY <1>1, <2>2, <2>3, <2>4
    <3> HIDE DEF S
    <3> QED BY <2>3, <3>1, ManyRest
  <2>6. SchedShape' BY <1>1, <1>2, <2>2, <2>3, <2>5 DEF SchedIInv, SchedShape
  <2>7. LimitPauses' BY <1>1, <1>2, <2>1, LimitKept DEF SchedIInv, SchedShape, Busy, Resting
  <2> QED BY <2>5, <2>6, <2>7 DEF SchedIInv
<1> QED BY <1>1, <1>3, <1>4, <1>5, SchedulingAssumption DEF StopLoop, ExecStates

LEMMA SchedInductive == SchedIInv /\ [SchedNext]_schedVars => SchedIInv'
<1> SUFFICES ASSUME SchedIInv, [SchedNext]_schedVars PROVE SchedIInv' OBVIOUS
<1>1. CASE UNCHANGED schedVars
  BY <1>1 DEF schedVars, SchedIInv, SchedShape, LockUnused, HoldersHaveTokens,
     TokensAreHeld, LateLostTheirs, LimitPauses, Holding, Busy
<1>2. ASSUME NEW i \in Instances,
             \/ StartLoop(i) \/ StopLoop(i) \/ Crash(i)
             \/ RunAllDue(i) \/ \E r \in todo[i] : NextDue(i, r)
      PROVE  SchedIInv'
  BY <1>2, LoopIInv, StopLoopIInv, CrashIInv, NextDueIInv
<1>3. ASSUME NEW i \in Instances, NEW t \in JobTasks, Register(i, t) \/ Resume(i, t)
      PROVE  SchedIInv'
  BY <1>3, RegisterResumeIInv
<1>4. ASSUME NEW i \in Manual, NEW t \in JobTasks, RunOnce(i, t) PROVE SchedIInv'
  BY <1>4, RunOnceIInv
<1>5. ASSUME NEW x \in Execs, ExecStep(x) PROVE SchedIInv'
  BY <1>5, TakeLockIInv, LockWaitIInv, HandlerEndsIInv, ReleaseIInv DEF ExecStep
<1>6. ASSUME NEW t \in JobTasks, LeaseExpires(t) PROVE SchedIInv' BY <1>6, LeaseIInv
<1>7. CASE Tick BY <1>7, LoopIInv
<1> QED BY <1>1, <1>2, <1>3, <1>4, <1>5, <1>6, <1>7 DEF SchedNext

LEMMA SchedInvariant == SchedSpec => []SchedIInv
  BY SchedInitIInv, SchedInductive, PTL DEF SchedSpec

LEMMA SchedIInvSound == SchedIInv => SchedulingSound
<1> SUFFICES ASSUME SchedIInv PROVE SchedulingSound OBVIOUS
<1>1. SchedTypeOK BY DEF SchedIInv, SchedShape, LimitPauses, SchedTypeOK, ExecStates
<1>2. ExclusiveWhileLeased
  BY DEF SchedIInv, HoldersHaveTokens, Holding, ExclusiveWhileLeased, Working
<1> QED BY <1>1, <1>2 DEF SchedulingSound

(* For any number of instances, tasks, failures and crashes: whatever the
   loops and run_once do, of all executions of a task one works at a time,
   but for those whose lease ran out; no count passes the limit by more
   than one (TaskScheduler._execute, DistributedLock). *)
THEOREM SchedulingHolds == SchedSpec => []SchedulingSound
  BY SchedInvariant, SchedIInvSound, PTL

(* The exception is no larger than it says: an execution counts as late
   only while it works and the key is not its own any more, and a task at
   the limit of failures is paused (LeaseExpires, _record_failure). *)
THEOREM LateLostTheLock == SchedSpec => [](LateLostTheirs /\ LimitPauses)
<1>1. SchedIInv => LateLostTheirs /\ LimitPauses BY DEF SchedIInv
<1> QED BY SchedInvariant, <1>1, PTL

----------------------------------------
(* The inductive invariant of Tasks. *)

Records == [id : Ids, status : Status, version : Nat, beat : {"fresh", "old"}, submitted : Nat]
Operations == [kind : {"idle", "start", "beat", "end", "dead"}, ref : Nat,
               to : Status, call : Calls \cup {NoCall},
               step : {"none", "save", "check", "set", "write"}]

(* References lead to records, and the store's to those of their ids. *)
HeapShape ==
  /\ heap \in Seq(Records)
  /\ store \in [Ids -> Nat]
  /\ \A i \in Ids : store[i] # 0 => store[i] \in 1..Len(heap) /\ heap[store[i]].id = i
  /\ scan \subseteq 1..Len(heap)
  /\ doing \in [Threads -> Operations]
  /\ \A t \in Threads : doing[t].step # "none" => doing[t].ref \in 1..Len(heap)
  /\ own \in [Calls -> Nat] /\ beats \in 0..MaxBeats

CallShape ==
  /\ state \in [Calls -> CallStates] /\ thread \in [Calls -> Threads]
  /\ \A c \in Calls : state[c] \notin {"new", "rejected"} => own[c] \in 1..Len(heap)

StoreBound == IsFiniteSet(Stored) /\ Cardinality(Stored) <= MaxRecords

(* A place of the gate for everybody on the way to a worker. *)
OnTheWay == {"slot", "queued", "taken"}
Waiting == {c \in Calls : state[c] \in OnTheWay}
GateHeld ==
  /\ IsFiniteSet(Waiting) /\ gate = Cardinality(Waiting) /\ gate \in 0..QueueSize

(* Who is in the queue waits there, once. *)
QueueWaits ==
  /\ workQueue \in Seq(Calls)
  /\ \A j \in 1..Len(workQueue) : state[workQueue[j]] = "queued"
  /\ \A j, k \in 1..Len(workQueue) : workQueue[j] = workQueue[k] => j = k

(* A call that starts or ends does so on its own thread. *)
InTheMiddle(t, kind, place) ==
  doing[t].step # "none" /\ doing[t].kind = kind =>
    /\ doing[t].call \in Calls
    /\ thread[doing[t].call] = t /\ state[doing[t].call] = place
CallsAtWork ==
  \A t \in Threads : InTheMiddle(t, "start", "starting") /\ InTheMiddle(t, "end", "ended")

TasksIInv ==
  HeapShape /\ CallShape /\ StoreBound /\ GateHeld /\ QueueWaits /\ CallsAtWork

UserStates == [at : {"new", "looking", "locking", "locked", "returning", "returned",
                     "attribute error", "value error"}, got : Nat, beside : BOOLEAN]

(* The shared pool: the thread that is locked has the lock, the pool of a
   shutdown under way is shut already, and who looked at a pool that has
   gone since knows that pools were shut beside it. *)
PoolShape ==
  /\ pools \in Seq(Nat \ {0}) /\ sharedPool \in 0..Len(pools)
  /\ shut \subseteq 1..Len(pools)
  /\ poolLock \in PoolUsers \cup {"free", "closer"}
  /\ poolUser \in [PoolUsers -> UserStates]

PoolIInv ==
  /\ PoolShape
  /\ \A p \in 1..Len(pools) : p \in shut \/ p = sharedPool
  /\ poolLock = "closer" => sharedPool \in shut
  /\ \A u \in PoolUsers :
       /\ poolUser[u].at = "locked" => poolLock = u
       /\ poolUser[u].at \in {"looking", "returning"} /\ sharedPool = 0 => poolUser[u].beside
       /\ poolUser[u].at = "returned" /\ poolUser[u].got = 0 => poolUser[u].beside
       /\ poolUser[u].at = "attribute error" => poolUser[u].beside
       /\ poolUser[u].at = "value error" => PoolSize[u] = 0

(* Calls and the shared pool beside each other, in any order. *)
ExecutorNext == \/ TasksNext /\ UNCHANGED sharedVars
                \/ SharedPoolNext /\ UNCHANGED tasksVars
ExecutorSpec ==
  TasksInit /\ SharedPoolInit /\ [][ExecutorNext]_<<tasksVars, sharedVars>>

----------------------------------------
(* A finite set that is not empty has a member with the smallest value. *)
LEMMA SmallestMember ==
  ASSUME NEW S, IsFiniteSet(S), S # {}, NEW f, \A x \in S : f[x] \in Nat
  PROVE  \E m \in S : \A x \in S : f[m] <= f[x]
<1> DEFINE Below(x) == {y \in S : f[y] < f[x]}
           T == {Below(x) : x \in S}
<1>1. IsWellFoundedOn(StrictSubsetOrdering(S), FiniteSubsetsOf(S))
  BY FS_StrictSubsetOrderingWellFounded
<1>2. T \subseteq FiniteSubsetsOf(S)
  <2>1. FiniteSubsetsOf(S) = SUBSET S BY FS_FiniteSubsetsOfFinite
  <2> QED BY <2>1
<1>3. T # {} OBVIOUS
<1>4. PICK D \in T : \A E \in T : <<E, D>> \notin StrictSubsetOrdering(S)
  <2> HIDE DEF T
  <2> QED BY <1>1, <1>2, <1>3, WFMin
<1>5. PICK m \in S : D = Below(m) BY <1>4
<1>6. ASSUME NEW x \in S, f[x] < f[m] PROVE FALSE
  <2>1. Below(x) \subseteq Below(m) BY <1>6
  <2>2. x \in Below(m) /\ x \notin Below(x) BY <1>6
  <2>3. Below(x) \in SUBSET S /\ Below(m) \in SUBSET S OBVIOUS
  <2>4. <<Below(x), Below(m)>> \in StrictSubsetOrdering(S)
    <3> HIDE DEF Below
    <3> QED BY <2>1, <2>2, <2>3 DEF StrictSubsetOrdering
  <2> QED BY <2>4, <1>4, <1>5
<1> QED BY <1>6

(* What a new record at the end of the heap changes. *)
LEMMA AppendRecord ==
  ASSUME NEW S, NEW s \in Seq(S), NEW e \in S
  PROVE  /\ Append(s, e) \in Seq(S) /\ Len(Append(s, e)) = Len(s) + 1
         /\ Len(s) \in Nat
         /\ \A i \in 1..Len(s) : Append(s, e)[i] = s[i]
         /\ Append(s, e)[Len(s) + 1] = e
  OBVIOUS

(* Save keeps the store within max_records: beyond it the record that was
   submitted first is not kept. *)
LEMMA SaveBounds ==
  ASSUME NEW hp \in Seq(Records), store \in [Ids -> Nat],
         \A i \in Ids : store[i] # 0 => store[i] \in 1..Len(hp) /\ hp[store[i]].id = i,
         StoreBound, NEW ref \in 1..Len(hp), Save(ref, hp)
  PROVE  /\ store' \in [Ids -> Nat]
         /\ \A i \in Ids : store'[i] # 0 => store'[i] \in 1..Len(hp) /\ hp[store'[i]].id = i
         /\ StoreBound'
<1> DEFINE new == hp[ref].id
           st == [store EXCEPT ![new] = ref]
           present == {i \in Ids : st[i] # 0}
           older(i) == {j \in present : hp[st[j]].submitted < hp[st[i]].submitted}
<1>1. new \in Ids /\ hp[ref] \in Records /\ ref \in Nat \ {0}
  <2>1. hp[ref] \in Records /\ Len(hp) \in Nat BY ElementOfSeq, LenProperties
  <2> QED BY <2>1 DEF Records
<1>2. st \in [Ids -> Nat] /\ st[new] = ref /\ \A i \in Ids : i # new => st[i] = store[i] BY <1>1
<1>3. \A i \in Ids : st[i] # 0 => st[i] \in 1..Len(hp) /\ hp[st[i]].id = i BY <1>1, <1>2
<1>4. store' = [i \in Ids |-> IF i \in Kept(st, hp) THEN st[i] ELSE 0] BY DEF Save
<1>5. Kept(st, hp) = {i \in present : Cardinality(older(i)) + MaxRecords >= Cardinality(present)}
  BY DEF Kept
<1>6. Stored' = Kept(st, hp) BY <1>2, <1>4, <1>5 DEF Stored
<1>7. present = Stored \cup {new} BY <1>1, <1>2 DEF Stored
<1>8. /\ IsFiniteSet(present) /\ Cardinality(present) \in Nat
      /\ Cardinality(present) <= MaxRecords + 1
  <2> HIDE DEF st, present
  <2>1. IsFiniteSet(Stored) /\ Cardinality(Stored) \in Nat /\ Cardinality(Stored) <= MaxRecords
    BY FS_CardinalityType DEF StoreBound
  <2>2. /\ IsFiniteSet(Stored \cup {new})
        /\ Cardinality(Stored \cup {new}) =
             IF new \in Stored THEN Cardinality(Stored) ELSE Cardinality(Stored) + 1
    BY <2>1, FS_AddElement
  <2> QED BY <1>7, <2>1, <2>2, TasksAssumption
<1>9. store' \in [Ids -> Nat] /\ \A i \in Ids : store'[i] # 0 => store'[i] = st[i] BY <1>2, <1>4
<1>10. IsFiniteSet(Kept(st, hp)) /\ Cardinality(Kept(st, hp)) <= MaxRecords
  <2> HIDE DEF st, present
  <2>1. Kept(st, hp) \in SUBSET present BY <1>5
  <2>2. IsFiniteSet(Kept(st, hp)) /\ Cardinality(Kept(st, hp)) \in Nat
    BY <2>1, <1>8, FS_Subset, FS_CardinalityType
  <2>3. CASE Cardinality(present) <= MaxRecords
    BY <2>1, <2>2, <2>3, <1>8, FS_Subset, TasksAssumption
  <2>4. CASE Cardinality(present) = MaxRecords + 1
    <3> DEFINE age == [i \in present |-> hp[st[i]].submitted]
    <3>1. \A i \in present : age[i] \in Nat
      <4>1. \A i \in present : st[i] \in 1..Len(hp) BY <1>3 DEF present
      <4>2. \A i \in present : hp[st[i]] \in Records BY <4>1, ElementOfSeq
      <4> QED BY <4>2 DEF Records
    <3>2. present # {} BY <2>4, <1>8, FS_EmptySet, TasksAssumption
    <3>3. PICK m \in present : \A i \in present : age[m] <= age[i]
      <4> HIDE DEF age
      <4> QED BY <3>1, <3>2, <1>8, SmallestMember
    <3>4. older(m) = {} BY <3>1, <3>3
    <3>5. m \notin Kept(st, hp)
      <4>1. Cardinality(older(m)) = 0 BY <3>4, FS_EmptySet
      <4> QED BY <4>1, <1>5, <2>4, TasksAssumption
    <3>6. Kept(st, hp) \in SUBSET (present \ {m}) BY <2>1, <3>5
    <3>7. IsFiniteSet(present \ {m}) /\ Cardinality(present \ {m}) = MaxRecords
      <4>1. /\ IsFiniteSet(present \ {m})
            /\ Cardinality(present \ {m}) = Cardinality(present) - 1
        BY <1>8, FS_RemoveElement
      <4> QED BY <4>1, <2>4, TasksAssumption
    <3> QED BY <3>6, <3>7, FS_Subset
  <2> QED BY <2>3, <2>4, <1>8, TasksAssumption
<1>11. StoreBound' BY <1>6, <1>10 DEF StoreBound
<1> QED BY <1>3, <1>9, <1>11

(* References lead to records when the heap has grown, too. *)
LEMMA HeapGrows ==
  ASSUME HeapShape, CallShape, heap' \in Seq(Records), Len(heap') >= Len(heap)
  PROVE  /\ Len(heap) \in Nat /\ Len(heap') \in Nat
         /\ 1..Len(heap) \subseteq 1..Len(heap')
         /\ scan \subseteq 1..Len(heap')
         /\ \A t \in Threads : doing[t].step # "none" => doing[t].ref \in 1..Len(heap')
         /\ \A c \in Calls : state[c] \notin {"new", "rejected"} => own[c] \in 1..Len(heap')
<1>1. Len(heap) \in Nat /\ Len(heap') \in Nat BY LenProperties DEF HeapShape
<1>2. 1..Len(heap) \subseteq 1..Len(heap') BY <1>1
<1> QED BY <1>1, <1>2 DEF HeapShape, CallShape

LEMMA NewRecordTyped ==
  ASSUME HeapShape, NEW i \in Ids, NEW s \in Status
  PROVE  NewRecord(i, s) \in Records /\ NewRecord(i, s).id = i
<1>1. Len(heap) + 1 \in Nat BY LenProperties DEF HeapShape
<1> QED BY <1>1 DEF NewRecord, Records

(* A record is appended, for nobody yet. *)
LEMMA RecordAppended ==
  ASSUME HeapShape, CallShape, NEW e \in Records, heap' = Append(heap, e)
  PROVE  /\ heap' \in Seq(Records) /\ Len(heap') = Len(heap) + 1
         /\ Len(heap') >= Len(heap) /\ Len(heap) + 1 \in 1..Len(heap')
         /\ \A i \in 1..Len(heap) : heap'[i] = heap[i]
         /\ heap'[Len(heap) + 1] = e
         /\ \A i \in Ids : store[i] # 0 => store[i] \in 1..Len(heap') /\ heap'[store[i]].id = i
<1>1. /\ heap' \in Seq(Records) /\ Len(heap') = Len(heap) + 1 /\ Len(heap) \in Nat
      /\ \A i \in 1..Len(heap) : heap'[i] = heap[i]
      /\ heap'[Len(heap) + 1] = e
  BY AppendRecord DEF HeapShape
<1> QED BY <1>1 DEF HeapShape

LEMMA SubmitHeap ==
  ASSUME TasksIInv, NEW c \in Calls, Submit(c) PROVE HeapShape' /\ CallShape' /\ StoreBound'
<1>0. HeapShape /\ CallShape /\ StoreBound BY DEF TasksIInv
<1> DEFINE e == NewRecord(IdOf[c], "PENDING")
<1>1. e \in Records /\ heap' = Append(heap, e)
  BY <1>0, NewRecordTyped, TasksAssumption DEF Submit, Status
<1> HIDE DEF e
<1>2. /\ heap' \in Seq(Records) /\ Len(heap') >= Len(heap) /\ Len(heap) + 1 \in 1..Len(heap')
      /\ \A i \in Ids : store[i] # 0 => store[i] \in 1..Len(heap') /\ heap'[store[i]].id = i
  BY <1>0, <1>1, RecordAppended
<1>3. /\ store' \in [Ids -> Nat]
      /\ \A i \in Ids : store'[i] # 0 => store'[i] \in 1..Len(heap') /\ heap'[store'[i]].id = i
      /\ StoreBound'
  <2>1. store \in [Ids -> Nat] /\ Save(Len(heap) + 1, heap') BY <1>0 DEF HeapShape, Submit
  <2> QED BY <1>0, <1>2, <2>1, SaveBounds
<1>4. /\ Len(heap) \in Nat /\ scan \subseteq 1..Len(heap')
      /\ \A t \in Threads : doing[t].step # "none" => doing[t].ref \in 1..Len(heap')
      /\ \A d \in Calls : state[d] \notin {"new", "rejected"} => own[d] \in 1..Len(heap')
  BY <1>0, <1>2, HeapGrows
<1>5. /\ own' = [own EXCEPT ![c] = Len(heap) + 1]
      /\ state' = [state EXCEPT ![c] = "ready"]
      /\ UNCHANGED <<thread, doing, scan, beats>>
  BY DEF Submit
<1>6. own' \in [Calls -> Nat] BY <1>0, <1>4, <1>5 DEF HeapShape
<1>7. HeapShape' BY <1>0, <1>2, <1>3, <1>4, <1>5, <1>6 DEF HeapShape
<1>8. CallShape' BY <1>0, <1>2, <1>4, <1>5 DEF CallShape, HeapShape, CallStates
<1> QED BY <1>3, <1>7, <1>8

LEMMA SubmitInThreadHeap ==
  ASSUME TasksIInv, NEW c \in Calls, SubmitInThread(c) PROVE HeapShape' /\ CallShape' /\ StoreBound'
<1>0. HeapShape /\ CallShape /\ StoreBound BY DEF TasksIInv
<1>1. UNCHANGED <<store, thread, doing, scan, beats>> /\ state[c] = "new" BY DEF SubmitInThread
<1>2. StoreBound' BY <1>0, <1>1 DEF StoreBound, Stored
<1>3. CASE closed \/ gate = QueueSize
  <2>1. state' = [state EXCEPT ![c] = "rejected"] /\ UNCHANGED <<heap, own>>
    BY <1>3 DEF SubmitInThread
  <2> QED BY <1>0, <1>1, <1>2, <2>1 DEF HeapShape, CallShape, CallStates
<1>4. CASE ~(closed \/ gate = QueueSize)
  <2> DEFINE e == NewRecord(IdOf[c], "PENDING")
  <2>1. e \in Records /\ heap' = Append(heap, e)
    BY <1>0, <1>4, NewRecordTyped, TasksAssumption DEF SubmitInThread, Status
  <2> HIDE DEF e
  <2>2. /\ own' = [own EXCEPT ![c] = Len(heap) + 1]
        /\ state' = [state EXCEPT ![c] = "slot"]
    BY <1>4 DEF SubmitInThread
  <2>3. /\ heap' \in Seq(Records) /\ Len(heap') >= Len(heap) /\ Len(heap) + 1 \in 1..Len(heap')
        /\ \A i \in Ids : store[i] # 0 => store[i] \in 1..Len(heap') /\ heap'[store[i]].id = i
    BY <1>0, <2>1, RecordAppended
  <2>4. /\ Len(heap) \in Nat /\ scan \subseteq 1..Len(heap')
        /\ \A t \in Threads : doing[t].step # "none" => doing[t].ref \in 1..Len(heap')
        /\ \A d \in Calls : state[d] \notin {"new", "rejected"} => own[d] \in 1..Len(heap')
    BY <1>0, <2>3, HeapGrows
  <2>5. own' \in [Calls -> Nat] BY <1>0, <2>2, <2>4 DEF HeapShape
  <2>6. HeapShape' BY <1>0, <1>1, <2>3, <2>4, <2>5 DEF HeapShape
  <2>7. CallShape' BY <1>0, <1>1, <2>2, <2>3, <2>4 DEF CallShape, HeapShape, CallStates
  <2> QED BY <1>2, <2>6, <2>7
<1> QED BY <1>3, <1>4

LEMMA RecordExecutionHeap ==
  ASSUME TasksIInv, NEW i \in Audits, RecordExecution(i)
  PROVE  HeapShape' /\ CallShape' /\ StoreBound'
<1>0. HeapShape /\ CallShape /\ StoreBound BY DEF TasksIInv
<1> DEFINE e == NewRecord(i, "SKIPPED")
<1>1. e \in Records /\ heap' = Append(heap, e)
  BY <1>0, NewRecordTyped, TasksAssumption DEF RecordExecution, Status, Terminal
<1> HIDE DEF e
<1>2. /\ heap' \in Seq(Records) /\ Len(heap') >= Len(heap) /\ Len(heap) + 1 \in 1..Len(heap')
      /\ \A j \in Ids : store[j] # 0 => store[j] \in 1..Len(heap') /\ heap'[store[j]].id = j
  BY <1>0, <1>1, RecordAppended
<1>3. /\ store' \in [Ids -> Nat]
      /\ \A j \in Ids : store'[j] # 0 => store'[j] \in 1..Len(heap') /\ heap'[store'[j]].id = j
      /\ StoreBound'
  <2>1. store \in [Ids -> Nat] /\ Save(Len(heap) + 1, heap') BY <1>0 DEF HeapShape, RecordExecution
  <2> QED BY <1>0, <1>2, <2>1, SaveBounds
<1>4. /\ scan \subseteq 1..Len(heap')
      /\ \A t \in Threads : doing[t].step # "none" => doing[t].ref \in 1..Len(heap')
      /\ \A d \in Calls : state[d] \notin {"new", "rejected"} => own[d] \in 1..Len(heap')
  BY <1>0, <1>2, HeapGrows
<1>5. UNCHANGED <<own, state, thread, doing, scan, beats>> BY DEF RecordExecution
<1> QED BY <1>0, <1>2, <1>3, <1>4, <1>5 DEF HeapShape, CallShape

(* A thread begins an operation on a record, or ends one. *)
LEMMA Begun ==
  ASSUME HeapShape, NEW t \in Threads, NEW op \in Operations, Begin(t, op),
         op.step # "none" => op.ref \in 1..Len(heap)
  PROVE  /\ doing' \in [Threads -> Operations]
         /\ \A u \in Threads : doing'[u].step # "none" => doing'[u].ref \in 1..Len(heap)
  BY DEF HeapShape, Begin

LEMMA IdleTyped == Idle \in Operations /\ Idle.step = "none"
  BY DEF Idle, Operation, Operations, Status

LEMMA StepTyped ==
  ASSUME HeapShape, NEW t \in Threads, doing[t].step # "none",
         NEW s \in {"check", "set", "write"}
  PROVE  /\ [doing[t] EXCEPT !.step = s] \in Operations
         /\ [doing[t] EXCEPT !.step = s].ref \in 1..Len(heap)
         /\ [doing[t] EXCEPT !.step = s].kind = doing[t].kind
         /\ [doing[t] EXCEPT !.step = s].call = doing[t].call
<1>1. doing[t] \in Operations /\ doing[t].ref \in 1..Len(heap) BY DEF HeapShape
<1> DEFINE op == doing[t]
<1>2. op \in Operations BY <1>1
<1> HIDE DEF op
<1>3. /\ [op EXCEPT !.step = s] \in Operations
      /\ [op EXCEPT !.step = s].ref = op.ref
      /\ [op EXCEPT !.step = s].kind = op.kind
      /\ [op EXCEPT !.step = s].call = op.call
  BY <1>2 DEF Operations
<1> QED BY <1>1, <1>3 DEF op

LEMMA SaveLateHeap ==
  ASSUME TasksIInv, NEW t \in Threads, SaveLate(t) PROVE HeapShape' /\ CallShape' /\ StoreBound'
<1>0. HeapShape /\ CallShape /\ StoreBound BY DEF TasksIInv
<1>1. /\ doing[t].step = "save" /\ doing[t].ref \in 1..Len(heap)
      /\ UNCHANGED <<heap, own, state, thread, scan, beats>>
  BY <1>0 DEF SaveLate, HeapShape
<1>2. /\ store' \in [Ids -> Nat]
      /\ \A i \in Ids : store'[i] # 0 => store'[i] \in 1..Len(heap) /\ heap[store'[i]].id = i
      /\ StoreBound'
  <2>1. /\ heap \in Seq(Records) /\ store \in [Ids -> Nat] /\ Save(doing[t].ref, heap)
        /\ \A i \in Ids : store[i] # 0 => store[i] \in 1..Len(heap) /\ heap[store[i]].id = i
    BY <1>0 DEF HeapShape, SaveLate
  <2> QED BY <1>0, <1>1, <2>1, SaveBounds
<1>3. /\ doing' \in [Threads -> Operations]
      /\ \A u \in Threads : doing'[u].step # "none" => doing'[u].ref \in 1..Len(heap)
  <2>1. Begin(t, [doing[t] EXCEPT !.step = "check"]) BY DEF SaveLate
  <2>2. /\ [doing[t] EXCEPT !.step = "check"] \in Operations
        /\ [doing[t] EXCEPT !.step = "check"].ref \in 1..Len(heap)
    BY <1>0, <1>1, StepTyped
  <2> QED BY <1>0, <2>1, <2>2, Begun
<1> QED BY <1>0, <1>1, <1>2, <1>3 DEF HeapShape, CallShape

(* What Finish does to the call of the operation. *)
LEMMA FinishState ==
  ASSUME HeapShape, CallShape, NEW t \in Threads, NEW started \in BOOLEAN,
         CallsAtWork, doing[t].step # "none", Finish(t, started)
  PROVE  /\ state' \in [Calls -> CallStates]
         /\ \A c \in Calls :
              \/ state'[c] = state[c]
              \/ /\ doing[t].kind \in {"start", "end"} /\ c = doing[t].call
                 /\ state[c] \in {"starting", "ended"} /\ state'[c] \in {"body", "over"}
         /\ doing' = [doing EXCEPT ![t] = Idle]
         /\ doing' \in [Threads -> Operations]
         /\ \A u \in Threads : doing'[u].step # "none" => doing'[u].ref \in 1..Len(heap)
<1>1. Begin(t, Idle) BY DEF Finish
<1>2. /\ doing' = [doing EXCEPT ![t] = Idle]
      /\ doing' \in [Threads -> Operations]
      /\ \A u \in Threads : doing'[u].step # "none" => doing'[u].ref \in 1..Len(heap)
  BY <1>1, IdleTyped, Begun DEF Begin
<1>3. CASE doing[t].kind = "start"
  <2>1. doing[t].call \in Calls /\ state[doing[t].call] = "starting"
    BY <1>3 DEF CallsAtWork, InTheMiddle
  <2>2. state' = [state EXCEPT ![doing[t].call] = IF started THEN "body" ELSE "over"]
    BY <1>3 DEF Finish
  <2> QED BY <1>2, <1>3, <2>1, <2>2 DEF CallShape, CallStates
<1>4. CASE doing[t].kind = "end"
  <2>1. doing[t].call \in Calls /\ state[doing[t].call] = "ended"
    BY <1>4 DEF CallsAtWork, InTheMiddle
  <2>2. state' = [state EXCEPT ![doing[t].call] = "over"] BY <1>4 DEF Finish
  <2> QED BY <1>2, <1>4, <2>1, <2>2 DEF CallShape, CallStates
<1>5. CASE doing[t].kind \notin {"start", "end"}
  <2>1. state' = state BY <1>5 DEF Finish
  <2> QED BY <1>2, <2>1 DEF CallShape
<1> QED BY <1>3, <1>4, <1>5

LEMMA CheckHeap ==
  ASSUME TasksIInv, NEW t \in Threads, Check(t) PROVE HeapShape' /\ CallShape' /\ StoreBound'
<1>0. HeapShape /\ CallShape /\ StoreBound /\ CallsAtWork BY DEF TasksIInv
<1>1. doing[t].step = "check" /\ UNCHANGED <<heap, store, own, thread, scan, beats>> BY DEF Check
<1>2. /\ state' \in [Calls -> CallStates]
      /\ \A c \in Calls : state[c] \in {"new", "rejected"} => state'[c] = state[c]
      /\ doing' \in [Threads -> Operations]
      /\ \A u \in Threads : doing'[u].step # "none" => doing'[u].ref \in 1..Len(heap)
  <2>1. CASE Proceeds(doing[t])
    <3>1. Begin(t, [doing[t] EXCEPT !.step = "set"]) /\ state' = state BY <2>1 DEF Check
    <3>2. /\ [doing[t] EXCEPT !.step = "set"] \in Operations
          /\ [doing[t] EXCEPT !.step = "set"].ref \in 1..Len(heap)
      BY <1>0, <1>1, StepTyped
    <3> QED BY <1>0, <3>1, <3>2, Begun DEF CallShape
  <2>2. CASE ~Proceeds(doing[t])
    <3>1. Finish(t, FALSE) BY <2>2 DEF Check
    <3>2. /\ state' \in [Calls -> CallStates]
          /\ \A c \in Calls :
               \/ state'[c] = state[c]
               \/ state[c] \in {"starting", "ended"} /\ state'[c] \in {"body", "over"}
          /\ doing' \in [Threads -> Operations]
          /\ \A u \in Threads : doing'[u].step # "none" => doing'[u].ref \in 1..Len(heap)
      BY <1>0, <1>1, <3>1, FinishState
    <3> QED BY <3>2
  <2> QED BY <2>1, <2>2
<1>3. HeapShape' BY <1>0, <1>1, <1>2 DEF HeapShape
<1>4. CallShape' BY <1>0, <1>1, <1>2 DEF CallShape
<1> QED BY <1>0, <1>1, <1>3, <1>4 DEF StoreBound, Stored

LEMMA SetStatusHeap ==
  ASSUME TasksIInv, NEW t \in Threads, SetStatus(t) PROVE HeapShape' /\ CallShape' /\ StoreBound'
<1>0. HeapShape /\ CallShape /\ StoreBound BY DEF TasksIInv
<1> DEFINE r == doing[t].ref
<1>1. /\ doing[t].step = "set" /\ r \in 1..Len(heap)
      /\ UNCHANGED <<store, own, state, thread, scan, beats>>
  BY <1>0 DEF SetStatus, HeapShape
<1>2. /\ heap' \in Seq(Records) /\ Len(heap') = Len(heap)
      /\ \A i \in 1..Len(heap) : heap'[i].id = heap[i].id
  <2>1. CASE doing[t].kind = "beat" BY <1>0, <2>1 DEF SetStatus, HeapShape
  <2>2. CASE doing[t].kind # "beat"
    <3> DEFINE e == [heap[r] EXCEPT !.status = doing[t].to]
    <3>1. heap' = [heap EXCEPT ![r] = e] BY <2>2 DEF SetStatus
    <3>2. heap[r] \in Records /\ heap \in Seq(Records) BY <1>0, <1>1, ElementOfSeq DEF HeapShape
    <3>3. doing[t].to \in Status BY <1>0 DEF HeapShape, Operations
    <3>4. e \in Records /\ e.id = heap[r].id BY <3>2, <3>3 DEF Records
    <3> HIDE DEF e
    <3> QED BY <1>1, <3>1, <3>2, <3>4, ExceptSeq
  <2> QED BY <2>1, <2>2
<1>3. /\ doing' \in [Threads -> Operations]
      /\ \A u \in Threads : doing'[u].step # "none" => doing'[u].ref \in 1..Len(heap)
  <2>1. Begin(t, [doing[t] EXCEPT !.step = "write"]) BY DEF SetStatus
  <2>2. /\ [doing[t] EXCEPT !.step = "write"] \in Operations
        /\ [doing[t] EXCEPT !.step = "write"].ref \in 1..Len(heap)
    BY <1>0, <1>1, StepTyped
  <2> QED BY <1>0, <2>1, <2>2, Begun
<1>4. HeapShape' BY <1>0, <1>1, <1>2, <1>3 DEF HeapShape
<1>5. CallShape' BY <1>0, <1>1, <1>2 DEF CallShape
<1> QED BY <1>0, <1>1, <1>4, <1>5 DEF StoreBound, Stored

(* The store is asked to accept an update: it puts a copy in the place of
   the record it has. *)
LEMMA UpdateHeap ==
  ASSUME HeapShape, StoreBound, NEW t \in Threads, doing[t].step # "none",
         NEW beat \in {"fresh", "old"}, Update(t, beat)
  PROVE  /\ heap' \in Seq(Records) /\ Len(heap') >= Len(heap)
         /\ store' \in [Ids -> Nat]
         /\ \A i \in Ids : store'[i] # 0 => store'[i] \in 1..Len(heap') /\ heap'[store'[i]].id = i
         /\ StoreBound'
<1> DEFINE r == doing[t].ref
           copy == [heap[r] EXCEPT !.version = @ + 1, !.beat = beat]
           kept == IF Shared(r, t) THEN copy ELSE Gone
           old == [heap EXCEPT ![r] = kept]
           beaten == [heap[r] EXCEPT !.beat = beat]
<1>1. /\ r \in 1..Len(heap) /\ heap \in Seq(Records) /\ Len(heap) \in Nat
      /\ heap[r] \in Records
  BY ElementOfSeq, LenProperties DEF HeapShape
<1>2. copy \in Records /\ copy.id = heap[r].id /\ beaten \in Records /\ beaten.id = heap[r].id
  <2>1. beaten \in Records /\ beaten.id = heap[r].id BY <1>1 DEF Records
  <2>2. heap[r].version + 1 \in Nat BY <1>1 DEF Records
  <2>3. copy = [beaten EXCEPT !.version = heap[r].version + 1] BY <1>1 DEF Records
  <2> HIDE DEF beaten, copy
  <2>4. copy \in Records /\ copy.id = beaten.id BY <2>1, <2>2, <2>3 DEF Records
  <2> QED BY <2>1, <2>4
<1>3. CASE Accepts(r)
  <2>1. /\ heap' = Append(old, copy)
        /\ store' = [store EXCEPT ![copy.id] = Len(heap) + 1]
    BY <1>3 DEF Update
  <2>2. Gone \in Records BY <1>1 DEF Gone, Records, Status
  <2>3. kept \in Records BY <1>2, <2>2
  <2> HIDE DEF kept, copy
  <2>4. /\ old \in Seq(Records) /\ Len(old) = Len(heap)
        /\ \A j \in 1..Len(heap) : j # r => old[j] = heap[j]
    BY <1>1, <2>3, ExceptSeq
  <2> HIDE DEF old
  <2>5. /\ heap' \in Seq(Records) /\ Len(heap') = Len(heap) + 1
        /\ \A j \in 1..Len(heap) : j # r => heap'[j] = heap[j]
        /\ heap'[Len(heap) + 1] = copy
    BY <1>2, <2>1, <2>4, AppendRecord
  <2>6. copy.id \in Ids /\ store[copy.id] # 0 BY <1>1, <1>2, <1>3 DEF Accepts, Records
  <2>7. /\ store' \in [Ids -> Nat] /\ store'[copy.id] = Len(heap) + 1
        /\ \A i \in Ids : i # copy.id => store'[i] = store[i]
    BY <1>1, <2>1, <2>6 DEF HeapShape
  <2>8. \A i \in Ids : store'[i] # 0 => store'[i] \in 1..Len(heap') /\ heap'[store'[i]].id = i
    <3> SUFFICES ASSUME NEW i \in Ids, store'[i] # 0
                 PROVE  store'[i] \in 1..Len(heap') /\ heap'[store'[i]].id = i
      OBVIOUS
    <3>1. CASE i = copy.id BY <1>1, <2>5, <2>7, <3>1
    <3>2. CASE i # copy.id
      <4>1. store'[i] = store[i] /\ store[i] \in 1..Len(heap) /\ heap[store[i]].id = i
        BY <2>7, <3>2 DEF HeapShape
      <4>2. store[i] # r BY <4>1, <3>2, <1>2
      <4> QED BY <1>1, <4>1, <4>2, <2>5
    <3> QED BY <3>1, <3>2
  <2>9. Stored' = Stored BY <1>1, <2>6, <2>7 DEF Stored
  <2> QED BY <1>1, <2>5, <2>7, <2>8, <2>9 DEF StoreBound
<1>4. CASE ~Accepts(r)
  <2>1. heap' = [heap EXCEPT ![r] = beaten] /\ store' = store BY <1>4 DEF Update
  <2> HIDE DEF beaten
  <2>2. /\ heap' \in Seq(Records) /\ Len(heap') = Len(heap)
        /\ \A j \in 1..Len(heap) : heap'[j].id = heap[j].id
    BY <1>1, <1>2, <2>1, ExceptSeq
  <2> QED BY <1>1, <2>1, <2>2 DEF HeapShape, StoreBound, Stored
<1> QED BY <1>3, <1>4

LEMMA WriteHeap ==
  ASSUME TasksIInv, NEW t \in Threads, Write(t) PROVE HeapShape' /\ CallShape' /\ StoreBound'
<1>0. HeapShape /\ CallShape /\ StoreBound /\ CallsAtWork BY DEF TasksIInv
<1>1. /\ doing[t].step = "write" /\ UNCHANGED <<own, thread, scan, beats>>
      /\ \E beat \in {"fresh", "old"} : Update(t, beat)
      /\ \E started \in BOOLEAN : Finish(t, started)
  BY DEF Write, Accepts
<1>2. /\ heap' \in Seq(Records) /\ Len(heap') >= Len(heap)
      /\ store' \in [Ids -> Nat]
      /\ \A i \in Ids : store'[i] # 0 => store'[i] \in 1..Len(heap') /\ heap'[store'[i]].id = i
      /\ StoreBound'
  BY <1>0, <1>1, UpdateHeap
<1>3. /\ state' \in [Calls -> CallStates]
      /\ \A c \in Calls :
           \/ state'[c] = state[c]
           \/ state[c] \in {"starting", "ended"} /\ state'[c] \in {"body", "over"}
      /\ doing' \in [Threads -> Operations]
      /\ \A u \in Threads : doing'[u].step # "none" => doing'[u].ref \in 1..Len(heap)
  BY <1>0, <1>1, FinishState
<1>4. /\ 1..Len(heap) \subseteq 1..Len(heap') /\ scan \subseteq 1..Len(heap')
      /\ \A c \in Calls : state[c] \notin {"new", "rejected"} => own[c] \in 1..Len(heap')
  BY <1>0, <1>2, HeapGrows
<1>5. HeapShape' BY <1>0, <1>1, <1>2, <1>3, <1>4 DEF HeapShape
<1>6. CallShape' BY <1>0, <1>1, <1>3, <1>4 DEF CallShape
<1> QED BY <1>2, <1>5, <1>6

LEMMA ElapseHeap ==
  ASSUME TasksIInv, Elapse PROVE HeapShape' /\ CallShape' /\ StoreBound'
<1>0. HeapShape /\ CallShape /\ StoreBound BY DEF TasksIInv
<1>1. UNCHANGED <<store, own, state, thread, doing, scan, beats>> BY DEF Elapse
<1>2. /\ heap' \in Seq(Records) /\ Len(heap') = Len(heap)
      /\ \A i \in 1..Len(heap) : heap'[i].id = heap[i].id
  <2>1. heap \in Seq(Records) /\ DOMAIN heap = 1..Len(heap) /\ Len(heap) \in Nat
    BY <1>0, LenProperties DEF HeapShape
  <2>2. \A i \in 1..Len(heap) : heap[i] \in Records BY <2>1, ElementOfSeq
  <2>3. \A i \in 1..Len(heap) : [heap[i] EXCEPT !.beat = "old"] \in Records
                               /\ [heap[i] EXCEPT !.beat = "old"].id = heap[i].id
    BY <2>2 DEF Records
  <2>4. heap' = [i \in 1..Len(heap) |-> [heap[i] EXCEPT !.beat = "old"]] BY <2>1 DEF Elapse
  <2>5. heap' \in [1..Len(heap) -> Records] BY <2>3, <2>4
  <2>6. heap' \in Seq(Records) /\ Len(heap') = Len(heap) BY <2>1, <2>5
  <2> QED BY <2>3, <2>4, <2>6
<1> QED BY <1>0, <1>1, <1>2 DEF HeapShape, CallShape, StoreBound, Stored

(* The other actions leave heap and store alone. *)
LEMMA OtherHeap ==
  ASSUME TasksIInv, UNCHANGED <<heap, store, own>>,
         state' \in [Calls -> CallStates], thread' \in [Calls -> Threads],
         \A c \in Calls : state[c] \in {"new", "rejected"} => state'[c] \in {"new", "rejected"},
         doing' \in [Threads -> Operations], scan' \subseteq 1..Len(heap),
         \A u \in Threads : doing'[u].step # "none" => doing'[u].ref \in 1..Len(heap),
         beats' \in 0..MaxBeats
  PROVE  HeapShape' /\ CallShape' /\ StoreBound'
<1>0. HeapShape /\ CallShape /\ StoreBound BY DEF TasksIInv
<1> QED BY <1>0 DEF HeapShape, CallShape, StoreBound, Stored

(* store.load of a record that is there, and the operation on it. *)
LEMMA OperationTyped ==
  ASSUME HeapShape, NEW kind \in {"start", "beat", "end", "dead"},
         NEW ref \in 1..Len(heap), NEW to \in Status, NEW c \in Calls \cup {NoCall},
         NEW step \in {"save", "check"}
  PROVE  /\ Operation(kind, ref, to, c, step) \in Operations
         /\ Operation(kind, ref, to, c, step).ref \in 1..Len(heap)
<1>1. ref \in Nat BY LenProperties DEF HeapShape
<1> QED BY <1>1 DEF Operation, Operations

LEMMA CallStepHeap ==
  ASSUME TasksIInv, NEW c \in Calls,
         \/ Run(c) \/ FreeSlot(c) \/ Enqueue(c) \/ Heartbeat(c) \/ BodyCancelled(c)
         \/ \E s \in Outcomes : BodyEnds(c, s)
  PROVE  HeapShape' /\ CallShape' /\ StoreBound'
<1>0. HeapShape /\ CallShape BY DEF TasksIInv
<1> DEFINE i == IdOf[c]
           t == thread[c]
<1>1. i \in Ids /\ t \in Threads /\ (store[i] # 0 => store[i] \in 1..Len(heap))
  BY <1>0, TasksAssumption DEF HeapShape, CallShape
<1>2. UNCHANGED <<heap, store, own, thread, scan>>
  BY DEF Run, FreeSlot, Enqueue, Heartbeat, BodyCancelled, BodyEnds, poolVars
<1>3. /\ state' \in [Calls -> CallStates]
      /\ \A d \in Calls : state[d] \in {"new", "rejected"} => state'[d] \in {"new", "rejected"}
  BY <1>0 DEF Run, FreeSlot, Enqueue, Heartbeat, BodyCancelled, BodyEnds, CallShape, CallStates
<1>4. beats' \in 0..MaxBeats BY <1>0, TasksAssumption
  DEF Run, FreeSlot, Enqueue, Heartbeat, BodyCancelled, BodyEnds, HeapShape
<1>5. \/ doing' = doing
      \/ \E op \in Operations : Begin(t, op) /\ op.ref \in 1..Len(heap)
  <2>1. CASE Run(c)
    <3>1. own[c] \in 1..Len(heap) BY <1>0, <2>1 DEF Run, CallShape
    <3>2. "RUNNING" \in Status BY DEF Status
    <3> QED BY <1>0, <1>1, <2>1, <3>1, <3>2, OperationTyped DEF Run
  <2>2. CASE Heartbeat(c)
    <3>1. "RUNNING" \in Status BY DEF Status
    <3> QED BY <1>0, <1>1, <2>2, <3>1, OperationTyped DEF Heartbeat
  <2>3. CASE \E s \in Outcomes : BodyEnds(c, s)
    <3>1. Outcomes \subseteq Status BY TasksAssumption DEF Status, Terminal
    <3> QED BY <1>0, <1>1, <2>3, <3>1, OperationTyped DEF BodyEnds
  <2>4. CASE FreeSlot(c) \/ Enqueue(c) \/ BodyCancelled(c)
    BY <2>4 DEF FreeSlot, Enqueue, BodyCancelled
  <2> QED BY <2>1, <2>2, <2>3, <2>4
<1>6. /\ doing' \in [Threads -> Operations]
      /\ \A u \in Threads : doing'[u].step # "none" => doing'[u].ref \in 1..Len(heap)
  <2>1. CASE doing' = doing BY <1>0, <2>1 DEF HeapShape
  <2>2. ASSUME NEW op \in Operations, Begin(t, op), op.ref \in 1..Len(heap)
        PROVE  /\ doing' \in [Threads -> Operations]
               /\ \A u \in Threads : doing'[u].step # "none" => doing'[u].ref \in 1..Len(heap)
    BY <1>0, <1>1, <2>2, Begun
  <2> QED BY <1>5, <2>1, <2>2
<1>7. scan' \subseteq 1..Len(heap) /\ thread' \in [Calls -> Threads]
  BY <1>0, <1>2 DEF HeapShape, CallShape
<1> QED BY <1>2, <1>3, <1>4, <1>6, <1>7, OtherHeap

LEMMA ScanHeap ==
  ASSUME TasksIInv,
         \/ ScanDeadTasks \/ Close
         \/ \E r \in scan : ScanNext(r)
         \/ \E w \in Workers : TakeWork(w)
  PROVE  HeapShape' /\ CallShape' /\ StoreBound'
<1>0. HeapShape /\ CallShape /\ QueueWaits BY DEF TasksIInv
<1>1. UNCHANGED <<heap, store, own, beats>>
  BY DEF ScanDeadTasks, ScanNext, TakeWork, Close, poolVars
<1>2. scan' \subseteq 1..Len(heap)
  <2>1. CASE ScanDeadTasks
    <3>1. scan' = {store[i] : i \in Stored} BY <2>1 DEF ScanDeadTasks
    <3>2. \A i \in Stored : store[i] \in 1..Len(heap) BY <1>0 DEF HeapShape, Stored
    <3> QED BY <3>1, <3>2
  <2>2. CASE \E r \in scan : ScanNext(r) BY <1>0, <2>2 DEF ScanNext, HeapShape
  <2>3. CASE Close \/ \E w \in Workers : TakeWork(w) BY <1>0, <2>3 DEF TakeWork, Close, HeapShape
  <2> QED BY <2>1, <2>2, <2>3
<1>3. /\ state' \in [Calls -> CallStates] /\ thread' \in [Calls -> Threads]
      /\ \A c \in Calls : state[c] \in {"new", "rejected"} => state'[c] \in {"new", "rejected"}
  <2>1. ASSUME NEW w \in Workers, TakeWork(w)
        PROVE  /\ state' \in [Calls -> CallStates] /\ thread' \in [Calls -> Threads]
               /\ \A c \in Calls :
                    state[c] \in {"new", "rejected"} => state'[c] \in {"new", "rejected"}
    <3> DEFINE h == Head(workQueue)
    <3>1. workQueue \in Seq(Calls) /\ workQueue # <<>> /\ h = workQueue[1] /\ 1 \in 1..Len(workQueue)
      BY <1>0, <2>1 DEF TakeWork, QueueWaits
    <3>2. h \in Calls /\ state[h] = "queued" BY <1>0, <3>1, ElementOfSeq DEF QueueWaits
    <3>3. state' = [state EXCEPT ![h] = "taken"] /\ thread' = [thread EXCEPT ![h] = w]
      BY <2>1 DEF TakeWork
    <3> HIDE DEF h
    <3> QED BY <1>0, <3>2, <3>3 DEF CallShape, CallStates, Threads
  <2> QED BY <1>0, <2>1 DEF ScanDeadTasks, ScanNext, Close, CallShape
<1>4. /\ doing' \in [Threads -> Operations]
      /\ \A u \in Threads : doing'[u].step # "none" => doing'[u].ref \in 1..Len(heap)
  <2>1. ASSUME NEW r \in scan, ScanNext(r)
        PROVE  /\ doing' \in [Threads -> Operations]
               /\ \A u \in Threads : doing'[u].step # "none" => doing'[u].ref \in 1..Len(heap)
    <3>1. Begin(Loop, Operation("dead", r, "DEAD", NoCall, "check")) BY <2>1 DEF ScanNext
    <3>2. r \in 1..Len(heap) /\ "DEAD" \in Status /\ Loop \in Threads
      BY <1>0 DEF HeapShape, Status, Terminal, Threads
    <3>3. /\ Operation("dead", r, "DEAD", NoCall, "check") \in Operations
          /\ Operation("dead", r, "DEAD", NoCall, "check").ref \in 1..Len(heap)
      BY <1>0, <3>2, OperationTyped
    <3> QED BY <1>0, <3>1, <3>2, <3>3, Begun
  <2>2. CASE ScanDeadTasks \/ Close \/ \E w \in Workers : TakeWork(w)
    <3>1. doing' = doing BY <2>2 DEF ScanDeadTasks, TakeWork, Close
    <3> QED BY <1>0, <3>1 DEF HeapShape
  <2> QED BY <2>1, <2>2
<1>5. beats' \in 0..MaxBeats BY <1>0, <1>1 DEF HeapShape
<1> QED BY <1>1, <1>2, <1>3, <1>4, <1>5, OtherHeap

----------------------------------------
(* The gate, the queue, and the threads at work. *)

(* Nobody takes or frees a place. *)
LEMMA GateKept ==
  ASSUME GateHeld, QueueWaits, gate' = gate, workQueue' = workQueue,
         \A c \in Calls : \/ state'[c] = state[c]
                          \/ state[c] \notin OnTheWay /\ state'[c] \notin OnTheWay
  PROVE  GateHeld' /\ QueueWaits'
<1>1. Waiting' = Waiting BY DEF Waiting, OnTheWay
<1>2. GateHeld' BY <1>1 DEF GateHeld
<1>3. \A j \in 1..Len(workQueue) : workQueue[j] \in Calls BY ElementOfSeq DEF QueueWaits
<1>4. QueueWaits' BY <1>3 DEF QueueWaits, OnTheWay
<1> QED BY <1>2, <1>4

(* Calls that are not starting or ending leave those at work alone. *)
LEMMA WorkKept ==
  ASSUME CallsAtWork, doing' = doing, \A c \in Calls : state[c] \in {"starting", "ended"} =>
                            state'[c] = state[c] /\ thread'[c] = thread[c]
  PROVE  CallsAtWork'
BY DEF CallsAtWork, InTheMiddle

(* One thread goes on: the calls of the other threads stay as they are. *)
LEMMA OneWorks ==
  ASSUME CallsAtWork, NEW t \in Threads, NEW op \in Operations,
         doing' = [doing EXCEPT ![t] = op], doing \in [Threads -> Operations],
         \A c \in Calls : state[c] \in {"starting", "ended"} /\ thread[c] # t =>
                            state'[c] = state[c] /\ thread'[c] = thread[c],
         op.step # "none" /\ op.kind \in {"start", "end"} =>
           /\ op.call \in Calls /\ thread'[op.call] = t
           /\ state'[op.call] = (IF op.kind = "start" THEN "starting" ELSE "ended")
  PROVE  CallsAtWork'
<1>1. doing'[t] = op /\ \A u \in Threads \ {t} : doing'[u] = doing[u] OBVIOUS
<1>2. InTheMiddle(t, "start", "starting")' /\ InTheMiddle(t, "end", "ended")'
  BY <1>1 DEF InTheMiddle
<1>3. ASSUME NEW u \in Threads \ {t}
      PROVE  InTheMiddle(u, "start", "starting")' /\ InTheMiddle(u, "end", "ended")'
  <2>1. doing'[u] = doing[u] BY <1>1
  <2> QED BY <2>1 DEF CallsAtWork, InTheMiddle
<1> QED BY <1>2, <1>3 DEF CallsAtWork

LEMMA SubmitWork ==
  ASSUME TasksIInv, NEW c \in Calls, Submit(c) PROVE GateHeld' /\ QueueWaits' /\ CallsAtWork'
<1>0. CallShape /\ GateHeld /\ QueueWaits /\ CallsAtWork BY DEF TasksIInv
<1>1. /\ state[c] = "new" /\ state' = [state EXCEPT ![c] = "ready"]
      /\ UNCHANGED <<thread, doing, gate, workQueue>>
  BY DEF Submit, poolVars
<1>2. GateHeld' /\ QueueWaits' BY <1>0, <1>1, GateKept DEF CallShape, OnTheWay
<1>3. CallsAtWork' BY <1>0, <1>1, WorkKept DEF CallShape
<1> QED BY <1>2, <1>3

(* A place is taken ... *)
LEMMA SubmitInThreadWork ==
  ASSUME TasksIInv, NEW c \in Calls, SubmitInThread(c)
  PROVE  GateHeld' /\ QueueWaits' /\ CallsAtWork'
<1>0. CallShape /\ GateHeld /\ QueueWaits /\ CallsAtWork BY DEF TasksIInv
<1>1. state[c] = "new" /\ UNCHANGED <<thread, doing, workQueue>> BY DEF SubmitInThread
<1>2. CASE closed \/ gate = QueueSize
  <2>1. state' = [state EXCEPT ![c] = "rejected"] /\ gate' = gate BY <1>2 DEF SubmitInThread
  <2>2. GateHeld' /\ QueueWaits' BY <1>0, <1>1, <2>1, GateKept DEF CallShape, OnTheWay
  <2>3. CallsAtWork' BY <1>0, <1>1, <2>1, WorkKept DEF CallShape
  <2> QED BY <2>2, <2>3
<1>3. CASE ~(closed \/ gate = QueueSize)
  <2>1. state' = [state EXCEPT ![c] = "slot"] /\ gate' = gate + 1 BY <1>3 DEF SubmitInThread
  <2>2. Waiting' = Waiting \cup {c} /\ c \notin Waiting
    BY <1>0, <1>1, <2>1 DEF Waiting, OnTheWay, CallShape
  <2>3. IsFiniteSet(Waiting') /\ Cardinality(Waiting') = Cardinality(Waiting) + 1
    BY <1>0, <2>2, FS_AddElement DEF GateHeld
  <2>4. gate' \in 0..QueueSize BY <1>0, <1>3, <2>1, TasksAssumption DEF GateHeld
  <2>5. GateHeld' BY <1>0, <2>1, <2>3, <2>4 DEF GateHeld
  <2>6. \A j \in 1..Len(workQueue) : workQueue[j] \in Calls BY <1>0, ElementOfSeq DEF QueueWaits
  <2>7. QueueWaits' BY <1>0, <1>1, <2>1, <2>6 DEF QueueWaits, CallShape
  <2>8. CallsAtWork' BY <1>0, <1>1, <2>1, WorkKept DEF CallShape
  <2> QED BY <2>5, <2>7, <2>8
<1> QED BY <1>2, <1>3

(* ... and given back, by a caller that finds the pool closed or by the
   worker that takes the work. *)
LEMMA PlaceFreed ==
  ASSUME TasksIInv, NEW c \in Calls, NEW s \in {"rejected", "ready"},
         state[c] \in OnTheWay \ {"queued"}, state' = [state EXCEPT ![c] = s],
         gate' = IF gate = 0 THEN 0 ELSE gate - 1,
         UNCHANGED <<thread, doing, workQueue>>
  PROVE  GateHeld' /\ QueueWaits' /\ CallsAtWork'
<1>0. CallShape /\ GateHeld /\ QueueWaits /\ CallsAtWork BY DEF TasksIInv
<1>1. Waiting' = Waiting \ {c} /\ c \in Waiting BY <1>0 DEF Waiting, OnTheWay, CallShape
<1>2. IsFiniteSet(Waiting') /\ Cardinality(Waiting') = Cardinality(Waiting) - 1
  BY <1>0, <1>1, FS_RemoveElement DEF GateHeld
<1>3. Cardinality(Waiting) # 0 BY <1>0, <1>1, FS_EmptySet DEF GateHeld
<1>4. GateHeld' BY <1>0, <1>2, <1>3, TasksAssumption DEF GateHeld
<1>5. \A j \in 1..Len(workQueue) : workQueue[j] \in Calls BY <1>0, ElementOfSeq DEF QueueWaits
<1>6. QueueWaits' BY <1>0, <1>5 DEF QueueWaits, CallShape, OnTheWay
<1>7. CallsAtWork' BY <1>0, WorkKept DEF CallShape, OnTheWay
<1> QED BY <1>4, <1>6, <1>7

LEMMA EnqueueWork ==
  ASSUME TasksIInv, NEW c \in Calls, Enqueue(c) PROVE GateHeld' /\ QueueWaits' /\ CallsAtWork'
<1>0. CallShape /\ GateHeld /\ QueueWaits /\ CallsAtWork BY DEF TasksIInv
<1>1. state[c] = "slot" /\ UNCHANGED <<thread, doing>> BY DEF Enqueue
<1>2. CASE closed
  <2>1. /\ state' = [state EXCEPT ![c] = "rejected"] /\ workQueue' = workQueue
        /\ gate' = IF gate = 0 THEN 0 ELSE gate - 1
    BY <1>2 DEF Enqueue
  <2> QED BY <1>1, <2>1, PlaceFreed DEF OnTheWay
<1>3. CASE ~closed
  <2> DEFINE n == Len(workQueue)
  <2>1. /\ state' = [state EXCEPT ![c] = "queued"] /\ gate' = gate
        /\ workQueue' = Append(workQueue, c)
    BY <1>3 DEF Enqueue
  <2>2. Waiting' = Waiting BY <1>0, <1>1, <2>1 DEF Waiting, OnTheWay, CallShape
  <2>3. GateHeld' BY <1>0, <2>1, <2>2 DEF GateHeld
  <2>4. /\ n \in Nat /\ workQueue' \in Seq(Calls) /\ Len(workQueue') = n + 1
        /\ \A j \in 1..n : workQueue'[j] = workQueue[j] /\ workQueue[j] \in Calls
        /\ workQueue'[n + 1] = c
    BY <1>0, <2>1, AppendProperties, ElementOfSeq, LenProperties DEF QueueWaits
  <2>5. \A j \in 1..n : workQueue[j] # c BY <1>0, <1>1 DEF QueueWaits
  <2>6. \A j \in 1..(n + 1) : j \in 1..n \/ j = n + 1 BY <2>4
  <2> HIDE DEF n
  <2>7. \A j \in 1..Len(workQueue') : state'[workQueue'[j]] = "queued"
    BY <1>0, <2>1, <2>4, <2>6 DEF QueueWaits, CallShape, n
  <2>8. \A j, k \in 1..Len(workQueue') : workQueue'[j] = workQueue'[k] => j = k
    BY <1>0, <2>4, <2>5, <2>6 DEF QueueWaits, n
  <2>9. CallsAtWork' BY <1>0, <1>1, <2>1, WorkKept DEF CallShape
  <2> QED BY <2>3, <2>4, <2>7, <2>8, <2>9 DEF QueueWaits
<1> QED BY <1>2, <1>3

LEMMA FreeSlotWork ==
  ASSUME TasksIInv, NEW c \in Calls, FreeSlot(c) PROVE GateHeld' /\ QueueWaits' /\ CallsAtWork'
BY PlaceFreed DEF FreeSlot, OnTheWay

(* The oldest in the queue goes to a worker. *)
LEMMA TakeWorkWork ==
  ASSUME TasksIInv, NEW w \in Workers, TakeWork(w) PROVE GateHeld' /\ QueueWaits' /\ CallsAtWork'
<1>0. CallShape /\ GateHeld /\ QueueWaits /\ CallsAtWork BY DEF TasksIInv
<1> DEFINE h == Head(workQueue)
           n == Len(workQueue)
<1>1. /\ workQueue # <<>> /\ state' = [state EXCEPT ![h] = "taken"]
      /\ thread' = [thread EXCEPT ![h] = w] /\ workQueue' = Tail(workQueue)
      /\ UNCHANGED <<doing, gate>>
  BY DEF TakeWork
<1>2. /\ workQueue \in Seq(Calls) /\ n \in Nat /\ n >= 1 /\ h = workQueue[1]
      /\ \A j \in 1..n : workQueue[j] \in Calls
  BY <1>0, <1>1, ElementOfSeq, LenProperties, EmptySeq DEF QueueWaits
<1>3. h \in Calls /\ state[h] = "queued" BY <1>0, <1>2 DEF QueueWaits
<1>4. /\ workQueue' \in Seq(Calls) /\ Len(workQueue') = n - 1
      /\ \A j \in 1..(n - 1) : workQueue'[j] = workQueue[j + 1] /\ j + 1 \in 1..n
  BY <1>1, <1>2, HeadTailProperties
<1> HIDE DEF h
<1>5. Waiting' = Waiting BY <1>0, <1>1, <1>3 DEF Waiting, OnTheWay, CallShape
<1>6. GateHeld' BY <1>0, <1>1, <1>5 DEF GateHeld
<1>7. \A j \in 2..n : workQueue[j] # h BY <1>0, <1>2 DEF QueueWaits
<1>8. \A j \in 1..(n - 1) : j + 1 \in 2..n BY <1>2
<1>9. \A j \in 1..Len(workQueue') : state'[workQueue'[j]] = "queued"
  BY <1>0, <1>1, <1>2, <1>4, <1>7, <1>8 DEF QueueWaits, CallShape
<1>10. \A j, k \in 1..Len(workQueue') : workQueue'[j] = workQueue'[k] => j = k
  <2> SUFFICES ASSUME NEW j \in 1..(n - 1), NEW k \in 1..(n - 1), workQueue'[j] = workQueue'[k]
               PROVE  j = k
    BY <1>4
  <2>1. j + 1 = k + 1 BY <1>0, <1>4 DEF QueueWaits
  <2> QED BY <1>2, <2>1
<1>11. CallsAtWork' BY <1>0, <1>1, <1>3, WorkKept DEF CallShape
<1> QED BY <1>4, <1>6, <1>9, <1>10, <1>11 DEF QueueWaits

(* A call starts, beats, ends or is cancelled on its thread. *)
LEMMA RunWork ==
  ASSUME TasksIInv, NEW c \in Calls, Run(c) PROVE GateHeld' /\ QueueWaits' /\ CallsAtWork'
<1>0. HeapShape /\ CallShape /\ GateHeld /\ QueueWaits /\ CallsAtWork BY DEF TasksIInv
<1> DEFINE t == thread[c]
<1>1. /\ state[c] = "ready" /\ state' = [state EXCEPT ![c] = "starting"]
      /\ UNCHANGED <<thread, gate, workQueue>> /\ t \in Threads
  BY <1>0 DEF Run, poolVars, CallShape
<1>2. GateHeld' /\ QueueWaits' BY <1>0, <1>1, GateKept DEF CallShape, OnTheWay
<1>3. PICK op \in Operations :
        /\ Begin(t, op) /\ op.kind = "start" /\ op.call = c
  <2>1. /\ IdOf[c] \in Ids /\ own[c] \in 1..Len(heap) /\ "RUNNING" \in Status
        /\ store[IdOf[c]] # 0 => store[IdOf[c]] \in 1..Len(heap)
    BY <1>0, <1>1, TasksAssumption DEF HeapShape, CallShape, Status
  <2>2. CASE store[IdOf[c]] = 0
    <3>1. Operation("start", own[c], "RUNNING", c, "save") \in Operations
      BY <1>0, <2>1, OperationTyped
    <3>2. Begin(t, Operation("start", own[c], "RUNNING", c, "save")) BY <2>2 DEF Run
    <3> QED BY <3>1, <3>2 DEF Operation
  <2>3. CASE store[IdOf[c]] # 0
    <3>1. Operation("start", store[IdOf[c]], "RUNNING", c, "check") \in Operations
      BY <1>0, <2>1, <2>3, OperationTyped
    <3>2. Begin(t, Operation("start", store[IdOf[c]], "RUNNING", c, "check")) BY <2>3 DEF Run
    <3> QED BY <3>1, <3>2 DEF Operation
  <2> QED BY <2>2, <2>3
<1>4. doing' = [doing EXCEPT ![t] = op] BY <1>3 DEF Begin
<1>5. CallsAtWork'
  <2>1. state'[c] = "starting" /\ \A d \in Calls : d # c => state'[d] = state[d]
    BY <1>0, <1>1 DEF CallShape
  <2> HIDE DEF t
  <2>2. thread'[c] = t BY <1>1 DEF t
  <2> QED BY <1>0, <1>1, <1>3, <1>4, <2>1, <2>2, OneWorks DEF HeapShape
<1> QED BY <1>2, <1>5

LEMMA HeartbeatWork ==
  ASSUME TasksIInv, NEW c \in Calls, Heartbeat(c) PROVE GateHeld' /\ QueueWaits' /\ CallsAtWork'
<1>0. HeapShape /\ CallShape /\ GateHeld /\ QueueWaits /\ CallsAtWork BY DEF TasksIInv
<1> DEFINE t == thread[c]
           op == Operation("beat", store[IdOf[c]], "RUNNING", c, "check")
<1>1. /\ Begin(t, op) /\ UNCHANGED <<state, thread, gate, workQueue>> /\ t \in Threads
      /\ store[IdOf[c]] # 0
  BY <1>0 DEF Heartbeat, poolVars, CallShape
<1>2. GateHeld' /\ QueueWaits' BY <1>0, <1>1, GateKept
<1>3. op \in Operations
  <2>1. IdOf[c] \in Ids /\ store[IdOf[c]] \in 1..Len(heap) /\ "RUNNING" \in Status
    BY <1>0, <1>1, TasksAssumption DEF HeapShape, Status
  <2> QED BY <1>0, <2>1, OperationTyped
<1>4. op.kind = "beat" /\ doing' = [doing EXCEPT ![t] = op] BY <1>1 DEF Operation, Begin
<1> HIDE DEF op, t
<1> QED BY <1>0, <1>1, <1>2, <1>3, <1>4, OneWorks DEF HeapShape

LEMMA BodyEndsWork ==
  ASSUME TasksIInv, NEW c \in Calls, NEW s \in Outcomes, BodyEnds(c, s)
  PROVE  GateHeld' /\ QueueWaits' /\ CallsAtWork'
<1>0. HeapShape /\ CallShape /\ GateHeld /\ QueueWaits /\ CallsAtWork BY DEF TasksIInv
<1> DEFINE t == thread[c]
           op == Operation("end", store[IdOf[c]], s, c, "check")
<1>1. /\ state[c] = "body" /\ UNCHANGED <<thread, gate, workQueue>> /\ t \in Threads
  BY <1>0 DEF BodyEnds, poolVars, CallShape
<1>2. CASE store[IdOf[c]] = 0
  <2>1. state' = [state EXCEPT ![c] = "over"] /\ doing' = doing BY <1>2 DEF BodyEnds
  <2>2. GateHeld' /\ QueueWaits' BY <1>0, <1>1, <2>1, GateKept DEF CallShape, OnTheWay
  <2> QED BY <1>0, <1>1, <2>1, <2>2, WorkKept DEF CallShape
<1>3. CASE store[IdOf[c]] # 0
  <2>1. state' = [state EXCEPT ![c] = "ended"] /\ Begin(t, op) BY <1>3 DEF BodyEnds
  <2>2. GateHeld' /\ QueueWaits' BY <1>0, <1>1, <2>1, GateKept DEF CallShape, OnTheWay
  <2>3. op \in Operations
    <3>1. IdOf[c] \in Ids /\ store[IdOf[c]] \in 1..Len(heap) /\ s \in Status
      BY <1>0, <1>3, TasksAssumption DEF HeapShape, Status, Terminal
    <3> QED BY <1>0, <3>1, OperationTyped
  <2>4. op.kind = "end" /\ op.call = c /\ doing' = [doing EXCEPT ![t] = op]
    BY <2>1 DEF Operation, Begin
  <2>5. state'[c] = "ended" /\ \A d \in Calls : d # c => state'[d] = state[d]
    BY <1>0, <2>1 DEF CallShape
  <2>6. thread'[c] = t BY <1>1
  <2> HIDE DEF op, t
  <2> QED BY <1>0, <1>1, <2>2, <2>3, <2>4, <2>5, <2>6, OneWorks DEF HeapShape
<1> QED BY <1>2, <1>3

LEMMA BodyCancelledWork ==
  ASSUME TasksIInv, NEW c \in Calls, BodyCancelled(c) PROVE GateHeld' /\ QueueWaits' /\ CallsAtWork'
<1>0. CallShape /\ GateHeld /\ QueueWaits /\ CallsAtWork BY DEF TasksIInv
<1>1. /\ state[c] = "body" /\ state' = [state EXCEPT ![c] = "over"]
      /\ UNCHANGED <<thread, doing, gate, workQueue>>
  BY DEF BodyCancelled, poolVars
<1>2. GateHeld' /\ QueueWaits' BY <1>0, <1>1, GateKept DEF CallShape, OnTheWay
<1> QED BY <1>0, <1>1, <1>2, WorkKept DEF CallShape

(* What goes on without any call. *)
LEMMA NoCallWork ==
  ASSUME TasksIInv,
         \/ ScanDeadTasks \/ Elapse \/ Close
         \/ \E i \in Audits : RecordExecution(i)
  PROVE  GateHeld' /\ QueueWaits' /\ CallsAtWork'
<1>0. GateHeld /\ QueueWaits /\ CallsAtWork BY DEF TasksIInv
<1>1. UNCHANGED <<state, thread, doing, gate, workQueue>>
  BY DEF ScanDeadTasks, Elapse, Close, RecordExecution, poolVars
<1> QED BY <1>0, <1>1, GateKept, WorkKept

LEMMA ScanNextWork ==
  ASSUME TasksIInv, NEW r \in scan, ScanNext(r) PROVE GateHeld' /\ QueueWaits' /\ CallsAtWork'
<1>0. HeapShape /\ GateHeld /\ QueueWaits /\ CallsAtWork BY DEF TasksIInv
<1> DEFINE op == Operation("dead", r, "DEAD", NoCall, "check")
<1>1. /\ Begin(Loop, op) /\ UNCHANGED <<state, thread, gate, workQueue>>
      /\ Loop \in Threads
  BY DEF ScanNext, poolVars, Threads
<1>2. GateHeld' /\ QueueWaits' BY <1>0, <1>1, GateKept
<1>3. op \in Operations
  <2>1. r \in 1..Len(heap) /\ "DEAD" \in Status BY <1>0 DEF HeapShape, Status, Terminal
  <2> QED BY <1>0, <2>1, OperationTyped
<1>4. op.kind = "dead" /\ doing' = [doing EXCEPT ![Loop] = op] BY <1>1 DEF Operation, Begin
<1> HIDE DEF op
<1> QED BY <1>0, <1>1, <1>2, <1>3, <1>4, OneWorks DEF HeapShape

(* An operation goes on to its next step ... *)
LEMMA StepWork ==
  ASSUME TasksIInv, NEW t \in Threads, NEW s \in {"check", "set", "write"},
         doing[t].step # "none", Begin(t, [doing[t] EXCEPT !.step = s]),
         UNCHANGED <<state, thread, gate, workQueue>>
  PROVE  GateHeld' /\ QueueWaits' /\ CallsAtWork'
<1>0. HeapShape /\ GateHeld /\ QueueWaits /\ CallsAtWork BY DEF TasksIInv
<1> DEFINE op == [doing[t] EXCEPT !.step = s]
<1>1. op \in Operations BY <1>0, StepTyped
<1>2. op.kind = doing[t].kind /\ op.call = doing[t].call BY <1>0 DEF HeapShape, Operations
<1>3. doing' = [doing EXCEPT ![t] = op] BY DEF Begin
<1> HIDE DEF op
<1>4. /\ doing[t].kind = "start" => doing[t].call \in Calls /\ thread[doing[t].call] = t
                                    /\ state[doing[t].call] = "starting"
      /\ doing[t].kind = "end" => doing[t].call \in Calls /\ thread[doing[t].call] = t
                                  /\ state[doing[t].call] = "ended"
  BY <1>0 DEF CallsAtWork, InTheMiddle
<1>5. GateHeld' /\ QueueWaits' BY <1>0, GateKept
<1> QED BY <1>0, <1>1, <1>2, <1>3, <1>4, <1>5, OneWorks DEF HeapShape

(* ... or is over. *)
LEMMA FinishWork ==
  ASSUME TasksIInv, NEW t \in Threads, NEW started \in BOOLEAN,
         doing[t].step # "none", Finish(t, started),
         UNCHANGED <<thread, gate, workQueue>>
  PROVE  GateHeld' /\ QueueWaits' /\ CallsAtWork'
<1>0. HeapShape /\ CallShape /\ GateHeld /\ QueueWaits /\ CallsAtWork BY DEF TasksIInv
<1>1. /\ \A c \in Calls :
           \/ state'[c] = state[c]
           \/ /\ doing[t].kind \in {"start", "end"} /\ c = doing[t].call
              /\ state[c] \in {"starting", "ended"} /\ state'[c] \in {"body", "over"}
      /\ doing' = [doing EXCEPT ![t] = Idle]
  BY <1>0, FinishState
<1>2. GateHeld' /\ QueueWaits' BY <1>0, <1>1, GateKept DEF OnTheWay
<1>3. doing[t].kind \in {"start", "end"} => thread[doing[t].call] = t
  BY <1>0 DEF CallsAtWork, InTheMiddle
<1>4. \A c \in Calls : state[c] \in {"starting", "ended"} /\ thread[c] # t =>
                         state'[c] = state[c] /\ thread'[c] = thread[c]
  BY <1>1, <1>3
<1> QED BY <1>0, <1>1, <1>2, <1>4, IdleTyped, OneWorks DEF HeapShape

LEMMA ThreadStepWork ==
  ASSUME TasksIInv, NEW t \in Threads, ThreadStep(t) PROVE GateHeld' /\ QueueWaits' /\ CallsAtWork'
<1>1. CASE SaveLate(t) BY <1>1, StepWork DEF SaveLate, poolVars
<1>2. CASE Check(t) BY <1>2, StepWork, FinishWork DEF Check, poolVars
<1>3. CASE SetStatus(t) BY <1>3, StepWork DEF SetStatus, poolVars
<1>4. CASE Write(t) BY <1>4, FinishWork DEF Write, poolVars, Accepts
<1> QED BY <1>1, <1>2, <1>3, <1>4 DEF ThreadStep

LEMMA TasksInitIInv == TasksInit => TasksIInv
<1> SUFFICES ASSUME TasksInit PROVE TasksIInv OBVIOUS
<1>1. /\ heap = <<>> /\ store = [i \in Ids |-> 0] /\ own = [c \in Calls |-> 0]
      /\ state = [c \in Calls |-> "new"] /\ thread = [c \in Calls |-> Loop]
      /\ doing = [t \in Threads |-> Idle] /\ scan = {} /\ beats = 0
      /\ gate = 0 /\ workQueue = <<>>
  BY DEF TasksInit
<1>2. HeapShape
  <2>1. heap \in Seq(Records) /\ store \in [Ids -> Nat] /\ own \in [Calls -> Nat] BY <1>1
  <2>2. doing \in [Threads -> Operations] /\ \A t \in Threads : doing[t].step = "none"
    BY <1>1, IdleTyped
  <2>3. beats \in 0..MaxBeats /\ scan \subseteq 1..Len(heap) /\ \A i \in Ids : store[i] = 0
    BY <1>1, TasksAssumption
  <2> QED BY <2>1, <2>2, <2>3 DEF HeapShape
<1>3. CallShape BY <1>1 DEF CallShape, CallStates, Threads
<1>4. StoreBound
  <2>1. Stored = {} BY <1>1 DEF Stored
  <2> QED BY <2>1, FS_EmptySet, TasksAssumption DEF StoreBound
<1>5. GateHeld
  <2>1. Waiting = {} BY <1>1 DEF Waiting, OnTheWay
  <2> QED BY <1>1, <2>1, FS_EmptySet, TasksAssumption DEF GateHeld
<1>6. QueueWaits BY <1>1 DEF QueueWaits
<1>7. CallsAtWork BY <1>1, IdleTyped DEF CallsAtWork, InTheMiddle
<1> QED BY <1>2, <1>3, <1>4, <1>5, <1>6, <1>7 DEF TasksIInv

LEMMA TasksInductive == TasksIInv /\ [TasksNext]_tasksVars => TasksIInv'
<1> SUFFICES ASSUME TasksIInv, [TasksNext]_tasksVars PROVE TasksIInv' OBVIOUS
<1> USE DEF TasksIInv
<1>1. CASE \E c \in Calls : Submit(c) BY <1>1, SubmitHeap, SubmitWork
<1>2. CASE \E c \in Calls : SubmitInThread(c) BY <1>2, SubmitInThreadHeap, SubmitInThreadWork
<1>3. ASSUME NEW c \in Calls, CallStep(c) \/ Heartbeat(c) \/ BodyCancelled(c)
                              \/ \E s \in Outcomes : BodyEnds(c, s)
      PROVE  TasksIInv'
  <2>1. HeapShape' /\ CallShape' /\ StoreBound' BY <1>3, CallStepHeap DEF CallStep
  <2>2. GateHeld' /\ QueueWaits' /\ CallsAtWork'
    BY <1>3, RunWork, FreeSlotWork, EnqueueWork, HeartbeatWork, BodyCancelledWork,
       BodyEndsWork DEF CallStep
  <2> QED BY <2>1, <2>2
<1>4. CASE \E w \in Workers : TakeWork(w) BY <1>4, ScanHeap, TakeWorkWork
<1>5. CASE \E t \in Threads : ThreadStep(t)
  BY <1>5, SaveLateHeap, CheckHeap, SetStatusHeap, WriteHeap, ThreadStepWork DEF ThreadStep
<1>6. CASE \E r \in scan : ScanNext(r) BY <1>6, ScanHeap, ScanNextWork
<1>7. CASE ScanDeadTasks \/ Close BY <1>7, ScanHeap, NoCallWork
<1>8. CASE \E i \in Audits : RecordExecution(i) BY <1>8, RecordExecutionHeap, NoCallWork
<1>9. CASE Elapse BY <1>9, ElapseHeap, NoCallWork
<1>10. CASE UNCHANGED tasksVars
  <2>1. HeapShape' /\ CallShape' /\ StoreBound'
    BY <1>10 DEF tasksVars, HeapShape, CallShape, StoreBound, Stored
  <2>2. CallsAtWork' /\ GateHeld' /\ QueueWaits'
    BY <1>10 DEF tasksVars, CallsAtWork, InTheMiddle, GateHeld, QueueWaits, Waiting
  <2> QED BY <2>1, <2>2
<1> QED BY <1>1, <1>2, <1>3, <1>4, <1>5, <1>6, <1>7, <1>8, <1>9, <1>10 DEF TasksNext

(* The queue is no longer than the gate is wide. *)
LEMMA QueueWithin ==
  ASSUME GateHeld, QueueWaits PROVE Len(workQueue) <= QueueSize
<1>1. /\ Len(workQueue) \in Nat /\ workQueue \in [1..Len(workQueue) -> Calls]
  BY LenProperties DEF QueueWaits
<1>2. workQueue \in [1..Len(workQueue) -> Waiting] BY <1>1 DEF QueueWaits, Waiting, OnTheWay
<1>3. workQueue \in Injection(1..Len(workQueue), Waiting) BY <1>2, Fun_IsInj DEF QueueWaits
<1>4. Cardinality(1..Len(workQueue)) <= Cardinality(Waiting) BY <1>3, FS_Injection DEF GateHeld
<1>5. Cardinality(1..Len(workQueue)) = Len(workQueue) BY <1>1, FS_Interval
<1> QED BY <1>1, <1>4, <1>5, TasksAssumption DEF GateHeld

LEMMA TasksIInvTypeOK == TasksIInv => TasksTypeOK /\ GateCountsWaiting
<1> SUFFICES ASSUME TasksIInv PROVE TasksTypeOK /\ GateCountsWaiting OBVIOUS
<1>1. HeapShape /\ CallShape /\ StoreBound /\ GateHeld /\ QueueWaits BY DEF TasksIInv
<1>2. DOMAIN heap = 1..Len(heap) /\ \A r \in 1..Len(heap) : heap[r] \in Records
  BY <1>1, ElementOfSeq, LenProperties DEF HeapShape
<1>3. \A r \in DOMAIN heap :
        /\ heap[r].id \in Ids /\ heap[r].status \in Status
        /\ heap[r].version \in Nat /\ heap[r].beat \in {"fresh", "old"}
  BY <1>2 DEF Records
<1>4. /\ \A i \in Stored : store[i] \in DOMAIN heap /\ heap[store[i]].id = i
      /\ scan \subseteq DOMAIN heap /\ beats \in 0..MaxBeats
  BY <1>1, <1>2 DEF HeapShape, Stored
<1>5. Len(workQueue) <= QueueSize BY <1>1, QueueWithin
<1>6. TasksTypeOK BY <1>1, <1>3, <1>4, <1>5 DEF TasksTypeOK, CallShape, StoreBound, GateHeld
<1>7. GateCountsWaiting BY <1>1 DEF GateCountsWaiting, GateHeld, Waiting, OnTheWay
<1> QED BY <1>6, <1>7

----------------------------------------
(* The shared pool. *)

LEMMA PoolInitIInv == SharedPoolInit => PoolIInv
<1> SUFFICES ASSUME SharedPoolInit PROVE PoolIInv OBVIOUS
<1>1. /\ sharedPool = 0 /\ pools = <<>> /\ shut = {} /\ poolLock = "free"
      /\ poolUser = [u \in PoolUsers |-> [at |-> "new", got |-> 0, beside |-> FALSE]]
  BY DEF SharedPoolInit
<1>2. PoolShape
  <2>1. poolUser \in [PoolUsers -> UserStates] BY <1>1 DEF UserStates
  <2> QED BY <1>1, <2>1 DEF PoolShape
<1>3. \A u \in PoolUsers : poolUser[u].at = "new" BY <1>1
<1>4. \A p \in 1..Len(pools) : p \in shut \/ p = sharedPool BY <1>1
<1> QED BY <1>1, <1>2, <1>3, <1>4 DEF PoolIInv

(* The numbers of the pools. *)
LEMMA PoolNumbers ==
  ASSUME PoolShape
  PROVE  /\ pools \in Seq(Nat \ {0}) /\ Len(pools) \in Nat /\ DOMAIN pools = 1..Len(pools)
         /\ sharedPool \in Nat /\ sharedPool <= Len(pools)
         /\ shut \subseteq 1..Len(pools)
         /\ \A p \in 1..Len(pools) : pools[p] \in Nat \ {0}
<1>1. pools \in Seq(Nat \ {0}) /\ sharedPool \in 0..Len(pools) /\ shut \subseteq 1..Len(pools)
  BY DEF PoolShape
<1>2. Len(pools) \in Nat /\ DOMAIN pools = 1..Len(pools) BY <1>1, LenProperties
<1>3. \A p \in 1..Len(pools) : pools[p] \in Nat \ {0} BY <1>1, ElementOfSeq
<1> QED BY <1>1, <1>2, <1>3

LEMMA UserParts ==
  ASSUME PoolShape, NEW u \in PoolUsers PROVE poolUser[u] \in UserStates
BY DEF PoolShape, UserStates

(* A thread moves: the others, and what it has got, stay. *)
LEMMA UserMoves ==
  ASSUME PoolShape, NEW u \in PoolUsers,
         NEW place \in {"looking", "locking", "locked", "returning",
                        "attribute error", "value error"},
         UserAt(u, place)
  PROVE  /\ poolUser' \in [PoolUsers -> UserStates]
         /\ poolUser'[u].at = place /\ poolUser'[u].beside = poolUser[u].beside
         /\ \A v \in PoolUsers \ {u} : poolUser'[v] = poolUser[v]
<1> DEFINE e == [poolUser[u] EXCEPT !.at = place]
<1>1. poolUser[u] \in UserStates /\ poolUser \in [PoolUsers -> UserStates]
  BY UserParts DEF PoolShape, UserStates
<1>2. e \in UserStates /\ e.at = place /\ e.beside = poolUser[u].beside BY <1>1 DEF UserStates
<1>3. poolUser' = [poolUser EXCEPT ![u] = e] BY DEF UserAt
<1> HIDE DEF e
<1> QED BY <1>1, <1>2, <1>3

LEMMA LooksForPoolIInv ==
  ASSUME PoolIInv, NEW u \in PoolUsers, LooksForPool(u) PROVE PoolIInv'
<1>1. /\ UNCHANGED <<sharedPool, pools, shut, poolLock>> /\ PoolShape
      /\ UserAt(u, IF sharedPool = 0 THEN "locking" ELSE "looking")
  BY DEF LooksForPool, PoolIInv
<1>2. /\ poolUser' \in [PoolUsers -> UserStates]
      /\ poolUser'[u].at = IF sharedPool = 0 THEN "locking" ELSE "looking"
      /\ \A v \in PoolUsers \ {u} : poolUser'[v] = poolUser[v]
  BY <1>1, UserMoves
<1> QED BY <1>1, <1>2 DEF PoolIInv, PoolShape, UserStates

LEMMA LooksIfClosedIInv ==
  ASSUME PoolIInv, NEW u \in PoolUsers, LooksIfClosed(u) PROVE PoolIInv'
<1> DEFINE place == CASE sharedPool = 0 -> "attribute error"
                      [] sharedPool \in shut -> "locking"
                      [] OTHER -> "returning"
<1>1. /\ UNCHANGED <<sharedPool, pools, shut, poolLock>> /\ PoolShape
      /\ poolUser[u].at = "looking" /\ UserAt(u, place)
  BY DEF LooksIfClosed, PoolIInv
<1>2. /\ place \in {"locking", "returning", "attribute error"}
      /\ place = "returning" => sharedPool # 0
      /\ place = "attribute error" => sharedPool = 0
  OBVIOUS
<1> HIDE DEF place
<1>3. /\ poolUser' \in [PoolUsers -> UserStates]
      /\ poolUser'[u].at = place /\ poolUser'[u].beside = poolUser[u].beside
      /\ \A v \in PoolUsers \ {u} : poolUser'[v] = poolUser[v]
  BY <1>1, <1>2, UserMoves
<1> QED BY <1>1, <1>2, <1>3 DEF PoolIInv, PoolShape, UserStates

LEMMA LocksPoolIInv ==
  ASSUME PoolIInv, NEW u \in PoolUsers, LocksPool(u) PROVE PoolIInv'
<1>1. /\ UNCHANGED <<sharedPool, pools, shut>> /\ PoolShape
      /\ poolLock = "free" /\ poolLock' = u /\ UserAt(u, "locked")
  BY DEF LocksPool, PoolIInv
<1>2. /\ poolUser' \in [PoolUsers -> UserStates]
      /\ poolUser'[u].at = "locked"
      /\ \A v \in PoolUsers \ {u} : poolUser'[v] = poolUser[v]
  BY <1>1, UserMoves
<1>3. u \notin {"free", "closer"} BY TasksAssumption
<1>4. \A v \in PoolUsers : poolUser[v].at # "locked" BY <1>1, TasksAssumption DEF PoolIInv
<1> QED BY <1>1, <1>2, <1>3, <1>4 DEF PoolIInv, PoolShape, UserStates

LEMMA MakesPoolIInv ==
  ASSUME PoolIInv, NEW u \in PoolUsers, MakesPool(u) PROVE PoolIInv'
<1>1. /\ poolUser[u].at = "locked" /\ poolLock = u /\ poolLock' = "free" /\ shut' = shut
      /\ PoolShape
  BY DEF MakesPool, PoolIInv
<1>2. \A v \in PoolUsers \ {u} : poolUser[v].at # "locked" BY <1>1 DEF PoolIInv
<1>3. CASE Usable(sharedPool)
  <2>1. UserAt(u, "returning") /\ UNCHANGED <<sharedPool, pools>> /\ sharedPool # 0
    BY <1>3 DEF MakesPool, Usable
  <2>2. /\ poolUser' \in [PoolUsers -> UserStates]
        /\ poolUser'[u].at = "returning"
        /\ \A v \in PoolUsers \ {u} : poolUser'[v] = poolUser[v]
    BY <1>1, <2>1, UserMoves
  <2> QED BY <1>1, <1>2, <2>1, <2>2 DEF PoolIInv, PoolShape, UserStates
<1>4. CASE ~Usable(sharedPool) /\ PoolSize[u] = 0
  <2>1. UserAt(u, "value error") /\ UNCHANGED <<sharedPool, pools>> BY <1>4 DEF MakesPool, NewPool
  <2>2. /\ poolUser' \in [PoolUsers -> UserStates]
        /\ poolUser'[u].at = "value error"
        /\ \A v \in PoolUsers \ {u} : poolUser'[v] = poolUser[v]
    BY <1>1, <2>1, UserMoves
  <2> QED BY <1>1, <1>2, <1>4, <2>1, <2>2 DEF PoolIInv, PoolShape, UserStates
<1>5. CASE ~Usable(sharedPool) /\ PoolSize[u] # 0
  <2>1. /\ UserAt(u, "returning") /\ pools' = Append(pools, PoolSize[u])
        /\ sharedPool' = Len(pools')
    BY <1>5 DEF MakesPool, NewPool
  <2>2. /\ poolUser' \in [PoolUsers -> UserStates]
        /\ poolUser'[u].at = "returning"
        /\ \A v \in PoolUsers \ {u} : poolUser'[v] = poolUser[v]
    BY <1>1, <2>1, UserMoves
  <2>3. PoolSize[u] \in Nat \ {0} /\ pools \in Seq(Nat \ {0})
    BY <1>1, <1>5, TasksAssumption DEF PoolShape
  <2>4. /\ pools' \in Seq(Nat \ {0}) /\ Len(pools) \in Nat /\ Len(pools') = Len(pools) + 1
    BY <2>1, <2>3, AppendProperties, LenProperties
  <2>5. /\ sharedPool' = Len(pools) + 1 /\ sharedPool' # 0 /\ sharedPool' \in 0..Len(pools')
        /\ shut \subseteq 1..Len(pools')
    BY <1>1, <2>1, <2>4, PoolNumbers
  <2>6. \A p \in 1..Len(pools') : p \in shut \/ p = sharedPool'
    <3> SUFFICES ASSUME NEW p \in 1..Len(pools'), p # sharedPool' PROVE p \in shut OBVIOUS
    <3>1. p \in 1..Len(pools) /\ p # 0 BY <2>4, <2>5
    <3>2. p \in shut \/ p = sharedPool BY <3>1 DEF PoolIInv
    <3> QED BY <1>5, <3>1, <3>2 DEF Usable
  <2>7. PoolShape' BY <1>1, <2>2, <2>4, <2>5 DEF PoolShape, UserStates
  <2> QED BY <1>1, <1>2, <2>2, <2>5, <2>6, <2>7 DEF PoolIInv
<1> QED BY <1>3, <1>4, <1>5

LEMMA ReturnsPoolIInv ==
  ASSUME PoolIInv, NEW u \in PoolUsers, ReturnsPool(u) PROVE PoolIInv'
<1> DEFINE e == [at |-> "returned", got |-> sharedPool,
                 beside |-> poolUser[u].beside \/ sharedPool \in shut]
<1>1. UNCHANGED <<sharedPool, pools, shut, poolLock>> /\ PoolShape /\ poolUser[u].at = "returning"
  BY DEF ReturnsPool, PoolIInv
<1>2. poolUser[u] \in UserStates /\ poolUser \in [PoolUsers -> UserStates]
  BY <1>1, UserParts DEF PoolShape, UserStates
<1>3. sharedPool \in Nat BY <1>1, PoolNumbers
<1>4. e \in UserStates BY <1>2, <1>3 DEF UserStates
<1>5. poolUser' = [poolUser EXCEPT ![u] = e]
  <2> DEFINE a == [poolUser[u] EXCEPT !.at = "returned"]
             b == [a EXCEPT !.got = sharedPool]
             o == poolUser[u].beside
             f == o \/ sharedPool \in shut
             c == [b EXCEPT !.beside = f]
  <2>1. poolUser' = [poolUser EXCEPT ![u] = c] BY <1>2 DEF ReturnsPool
  <2>2. poolUser[u] = [at |-> poolUser[u].at, got |-> poolUser[u].got, beside |-> o]
    BY <1>2 DEF UserStates
  <2> HIDE DEF o
  <2>3. a = [at |-> "returned", got |-> poolUser[u].got, beside |-> o] BY <2>2
  <2> HIDE DEF a
  <2>4. b = [at |-> "returned", got |-> sharedPool, beside |-> o] BY <2>3
  <2> HIDE DEF b, f
  <2>5. c = [at |-> "returned", got |-> sharedPool, beside |-> f] BY <2>4
  <2> QED BY <2>1, <2>5 DEF f, o
<1>6. /\ e.at = "returned" /\ e.got = sharedPool
      /\ sharedPool = 0 => e.beside
  BY <1>1 DEF PoolIInv
<1> HIDE DEF e
<1>7. /\ poolUser' \in [PoolUsers -> UserStates] /\ poolUser'[u] = e
      /\ \A v \in PoolUsers \ {u} : poolUser'[v] = poolUser[v]
  BY <1>2, <1>4, <1>5
<1> QED BY <1>1, <1>6, <1>7 DEF PoolIInv, PoolShape, UserStates

(* A pool is shut: whoever asks for one knows. *)
LEMMA Beside ==
  ASSUME PoolShape, poolUser' = ShutsBeside(poolUser)
  PROVE  /\ poolUser' \in [PoolUsers -> UserStates]
         /\ \A u \in PoolUsers :
              /\ poolUser'[u].at = poolUser[u].at /\ poolUser'[u].got = poolUser[u].got
              /\ poolUser[u].beside => poolUser'[u].beside
              /\ poolUser[u].at \in {"looking", "returning"} => poolUser'[u].beside
<1>1. ASSUME NEW u \in PoolUsers
      PROVE  /\ poolUser'[u] \in UserStates
             /\ poolUser'[u].at = poolUser[u].at /\ poolUser'[u].got = poolUser[u].got
             /\ poolUser[u].beside => poolUser'[u].beside
             /\ poolUser[u].at \in {"looking", "returning"} => poolUser'[u].beside
  <2>1. poolUser[u] \in UserStates BY UserParts
  <2>2. CASE poolUser[u].at \in {"new", "returned", "attribute error", "value error"}
    <3>1. poolUser'[u] = poolUser[u] BY <2>2 DEF ShutsBeside
    <3> QED BY <2>1, <2>2, <3>1
  <2>3. CASE poolUser[u].at \notin {"new", "returned", "attribute error", "value error"}
    <3>1. poolUser'[u] = [poolUser[u] EXCEPT !.beside = TRUE] BY <2>3 DEF ShutsBeside
    <3> QED BY <2>1, <3>1 DEF UserStates
  <2> QED BY <2>2, <2>3
<1>2. poolUser' = [u \in PoolUsers |-> poolUser'[u]] BY DEF ShutsBeside
<1> QED BY <1>1, <1>2

LEMMA ShutIInv ==
  ASSUME PoolIInv, ShutsShared \/ ForgetsShared \/ \E p \in DOMAIN pools : ShutsOwn(p)
  PROVE  PoolIInv'
<1>1. PoolShape /\ poolUser' = ShutsBeside(poolUser) /\ pools' = pools
  BY DEF PoolIInv, ShutsShared, ForgetsShared, ShutsOwn
<1>2. /\ poolUser' \in [PoolUsers -> UserStates]
      /\ \A u \in PoolUsers :
           /\ poolUser'[u].at = poolUser[u].at /\ poolUser'[u].got = poolUser[u].got
           /\ poolUser[u].beside => poolUser'[u].beside
           /\ poolUser[u].at \in {"looking", "returning"} => poolUser'[u].beside
  BY <1>1, Beside
<1>3. /\ DOMAIN pools = 1..Len(pools) /\ Len(pools) \in Nat
      /\ sharedPool \in Nat /\ sharedPool <= Len(pools)
  BY <1>1, PoolNumbers
<1>4. CASE ShutsShared
  <2>1. /\ poolLock = "free" /\ sharedPool # 0 /\ poolLock' = "closer"
        /\ shut' = shut \cup {sharedPool} /\ sharedPool' = sharedPool
    BY <1>4 DEF ShutsShared
  <2>2. \A u \in PoolUsers : poolUser[u].at # "locked" BY <2>1, TasksAssumption DEF PoolIInv
  <2>3. sharedPool \in 1..Len(pools) BY <1>3, <2>1
  <2> QED BY <1>1, <1>2, <2>1, <2>2, <2>3 DEF PoolIInv, PoolShape, UserStates
<1>5. CASE ForgetsShared
  <2>1. /\ poolLock = "closer" /\ poolLock' = "free" /\ sharedPool' = 0 /\ shut' = shut
    BY <1>5 DEF ForgetsShared
  <2>2. \A u \in PoolUsers : poolUser[u].at # "locked" BY <2>1, TasksAssumption DEF PoolIInv
  <2>3. \A p \in 1..Len(pools) : p \in shut BY <2>1 DEF PoolIInv
  <2>4. sharedPool' \in 0..Len(pools) BY <1>3, <2>1
  <2>5. PoolShape' BY <1>1, <1>2, <2>1, <2>4 DEF PoolShape, UserStates
  <2> QED BY <1>1, <1>2, <2>1, <2>2, <2>3, <2>5 DEF PoolIInv
<1>6. CASE \E p \in DOMAIN pools : ShutsOwn(p)
  <2>1. PICK p \in 1..Len(pools) : shut' = shut \cup {p} /\ UNCHANGED <<sharedPool, poolLock>>
    BY <1>3, <1>6 DEF ShutsOwn
  <2> QED BY <1>1, <1>2, <2>1 DEF PoolIInv, PoolShape, UserStates
<1> QED BY <1>4, <1>5, <1>6

LEMMA PoolInductive == PoolIInv /\ [SharedPoolNext]_sharedVars => PoolIInv'
<1> SUFFICES ASSUME PoolIInv, [SharedPoolNext]_sharedVars PROVE PoolIInv' OBVIOUS
<1>1. CASE SharedPoolNext
  BY <1>1, LooksForPoolIInv, LooksIfClosedIInv, LocksPoolIInv, MakesPoolIInv, ReturnsPoolIInv,
     ShutIInv DEF SharedPoolNext
<1>2. CASE UNCHANGED sharedVars BY <1>2 DEF sharedVars, PoolIInv, PoolShape
<1> QED BY <1>1, <1>2

LEMMA PoolIInvShared == PoolIInv => OnePoolShared
<1> SUFFICES ASSUME PoolIInv PROVE OnePoolShared OBVIOUS
<1>1. DOMAIN pools = 1..Len(pools) /\ \A p \in 1..Len(pools) : pools[p] \in Nat \ {0}
  BY PoolNumbers DEF PoolIInv
<1>2. \A p \in DOMAIN pools : pools[p] > 0 BY <1>1
<1> QED BY <1>1, <1>2 DEF PoolIInv, OnePoolShared

----------------------------------------
(* Executor and pool together. *)

LEMMA TasksInvariant == ExecutorSpec => [](TasksIInv /\ PoolIInv)
<1>1. TasksInit /\ SharedPoolInit => TasksIInv /\ PoolIInv BY TasksInitIInv, PoolInitIInv
<1>2. TasksIInv /\ PoolIInv /\ [ExecutorNext]_<<tasksVars, sharedVars>> => TasksIInv' /\ PoolIInv'
  <2>1. [ExecutorNext]_<<tasksVars, sharedVars>> =>
          [TasksNext]_tasksVars /\ [SharedPoolNext]_sharedVars
    BY DEF ExecutorNext
  <2> QED BY <2>1, TasksInductive, PoolInductive
<1> QED BY <1>1, <1>2, PTL DEF ExecutorSpec

(* The store holds no more than max_records records and leads to them
   under their ids; the gate counts the calls on their way to a worker and
   the queue is no longer than the gate is wide, though the pool is closed
   between the two steps of a submit; there is one open pool at most. *)
THEOREM TasksHold == ExecutorSpec => []TasksSound
<1>1. TasksIInv /\ PoolIInv => TasksSound BY TasksIInvTypeOK, PoolIInvShared DEF TasksSound
<1> QED BY <1>1, TasksInvariant, PTL

----------------------------------------
(* Who else may change an outcome: a second inductive invariant of Tasks. *)

(* The operation of a call is on a record of its id; only a start saves. *)
OpFits(op) ==
  /\ op.kind # "idle"
  /\ op.step = "save" => op.kind = "start"
  /\ op.kind = "start" => op.to = "RUNNING"
  /\ op.kind = "dead" => op.to = "DEAD"
  /\ op.kind = "end" => op.to \in Terminal
  /\ op.kind # "dead" => op.call \in Calls /\ heap[op.ref].id = IdOf[op.call]
OpsFit == \A t \in Threads : doing[t].step # "none" => OpFits(doing[t])
BeatsAtWork == \A t \in Threads : InTheMiddle(t, "beat", "body")
OwnFits == \A c \in Calls : state[c] \in Unrun => heap[own[c]].id = IdOf[c]

(* What is said of the task of a call that is the only one of its id, by
   the records that are in use. *)
Alone(c) == \A d \in Calls \ {c} : IdOf[d] # IdOf[c]
InUse(r) ==
  \/ r = store[heap[r].id] \/ r \in scan
  \/ \E t \in Threads : doing[t].step # "none" /\ doing[t].ref = r
  \/ \E c \in Calls : state[c] \in Unrun /\ own[c] = r
Shows(c) == {heap[r].status : r \in {q \in 1..Len(heap) : heap[q].id = IdOf[c] /\ InUse(q)}}

(* Before a task is set RUNNING nothing else is said of it, and nothing
   else is about to be; until it ends itself it can only be declared dead. *)
AtStart(c, steps) ==
  \E t \in Threads : doing[t].kind = "start" /\ doing[t].call = c /\ doing[t].step \in steps
Unsaved(c) == state[c] \in {"new", "slot", "queued", "taken"} \/ AtStart(c, {"save"})
Early(c) == state[c] \in {"new", "slot", "queued", "taken", "ready"}
              \/ AtStart(c, {"save", "check", "set"})
DeathNear(c) ==
  \E t \in Threads :
    /\ doing[t].kind = "dead" /\ doing[t].step \in {"set", "write"}
    /\ heap[doing[t].ref].id = IdOf[c]
RaceFits(c) ==
  /\ Unsaved(c) => store[IdOf[c]] = 0
  /\ Early(c) => Shows(c) \subseteq {"PENDING"} /\ ~DeathNear(c)
  /\ state[c] \notin {"ended", "over"} => Shows(c) \subseteq {"PENDING", "RUNNING", "DEAD"}

RaceIInv == /\ OpsFit /\ BeatsAtWork /\ OwnFits
            /\ \A c \in Calls : Alone(c) => RaceFits(c)

(* What is referred to is in use. *)
LEMMA Referred ==
  ASSUME HeapShape
  PROVE  /\ \A j \in Ids : store[j] # 0 => InUse(store[j])
         /\ \A r \in scan : InUse(r)
         /\ \A t \in Threads : doing[t].step # "none" => InUse(doing[t].ref)
         /\ \A c \in Calls : state[c] \in Unrun => InUse(own[c])
BY DEF HeapShape, InUse

(* A step that makes no record, says nothing new of one, and refers only
   to what was in use. *)
Quiet ==
  /\ Len(heap') = Len(heap)
  /\ \A r \in 1..Len(heap) : heap'[r].id = heap[r].id /\ heap'[r].status = heap[r].status
  /\ \A j \in Ids : store'[j] # 0 => InUse(store'[j])
  /\ \A r \in scan' : InUse(r)
  /\ \A t \in Threads : doing'[t].step # "none" => InUse(doing'[t].ref)
  /\ \A c \in Calls : state'[c] \in Unrun => InUse(own'[c])

LEMMA QuietUse ==
  ASSUME HeapShape, HeapShape', NEW r \in 1..Len(heap'), InUse(r)',
         \A j \in Ids : store'[j] # 0 => InUse(store'[j]),
         \A q \in scan' : InUse(q),
         \A t \in Threads : doing'[t].step # "none" => InUse(doing'[t].ref),
         \A c \in Calls : state'[c] \in Unrun => InUse(own'[c])
  PROVE  InUse(r)
<1>1. heap' \in Seq(Records) /\ heap'[r] \in Records /\ r # 0 BY ElementOfSeq DEF HeapShape
<1>2. heap'[r].id \in Ids BY <1>1 DEF Records
<1>3. CASE r = store'[heap'[r].id] BY <1>1, <1>2, <1>3
<1>4. CASE r \in scan' BY <1>4
<1>5. CASE \E t \in Threads : doing'[t].step # "none" /\ doing'[t].ref = r BY <1>5
<1>6. CASE \E c \in Calls : state'[c] \in Unrun /\ own'[c] = r BY <1>6
<1> QED BY <1>3, <1>4, <1>5, <1>6 DEF InUse

LEMMA QuietShows ==
  ASSUME HeapShape, HeapShape', Quiet, NEW c \in Calls PROVE Shows(c)' \subseteq Shows(c)
<1> SUFFICES ASSUME NEW s \in Shows(c)' PROVE s \in Shows(c) OBVIOUS
<1>1. PICK r \in 1..Len(heap') : heap'[r].id = IdOf[c] /\ InUse(r)' /\ heap'[r].status = s
  BY DEF Shows
<1>2. InUse(r) BY <1>1, QuietUse DEF Quiet
<1>3. r \in 1..Len(heap) /\ heap[r].id = IdOf[c] /\ heap[r].status = s BY <1>1 DEF Quiet
<1> QED BY <1>2, <1>3 DEF Shows

LEMMA FitsKept ==
  ASSUME NEW c \in Calls, RaceFits(c), Shows(c)' \subseteq Shows(c),
         Early(c)' => Early(c) /\ ~DeathNear(c)',
         state'[c] \notin {"ended", "over"} => state[c] \notin {"ended", "over"},
         Unsaved(c)' => store'[IdOf[c]] = 0
  PROVE  RaceFits(c)'
BY DEF RaceFits

(* How the state of a call goes on, but for the operations of its thread. *)
Onward(d) ==
  /\ state'[d] \in Unrun => state[d] \in Unrun
  /\ state'[d] \in {"new", "slot", "queued", "taken"} => state[d] \in {"new", "slot", "queued", "taken"}
  /\ state'[d] \in {"new", "slot", "queued", "taken", "ready"} =>
       state[d] \in {"new", "slot", "queued", "taken", "ready"}
  /\ state'[d] \notin {"ended", "over"} => state[d] \notin {"ended", "over"}

(* Steps that begin no operation. *)
LEMMA StillRace ==
  ASSUME TasksIInv, TasksIInv', RaceIInv, UNCHANGED <<store, own, doing>>, Len(heap') = Len(heap),
         \A r \in 1..Len(heap) : heap'[r].id = heap[r].id /\ heap'[r].status = heap[r].status,
         scan' \subseteq scan \cup {store[i] : i \in Stored},
         \A d \in Calls : Onward(d),
         \A t \in Threads : InTheMiddle(t, "beat", "body")'
  PROVE  RaceIInv'
<1>0. HeapShape /\ HeapShape' /\ CallShape /\ CallShape' BY DEF TasksIInv
<1>1. Quiet
  <2>1. \A j \in Ids : store[j] # 0 => InUse(store[j]) BY <1>0, Referred
  <2>2. \A r \in scan' : InUse(r) BY <1>0, <2>1, Referred DEF Stored
  <2>3. \A d \in Calls : state'[d] \in Unrun => InUse(own[d]) BY <1>0, Referred DEF Onward
  <2> QED BY <1>0, <2>1, <2>2, <2>3, Referred DEF Quiet
<1>2. OpsFit'
  <2>1. \A t \in Threads : doing[t].step # "none" => heap'[doing[t].ref].id = heap[doing[t].ref].id
    BY <1>0 DEF HeapShape
  <2> QED BY <2>1 DEF OpsFit, OpFits, RaceIInv
<1>3. OwnFits'
  <2>1. \A d \in Calls : state'[d] \in Unrun => state[d] \in Unrun /\ own[d] \in 1..Len(heap)
    BY <1>0 DEF Onward, CallShape, Unrun
  <2> QED BY <2>1 DEF OwnFits, RaceIInv
<1>4. ASSUME NEW c \in Calls, Alone(c) PROVE RaceFits(c)'
  <2>1. RaceFits(c) /\ Shows(c)' \subseteq Shows(c) BY <1>0, <1>1, <1>4, QuietShows DEF RaceIInv
  <2>2. Early(c)' => Early(c) BY DEF Early, AtStart, Onward
  <2>3. Unsaved(c)' => Unsaved(c) BY DEF Unsaved, AtStart, Onward
  <2>4. DeathNear(c)' => DeathNear(c) BY <1>0 DEF DeathNear, HeapShape
  <2> QED BY <2>1, <2>2, <2>3, <2>4, FitsKept DEF RaceFits, Onward
<1>5. BeatsAtWork' BY DEF BeatsAtWork
<1> QED BY <1>2, <1>3, <1>4, <1>5 DEF RaceIInv, Alone

LEMMA QuietCalls ==
  ASSUME TasksIInv, TasksIInv', RaceIInv,
         \/ \E c \in Calls : FreeSlot(c) \/ Enqueue(c) \/ BodyCancelled(c)
         \/ \E w \in Workers : TakeWork(w)
         \/ Close \/ Elapse \/ ScanDeadTasks \/ UNCHANGED tasksVars
  PROVE  RaceIInv'
<1>0. HeapShape /\ CallShape /\ QueueWaits BY DEF TasksIInv
<1>1. UNCHANGED <<store, own, doing>>
  BY DEF FreeSlot, Enqueue, BodyCancelled, TakeWork, Close, Elapse, ScanDeadTasks, tasksVars
<1>2. /\ Len(heap') = Len(heap)
      /\ \A r \in 1..Len(heap) : heap'[r].id = heap[r].id /\ heap'[r].status = heap[r].status
  <2>1. CASE Elapse
    <3>1. /\ DOMAIN heap = 1..Len(heap) /\ Len(heap) \in Nat
          /\ \A r \in 1..Len(heap) : heap[r] \in Records
      BY <1>0, LenProperties, ElementOfSeq DEF HeapShape
    <3>2. heap' = [r \in 1..Len(heap) |-> [heap[r] EXCEPT !.beat = "old"]] BY <2>1, <3>1 DEF Elapse
    <3>3. \A r \in 1..Len(heap) :
      /\ [heap[r] EXCEPT !.beat = "old"].id = heap[r].id
      /\ [heap[r] EXCEPT !.beat = "old"].status = heap[r].status
      BY <3>1 DEF Records
    <3>4. \A r \in 1..Len(heap) : heap'[r].id = heap[r].id /\ heap'[r].status = heap[r].status
      BY <3>2, <3>3
    <3>5. heap' \in [1..Len(heap) -> Records]
      <4>1. \A r \in 1..Len(heap) : [heap[r] EXCEPT !.beat = "old"] \in Records BY <3>1 DEF Records
      <4> QED BY <3>2, <4>1
    <3>6. Len(heap') = Len(heap) BY <3>1, <3>5
    <3> QED BY <3>4, <3>6
  <2>2. CASE ~Elapse
    <3>1. heap' = heap
      BY <2>2 DEF FreeSlot, Enqueue, BodyCancelled, TakeWork, Close, ScanDeadTasks, tasksVars
    <3> QED BY <3>1
  <2> QED BY <2>1, <2>2
<1>3. scan' \subseteq scan \cup {store[i] : i \in Stored}
  BY DEF FreeSlot, Enqueue, BodyCancelled, TakeWork, Close, Elapse, ScanDeadTasks, tasksVars
<1>4. \A d \in Calls :
        /\ Onward(d)
        /\ \/ state'[d] = state[d] /\ thread'[d] = thread[d]
           \/ state[d] # "body" \/ doing[thread[d]].step = "none"
  <2> USE <1>0 DEF Onward, Unrun, CallShape
  <2>1. ASSUME NEW c \in Calls, FreeSlot(c) \/ Enqueue(c)
        PROVE  \A d \in Calls : /\ Onward(d) /\ thread'[d] = thread[d]
                                /\ state'[d] = state[d] \/ state[d] # "body"
    BY <2>1 DEF FreeSlot, Enqueue
  <2>2. ASSUME NEW c \in Calls, BodyCancelled(c)
        PROVE  \A d \in Calls : /\ Onward(d) /\ thread'[d] = thread[d]
                                /\ state'[d] = state[d] \/ doing[thread[d]].step = "none"
    <3>1. doing[thread[c]] = Idle BY <2>2 DEF BodyCancelled, Free, LoopFree
    <3> QED BY <2>2, <3>1, IdleTyped DEF BodyCancelled
  <2>3. ASSUME NEW w \in Workers, TakeWork(w)
        PROVE  \A d \in Calls :
          /\ Onward(d)
          /\ \/ state'[d] = state[d] /\ thread'[d] = thread[d]
             \/ state[d] # "body"
    <3>1. /\ workQueue \in Seq(Calls) /\ workQueue # <<>>
          /\ state' = [state EXCEPT ![Head(workQueue)] = "taken"]
          /\ thread' = [thread EXCEPT ![Head(workQueue)] = w]
      BY <2>3 DEF TakeWork, QueueWaits
    <3>2. Head(workQueue) = workQueue[1] /\ 1 \in 1..Len(workQueue) BY <3>1
    <3>3. state[Head(workQueue)] = "queued" BY <3>2 DEF QueueWaits
    <3> QED BY <3>1, <3>3
  <2>4. CASE Close \/ Elapse \/ ScanDeadTasks \/ UNCHANGED tasksVars
    BY <2>4 DEF Close, Elapse, ScanDeadTasks, tasksVars
  <2> QED BY <2>1, <2>2, <2>3, <2>4
<1>5. \A t \in Threads : InTheMiddle(t, "beat", "body")'
  BY <1>1, <1>4 DEF InTheMiddle, RaceIInv, BeatsAtWork
<1> QED BY <1>1, <1>2, <1>3, <1>4, <1>5, StillRace

(* Steps of one thread that write no record: an operation begins, goes on
   or is over. *)
LEMMA BegunRace ==
  ASSUME TasksIInv, TasksIInv', RaceIInv, UNCHANGED <<heap, own, thread>>,
         NEW t \in Threads, NEW op \in Operations, doing' = [doing EXCEPT ![t] = op],
         op.step # "none" => InUse(op.ref) /\ OpFits(op),
         op.step # "none" /\ op.kind = "beat" =>
           op.call \in Calls /\ thread[op.call] = t /\ state'[op.call] = "body",
         op.kind = "start" /\ op.step \in {"save", "check", "set"} => Early(op.call),
         op.kind = "dead" => op.step \notin {"set", "write"}
                             \/ \A c \in Calls : Alone(c) /\ heap[op.ref].id = IdOf[c] => ~Early(c),
         scan' \subseteq scan,
         \A j \in Ids : store'[j] # 0 => InUse(store'[j]),
         \A d \in Calls : Onward(d),
         \A d \in Calls : state[d] = "body" /\ state'[d] # "body" => thread[d] = t,
         \A c \in Calls : Alone(c) /\ Unsaved(c)' => store'[IdOf[c]] = 0
  PROVE  RaceIInv'
<1>0. HeapShape /\ HeapShape' /\ CallShape /\ CallShape' BY DEF TasksIInv
<1>1. doing'[t] = op /\ \A u \in Threads \ {t} : doing'[u] = doing[u] BY <1>0 DEF HeapShape
<1>2. Quiet
  <2>1. \A d \in Calls : state'[d] \in Unrun => InUse(own[d]) BY <1>0, Referred DEF Onward
  <2>2. \A u \in Threads : doing'[u].step # "none" => InUse(doing'[u].ref) BY <1>0, <1>1, Referred
  <2> QED BY <1>0, <2>1, <2>2, Referred DEF Quiet
<1>3. OpsFit'
  <2>1. \A u \in Threads : doing'[u].step # "none" => OpFits(doing'[u]) BY <1>1 DEF RaceIInv, OpsFit
  <2> QED BY <2>1 DEF OpsFit, OpFits
<1>4. OwnFits' BY DEF OwnFits, RaceIInv, Onward
<1>5. BeatsAtWork'
  <2>1. InTheMiddle(t, "beat", "body")' BY <1>1 DEF InTheMiddle
  <2>2. ASSUME NEW u \in Threads \ {t} PROVE InTheMiddle(u, "beat", "body")'
    <3>1. InTheMiddle(u, "beat", "body") BY DEF RaceIInv, BeatsAtWork
    <3> QED BY <1>1, <3>1 DEF InTheMiddle
  <2> QED BY <2>1, <2>2 DEF BeatsAtWork
<1>6. ASSUME NEW c \in Calls, Alone(c) PROVE RaceFits(c)'
  <2>1. RaceFits(c) /\ Shows(c)' \subseteq Shows(c) BY <1>0, <1>2, <1>6, QuietShows DEF RaceIInv
  <2>2. Early(c)' => Early(c)
    <3>1. AtStart(c, {"save", "check", "set"})' => Early(c) BY <1>1 DEF AtStart, Early
    <3> QED BY <3>1 DEF Early, Onward
  <2>3. DeathNear(c)' => DeathNear(c) \/ ~Early(c)
    <3>1. ASSUME NEW u \in Threads, doing'[u].kind = "dead", doing'[u].step \in {"set", "write"},
                 heap[doing'[u].ref].id = IdOf[c]
          PROVE  DeathNear(c) \/ ~Early(c)
      <4>1. CASE u = t BY <1>1, <1>6, <3>1, <4>1
      <4>2. CASE u # t BY <1>1, <3>1, <4>2 DEF DeathNear
      <4> QED BY <4>1, <4>2
    <3> QED BY <3>1 DEF DeathNear
  <2> QED BY <1>6, <2>1, <2>2, <2>3, FitsKept DEF RaceFits, Onward
<1> QED BY <1>3, <1>4, <1>5, <1>6 DEF RaceIInv, Alone

(* What is said of a task that has not begun does not matter to a scan. *)
LEMMA EarlyPending ==
  ASSUME HeapShape, RaceIInv, NEW c \in Calls, Alone(c), Early(c), NEW r \in 1..Len(heap),
         heap[r].id = IdOf[c], InUse(r)
  PROVE  heap[r].status = "PENDING"
<1>1. heap[r].status \in Shows(c) BY DEF Shows
<1> QED BY <1>1 DEF RaceIInv, RaceFits

LEMMA RunRace ==
  ASSUME TasksIInv, TasksIInv', RaceIInv, NEW c \in Calls, Run(c) PROVE RaceIInv'
<1>0. HeapShape /\ CallShape BY DEF TasksIInv
<1> DEFINE t == thread[c]
           stored == store[IdOf[c]]
<1>1. /\ state[c] = "ready" /\ UNCHANGED <<heap, store, own, thread, scan>>
      /\ state' = [state EXCEPT ![c] = "starting"] /\ t \in Threads /\ IdOf[c] \in Ids
  BY <1>0, TasksAssumption DEF Run, CallShape
<1>2. PICK op : /\ op = IF stored = 0 THEN Operation("start", own[c], "RUNNING", c, "save")
                        ELSE Operation("start", stored, "RUNNING", c, "check")
                /\ doing' = [doing EXCEPT ![t] = op]
  BY DEF Run, Begin
<1>3. /\ op.kind = "start" /\ op.to = "RUNNING" /\ op.call = c /\ op.step \in {"save", "check"}
      /\ op.step = "save" => stored = 0
      /\ op.ref = IF stored = 0 THEN own[c] ELSE stored
  BY <1>2 DEF Operation
<1>4. InUse(op.ref) /\ heap[op.ref].id = IdOf[c] /\ op.ref \in 1..Len(heap)
  <2>1. CASE stored = 0 BY <1>0, <1>1, <1>3, <2>1, Referred DEF Unrun, RaceIInv, OwnFits, CallShape
  <2>2. CASE stored # 0 BY <1>0, <1>1, <1>3, <2>2, Referred DEF HeapShape
  <2> QED BY <2>1, <2>2
<1>5. op \in Operations
  <2>1. own[c] \in 1..Len(heap) /\ "RUNNING" \in Status BY <1>0, <1>1 DEF CallShape, Status
  <2> QED BY <1>0, <1>1, <1>2, <2>1, OperationTyped DEF HeapShape
<1>6. OpFits(op) BY <1>3, <1>4 DEF OpFits
<1>7. \A d \in Calls : Onward(d) /\ (state[d] = "body" => state'[d] = "body")
  BY <1>0, <1>1 DEF Onward, CallShape, Unrun
<1>8. \A d \in Calls : Alone(d) /\ Unsaved(d)' => store'[IdOf[d]] = 0
  <2> SUFFICES ASSUME NEW d \in Calls, Alone(d), Unsaved(d)' PROVE store[IdOf[d]] = 0 BY <1>1
  <2>1. Unsaved(d) \/ (d = c /\ stored = 0)
    BY <1>0, <1>1, <1>2, <1>3 DEF Unsaved, AtStart, CallShape, HeapShape
  <2> QED BY <2>1 DEF RaceIInv, RaceFits
<1>9. Early(c) BY <1>1 DEF Early
<1> HIDE DEF t, stored
<1> QED BY <1>0, <1>1, <1>2, <1>3, <1>4, <1>5, <1>6, <1>7, <1>8, <1>9, BegunRace, Referred

(* No start comes to save its record that has not come to it before. *)
LEMMA UnsavedKept ==
  ASSUME HeapShape, RaceIInv, UNCHANGED store, NEW t \in Threads, NEW op \in Operations,
         doing' = [doing EXCEPT ![t] = op], op.kind # "start" \/ op.step # "save",
         \A d \in Calls : Onward(d)
  PROVE  \A c \in Calls : Alone(c) /\ Unsaved(c)' => store'[IdOf[c]] = 0
<1> SUFFICES ASSUME NEW c \in Calls, Alone(c), Unsaved(c)' PROVE store[IdOf[c]] = 0 OBVIOUS
<1>1. doing'[t] = op /\ \A u \in Threads \ {t} : doing'[u] = doing[u] BY DEF HeapShape
<1>2. Unsaved(c)
  <2>1. AtStart(c, {"save"})' => AtStart(c, {"save"}) BY <1>1 DEF AtStart
  <2> QED BY <2>1 DEF Unsaved, Onward
<1> QED BY <1>2 DEF RaceIInv, RaceFits

LEMMA HeartbeatRace ==
  ASSUME TasksIInv, TasksIInv', RaceIInv, NEW c \in Calls, Heartbeat(c) PROVE RaceIInv'
<1>0. HeapShape /\ CallShape BY DEF TasksIInv
<1>1. /\ UNCHANGED <<heap, store, own, thread, scan, state>> /\ store[IdOf[c]] # 0
      /\ state[c] = "body" /\ IdOf[c] \in Ids
  BY TasksAssumption DEF Heartbeat
<1>2. PICK t \in Threads : t = thread[c] BY <1>0 DEF CallShape
<1>3. PICK op : op = Operation("beat", store[IdOf[c]], "RUNNING", c, "check") OBVIOUS
<1>4. doing' = [doing EXCEPT ![t] = op] BY <1>2, <1>3 DEF Heartbeat, Begin
<1>5. /\ op.kind = "beat" /\ op.ref = store[IdOf[c]] /\ op.call = c /\ op.step = "check"
      /\ store[IdOf[c]] \in 1..Len(heap) /\ heap[store[IdOf[c]]].id = IdOf[c]
  BY <1>0, <1>1, <1>3 DEF Operation, HeapShape
<1>6. op \in Operations BY <1>0, <1>3, <1>5, OperationTyped DEF Status
<1>7. InUse(op.ref) /\ OpFits(op) BY <1>0, <1>1, <1>5, Referred DEF OpFits
<1>8. \A d \in Calls : Onward(d) BY <1>1 DEF Onward
<1>9. \A d \in Calls : Alone(d) /\ Unsaved(d)' => store'[IdOf[d]] = 0
  BY <1>0, <1>1, <1>4, <1>5, <1>6, <1>8, UnsavedKept
<1> QED BY <1>0, <1>1, <1>2, <1>4, <1>5, <1>6, <1>7, <1>8, <1>9, BegunRace, Referred

LEMMA BodyEndsRace ==
  ASSUME TasksIInv, TasksIInv', RaceIInv, NEW c \in Calls, NEW s \in Outcomes, BodyEnds(c, s)
  PROVE  RaceIInv'
<1>0. HeapShape /\ CallShape BY DEF TasksIInv
<1>1. /\ UNCHANGED <<heap, store, own, thread, scan>> /\ state[c] = "body"
      /\ IdOf[c] \in Ids /\ doing[thread[c]] = Idle
  BY TasksAssumption DEF BodyEnds, Free, LoopFree
<1>2. PICK t \in Threads : t = thread[c] BY <1>0 DEF CallShape
<1>3. PICK op : op = IF store[IdOf[c]] = 0 THEN Idle
                     ELSE Operation("end", store[IdOf[c]], s, c, "check")
  OBVIOUS
<1>4. /\ doing' = [doing EXCEPT ![t] = op]
      /\ state' = [state EXCEPT ![c] = IF store[IdOf[c]] = 0 THEN "over" ELSE "ended"]
  BY <1>0, <1>1, <1>2, <1>3 DEF BodyEnds, Begin, HeapShape
<1>5. op.step # "none" =>
        /\ op.kind = "end" /\ op.to = s /\ op.ref = store[IdOf[c]] /\ op.call = c
        /\ op.step = "check" /\ store[IdOf[c]] # 0
        /\ store[IdOf[c]] \in 1..Len(heap) /\ heap[store[IdOf[c]]].id = IdOf[c]
  BY <1>0, <1>1, <1>3 DEF Operation, HeapShape, Idle
<1>6. op \in Operations /\ op.kind \in {"end", "idle"}
  <2>1. s \in Status BY TasksAssumption DEF Status, Terminal
  <2>2. CASE store[IdOf[c]] = 0 BY <1>3, <2>2, IdleTyped DEF Idle, Operation
  <2>3. CASE store[IdOf[c]] # 0
    <3>1. store[IdOf[c]] \in 1..Len(heap) BY <1>0, <1>1, <2>3 DEF HeapShape
    <3> QED BY <1>0, <1>3, <2>1, <2>3, <3>1, OperationTyped DEF Operation
  <2> QED BY <2>2, <2>3
<1>7. op.step # "none" => InUse(op.ref) /\ OpFits(op)
  BY <1>0, <1>1, <1>5, Referred, TasksAssumption DEF OpFits, Terminal
<1>8. \A d \in Calls : Onward(d) /\ (state[d] = "body" /\ state'[d] # "body" => thread[d] = t)
  BY <1>0, <1>1, <1>2, <1>4 DEF Onward, CallShape, Unrun
<1>9. \A d \in Calls : Alone(d) /\ Unsaved(d)' => store'[IdOf[d]] = 0
  BY <1>0, <1>1, <1>4, <1>6, <1>8, UnsavedKept
<1> QED BY <1>0, <1>1, <1>4, <1>5, <1>6, <1>7, <1>8, <1>9, BegunRace, Referred

LEMMA ScanNextRace ==
  ASSUME TasksIInv, TasksIInv', RaceIInv, NEW r \in scan, ScanNext(r) PROVE RaceIInv'
<1>0. HeapShape /\ r \in 1..Len(heap) /\ Loop \in Threads /\ "DEAD" \in Status
  BY DEF TasksIInv, HeapShape, Threads, Status, Terminal
<1>1. UNCHANGED <<heap, store, own, thread, state>> /\ scan' \subseteq scan BY DEF ScanNext
<1>2. PICK op : op = Operation("dead", r, "DEAD", NoCall, "check") OBVIOUS
<1>3. doing' = [doing EXCEPT ![Loop] = op] BY <1>2 DEF ScanNext, Begin
<1>4. op.kind = "dead" /\ op.ref = r /\ op.step = "check" /\ op.to = "DEAD" BY <1>2 DEF Operation
<1>5. op \in Operations BY <1>0, <1>2, OperationTyped
<1>6. InUse(op.ref) /\ OpFits(op) BY <1>0, <1>4, Referred DEF OpFits
<1>7. \A d \in Calls : Onward(d) BY <1>1 DEF Onward
<1>8. \A d \in Calls : Alone(d) /\ Unsaved(d)' => store'[IdOf[d]] = 0
  BY <1>0, <1>1, <1>3, <1>4, <1>5, <1>7, UnsavedKept
<1> QED BY <1>0, <1>1, <1>3, <1>4, <1>5, <1>6, <1>7, <1>8, BegunRace, Referred

(* What Finish makes of the calls. *)
LEMMA FinishOnward ==
  ASSUME HeapShape, CallShape, CallsAtWork, NEW t \in Threads, NEW started \in BOOLEAN,
         doing[t].step # "none", Finish(t, started)
  PROVE  /\ doing' = [doing EXCEPT ![t] = Idle]
         /\ \A d \in Calls : Onward(d) /\ (state[d] = "body" => state'[d] = "body")
<1>1. doing' = [doing EXCEPT ![t] = Idle] BY DEF Finish, Begin
<1>2. CASE doing[t].kind = "start"
  <2>1. PICK c \in Calls : c = doing[t].call /\ state[c] = "starting"
    BY <1>2 DEF CallsAtWork, InTheMiddle
  <2>2. state' = [state EXCEPT ![c] = IF started THEN "body" ELSE "over"] BY <1>2, <2>1 DEF Finish
  <2> QED BY <1>1, <2>1, <2>2 DEF Onward, CallShape, Unrun
<1>3. CASE doing[t].kind = "end"
  <2>1. PICK c \in Calls : c = doing[t].call /\ state[c] = "ended"
    BY <1>3 DEF CallsAtWork, InTheMiddle
  <2>2. state' = [state EXCEPT ![c] = "over"] BY <1>3, <2>1 DEF Finish
  <2> QED BY <1>1, <2>1, <2>2 DEF Onward, CallShape, Unrun
<1>4. CASE doing[t].kind \notin {"start", "end"} BY <1>1, <1>4 DEF Finish, Onward
<1> QED BY <1>2, <1>3, <1>4

(* The parts of an operation that goes on to its next step. *)
LEMMA NextStep ==
  ASSUME HeapShape, NEW t \in Threads, doing[t].step # "none",
         NEW s \in {"check", "set", "write"}, NEW op, op = [doing[t] EXCEPT !.step = s]
  PROVE  /\ op \in Operations /\ op.step = s /\ op.kind = doing[t].kind
         /\ op.ref = doing[t].ref /\ op.to = doing[t].to /\ op.call = doing[t].call
<1>1. PICK o \in Operations : o = doing[t] BY DEF HeapShape
<1> QED BY <1>1 DEF Operations

LEMMA CheckRace ==
  ASSUME TasksIInv, TasksIInv', RaceIInv, NEW t \in Threads, Check(t) PROVE RaceIInv'
<1>0. HeapShape /\ CallShape /\ CallsAtWork BY DEF TasksIInv
<1>1. doing[t].step = "check" /\ UNCHANGED <<heap, store, own, thread, scan>> BY DEF Check
<1>2. CASE Proceeds(doing[t])
  <2>1. PICK op : op = [doing[t] EXCEPT !.step = "set"] OBVIOUS
  <2>2. doing' = [doing EXCEPT ![t] = op] /\ state' = state BY <1>2, <2>1 DEF Check, Begin
  <2>3. /\ op \in Operations /\ op.step = "set" /\ op.kind = doing[t].kind
        /\ op.ref = doing[t].ref /\ op.to = doing[t].to /\ op.call = doing[t].call
    BY <1>0, <1>1, <2>1, NextStep
  <2>4. InUse(op.ref) /\ OpFits(op) /\ op.ref \in 1..Len(heap)
    BY <1>0, <1>1, <2>3, Referred DEF RaceIInv, OpsFit, OpFits, HeapShape
  <2>5. op.kind = "beat" => op.call \in Calls /\ thread[op.call] = t /\ state[op.call] = "body"
    BY <1>1, <2>3 DEF RaceIInv, BeatsAtWork, InTheMiddle
  <2>6. op.kind = "start" => Early(op.call) BY <1>1, <2>3 DEF Early, AtStart
  <2>7. ASSUME op.kind = "dead", NEW c \in Calls, Alone(c), heap[op.ref].id = IdOf[c], Early(c)
        PROVE  FALSE
    <3>1. heap[op.ref].status = "PENDING" BY <1>0, <2>4, <2>7, EarlyPending
    <3> QED BY <1>2, <2>3, <2>7, <3>1 DEF Proceeds
  <2>8. \A d \in Calls : Onward(d) BY <2>2 DEF Onward
  <2>9. \A d \in Calls : Alone(d) /\ Unsaved(d)' => store'[IdOf[d]] = 0
    BY <1>0, <1>1, <2>2, <2>3, <2>8, UnsavedKept
  <2> QED BY <1>0, <1>1, <2>2, <2>3, <2>4, <2>5, <2>6, <2>7, <2>8, <2>9, BegunRace, Referred
<1>3. CASE ~Proceeds(doing[t])
  <2>1. Finish(t, FALSE) BY <1>3 DEF Check
  <2>2. /\ doing' = [doing EXCEPT ![t] = Idle]
        /\ \A d \in Calls : Onward(d) /\ (state[d] = "body" => state'[d] = "body")
    BY <1>0, <1>1, <2>1, FinishOnward
  <2>3. Idle \in Operations /\ Idle.step = "none" /\ Idle.kind = "idle"
    BY IdleTyped DEF Idle, Operation
  <2>4. PICK op : op = Idle OBVIOUS
  <2>5. \A d \in Calls : Alone(d) /\ Unsaved(d)' => store'[IdOf[d]] = 0
    BY <1>0, <1>1, <2>2, <2>3, <2>4, UnsavedKept
  <2> QED BY <1>0, <1>1, <2>2, <2>3, <2>4, <2>5, BegunRace, Referred
<1> QED BY <1>2, <1>3

(* Save puts the record in its place, and takes others out. *)
LEMMA SavePlaces ==
  ASSUME store \in [Ids -> Nat], NEW hp, NEW ref \in Nat, Save(ref, hp), hp[ref].id \in Ids,
         NEW j \in Ids, store'[j] # 0
  PROVE  store'[j] = IF j = hp[ref].id THEN ref ELSE store[j]
BY DEF Save

LEMMA SaveLateRace ==
  ASSUME TasksIInv, TasksIInv', RaceIInv, NEW t \in Threads, SaveLate(t) PROVE RaceIInv'
<1>0. HeapShape /\ CallShape /\ CallsAtWork BY DEF TasksIInv
<1>1. /\ doing[t].step = "save" /\ UNCHANGED <<heap, own, state, thread, scan>>
      /\ Save(doing[t].ref, heap)
  BY DEF SaveLate
<1>2. PICK op : op = [doing[t] EXCEPT !.step = "check"] OBVIOUS
<1>3. doing' = [doing EXCEPT ![t] = op] BY <1>2 DEF SaveLate, Begin
<1>4. /\ op \in Operations /\ op.step = "check" /\ op.kind = doing[t].kind
      /\ op.ref = doing[t].ref /\ op.to = doing[t].to /\ op.call = doing[t].call
  BY <1>0, <1>1, <1>2, NextStep
<1>5. OpFits(doing[t]) /\ op.kind = "start" BY <1>1, <1>4 DEF RaceIInv, OpsFit, OpFits
<1>6. InUse(op.ref) /\ OpFits(op) /\ op.ref \in 1..Len(heap) /\ op.ref \in Nat
  BY <1>0, <1>1, <1>4, <1>5, Referred DEF OpFits, HeapShape, Operations
<1>7. PICK c \in Calls :
  /\ c = op.call /\ heap[op.ref].id = IdOf[c] /\ IdOf[c] \in Ids
  /\ state[c] = "starting" /\ thread[c] = t /\ AtStart(c, {"save"})
  <2>1. op.call \in Calls /\ heap[op.ref].id = IdOf[op.call] BY <1>5, <1>6 DEF OpFits
  <2>2. IdOf[op.call] \in Ids BY <2>1, TasksAssumption
  <2>3. state[op.call] = "starting" /\ thread[op.call] = t
    BY <1>0, <1>1, <1>4, <1>5 DEF CallsAtWork, InTheMiddle
  <2>4. AtStart(op.call, {"save"}) BY <1>1, <1>4, <1>5 DEF AtStart
  <2> QED BY <2>1, <2>2, <2>3, <2>4
<1>8. \A j \in Ids : store'[j] # 0 => store'[j] = IF j = IdOf[c] THEN op.ref ELSE store[j]
  BY <1>0, <1>1, <1>4, <1>6, <1>7, SavePlaces DEF HeapShape
<1>9. \A j \in Ids : store'[j] # 0 => InUse(store'[j]) BY <1>0, <1>6, <1>8, Referred
<1>10. \A d \in Calls : Onward(d) BY <1>1 DEF Onward
<1>11. ASSUME NEW d \in Calls, Alone(d), Unsaved(d)' PROVE store'[IdOf[d]] = 0
  <2>1. doing'[t] = op /\ \A u \in Threads \ {t} : doing'[u] = doing[u] BY <1>0, <1>3 DEF HeapShape
  <2>2. Unsaved(d) BY <1>1, <1>11, <1>4, <2>1 DEF Unsaved, AtStart
  <2>3. d # c
    <3> SUFFICES ASSUME d = c PROVE FALSE OBVIOUS
    <3>1. AtStart(c, {"save"})' BY <1>1, <1>7, <1>11 DEF Unsaved
    <3>2. PICK u \in Threads : doing'[u].kind = "start" /\ doing'[u].call = c /\ doing'[u].step = "save"
      BY <3>1 DEF AtStart
    <3>3. u # t /\ doing'[u] = doing[u] BY <1>4, <2>1, <3>2
    <3>4. thread[c] = u BY <1>0, <3>2, <3>3 DEF CallsAtWork, InTheMiddle
    <3> QED BY <1>7, <3>3, <3>4
  <2>4. IdOf[d] # IdOf[c] /\ IdOf[d] \in Ids /\ store[IdOf[d]] = 0
    BY <1>11, <2>2, <2>3, TasksAssumption DEF Alone, RaceIInv, RaceFits
  <2> QED BY <1>8, <2>4
<1>12. Early(c) BY <1>7 DEF AtStart, Early
<1> QED BY <1>1, <1>3, <1>4, <1>5, <1>6, <1>7, <1>9, <1>10, <1>11, <1>12, BegunRace

(* The live object gets its new status. *)
LEMMA SetStatusRace ==
  ASSUME TasksIInv, TasksIInv', RaceIInv, NEW t \in Threads, SetStatus(t) PROVE RaceIInv'
<1>0. HeapShape /\ HeapShape' /\ CallShape /\ CallsAtWork BY DEF TasksIInv
<1>1. /\ doing[t].step = "set" /\ UNCHANGED <<store, own, state, thread, scan>> BY DEF SetStatus
<1>2. PICK op : op = [doing[t] EXCEPT !.step = "write"] OBVIOUS
<1>3. doing' = [doing EXCEPT ![t] = op] BY <1>2 DEF SetStatus, Begin
<1>4. /\ op \in Operations /\ op.step = "write" /\ op.kind = doing[t].kind
      /\ op.ref = doing[t].ref /\ op.to = doing[t].to /\ op.call = doing[t].call
  BY <1>0, <1>1, <1>2, NextStep
<1>5. doing'[t] = op /\ \A u \in Threads \ {t} : doing'[u] = doing[u] BY <1>0, <1>3 DEF HeapShape
<1>6. OpFits(doing[t]) BY <1>1 DEF RaceIInv, OpsFit
<1>7. /\ Len(heap') = Len(heap) /\ \A r \in 1..Len(heap) : heap'[r].id = heap[r].id
      /\ \A r \in 1..Len(heap) :
         \/ heap'[r].status = heap[r].status
         \/ r = op.ref /\ op.kind # "beat" /\ heap'[r].status = op.to
  <2>1. CASE doing[t].kind = "beat" BY <2>1 DEF SetStatus
  <2>2. CASE doing[t].kind # "beat"
    <3> DEFINE e == [heap[op.ref] EXCEPT !.status = op.to]
    <3>1. heap' = [heap EXCEPT ![op.ref] = e] BY <1>4, <2>2 DEF SetStatus
    <3>2. op.ref \in 1..Len(heap) /\ heap[op.ref] \in Records /\ heap \in Seq(Records)
      BY <1>0, <1>1, <1>4, ElementOfSeq DEF HeapShape
    <3>3. op.to \in Status BY <1>4 DEF Operations
    <3>4. e \in Records /\ e.id = heap[op.ref].id /\ e.status = op.to BY <3>2, <3>3 DEF Records
    <3> HIDE DEF e
    <3>5. Len(heap') = Len(heap) /\ \A r \in 1..Len(heap) : heap'[r] = IF r = op.ref THEN e ELSE heap[r]
      BY <3>1, <3>2, <3>4, ExceptSeq
    <3> QED BY <1>4, <2>2, <3>4, <3>5
  <2> QED BY <2>1, <2>2
<1>8. \A r \in 1..Len(heap) : InUse(r)' => InUse(r)
  <2>1. \A j \in Ids : store'[j] # 0 => InUse(store'[j]) BY <1>0, <1>1, Referred
  <2>2. \A q \in scan' : InUse(q) BY <1>0, <1>1, Referred
  <2>3. \A u \in Threads : doing'[u].step # "none" => InUse(doing'[u].ref)
    BY <1>0, <1>1, <1>4, <1>5, Referred
  <2>4. \A d \in Calls : state'[d] \in Unrun => InUse(own'[d]) BY <1>0, <1>1, Referred
  <2> QED BY <1>0, <1>7, <2>1, <2>2, <2>3, <2>4, QuietUse
<1>9. OpsFit'
  <2>1. \A u \in Threads : doing[u].step # "none" => heap'[doing[u].ref].id = heap[doing[u].ref].id
    BY <1>0, <1>7 DEF HeapShape
  <2>2. OpFits(op)' BY <1>1, <1>4, <1>6, <2>1 DEF OpFits
  <2>3. ASSUME NEW u \in Threads \ {t}, doing'[u].step # "none" PROVE OpFits(doing[u])'
    BY <1>5, <2>1, <2>3 DEF RaceIInv, OpsFit, OpFits
  <2> QED BY <1>5, <2>2, <2>3 DEF OpsFit, OpFits
<1>10. OwnFits' BY <1>0, <1>1, <1>7 DEF OwnFits, RaceIInv, CallShape, Unrun
<1>11. BeatsAtWork' BY <1>1, <1>4, <1>5 DEF RaceIInv, BeatsAtWork, InTheMiddle
<1>12. ASSUME NEW c \in Calls, Alone(c) PROVE RaceFits(c)'
  <2>1. RaceFits(c) BY <1>12 DEF RaceIInv
  <2>2. Unsaved(c)' => Unsaved(c) BY <1>1, <1>4, <1>5 DEF Unsaved, AtStart
  <2>3. Early(c)' => Early(c) BY <1>1, <1>4, <1>5 DEF Early, AtStart
  <2>4. Shows(c)' \subseteq Shows(c) \cup
          (IF heap[op.ref].id = IdOf[c] /\ op.kind # "beat" THEN {op.to} ELSE {})
    <3> SUFFICES ASSUME NEW s \in Shows(c)'
                 PROVE  s \in Shows(c) \/ (heap[op.ref].id = IdOf[c] /\ op.kind # "beat" /\ s = op.to)
      OBVIOUS
    <3>1. PICK r \in 1..Len(heap') : heap'[r].id = IdOf[c] /\ InUse(r)' /\ heap'[r].status = s
      BY DEF Shows
    <3>2. InUse(r) /\ heap[r].id = IdOf[c] /\ r \in 1..Len(heap) BY <1>7, <1>8, <3>1
    <3> QED BY <1>7, <3>1, <3>2 DEF Shows
  <2>5. op.kind # "dead" =>
    /\ op.call \in Calls /\ heap[op.ref].id = IdOf[op.call]
    /\ op.kind = "start" => op.to = "RUNNING"
    BY <1>4, <1>6 DEF OpFits
  <2>6. op.kind = "dead" /\ heap[op.ref].id = IdOf[c] => ~Early(c) /\ op.to = "DEAD"
    BY <1>1, <1>4, <1>6, <2>1 DEF RaceFits, DeathNear, OpFits
  <2>7. Early(c)' => heap[op.ref].id # IdOf[c]
    <3> SUFFICES ASSUME Early(c)', heap[op.ref].id = IdOf[c] PROVE FALSE OBVIOUS
    <3>1. op.kind # "dead" /\ op.call = c BY <1>12, <2>3, <2>5, <2>6 DEF Alone
    <3>2. op.kind \in {"start", "beat", "end"} BY <1>4, <1>6, <3>1 DEF OpFits, Operations
    <3>3. thread[c] = t /\ state[c] \in {"starting", "body", "ended"}
      <4>1. /\ InTheMiddle(t, "beat", "body") /\ InTheMiddle(t, "start", "starting")
            /\ InTheMiddle(t, "end", "ended")
        BY <1>0 DEF RaceIInv, BeatsAtWork, CallsAtWork
      <4> QED BY <1>1, <1>4, <3>1, <3>2, <4>1 DEF InTheMiddle
    <3>4. AtStart(c, {"save", "check", "set"})' BY <1>1, <3>3 DEF Early
    <3>5. PICK u \in Threads :
      /\ doing'[u].kind = "start" /\ doing'[u].call = c
      /\ doing'[u].step \in {"save", "check", "set"}
      BY <3>4 DEF AtStart
    <3>6. u # t /\ doing[u] = doing'[u] BY <1>4, <1>5, <3>5
    <3>7. thread[c] = u BY <1>0, <3>5, <3>6 DEF CallsAtWork, InTheMiddle
    <3> QED BY <3>3, <3>6, <3>7
  <2>8. Early(c)' => ~DeathNear(c)'
    <3> SUFFICES ASSUME Early(c)', NEW u \in Threads, doing'[u].kind = "dead",
                        doing'[u].step \in {"set", "write"}, heap'[doing'[u].ref].id = IdOf[c]
                 PROVE  FALSE
      BY DEF DeathNear
    <3>1. doing'[u].ref \in 1..Len(heap) BY <1>0, <1>7 DEF HeapShape
    <3>2. heap[doing'[u].ref].id = IdOf[c] BY <1>7, <3>1
    <3>3. u # t BY <1>5, <2>7, <3>2
    <3>4. DeathNear(c) BY <1>5, <3>2, <3>3 DEF DeathNear
    <3> QED BY <2>1, <2>3, <3>4 DEF RaceFits
  <2>9. ASSUME state[c] \notin {"ended", "over"}
        PROVE  Shows(c)' \subseteq {"PENDING", "RUNNING", "DEAD"}
    <3>1. Shows(c) \subseteq {"PENDING", "RUNNING", "DEAD"} BY <2>1, <2>9 DEF RaceFits
    <3>2. ASSUME heap[op.ref].id = IdOf[c], op.kind # "beat" PROVE op.to \in {"RUNNING", "DEAD"}
      <4>1. op.kind # "dead" => op.call = c BY <1>12, <2>5, <3>2 DEF Alone
      <4>2. op.kind # "end" BY <1>0, <1>1, <1>4, <2>9, <4>1 DEF CallsAtWork, InTheMiddle
      <4>3. op.kind \in {"start", "dead"} BY <1>4, <1>6, <3>2, <4>2 DEF OpFits, Operations
      <4> QED BY <2>5, <2>6, <3>2, <4>3
    <3> QED BY <2>4, <3>1, <3>2
  <2>10. Shows(c)' \subseteq {"PENDING"} \/ ~Early(c)' BY <2>1, <2>3, <2>4, <2>7 DEF RaceFits
  <2>11. Unsaved(c)' => store'[IdOf[c]] = 0 BY <1>1, <2>1, <2>2 DEF RaceFits
  <2>12. state'[c] = state[c] BY <1>1
  <2> QED BY <2>8, <2>9, <2>10, <2>11, <2>12 DEF RaceFits
<1> QED BY <1>9, <1>10, <1>11, <1>12 DEF RaceIInv, Alone

(* An operation that is over writes what the record says already into the
   copy that takes its place. *)
LEMMA WriteHeapRace ==
  ASSUME TasksIInv, RaceIInv, NEW t \in Threads, Write(t), NEW r, r = doing[t].ref
  PROVE  /\ r \in 1..Len(heap) /\ heap[r].id \in Ids /\ Len(heap) \in Nat
         /\ \/ /\ Accepts(r) /\ store' = [store EXCEPT ![heap[r].id] = Len(heap) + 1]
               /\ Len(heap') = Len(heap) + 1
               /\ \A q \in 1..Len(heap) : q # r \/ Shared(r, t) =>
                    heap'[q].id = heap[q].id /\ heap'[q].status = heap[q].status
               /\ heap'[Len(heap) + 1].id = heap[r].id
               /\ heap'[Len(heap) + 1].status = heap[r].status
            \/ /\ ~Accepts(r) /\ store' = store /\ Len(heap') = Len(heap)
               /\ \A q \in 1..Len(heap) : heap'[q].id = heap[q].id /\ heap'[q].status = heap[q].status
<1>0. HeapShape BY DEF TasksIInv
<1>1. doing[t].step = "write" BY DEF Write
<1>2. /\ r \in 1..Len(heap) /\ heap \in Seq(Records) /\ Len(heap) \in Nat
      /\ heap[r] \in Records
  BY <1>0, <1>1, ElementOfSeq, LenProperties DEF HeapShape
<1>3. PICK b \in {"fresh", "old"} : Update(t, b) BY DEF Write
<1> DEFINE copy == [heap[r] EXCEPT !.version = @ + 1, !.beat = b]
           kept == IF Shared(r, t) THEN copy ELSE Gone
           old == [heap EXCEPT ![r] = kept]
           beaten == [heap[r] EXCEPT !.beat = b]
<1>4. /\ copy \in Records /\ copy.id = heap[r].id /\ copy.status = heap[r].status
      /\ beaten \in Records /\ beaten.id = heap[r].id /\ beaten.status = heap[r].status
  <2>1. beaten \in Records /\ beaten.id = heap[r].id /\ beaten.status = heap[r].status
    BY <1>2 DEF Records
  <2>2. heap[r].version + 1 \in Nat BY <1>2 DEF Records
  <2>3. copy = [beaten EXCEPT !.version = heap[r].version + 1] BY <1>2 DEF Records
  <2> HIDE DEF beaten, copy
  <2>4. copy \in Records /\ copy.id = beaten.id /\ copy.status = beaten.status
    BY <2>1, <2>2, <2>3 DEF Records
  <2> QED BY <2>1, <2>4
<1>5. CASE Accepts(r)
  <2>1. /\ heap' = Append(old, copy)
        /\ store' = [store EXCEPT ![copy.id] = Len(heap) + 1]
    BY <1>3, <1>5 DEF Update
  <2>2. Gone \in Records BY <1>2 DEF Gone, Records, Status
  <2>3. kept \in Records /\ (Shared(r, t) => kept.id = heap[r].id /\ kept.status = heap[r].status)
    BY <1>4, <2>2
  <2> HIDE DEF kept, copy
  <2>4. /\ old \in Seq(Records) /\ Len(old) = Len(heap)
        /\ \A q \in 1..Len(heap) : old[q] = IF q = r THEN kept ELSE heap[q]
    BY <1>2, <2>3, ExceptSeq
  <2> HIDE DEF old
  <2>5. /\ Len(heap') = Len(heap) + 1
        /\ \A q \in 1..Len(heap) : heap'[q] = IF q = r THEN kept ELSE heap[q]
        /\ heap'[Len(heap) + 1] = copy
    BY <1>4, <2>1, <2>4, AppendRecord
  <2> QED BY <1>2, <1>4, <1>5, <2>1, <2>3, <2>5 DEF Records
<1>6. CASE ~Accepts(r)
  <2>1. heap' = [heap EXCEPT ![r] = beaten] /\ store' = store BY <1>3, <1>6 DEF Update
  <2> HIDE DEF beaten
  <2>2. Len(heap') = Len(heap) /\ \A q \in 1..Len(heap) : heap'[q] = IF q = r THEN beaten ELSE heap[q]
    BY <1>2, <1>4, <2>1, ExceptSeq
  <2> QED BY <1>2, <1>4, <1>6, <2>1, <2>2 DEF Records
<1> QED BY <1>5, <1>6

(* Who refers to a record refers to one of the same id afterwards. *)
LEMMA WriteRefers ==
  ASSUME TasksIInv, TasksIInv', RaceIInv, NEW t \in Threads, Write(t), NEW r, r = doing[t].ref,
         NEW q \in 1..Len(heap),
         \/ q \in scan \/ \E u \in Threads \ {t} : doing[u].ref = q
         \/ \E d \in Calls : own[d] = q /\ state[d] \in Unrun
  PROVE  heap'[q].id = heap[q].id
BY WriteHeapRace DEF Shared

LEMMA WriteShows ==
  ASSUME TasksIInv, TasksIInv', RaceIInv, NEW t \in Threads, Write(t),
         doing' = [doing EXCEPT ![t] = Idle], \A d \in Calls : Onward(d), NEW c \in Calls
  PROVE  Shows(c)' \subseteq Shows(c)
<1>0. HeapShape /\ HeapShape' BY DEF TasksIInv
<1>1. PICK r : r = doing[t].ref OBVIOUS
<1>2. doing[t].step = "write" /\ UNCHANGED <<own, scan>> BY DEF Write
<1>3. InUse(r) /\ r \in 1..Len(heap) BY <1>0, <1>1, <1>2, Referred DEF HeapShape
<1>4. Idle.step = "none" BY IdleTyped
<1>5. doing'[t].step = "none" /\ \A u \in Threads \ {t} : doing'[u] = doing[u]
  BY <1>0, <1>4 DEF HeapShape
<1> SUFFICES ASSUME NEW s \in Shows(c)' PROVE s \in Shows(c) OBVIOUS
<1>6. PICK q \in 1..Len(heap') : heap'[q].id = IdOf[c] /\ InUse(q)' /\ heap'[q].status = s
  BY DEF Shows
<1>7. CASE ~Accepts(r)
  <2>1. /\ store' = store /\ Len(heap') = Len(heap)
        /\ heap'[q].id = heap[q].id /\ heap'[q].status = heap[q].status
    BY <1>1, <1>6, <1>7, WriteHeapRace
  <2>2. /\ \A j \in Ids : store'[j] # 0 => InUse(store'[j])
        /\ \A p \in scan' : InUse(p)
        /\ \A u \in Threads : doing'[u].step # "none" => InUse(doing'[u].ref)
        /\ \A d \in Calls : state'[d] \in Unrun => InUse(own'[d])
    BY <1>0, <1>2, <1>5, <2>1, Referred DEF Onward
  <2>3. InUse(q) BY <1>0, <1>6, <2>2, QuietUse
  <2> QED BY <1>6, <2>1, <2>3 DEF Shows
<1>8. CASE Accepts(r)
  <2>1. /\ store' = [store EXCEPT ![heap[r].id] = Len(heap) + 1] /\ Len(heap') = Len(heap) + 1
        /\ \A p \in 1..Len(heap) : p # r \/ Shared(r, t) =>
             heap'[p].id = heap[p].id /\ heap'[p].status = heap[p].status
        /\ heap'[Len(heap) + 1].id = heap[r].id
        /\ heap'[Len(heap) + 1].status = heap[r].status
        /\ heap[r].id \in Ids /\ Len(heap) \in Nat
    BY <1>1, <1>8, WriteHeapRace
  <2>2. CASE q = Len(heap) + 1 BY <1>3, <1>6, <2>1, <2>2 DEF Shows
  <2>3. CASE q # Len(heap) + 1
    <3>1. q \in 1..Len(heap) BY <1>6, <2>1, <2>3
    <3>2. heap'[q].id \in Ids
      <4>1. heap' \in Seq(Records) BY <1>0 DEF HeapShape
      <4>2. heap'[q] \in Records BY <1>6, <4>1, ElementOfSeq
      <4> QED BY <4>2 DEF Records
    <3>3. \/ q = store'[heap'[q].id] \/ q \in scan
          \/ \E u \in Threads \ {t} : doing[u].step # "none" /\ doing[u].ref = q
          \/ \E d \in Calls : state[d] \in Unrun /\ own[d] = q
      BY <1>2, <1>5, <1>6 DEF InUse, Onward
    <3>4. q = store'[heap'[q].id] => heap'[q].id # heap[r].id /\ q = store[heap'[q].id]
      BY <1>0, <2>1, <2>3, <3>2 DEF HeapShape
    <3>5. q = store'[heap'[q].id] => heap[q].id = heap'[q].id /\ q # r
      BY <1>0, <3>1, <3>2, <3>4 DEF HeapShape
    <3>6. q = r => Shared(r, t) BY <3>3, <3>5 DEF Shared
    <3>7. heap'[q].id = heap[q].id /\ heap'[q].status = heap[q].status BY <2>1, <3>1, <3>6
    <3>8. InUse(q) BY <3>3, <3>4, <3>7 DEF InUse
    <3> QED BY <1>6, <3>1, <3>7, <3>8 DEF Shows
  <2> QED BY <2>2, <2>3
<1> QED BY <1>7, <1>8

LEMMA WriteRace ==
  ASSUME TasksIInv, TasksIInv', RaceIInv, NEW t \in Threads, Write(t) PROVE RaceIInv'
<1>0. HeapShape /\ HeapShape' /\ CallShape /\ CallsAtWork BY DEF TasksIInv
<1>1. /\ doing[t].step = "write" /\ UNCHANGED <<own, thread, scan>>
      /\ \E started \in BOOLEAN : Finish(t, started)
  BY DEF Write, Accepts
<1>2. PICK r : r = doing[t].ref OBVIOUS
<1>3. /\ doing' = [doing EXCEPT ![t] = Idle]
      /\ \A d \in Calls : Onward(d) /\ (state[d] = "body" => state'[d] = "body")
  BY <1>0, <1>1, FinishOnward
<1>4. Idle.step = "none" /\ Idle.kind = "idle" BY IdleTyped DEF Idle, Operation
<1>5. /\ doing'[t].step = "none" /\ doing'[t].kind = "idle"
      /\ \A u \in Threads \ {t} : doing'[u] = doing[u]
  BY <1>0, <1>3, <1>4 DEF HeapShape
<1>6. \A u \in Threads \ {t} : doing[u].step # "none" =>
        heap'[doing[u].ref].id = heap[doing[u].ref].id
  <2> SUFFICES ASSUME NEW u \in Threads \ {t}, doing[u].step # "none"
               PROVE  heap'[doing[u].ref].id = heap[doing[u].ref].id
    OBVIOUS
  <2>1. PICK q : q = doing[u].ref /\ q \in 1..Len(heap) BY <1>0 DEF HeapShape
  <2>2. heap'[q].id = heap[q].id BY <1>2, <2>1, WriteRefers
  <2> QED BY <2>1, <2>2
<1>7. OpsFit'
  <2>1. ASSUME NEW u \in Threads, doing'[u].step # "none" PROVE OpFits(doing[u])' /\ doing'[u] = doing[u]
    BY <1>5, <1>6, <2>1 DEF RaceIInv, OpsFit, OpFits
  <2> QED BY <2>1 DEF OpsFit, OpFits
<1>8. OwnFits'
  <2> SUFFICES ASSUME NEW d \in Calls, state'[d] \in Unrun PROVE heap'[own[d]].id = IdOf[d]
    BY <1>1 DEF OwnFits
  <2>1. state[d] \in Unrun BY <1>3 DEF Onward
  <2>2. PICK q : q = own[d] /\ q \in 1..Len(heap) BY <1>0, <2>1 DEF CallShape, Unrun
  <2>3. heap'[q].id = heap[q].id BY <1>2, <2>1, <2>2, WriteRefers
  <2> QED BY <2>1, <2>2, <2>3 DEF RaceIInv, OwnFits
<1>9. BeatsAtWork' BY <1>1, <1>3, <1>5 DEF RaceIInv, BeatsAtWork, InTheMiddle
<1>10. ASSUME NEW c \in Calls, Alone(c) PROVE RaceFits(c)'
  <2>1. RaceFits(c) BY <1>10 DEF RaceIInv
  <2>2. Shows(c)' \subseteq Shows(c) BY <1>3, WriteShows
  <2>3. Early(c)' => Early(c) BY <1>3, <1>5 DEF Early, AtStart, Onward
  <2>4. Unsaved(c)' => Unsaved(c) BY <1>3, <1>5 DEF Unsaved, AtStart, Onward
  <2>5. DeathNear(c)' => DeathNear(c) BY <1>5, <1>6 DEF DeathNear
  <2>6. store[IdOf[c]] = 0 => store'[IdOf[c]] = 0
    <3>1. IdOf[c] \in Ids BY TasksAssumption
    <3>2. store' = store \/ (Accepts(r) /\ store' = [store EXCEPT ![heap[r].id] = Len(heap) + 1])
      BY <1>2, WriteHeapRace
    <3>3. Accepts(r) => store[heap[r].id] # 0 BY DEF Accepts
    <3> QED BY <1>0, <3>1, <3>2, <3>3 DEF HeapShape
  <2> QED BY <1>3, <2>1, <2>2, <2>3, <2>4, <2>5, <2>6, FitsKept DEF RaceFits, Onward
<1> QED BY <1>7, <1>8, <1>9, <1>10 DEF RaceIInv, Alone

(* A new record, of a call that has yet to be looked at or of no call. *)
LEMMA AppendRace ==
  ASSUME TasksIInv, TasksIInv', RaceIInv, NEW e \in Records, heap' = Append(heap, e),
         UNCHANGED <<thread, doing, scan>>,
         \A j \in Ids : store'[j] # 0 =>
           store'[j] = store[j] \/ (j = e.id /\ store'[j] = Len(heap) + 1),
         \A d \in Calls :
           \/ state'[d] = state[d] /\ own'[d] = own[d]
           \/ /\ state[d] = "new" /\ state'[d] \in {"slot", "ready"}
              /\ own'[d] = Len(heap) + 1 /\ e.id = IdOf[d],
         \A c \in Calls : Alone(c) /\ e.id = IdOf[c] => e.status = "PENDING" /\ state[c] = "new",
         \A c \in Calls : Alone(c) /\ Unsaved(c)' => store'[IdOf[c]] = 0
  PROVE  RaceIInv'
<1>0. HeapShape /\ HeapShape' /\ CallShape /\ CallsAtWork BY DEF TasksIInv
<1>1. /\ Len(heap') = Len(heap) + 1 /\ Len(heap) \in Nat
      /\ \A q \in 1..Len(heap) : heap'[q] = heap[q]
      /\ heap'[Len(heap) + 1] = e
  BY <1>0, AppendRecord DEF HeapShape
<1>2. OpsFit'
  <2>1. \A u \in Threads : doing[u].step # "none" => heap'[doing[u].ref] = heap[doing[u].ref]
    BY <1>0, <1>1 DEF HeapShape
  <2> QED BY <2>1 DEF RaceIInv, OpsFit, OpFits
<1>3. OwnFits'
  <2> SUFFICES ASSUME NEW d \in Calls, state'[d] \in Unrun PROVE heap'[own'[d]].id = IdOf[d]
    BY DEF OwnFits
  <2>1. CASE state'[d] = state[d] /\ own'[d] = own[d]
    BY <1>0, <1>1, <2>1 DEF RaceIInv, OwnFits, CallShape, Unrun
  <2>2. CASE own'[d] = Len(heap) + 1 /\ e.id = IdOf[d] BY <1>1, <2>2
  <2> QED BY <2>1, <2>2
<1>4. BeatsAtWork'
  <2>1. \A d \in Calls : state[d] = "body" => state'[d] = "body" OBVIOUS
  <2> QED BY <2>1 DEF RaceIInv, BeatsAtWork, InTheMiddle
<1>5. ASSUME NEW c \in Calls, Alone(c) PROVE RaceFits(c)'
  <2>1. RaceFits(c) BY <1>5 DEF RaceIInv
  <2>2. Early(c)' => Early(c) BY DEF Early, AtStart
  <2>3. DeathNear(c)' => DeathNear(c) BY <1>0, <1>1 DEF DeathNear, HeapShape
  <2>4. Shows(c)' \subseteq Shows(c) \cup (IF e.id = IdOf[c] THEN {"PENDING"} ELSE {})
    <3> SUFFICES ASSUME NEW s \in Shows(c)'
                 PROVE  s \in Shows(c) \/ (e.id = IdOf[c] /\ s = "PENDING")
      OBVIOUS
    <3>1. PICK q \in 1..Len(heap') : heap'[q].id = IdOf[c] /\ InUse(q)' /\ heap'[q].status = s
      BY DEF Shows
    <3>2. CASE q = Len(heap) + 1 BY <1>1, <1>5, <3>1, <3>2
    <3>3. CASE q # Len(heap) + 1
      <4>1. q \in 1..Len(heap) /\ heap'[q] = heap[q] /\ IdOf[c] \in Ids /\ q # 0
        BY <1>1, <3>1, <3>3, TasksAssumption
      <4>2. q = store'[heap[q].id] => q = store[heap[q].id] BY <3>1, <3>3, <4>1
      <4>3. \A d \in Calls : state'[d] \in Unrun /\ own'[d] = q => state[d] \in Unrun /\ own[d] = q
        BY <3>3
      <4>4. InUse(q) BY <3>1, <4>1, <4>2, <4>3 DEF InUse
      <4> QED BY <3>1, <4>1, <4>4 DEF Shows
    <3> QED BY <3>2, <3>3
  <2>5. e.id = IdOf[c] => Early(c) BY <1>5 DEF Early
  <2>6. state'[c] \notin {"ended", "over"} => state[c] \notin {"ended", "over"} OBVIOUS
  <2> QED BY <1>5, <2>1, <2>2, <2>3, <2>4, <2>5, <2>6 DEF RaceFits
<1> QED BY <1>2, <1>3, <1>4, <1>5 DEF RaceIInv, Alone

(* The record made last is saved in the place of its id. *)
LEMMA NewSaved ==
  ASSUME HeapShape, NEW e \in Records, heap' = Append(heap, e), Save(Len(heap) + 1, heap')
  PROVE  \A j \in Ids : store'[j] # 0 => store'[j] = IF j = e.id THEN Len(heap) + 1 ELSE store[j]
<1>1. /\ heap'[Len(heap) + 1] = e /\ Len(heap) + 1 \in Nat /\ store \in [Ids -> Nat]
      /\ e.id \in Ids
  BY AppendRecord DEF HeapShape, Records
<1>2. PICK n \in Nat : n = Len(heap) + 1 BY <1>1
<1>3. \A j \in Ids : store'[j] # 0 => store'[j] = [store EXCEPT ![e.id] = n][j]
  BY <1>1, <1>2 DEF Save
<1> QED BY <1>1, <1>2, <1>3

(* A call that is new is no thread's. *)
LEMMA NewNotAtStart ==
  ASSUME CallsAtWork, NEW c \in Calls, state[c] # "starting", NEW steps, "none" \notin steps
  PROVE  ~AtStart(c, steps)
BY DEF AtStart, CallsAtWork, InTheMiddle

LEMMA SubmitRace ==
  ASSUME TasksIInv, TasksIInv', RaceIInv, NEW c \in Calls, Submit(c) PROVE RaceIInv'
<1>0. HeapShape /\ CallShape /\ CallsAtWork /\ IdOf[c] \in Ids BY TasksAssumption DEF TasksIInv
<1>1. PICK e : e = NewRecord(IdOf[c], "PENDING") OBVIOUS
<1>2. e \in Records /\ e.id = IdOf[c] /\ e.status = "PENDING"
  BY <1>0, <1>1, NewRecordTyped DEF Status, NewRecord
<1>3. /\ heap' = Append(heap, e) /\ state[c] = "new"
      /\ own' = [own EXCEPT ![c] = Len(heap) + 1] /\ state' = [state EXCEPT ![c] = "ready"]
      /\ UNCHANGED <<thread, doing, scan>> /\ Save(Len(heap) + 1, heap')
  BY <1>1 DEF Submit
<1>5. \A j \in Ids : store'[j] # 0 => store'[j] = IF j = IdOf[c] THEN Len(heap) + 1 ELSE store[j]
  BY <1>0, <1>2, <1>3, NewSaved
<1>6. \A d \in Calls :
        \/ state'[d] = state[d] /\ own'[d] = own[d]
        \/ /\ state[d] = "new" /\ state'[d] \in {"slot", "ready"}
           /\ own'[d] = Len(heap) + 1 /\ e.id = IdOf[d]
  BY <1>0, <1>2, <1>3 DEF HeapShape, CallShape
<1>7. ASSUME NEW d \in Calls, Alone(d), Unsaved(d)' PROVE store'[IdOf[d]] = 0
  <2>1. d # c
    <3>1. ~AtStart(c, {"save"}) BY <1>0, <1>3, NewNotAtStart
    <3> QED BY <1>0, <1>3, <1>7, <3>1 DEF Unsaved, AtStart, CallShape
  <2>2. Unsaved(d) BY <1>0, <1>3, <1>7, <2>1 DEF Unsaved, AtStart, CallShape
  <2>3. IdOf[d] # IdOf[c] /\ IdOf[d] \in Ids /\ store[IdOf[d]] = 0
    BY <1>7, <2>1, <2>2, TasksAssumption DEF Alone, RaceIInv, RaceFits
  <2> QED BY <1>5, <2>3
<1>8. \A d \in Calls : Alone(d) /\ e.id = IdOf[d] => e.status = "PENDING" /\ state[d] = "new"
  BY <1>2, <1>3 DEF Alone
<1> QED BY <1>2, <1>3, <1>5, <1>6, <1>7, <1>8, AppendRace

LEMMA SubmitInThreadRace ==
  ASSUME TasksIInv, TasksIInv', RaceIInv, NEW c \in Calls, SubmitInThread(c) PROVE RaceIInv'
<1>0. HeapShape /\ CallShape /\ CallsAtWork /\ IdOf[c] \in Ids BY TasksAssumption DEF TasksIInv
<1>1. state[c] = "new" /\ UNCHANGED <<store, thread, doing, scan>> BY DEF SubmitInThread
<1>2. CASE closed \/ gate = QueueSize
  <2>1. state' = [state EXCEPT ![c] = "rejected"] /\ UNCHANGED <<heap, own>>
    BY <1>2 DEF SubmitInThread
  <2>2. \A d \in Calls : Onward(d) /\ (state[d] = "body" => state'[d] = "body")
    BY <1>0, <1>1, <2>1 DEF Onward, CallShape, Unrun
  <2>3. \A u \in Threads : InTheMiddle(u, "beat", "body")'
    BY <1>1, <2>2 DEF RaceIInv, BeatsAtWork, InTheMiddle
  <2> QED BY <1>1, <2>1, <2>2, <2>3, StillRace
<1>3. CASE ~(closed \/ gate = QueueSize)
  <2>1. PICK e : e = NewRecord(IdOf[c], "PENDING") OBVIOUS
  <2>2. e \in Records /\ e.id = IdOf[c] /\ e.status = "PENDING"
    BY <1>0, <2>1, NewRecordTyped DEF Status, NewRecord
  <2>3. /\ heap' = Append(heap, e) /\ own' = [own EXCEPT ![c] = Len(heap) + 1]
        /\ state' = [state EXCEPT ![c] = "slot"]
    BY <1>3, <2>1 DEF SubmitInThread
  <2>4. \A d \in Calls :
          \/ state'[d] = state[d] /\ own'[d] = own[d]
          \/ /\ state[d] = "new" /\ state'[d] \in {"slot", "ready"}
             /\ own'[d] = Len(heap) + 1 /\ e.id = IdOf[d]
    BY <1>0, <1>1, <2>2, <2>3 DEF HeapShape, CallShape
  <2>5. ASSUME NEW d \in Calls, Alone(d), Unsaved(d)' PROVE store'[IdOf[d]] = 0
    <3>1. Unsaved(d) BY <1>0, <1>1, <2>3, <2>5 DEF Unsaved, AtStart, CallShape
    <3> QED BY <1>1, <2>5, <3>1 DEF RaceIInv, RaceFits
  <2>6. \A d \in Calls : Alone(d) /\ e.id = IdOf[d] => e.status = "PENDING" /\ state[d] = "new"
    BY <1>1, <2>2 DEF Alone
  <2> QED BY <1>1, <2>2, <2>3, <2>4, <2>5, <2>6, AppendRace
<1> QED BY <1>2, <1>3

LEMMA RecordExecutionRace ==
  ASSUME TasksIInv, TasksIInv', RaceIInv, NEW i \in Audits, RecordExecution(i) PROVE RaceIInv'
<1>0. HeapShape /\ CallShape /\ i \in Ids /\ \A d \in Calls : IdOf[d] # i /\ IdOf[d] \in Ids
  BY TasksAssumption DEF TasksIInv
<1>1. PICK e : e = NewRecord(i, "SKIPPED") OBVIOUS
<1>2. e \in Records /\ e.id = i BY <1>0, <1>1, NewRecordTyped DEF Status, Terminal, NewRecord
<1>3. /\ heap' = Append(heap, e) /\ UNCHANGED <<own, state, thread, doing, scan>>
      /\ Save(Len(heap) + 1, heap')
  BY <1>1 DEF RecordExecution
<1>5. \A j \in Ids : store'[j] # 0 => store'[j] = IF j = i THEN Len(heap) + 1 ELSE store[j]
  BY <1>0, <1>2, <1>3, NewSaved
<1>6. ASSUME NEW d \in Calls, Alone(d), Unsaved(d)' PROVE store'[IdOf[d]] = 0
  <2>1. Unsaved(d) BY <1>3, <1>6 DEF Unsaved, AtStart
  <2>2. store[IdOf[d]] = 0 BY <1>6, <2>1 DEF RaceIInv, RaceFits
  <2> QED BY <1>0, <1>5, <2>2
<1> QED BY <1>0, <1>2, <1>3, <1>5, <1>6, AppendRace

LEMMA RaceInit == TasksInit => RaceIInv
<1> SUFFICES ASSUME TasksInit PROVE RaceIInv OBVIOUS
<1>1. /\ heap = <<>> /\ store = [i \in Ids |-> 0] /\ state = [c \in Calls |-> "new"]
      /\ doing = [t \in Threads |-> Idle] /\ \A t \in Threads : doing[t].step = "none"
  BY IdleTyped DEF TasksInit
<1>2. OpsFit /\ BeatsAtWork /\ OwnFits BY <1>1 DEF OpsFit, BeatsAtWork, OwnFits, InTheMiddle, Unrun
<1>3. ASSUME NEW c \in Calls PROVE RaceFits(c)
  <2>1. store[IdOf[c]] = 0 BY <1>1, TasksAssumption
  <2>2. Shows(c) = {} BY <1>1 DEF Shows
  <2>3. ~DeathNear(c) BY <1>1 DEF DeathNear
  <2> QED BY <2>1, <2>2, <2>3 DEF RaceFits
<1> QED BY <1>2, <1>3 DEF RaceIInv

LEMMA RaceInductive == TasksIInv /\ RaceIInv /\ [TasksNext]_tasksVars => RaceIInv'
<1> SUFFICES ASSUME TasksIInv, RaceIInv, [TasksNext]_tasksVars PROVE RaceIInv' OBVIOUS
<1>0. TasksIInv' BY TasksInductive
<1>1. CASE \E c \in Calls : Submit(c) BY <1>0, <1>1, SubmitRace
<1>2. CASE \E c \in Calls : SubmitInThread(c) BY <1>0, <1>2, SubmitInThreadRace
<1>3. CASE \E c \in Calls : Run(c) BY <1>0, <1>3, RunRace
<1>4. CASE \E c \in Calls : Heartbeat(c) BY <1>0, <1>4, HeartbeatRace
<1>5. CASE \E c \in Calls : \E s \in Outcomes : BodyEnds(c, s) BY <1>0, <1>5, BodyEndsRace
<1>6. CASE \E t \in Threads : ThreadStep(t)
  BY <1>0, <1>6, SaveLateRace, CheckRace, SetStatusRace, WriteRace DEF ThreadStep
<1>7. CASE \E r \in scan : ScanNext(r) BY <1>0, <1>7, ScanNextRace
<1>8. CASE \E i \in Audits : RecordExecution(i) BY <1>0, <1>8, RecordExecutionRace
<1>9. CASE \/ \E c \in Calls : FreeSlot(c) \/ Enqueue(c) \/ BodyCancelled(c)
           \/ \E w \in Workers : TakeWork(w)
           \/ Close \/ Elapse \/ ScanDeadTasks \/ UNCHANGED tasksVars
  BY <1>0, <1>9, QuietCalls
<1> QED BY <1>1, <1>2, <1>3, <1>4, <1>5, <1>6, <1>7, <1>8, <1>9 DEF TasksNext, CallStep

----------------------------------------
(* A step that changes what is recorded of a task that has come to an end. *)

(* The task of such a record is not about to start. *)
LEMMA OverNotEarly ==
  ASSUME TasksIInv, RaceIInv, NEW c \in Calls, Alone(c), store[IdOf[c]] # 0,
         heap[store[IdOf[c]]].status \in Terminal
  PROVE  ~Early(c)
<1>1. HeapShape /\ IdOf[c] \in Ids BY TasksAssumption DEF TasksIInv
<1>2. PICK r \in 1..Len(heap) : r = store[IdOf[c]] /\ heap[r].id = IdOf[c] /\ InUse(r)
  BY <1>1, Referred DEF HeapShape
<1> QED BY <1>1, <1>2, EarlyPending DEF Terminal

LEMMA OutcomeKept ==
  ASSUME TasksIInv, RaceIInv, TasksNext, NEW c \in Calls, Alone(c),
         NEW i, i = IdOf[c], store[i] # 0, heap[store[i]].status \in Terminal, store'[i] # 0,
         ~ \E t \in Threads : SetStatus(t) \/ Write(t)
  PROVE  heap'[store'[i]].status = heap[store[i]].status
<1>0. HeapShape /\ i \in Ids BY TasksAssumption DEF TasksIInv
<1>1. PICK r \in 1..Len(heap) : r = store[i] /\ heap[r].id = i BY <1>0 DEF HeapShape
<1>2. ~Early(c) BY OverNotEarly
<1>3. CASE Elapse
  <2>1. heap[r] \in Records /\ r \in DOMAIN heap BY <1>0, ElementOfSeq, LenProperties DEF HeapShape
  <2>2. heap'[r] = [heap[r] EXCEPT !.beat = "old"] /\ store' = store BY <1>3, <2>1 DEF Elapse
  <2> QED BY <1>1, <2>1, <2>2 DEF Records
<1>4. ASSUME NEW d \in Calls, Submit(d) PROVE heap'[store'[i]].status = heap[store[i]].status
  <2>1. d # c BY <1>2, <1>4 DEF Submit, Early
  <2>2. PICK e : e = NewRecord(IdOf[d], "PENDING") OBVIOUS
  <2>3. e \in Records /\ e.id = IdOf[d] /\ IdOf[d] \in Ids /\ IdOf[d] # i
    BY <1>0, <2>1, <2>2, NewRecordTyped, TasksAssumption DEF Status, Alone
  <2>4. heap' = Append(heap, e) /\ Save(Len(heap) + 1, heap') BY <1>4, <2>2 DEF Submit
  <2>5. heap'[Len(heap) + 1] = e /\ Len(heap) + 1 \in Nat /\ heap'[r] = heap[r]
    BY <1>0, <2>3, <2>4, AppendRecord DEF HeapShape
  <2>8. store'[i] = store[i] BY <1>0, <2>3, <2>4, NewSaved
  <2> QED BY <1>1, <2>5, <2>8
<1>5. ASSUME NEW d \in Calls, SubmitInThread(d) PROVE heap'[store'[i]].status = heap[store[i]].status
  <2>1. PICK e : e = NewRecord(IdOf[d], "PENDING") OBVIOUS
  <2>2. e \in Records BY <1>0, <2>1, NewRecordTyped, TasksAssumption DEF Status
  <2>3. store' = store /\ (heap' = heap \/ heap' = Append(heap, e)) BY <1>5, <2>1 DEF SubmitInThread
  <2>4. heap'[r] = heap[r] BY <1>0, <2>2, <2>3, AppendRecord DEF HeapShape
  <2> QED BY <1>1, <2>3, <2>4
<1>6. ASSUME NEW j \in Audits, RecordExecution(j) PROVE heap'[store'[i]].status = heap[store[i]].status
  <2>1. PICK e : e = NewRecord(j, "SKIPPED") OBVIOUS
  <2>2. e \in Records /\ e.id = j /\ j \in Ids /\ j # i
    BY <1>0, <2>1, NewRecordTyped, TasksAssumption DEF Status, Terminal
  <2>3. heap' = Append(heap, e) /\ Save(Len(heap) + 1, heap') BY <1>6, <2>1 DEF RecordExecution
  <2>4. heap'[Len(heap) + 1] = e /\ Len(heap) + 1 \in Nat /\ heap'[r] = heap[r]
    BY <1>0, <2>2, <2>3, AppendRecord DEF HeapShape
  <2>7. store'[i] = store[i] BY <1>0, <2>2, <2>3, NewSaved
  <2> QED BY <1>1, <2>4, <2>7
<1>7. ASSUME NEW t \in Threads, SaveLate(t) PROVE heap'[store'[i]].status = heap[store[i]].status
  <2>1. /\ doing[t].step = "save" /\ heap' = heap /\ Save(doing[t].ref, heap)
        /\ doing[t].ref \in Nat /\ store \in [Ids -> Nat]
    BY <1>0, <1>7 DEF SaveLate, HeapShape, Operations
  <2>2. /\ doing[t].kind = "start" /\ doing[t].call \in Calls
        /\ heap[doing[t].ref].id = IdOf[doing[t].call]
    BY <2>1 DEF RaceIInv, OpsFit, OpFits
  <2>3. doing[t].call # c BY <1>2, <2>1, <2>2 DEF Early, AtStart
  <2>4. heap[doing[t].ref].id # i /\ heap[doing[t].ref].id \in Ids
    BY <2>2, <2>3, TasksAssumption DEF Alone
  <2>5. store'[i] = store[i] BY <1>0, <2>1, <2>4, SavePlaces
  <2> QED BY <2>1, <2>5
<1>8. ASSUME \/ \E d \in Calls : \/ CallStep(d) \/ Heartbeat(d) \/ BodyCancelled(d)
                                 \/ \E s \in Outcomes : BodyEnds(d, s)
             \/ \E w \in Workers : TakeWork(w)
             \/ \E t \in Threads : Check(t)
             \/ ScanDeadTasks \/ Close \/ \E q \in scan : ScanNext(q)
      PROVE  UNCHANGED <<heap, store>>
  BY <1>8 DEF CallStep, Run, FreeSlot, Enqueue, Heartbeat, BodyCancelled, BodyEnds, TakeWork,
     Check, ScanDeadTasks, Close, ScanNext
<1> QED BY <1>3, <1>4, <1>5, <1>6, <1>7, <1>8 DEF TasksNext, ThreadStep

(* The operation that changes it had looked at the record before. *)
Looked(t, i) ==
  /\ doing[t].kind \in {"dead", "end"}
  /\ doing[t].step \in {"set", "write"}
  /\ heap[doing[t].ref].id = i

LEMMA OutcomeSet ==
  ASSUME TasksIInv, RaceIInv, NEW t \in Threads, SetStatus(t), NEW c \in Calls, Alone(c),
         NEW i, i = IdOf[c], store[i] # 0, heap[store[i]].status \in Terminal,
         heap'[store'[i]].status # heap[store[i]].status
  PROVE  heap'[store'[i]].status \in Terminal /\ Looked(t, i)
<1>0. HeapShape /\ i \in Ids BY TasksAssumption DEF TasksIInv
<1>1. PICK r \in 1..Len(heap) : r = store[i] /\ heap[r].id = i BY <1>0 DEF HeapShape
<1>2. ~Early(c) BY OverNotEarly
<1>3. doing[t].step = "set" /\ store' = store /\ OpFits(doing[t]) BY DEF SetStatus, RaceIInv, OpsFit
<1>4. doing[t].kind # "beat" /\ heap' = [heap EXCEPT ![doing[t].ref].status = doing[t].to]
  BY <1>3 DEF SetStatus
<1>5. r = doing[t].ref /\ heap'[r].status = doing[t].to
  <2>1. heap[r] \in Records /\ DOMAIN heap = 1..Len(heap)
    BY <1>0, ElementOfSeq, LenProperties DEF HeapShape
  <2>2. CASE r = doing[t].ref
    <3>1. heap'[r] = [heap[r] EXCEPT !.status = doing[t].to] BY <1>4, <2>1, <2>2
    <3> QED BY <2>1, <2>2, <3>1 DEF Records
  <2>3. CASE r # doing[t].ref
    <3>1. heap'[r] = heap[r] BY <1>4, <2>1, <2>3
    <3> QED BY <1>1, <1>3, <3>1
  <2> QED BY <2>2, <2>3
<1>6. doing[t].kind # "start"
  <2> SUFFICES ASSUME doing[t].kind = "start" PROVE FALSE OBVIOUS
  <2>1. doing[t].call = c BY <1>1, <1>3, <1>5 DEF OpFits, Alone
  <2> QED BY <1>2, <1>3, <2>1 DEF Early, AtStart
<1>7. doing[t].kind \in {"dead", "end"} BY <1>0, <1>3, <1>4, <1>6 DEF OpFits, HeapShape, Operations
<1>8. doing[t].to \in Terminal BY <1>3, <1>7 DEF OpFits, Terminal
<1> QED BY <1>1, <1>3, <1>5, <1>7, <1>8 DEF Looked

LEMMA OutcomeWritten ==
  ASSUME TasksIInv, RaceIInv, NEW t \in Threads, Write(t), NEW c \in Calls, Alone(c),
         NEW i, i = IdOf[c], store[i] # 0, heap[store[i]].status \in Terminal,
         heap'[store'[i]].status # heap[store[i]].status
  PROVE  heap'[store'[i]].status \in Terminal /\ Looked(t, i)
<1>0. HeapShape /\ CallsAtWork /\ i \in Ids BY TasksAssumption DEF TasksIInv
<1>1. PICK q \in 1..Len(heap) : q = store[i] /\ heap[q].id = i /\ InUse(q)
  BY <1>0, Referred DEF HeapShape
<1>2. PICK r : r = doing[t].ref OBVIOUS
<1>3. doing[t].step = "write" /\ OpFits(doing[t]) /\ r \in 1..Len(heap) /\ InUse(r)
  BY <1>0, <1>2, Referred DEF Write, RaceIInv, OpsFit, HeapShape
<1>4. Accepts(r) BY <1>1, <1>2, WriteHeapRace
<1>5. /\ store' = [store EXCEPT ![heap[r].id] = Len(heap) + 1] /\ heap[r].id \in Ids
      /\ \A p \in 1..Len(heap) : p # r => heap'[p].status = heap[p].status
      /\ heap'[Len(heap) + 1].status = heap[r].status
  BY <1>2, <1>4, WriteHeapRace
<1>6. heap[r].id = i
  <2> SUFFICES ASSUME heap[r].id # i PROVE FALSE OBVIOUS
  <2>1. store'[i] = q /\ q # r BY <1>0, <1>1, <1>5 DEF HeapShape
  <2> QED BY <1>1, <1>5, <2>1
<1>7. store'[i] = Len(heap) + 1 /\ heap'[store'[i]].status = heap[r].status
  BY <1>0, <1>5, <1>6 DEF HeapShape
<1>8. heap[r].status \in Terminal BY <1>1, <1>4, <1>6 DEF Accepts
<1>9. doing[t].kind \in {"dead", "end"}
  <2> SUFFICES ASSUME doing[t].kind \notin {"dead", "end"} PROVE FALSE OBVIOUS
  <2>1. doing[t].kind \in {"start", "beat"} /\ doing[t].call = c
    BY <1>0, <1>2, <1>3, <1>6 DEF OpFits, HeapShape, Operations, Alone
  <2>2. state[c] \in {"starting", "body"}
    <3>1. InTheMiddle(t, "beat", "body") /\ InTheMiddle(t, "start", "starting")
      BY <1>0 DEF RaceIInv, BeatsAtWork, CallsAtWork
    <3> QED BY <1>3, <2>1, <3>1 DEF InTheMiddle
  <2>3. Shows(c) \subseteq {"PENDING", "RUNNING", "DEAD"} BY <2>2 DEF RaceIInv, RaceFits
  <2>4. heap[q].status \in Shows(c) /\ heap[r].status \in Shows(c) BY <1>1, <1>3, <1>6 DEF Shows
  <2> QED BY <1>1, <1>7, <1>8, <2>3, <2>4 DEF Terminal
<1> QED BY <1>2, <1>3, <1>6, <1>7, <1>8, <1>9 DEF Looked

(* The step OutcomeRace speaks of. *)
RaceStep(c) ==
  LET i == IdOf[c] IN
    /\ \A d \in Calls \ {c} : IdOf[d] # i
    /\ i \in Stored /\ StoredStatus(i) \in Terminal
    /\ store'[i] # 0 /\ StoredStatus(i)' # StoredStatus(i)
    => /\ StoredStatus(i)' \in Terminal
       /\ \E t \in Threads :
          /\ doing[t].kind \in {"dead", "end"}
          /\ doing[t].step \in {"set", "write"}
          /\ heap[doing[t].ref].id = i

LEMMA EveryRaceStep ==
  ASSUME TasksIInv, RaceIInv, TasksNext, NEW c \in Calls PROVE RaceStep(c)
<1>1. PICK i : i = IdOf[c] OBVIOUS
<1> SUFFICES ASSUME Alone(c), i \in Stored, heap[store[i]].status \in Terminal, store'[i] # 0,
                    heap'[store'[i]].status # heap[store[i]].status
             PROVE  heap'[store'[i]].status \in Terminal /\ \E t \in Threads : Looked(t, i)
  BY <1>1 DEF RaceStep, StoredStatus, Looked, Alone
<1>2. store[i] # 0 BY DEF Stored
<1>3. PICK t \in Threads : SetStatus(t) \/ Write(t) BY <1>1, <1>2, OutcomeKept
<1> QED BY <1>1, <1>2, <1>3, OutcomeSet, OutcomeWritten

(* What has come of a task that is the only one of its id is changed only
   to another outcome, and only by a scan for dead tasks or an end of the
   task that had looked at the record while it was without outcome, for
   any number of calls, threads, records and scans (update, _mark_terminal,
   scan_dead_tasks). *)
THEOREM OutcomeChangesOnlyByRace == ExecutorSpec => OutcomeRace
<1>1. TasksInit => RaceIInv BY RaceInit
<1>2. TasksIInv /\ PoolIInv /\ RaceIInv /\ [ExecutorNext]_<<tasksVars, sharedVars>> => RaceIInv'
  BY RaceInductive DEF ExecutorNext
<1>3. ExecutorSpec => []RaceIInv BY <1>1, <1>2, TasksInvariant, PTL DEF ExecutorSpec
<1>4. TasksIInv /\ RaceIInv /\ [ExecutorNext]_<<tasksVars, sharedVars>> =>
        [\A c \in Calls : LET i == IdOf[c] IN
           /\ \A d \in Calls \ {c} : IdOf[d] # i
           /\ i \in Stored /\ StoredStatus(i) \in Terminal
           /\ store'[i] # 0 /\ StoredStatus(i)' # StoredStatus(i)
           => /\ StoredStatus(i)' \in Terminal
              /\ \E t \in Threads : /\ doing[t].kind \in {"dead", "end"}
                                   /\ doing[t].step \in {"set", "write"}
                                   /\ heap[doing[t].ref].id = i]_tasksVars
  BY EveryRaceStep DEF ExecutorNext, RaceStep
<1> QED BY <1>3, <1>4, TasksInvariant, PTL DEF ExecutorSpec, OutcomeRace
=============================================================================
