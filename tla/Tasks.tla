------------------------------- MODULE Tasks -------------------------------
(* The task executor (capabilities/task): TaskExecutor over the in-memory
   record store and the shared thread pool.

   A record is an object on `heap`: load() and list_all() hand out the
   stored object itself, update() stores a copy and writes the new version
   back into the object it was given.  Who holds a reference therefore
   sees, and makes, changes the store knows nothing of.  One thread, Loop,
   runs the event loop: between two awaits that really wait it does one
   operation at a time.  Worker threads of the pool interleave with it
   before every access of the store and every assignment to a record. *)
EXTENDS Naturals, Sequences, FiniteSets

CONSTANTS Calls,       \* the calls of submit and submit_in_thread
          ThreadCalls, \* those of submit_in_thread
          Ids,         \* task ids
          IdOf,        \* the id a call gives, task_id or a fresh one
          Loop,        \* the thread of the event loop
          Workers,     \* the threads of the shared pool
          NoCall,      \* stands for: no call
          MaxRecords,  \* max_records of the store
          QueueSize,   \* max_queue_size of the pool
          MaxBeats,    \* bound: heartbeats of all tasks
          Outcomes,    \* how a task that is not cancelled may end
          Audits,      \* bound: ids of records the task scheduler saves
          PoolUsers,   \* threads that ask for the shared pool
          PoolSize,    \* the max_queue_size each of them gives
          MaxPools     \* bound: pools made

ASSUME TasksAssumption ==
  /\ ThreadCalls \subseteq Calls /\ IdOf \in [Calls -> Ids]
  /\ MaxRecords \in Nat \ {0} /\ QueueSize \in Nat \ {0}
  /\ MaxBeats \in Nat /\ Outcomes \subseteq {"SUCCESS", "FAILED"}
  /\ PoolSize \in [PoolUsers -> Nat] /\ MaxPools \in Nat
  /\ Loop \notin Workers /\ NoCall \notin Calls
  /\ Audits \subseteq Ids /\ \A c \in Calls : IdOf[c] \notin Audits
  /\ {"free", "closer"} \cap PoolUsers = {}

VARIABLES heap,    \* all record objects there ever were
          store,   \* InMemoryTaskRecordStore._records, 0: no record
          own,     \* the object a call has created, 0: none yet
          state,   \* what became of a call
          thread,  \* the thread that runs a call
          doing,   \* the operation each thread is in the middle of
          scan,    \* records the running scan has yet to look at
          beats,
          gate,    \* SharedThreadPool._gate, the slots taken
          workQueue, \* the work queue of ThreadPoolExecutor
          closed,  \* SharedThreadPool._closed
          sharedPool,  \* the global _pool: the number of a pool, or 0
          pools,       \* the queue size of each pool made
          shut,        \* the pools that are closed
          poolLock,    \* _pool_lock: its user, "closer" or "free"
          poolUser     \* of each thread: [at, got, beside]

tasksVars == <<heap, store, own, state, thread, doing, scan, beats,
               gate, workQueue, closed>>
poolVars == <<gate, workQueue, closed>>
sharedVars == <<sharedPool, pools, shut, poolLock, poolUser>>

Threads == {Loop} \cup Workers
Terminal == {"SUCCESS", "FAILED", "DEAD", "SKIPPED"}
Status == {"PENDING", "RUNNING"} \cup Terminal
CallStates == {"new", "slot", "queued", "taken", "ready", "starting",
               "body", "ended", "over", "rejected"}
Unrun == {"slot", "queued", "taken", "ready"}  \* a call that has yet to look up its record

(* An operation on a record: which, on which object, the status it sets,
   for which call, and the step that comes next. *)
Operation(kind, ref, to, call, step) ==
  [kind |-> kind, ref |-> ref, to |-> to, call |-> call, step |-> step]
Idle == Operation("idle", 0, "PENDING", NoCall, "none")

TasksInit ==
  /\ heap = <<>>
  /\ store = [i \in Ids |-> 0]
  /\ own = [c \in Calls |-> 0]
  /\ state = [c \in Calls |-> "new"]
  /\ thread = [c \in Calls |-> Loop]
  /\ doing = [t \in Threads |-> Idle]
  /\ scan = {}
  /\ beats = 0
  /\ gate = 0 /\ workQueue = <<>> /\ closed = FALSE

(* TaskRecord: submit_at is the place in the order of creation, `beat`
   says whether the last sign of life is older than dead_threshold. *)
NewRecord(i, status) ==
  [id |-> i, status |-> status, version |-> 0, beat |-> "fresh",
   submitted |-> Len(heap) + 1]

Stored == {i \in Ids : store[i] # 0}
StoredStatus(i) == heap[store[i]].status

----------------------------------------
(* The record store. *)

(* _evict_locked: beyond max_records the records submitted first go. *)
Kept(st, hp) ==
  LET present == {i \in Ids : st[i] # 0}
      older(i) == {j \in present :
                     hp[st[j]].submitted < hp[st[i]].submitted}
  IN  {i \in present :
         Cardinality(older(i)) + MaxRecords >= Cardinality(present)}

Save(ref, hp) ==
  LET st == [store EXCEPT ![hp[ref].id] = ref]
  IN  store' = [i \in Ids |-> IF i \in Kept(st, hp) THEN st[i] ELSE 0]

(* update: the version must match, a terminal status never goes back. *)
Accepts(r) ==
  LET current == store[heap[r].id]
  IN  /\ current # 0
      /\ heap[current].version = heap[r].version
      /\ heap[current].status \in Terminal => heap[r].status \in Terminal

(* An object only the updating thread still refers to is of no more use. *)
Gone == [id |-> CHOOSE i \in Ids : TRUE, status |-> "PENDING", version |-> 0,
         beat |-> "old", submitted |-> 0]
Shared(r, t) == \/ r \in scan \/ \E u \in Threads \ {t} : doing[u].ref = r
                \/ \E c \in Calls : own[c] = r /\ state[c] \in Unrun

(* `beat` is the sign of life written just before the update. *)
Update(t, beat) ==
  LET r == doing[t].ref
      copy == [heap[r] EXCEPT !.version = @ + 1, !.beat = beat]
  IN  IF Accepts(r)
      THEN /\ heap' = Append([heap EXCEPT ![r] = IF Shared(r, t) THEN copy
                                                 ELSE Gone], copy)
           /\ store' = [store EXCEPT ![copy.id] = Len(heap) + 1]
      ELSE /\ heap' = [heap EXCEPT ![r].beat = beat]
           /\ UNCHANGED store

----------------------------------------
(* Submitting. *)

LoopFree == doing[Loop] = Idle /\ scan = {}
Free(t) == IF t = Loop THEN LoopFree ELSE doing[t] = Idle

(* submit: the record is saved at once, over one of the same id. *)
Submit(c) ==
  /\ c \notin ThreadCalls
  /\ state[c] = "new" /\ LoopFree
  /\ heap' = Append(heap, NewRecord(IdOf[c], "PENDING"))
  /\ own' = [own EXCEPT ![c] = Len(heap) + 1]
  /\ Save(Len(heap) + 1, heap')
  /\ state' = [state EXCEPT ![c] = "ready"]
  /\ UNCHANGED <<thread, doing, scan, beats, poolVars>>

(* submit_in_thread: a slot of the gate first, RejectedExecutionError when
   there is none; a closed pool refuses. *)
SubmitInThread(c) ==
  /\ c \in ThreadCalls
  /\ state[c] = "new"
  /\ IF closed \/ gate = QueueSize
     THEN /\ state' = [state EXCEPT ![c] = "rejected"]
          /\ UNCHANGED <<heap, own, gate>>
     ELSE /\ heap' = Append(heap, NewRecord(IdOf[c], "PENDING"))
          /\ own' = [own EXCEPT ![c] = Len(heap) + 1]
          /\ gate' = gate + 1
          /\ state' = [state EXCEPT ![c] = "slot"]
  /\ UNCHANGED <<store, thread, doing, scan, beats, workQueue, closed>>

EnqueueKeepingSlot(c) ==
  /\ state[c] = "slot"
  /\ IF closed
     THEN state' = [state EXCEPT ![c] = "rejected"] /\ UNCHANGED workQueue
     ELSE /\ state' = [state EXCEPT ![c] = "queued"]
          /\ workQueue' = Append(workQueue, c)
  /\ UNCHANGED <<heap, store, own, thread, doing, scan, beats,
                 gate, closed>>

(* super().submit: the pool may have been closed meanwhile; then the slot
   is given back. *)
Enqueue(c) ==
  /\ state[c] = "slot"
  /\ IF closed
     THEN /\ state' = [state EXCEPT ![c] = "rejected"]
          /\ gate' = IF gate = 0 THEN 0 ELSE gate - 1
          /\ UNCHANGED workQueue
     ELSE /\ state' = [state EXCEPT ![c] = "queued"]
          /\ workQueue' = Append(workQueue, c)
          /\ UNCHANGED gate
  /\ UNCHANGED <<heap, store, own, thread, doing, scan, beats,
                 closed>>

(* close: shutdown(wait=False); what is queued already is still worked off. *)
Close ==
  /\ ~closed /\ closed' = TRUE
  /\ UNCHANGED <<heap, store, own, state, thread, doing, scan, beats,
                 gate, workQueue>>

(* A worker thread takes the oldest work item ... *)
TakeWork(w) ==
  /\ Free(w) /\ workQueue # <<>>
  /\ \A c \in Calls : thread[c] = w => state[c] \in {"over", "rejected"}
  /\ state' = [state EXCEPT ![Head(workQueue)] = "taken"]
  /\ thread' = [thread EXCEPT ![Head(workQueue)] = w]
  /\ workQueue' = Tail(workQueue)
  /\ UNCHANGED <<heap, store, own, doing, scan, beats, gate, closed>>

(* ... and _run_guarded frees its slot before it runs it. *)
FreeSlot(c) ==
  /\ state[c] = "taken"
  /\ gate' = IF gate = 0 THEN 0 ELSE gate - 1
  /\ state' = [state EXCEPT ![c] = "ready"]
  /\ UNCHANGED <<heap, store, own, thread, doing, scan, beats,
                 workQueue, closed>>

----------------------------------------
(* Running. *)

Begin(t, op) == doing' = [doing EXCEPT ![t] = op]

(* _run: the record is looked up, a pool thread that finds none saves it. *)
Run(c) ==
  LET stored == store[IdOf[c]]
  IN  /\ state[c] = "ready" /\ Free(thread[c])
      /\ state' = [state EXCEPT ![c] = "starting"]
      /\ Begin(thread[c],
               IF stored = 0
               THEN Operation("start", own[c], "RUNNING", c, "save")
               ELSE Operation("start", stored, "RUNNING", c, "check"))
      /\ UNCHANGED <<heap, store, own, thread, scan, beats, poolVars>>

SaveLate(t) ==
  /\ doing[t].step = "save"
  /\ Save(doing[t].ref, heap)
  /\ Begin(t, [doing[t] EXCEPT !.step = "check"])
  /\ UNCHANGED <<heap, own, state, thread, scan, beats, poolVars>>

(* The coroutine of the task beats from time to time, *)
Heartbeat(c) ==
  LET stored == store[IdOf[c]]
  IN  /\ state[c] = "body" /\ Free(thread[c])
      /\ beats < MaxBeats /\ stored # 0
      /\ beats' = beats + 1
      /\ Begin(thread[c], Operation("beat", stored, "RUNNING", c, "check"))
      /\ UNCHANGED <<heap, store, own, state, thread, scan, poolVars>>

(* returns or raises: _mark_terminal looks the record up again, *)
BodyEnds(c, result) ==
  LET stored == store[IdOf[c]]
  IN  /\ state[c] = "body" /\ Free(thread[c])
      /\ IF stored = 0
         THEN state' = [state EXCEPT ![c] = "over"] /\ UNCHANGED doing
         ELSE /\ state' = [state EXCEPT ![c] = "ended"]
              /\ Begin(thread[c], Operation("end", stored, result, c, "check"))
      /\ UNCHANGED <<heap, store, own, thread, scan, beats, poolVars>>

(* or is cancelled: CancelledError is not an Exception, nothing is noted. *)
BodyCancelled(c) ==
  /\ state[c] = "body" /\ Free(thread[c])
  /\ state' = [state EXCEPT ![c] = "over"]
  /\ UNCHANGED <<heap, store, own, thread, doing, scan, beats,
                 poolVars>>

(* scan_dead_tasks: list_all, then one record after the other. *)
ScanDeadTasks ==
  /\ LoopFree
  /\ \E i \in Stored : heap[store[i]].status = "RUNNING"
  /\ scan' = {store[i] : i \in Stored}
  /\ UNCHANGED <<heap, store, own, state, thread, doing, beats, poolVars>>

ScanNext(r) ==
  /\ doing[Loop] = Idle /\ r \in scan
  /\ scan' = scan \ {r}
  /\ Begin(Loop, Operation("dead", r, "DEAD", NoCall, "check"))
  /\ UNCHANGED <<heap, store, own, state, thread, beats, poolVars>>

ProceedsAwake(op) ==
  LET r == heap[op.ref]
  IN  CASE op.kind = "start" -> r.status = "PENDING"
        [] op.kind = "beat"  -> r.status = "RUNNING"
        [] op.kind = "end"   -> r.status \notin Terminal
        [] op.kind = "dead"  -> r.status = "RUNNING" /\ r.beat = "fresh"

(* The condition each operation asks of the record before it changes it. *)
Proceeds(op) ==
  LET r == heap[op.ref]
  IN  CASE op.kind = "start" -> r.status = "PENDING"
        [] op.kind = "beat"  -> r.status = "RUNNING"
        [] op.kind = "end"   -> r.status \notin Terminal
        [] op.kind = "dead"  -> r.status = "RUNNING" /\ r.beat = "old"

(* The call goes on, or is over, once its operation is. *)
Finish(t, started) ==
  LET op == doing[t]
  IN  /\ Begin(t, Idle)
      /\ state' = CASE op.kind = "start" ->
                         [state EXCEPT ![op.call] =
                            IF started THEN "body" ELSE "over"]
                    [] op.kind = "end" -> [state EXCEPT ![op.call] = "over"]
                    [] OTHER -> state

Check(t) ==
  /\ doing[t].step = "check"
  /\ IF Proceeds(doing[t])
     THEN Begin(t, [doing[t] EXCEPT !.step = "set"]) /\ UNCHANGED state
     ELSE Finish(t, FALSE)
  /\ UNCHANGED <<heap, store, own, thread, scan, beats, poolVars>>

SetStatusAlways(t) ==
  /\ doing[t].step = "set"
  /\ heap' = [heap EXCEPT ![doing[t].ref].status = doing[t].to]
  /\ Begin(t, [doing[t] EXCEPT !.step = "write"])
  /\ UNCHANGED <<store, own, state, thread, scan, beats, poolVars>>

(* The live object gets its new status (a heartbeat only a new time), *)
SetStatus(t) ==
  /\ doing[t].step = "set"
  /\ IF doing[t].kind = "beat" THEN UNCHANGED heap
     ELSE heap' = [heap EXCEPT ![doing[t].ref].status = doing[t].to]
  /\ Begin(t, [doing[t] EXCEPT !.step = "write"])
  /\ UNCHANGED <<store, own, state, thread, scan, beats, poolVars>>

(* and only then is the store asked to accept it. *)
Write(t) ==
  LET op == doing[t]
  IN  /\ op.step = "write"
      /\ Update(t, IF op.kind \in {"start", "beat"} THEN "fresh"
                   ELSE "old")
      /\ Finish(t, Accepts(op.ref))
      /\ UNCHANGED <<own, thread, scan, beats, poolVars>>

(* Time: no sign of life within dead_threshold_seconds. *)
Elapse ==
  /\ \E r \in DOMAIN heap : heap[r].beat = "fresh"
  /\ heap' = [r \in DOMAIN heap |-> [heap[r] EXCEPT !.beat = "old"]]
  /\ UNCHANGED <<store, own, state, thread, doing, scan, beats,
                 poolVars>>

(* TaskScheduler._record_execution: a record of its own, terminal already
   whatever the execution came to. *)
RecordExecution(i) ==
  /\ LoopFree /\ store[i] = 0
  /\ \A r \in DOMAIN heap : heap[r].id # i
  /\ heap' = Append(heap, NewRecord(i, "SKIPPED"))
  /\ Save(Len(heap) + 1, heap')
  /\ UNCHANGED <<own, state, thread, doing, scan, beats, poolVars>>

ThreadStep(t) == SaveLate(t) \/ Check(t) \/ SetStatus(t) \/ Write(t)

CallStep(c) == Run(c) \/ FreeSlot(c) \/ Enqueue(c)

TasksNext ==
  \/ \E c \in Calls :
     \/ Submit(c) \/ SubmitInThread(c) \/ CallStep(c)
     \/ Heartbeat(c) \/ BodyCancelled(c)
     \/ \E s \in Outcomes : BodyEnds(c, s)
  \/ \E w \in Workers : TakeWork(w)
  \/ \E t \in Threads : ThreadStep(t)
  \/ ScanDeadTasks \/ \E r \in scan : ScanNext(r)
  \/ \E i \in Audits : RecordExecution(i)
  \/ Elapse \/ Close

(* Threads, coroutines and a scan that has begun go on, and time passes.
   Nothing calls scan_dead_tasks again and again: that is left to the
   application, and no fairness of ScanDeadTasks is assumed. *)
TasksFairness ==
  /\ \A t \in Threads : WF_tasksVars(ThreadStep(t))
  /\ \A c \in Calls : WF_tasksVars(CallStep(c))
  /\ \A w \in Workers : WF_tasksVars(TakeWork(w))
  /\ WF_tasksVars(\E r \in scan : ScanNext(r))
  /\ WF_tasksVars(Elapse)

TasksSpec == TasksInit /\ [][TasksNext]_tasksVars
TasksFairSpec == TasksSpec /\ TasksFairness

----------------------------------------
(* get_shared_thread_pool, by threads that interleave with each other, with
   shutdown_shared_pool and with the shutdown of a pool by who has it.
   `beside` notes that a pool was shut meanwhile. *)

SharedPoolInit ==
  /\ sharedPool = 0 /\ pools = <<>> /\ shut = {} /\ poolLock = "free"
  /\ poolUser = [u \in PoolUsers |-> [at |-> "new", got |-> 0, beside |-> FALSE]]

Usable(p) == p # 0 /\ p \notin shut
UserAt(u, place) == poolUser' = [poolUser EXCEPT ![u].at = place]
ShutsBeside(users) == [u \in PoolUsers |->
  IF users[u].at \in {"new", "returned", "attribute error", "value error"} THEN users[u]
  ELSE [users[u] EXCEPT !.beside = TRUE]]

(* `_pool is None`, and then `_pool.is_closed`: the global is read twice. *)
LooksForPool(u) ==
  /\ poolUser[u].at = "new" /\ UserAt(u, IF sharedPool = 0 THEN "locking" ELSE "looking")
  /\ UNCHANGED <<sharedPool, pools, shut, poolLock>>

LooksIfClosed(u) ==
  /\ poolUser[u].at = "looking"
  /\ UserAt(u, CASE sharedPool = 0 -> "attribute error"
                 [] sharedPool \in shut -> "locking"
                 [] OTHER -> "returning")
  /\ UNCHANGED <<sharedPool, pools, shut, poolLock>>

LocksPool(u) ==
  /\ poolUser[u].at = "locking" /\ poolLock = "free" /\ poolLock' = u
  /\ UserAt(u, "locked") /\ UNCHANGED <<sharedPool, pools, shut>>

(* SharedThreadPool.__init__: a size of 0 is refused. *)
NewPool(u) ==
  IF PoolSize[u] = 0 THEN UserAt(u, "value error") /\ UNCHANGED <<sharedPool, pools>>
  ELSE /\ pools' = Append(pools, PoolSize[u]) /\ sharedPool' = Len(pools')
       /\ UserAt(u, "returning")

(* A mutant: who has waited for the lock does not look again. *)
MakesAnyhow(u) ==
  /\ poolUser[u].at = "locked" /\ poolLock' = "free" /\ UNCHANGED shut
  /\ Len(pools) < MaxPools /\ NewPool(u)

MakesPool(u) ==
  /\ poolUser[u].at = "locked" /\ poolLock' = "free" /\ UNCHANGED shut
  /\ IF Usable(sharedPool) THEN UserAt(u, "returning") /\ UNCHANGED <<sharedPool, pools>>
     ELSE Len(pools) < MaxPools /\ NewPool(u)

(* return _pool, without the lock. *)
ReturnsPool(u) ==
  /\ poolUser[u].at = "returning"
  /\ poolUser' = [poolUser EXCEPT ![u].at = "returned", ![u].got = sharedPool,
                                  ![u].beside = @ \/ sharedPool \in shut]
  /\ UNCHANGED <<sharedPool, pools, shut, poolLock>>

(* shutdown_shared_pool, under the lock. *)
ShutsShared ==
  /\ poolLock = "free" /\ sharedPool # 0 /\ poolLock' = "closer"
  /\ shut' = shut \cup {sharedPool} /\ poolUser' = ShutsBeside(poolUser)
  /\ UNCHANGED <<sharedPool, pools>>

ForgetsShared ==
  /\ poolLock = "closer" /\ poolLock' = "free" /\ sharedPool' = 0
  /\ poolUser' = ShutsBeside(poolUser) /\ UNCHANGED <<pools, shut>>

(* SharedThreadPool.shutdown, by who has the pool. *)
ShutsOwn(p) ==
  /\ \E u \in PoolUsers : poolUser[u].at = "returned" /\ poolUser[u].got = p
  /\ p \notin shut /\ shut' = shut \cup {p} /\ poolUser' = ShutsBeside(poolUser)
  /\ UNCHANGED <<sharedPool, pools, poolLock>>

SharedPoolNext ==
  \/ \E u \in PoolUsers :
     \/ LooksForPool(u) \/ LooksIfClosed(u) \/ LocksPool(u)
     \/ MakesPool(u) \/ ReturnsPool(u)
  \/ ShutsShared \/ ForgetsShared \/ \E p \in DOMAIN pools : ShutsOwn(p)

----------------------------------------
(* The store holds at most max_records records, the queue and the gate
   stay within max_queue_size. *)
TasksTypeOK ==
  /\ \A r \in DOMAIN heap :
       /\ heap[r].id \in Ids /\ heap[r].status \in Status
       /\ heap[r].version \in Nat /\ heap[r].beat \in {"fresh", "old"}
  /\ \A i \in Stored : store[i] \in DOMAIN heap /\ heap[store[i]].id = i
  /\ Cardinality(Stored) <= MaxRecords
  /\ state \in [Calls -> CallStates] /\ thread \in [Calls -> Threads]
  /\ beats \in 0..MaxBeats
  /\ scan \subseteq DOMAIN heap
  /\ gate \in 0..QueueSize /\ Len(workQueue) <= QueueSize

(* Every place of the gate is held by a call on its way to a worker: none
   leaks when the pool is closed between taking it and queueing the work. *)
GateCountsWaiting ==
  gate = Cardinality({c \in Calls : state[c] \in {"slot", "queued", "taken"}})

(* There is one open pool at most, the shared one, however many threads
   ask for it first; a thread is left without pool only if pools were shut
   while it asked, and refused only for a size of its own that makes none
   (get_shared_thread_pool, shutdown_shared_pool). *)
OnePoolShared ==
  /\ \A p \in DOMAIN pools : p \in shut \/ p = sharedPool
  /\ \A p \in DOMAIN pools : pools[p] > 0
  /\ \A u \in PoolUsers :
       /\ poolUser[u].at = "returned" /\ poolUser[u].got = 0 => poolUser[u].beside
       /\ poolUser[u].at = "attribute error" => poolUser[u].beside
       /\ poolUser[u].at = "value error" => PoolSize[u] = 0

(* The gate of a pool counts the calls on their way to a worker, and all
   threads share one open pool, whatever is submitted, cancelled and shut
   (SharedThreadPool). *)
TasksSound == TasksTypeOK /\ GateCountsWaiting /\ OnePoolShared

(* A recorded outcome is changed only to another outcome, and only by a
   scan or an end that had looked at the record before the outcome was
   recorded: the version check does not stop those, since update() writes
   the new version back into the object both of them hold. *)
OutcomeRace ==
  [][\A c \in Calls : LET i == IdOf[c] IN
       /\ \A d \in Calls \ {c} : IdOf[d] # i
       /\ i \in Stored /\ StoredStatus(i) \in Terminal
       /\ store'[i] # 0 /\ StoredStatus(i)' # StoredStatus(i)
       => /\ StoredStatus(i)' \in Terminal
          /\ \E t \in Threads : /\ doing[t].kind \in {"dead", "end"}
                               /\ doing[t].step \in {"set", "write"}
                               /\ heap[doing[t].ref].id = i]_tasksVars

Running(i) == i \in Stored /\ StoredStatus(i) = "RUNNING"

(* The application calls scan_dead_tasks whenever a record is RUNNING. *)
ScansGoOn == WF_tasksVars(ScanDeadTasks)

(* A task that has returned or raised does not stay RUNNING, scans or not.
   One that hangs, or was cancelled and so ends without a trace, is declared
   dead if the application keeps scanning; without scans it may stay
   RUNNING for ever. *)
EndsUp ==
  /\ \A c \in Calls : state[c] = "ended" ~> ~Running(IdOf[c])
  /\ ScansGoOn => \A i \in Ids : Running(i) ~> ~Running(i)
=============================================================================
