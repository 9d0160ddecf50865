---------------------------- MODULE MessageQueue ----------------------------
(***************************************************************************)
(* InMemoryMessageQueue of web_infra.capabilities.mq with subscribers that *)
(* are wrapped in IdempotentConsumer and, some of them, in                 *)
(* RetryableConsumer around it.                                            *)
(*                                                                         *)
(* One dispatch loop takes a message from the queue and calls the          *)
(* subscribers of its topic one after the other; publishers, the timers of *)
(* delayed messages and of retries, and stop() run while it waits inside a *)
(* subscriber.  Dead letters go through the same queue.                    *)
(***************************************************************************)
EXTENDS Naturals, Sequences, FiniteSets

CONSTANTS
  Msgs,         \* message ids
  Bizs,         \* business ids
  BizOf,        \* the business id in the body of a message
  Subscribers,  \* number of handlers subscribed to the topic
  Retrying,     \* the handlers that are wrapped in RetryableConsumer
  MaxRetries,   \* max_retries, of the queue and of RetryableConsumer
  MaxSends,     \* bound: calls of publish and send_delay
  MaxStops      \* bound: calls of stop()

ASSUME MessageQueueAssumption ==
  /\ BizOf \in [Msgs -> Bizs]
  /\ Subscribers \in Nat \ {0}
  /\ Retrying \subseteq 1..Subscribers
  /\ MaxRetries \in Nat \ {0}
  /\ MaxSends \in Nat
  /\ MaxStops \in Nat

Handlers == 1..Subscribers

VARIABLES
  queue,        \* messages and dead letters in the order of arrival
  worker,       \* the dispatch loop
  running,      \* was start() called, and no stop() since?
  retryCount,   \* _retry_counts
  waiting,      \* retries of a message whose backoff has not elapsed
  delayed,      \* _delayed_messages
  cancelled,    \* _cancelled
  timers,       \* pending _delayed_dispatch tasks of a message
  keys,         \* keys[h]: idempotency keys handler h has occupied
  effects,      \* effects[h][m]: how often h did its work for m
  sends,        \* calls of publish and send_delay so far
  accepted,     \* messages that got into the queue
  deadLettered, \* messages that were dead-lettered
  interrupted,  \* messages whose handling was cancelled by stop()
  stops         \* calls of stop() so far

queueVars == <<queue, worker, running, retryCount, waiting>>
delayVars == <<delayed, cancelled, timers>>
bookVars  == <<sends, accepted, deadLettered, interrupted, stops>>
vars == <<queueVars, delayVars, keys, effects, bookVars>>

(* failed: the exception of the last handler that raised one. *)
NotBusy == [step |-> "idle"]
Busy == [step : {"call", "business", "returned"}, msg : Msgs, handler : Handlers,
         attempt : 1..MaxRetries, failed : {"no", "retryable", "nonRetryable"}]

Position(step, m, h, attempt, failed) ==
  [step |-> step, msg |-> m, handler |-> h, attempt |-> attempt, failed |-> failed]

Entry == [msg : Msgs, dead : BOOLEAN]

Init ==
  /\ queue = <<>>
  /\ worker = NotBusy
  /\ running = FALSE
  /\ retryCount = [m \in Msgs |-> 0]
  /\ waiting = [m \in Msgs |-> 0]
  /\ delayed = {}
  /\ cancelled = {}
  /\ timers = [m \in Msgs |-> 0]
  /\ keys = [h \in Handlers |-> {}]
  /\ effects = [h \in Handlers |-> [m \in Msgs |-> 0]]
  /\ sends = 0
  /\ accepted = {}
  /\ deadLettered = {}
  /\ interrupted = {}
  /\ stops = 0

Put(m, dead) == queue' = Append(queue, [msg |-> m, dead |-> dead])

DeadLetter(m) == Put(m, TRUE) /\ deadLettered' = deadLettered \union {m}

----------------------------------------
(* Publishing, and delayed messages. *)

Send == sends < MaxSends /\ sends' = sends + 1

Publish(m) ==
  /\ Send
  /\ Put(m, FALSE)
  /\ accepted' = accepted \union {m}
  /\ UNCHANGED <<worker, running, retryCount, waiting, delayVars, keys, effects,
                 deadLettered, interrupted, stops>>

SendDelay(m) ==
  /\ Send
  /\ delayed' = delayed \union {m}
  /\ timers' = [timers EXCEPT ![m] = @ + 1]
  /\ UNCHANGED <<queueVars, cancelled, keys, effects, accepted, deadLettered,
                 interrupted, stops>>

CancelDelayed(m) ==
  /\ m \in delayed
  /\ cancelled' = cancelled \union {m}
  /\ UNCHANGED <<queueVars, delayed, timers, keys, effects, bookVars>>

(* _delayed_dispatch: the first timer of an id takes its message. *)
DelayElapsed(m) ==
  /\ timers[m] > 0
  /\ timers' = [timers EXCEPT ![m] = @ - 1]
  /\ delayed' = delayed \ {m}
  /\ cancelled' = cancelled \ (delayed \intersect {m})
  /\ IF m \in delayed \ cancelled
     THEN Put(m, FALSE) /\ accepted' = accepted \union {m}
     ELSE UNCHANGED <<queue, accepted>>
  /\ UNCHANGED <<worker, running, retryCount, waiting, keys, effects, sends,
                 deadLettered, interrupted, stops>>

----------------------------------------
(* The dispatch loop. *)

Start ==
  /\ ~running
  /\ running' = TRUE
  /\ UNCHANGED <<queue, worker, retryCount, waiting, delayVars, keys, effects, bookVars>>

(* stop() cancels the loop where it waits: in the queue or in a handler. *)
Stop ==
  /\ running
  /\ stops < MaxStops
  /\ worker.step # "returned"
  /\ running' = FALSE
  /\ worker' = NotBusy
  /\ interrupted' = interrupted \union (IF worker = NotBusy THEN {} ELSE {worker.msg})
  /\ stops' = stops + 1
  /\ UNCHANGED <<queue, retryCount, waiting, delayVars, keys, effects, sends, accepted,
                 deadLettered>>

Take ==
  /\ running
  /\ worker = NotBusy
  /\ queue # <<>>
  /\ ~Head(queue).dead
  /\ worker' = Position("call", Head(queue).msg, 1, 1, "no")
  /\ queue' = Tail(queue)
  /\ UNCHANGED <<running, retryCount, waiting, delayVars, keys, effects, bookVars>>

(* A dead letter is consumed by DlqConsumer, which only logs it. *)
TakeDeadLetter ==
  /\ running
  /\ worker = NotBusy
  /\ queue # <<>>
  /\ Head(queue).dead
  /\ queue' = Tail(queue)
  /\ UNCHANGED <<worker, running, retryCount, waiting, delayVars, keys, effects, bookVars>>

At(step) == worker # NotBusy /\ worker.step = step

(* The handler returned or raised: on to the next one, or to the end. *)
HandlerReturned(failed) ==
  worker' = IF worker.handler < Subscribers
            THEN Position("call", worker.msg, worker.handler + 1, 1, failed)
            ELSE Position("returned", worker.msg, worker.handler, worker.attempt, failed)

Key == BizOf[worker.msg]

(* IdempotentConsumer.consume: a key that is occupied means a duplicate. *)
SkipDuplicate ==
  /\ At("call")
  /\ Key \in keys[worker.handler]
  /\ HandlerReturned(worker.failed)
  /\ UNCHANGED <<queue, running, retryCount, waiting, delayVars, keys, effects, bookVars>>

EnterBusiness ==
  /\ At("call")
  /\ Key \notin keys[worker.handler]
  /\ keys' = [keys EXCEPT ![worker.handler] = @ \union {Key}]
  /\ worker' = Position("business", worker.msg, worker.handler, worker.attempt, worker.failed)
  /\ UNCHANGED <<queue, running, retryCount, waiting, delayVars, effects, bookVars>>

(* Mutant of BusinessDone: the key is released however the handler ends. *)
BusinessDoneReleasing ==
  /\ At("business")
  /\ effects' = [effects EXCEPT ![worker.handler][worker.msg] = @ + 1]
  /\ keys' = [keys EXCEPT ![worker.handler] = @ \ {Key}]
  /\ HandlerReturned(worker.failed)
  /\ UNCHANGED <<queue, running, retryCount, waiting, delayVars, bookVars>>

BusinessDone ==
  /\ At("business")
  /\ effects' = [effects EXCEPT ![worker.handler][worker.msg] = @ + 1]
  /\ HandlerReturned(worker.failed)
  /\ UNCHANGED <<queue, running, retryCount, waiting, delayVars, keys, bookVars>>

(* The key is released; RetryableConsumer sleeps and calls again, or sends
   a dead letter and returns, and any other handler raises to the loop. *)
BusinessFails(kind) ==
  LET h == worker.handler
      again == kind = "retryable" /\ worker.attempt < MaxRetries
  IN  /\ At("business")
      /\ keys' = [keys EXCEPT ![h] = @ \ {Key}]
      /\ \/ /\ h \in Retrying /\ again
            /\ worker' = Position("call", worker.msg, h, worker.attempt + 1, worker.failed)
            /\ UNCHANGED <<queue, deadLettered>>
         \/ /\ h \in Retrying /\ ~again
            /\ DeadLetter(worker.msg)
            /\ HandlerReturned(worker.failed)
         \/ /\ h \notin Retrying
            /\ HandlerReturned(kind)
            /\ UNCHANGED <<queue, deadLettered>>
      /\ UNCHANGED <<running, retryCount, waiting, delayVars, effects, sends, accepted,
                     interrupted, stops>>

Consumed ==
  /\ At("returned")
  /\ worker.failed = "no"
  /\ retryCount' = [retryCount EXCEPT ![worker.msg] = 0]
  /\ worker' = NotBusy
  /\ UNCHANGED <<queue, running, waiting, delayVars, keys, effects, bookVars>>

GiveUp ==
  /\ At("returned")
  /\ worker.failed = "nonRetryable"
  /\ DeadLetter(worker.msg)
  /\ worker' = NotBusy
  /\ UNCHANGED <<running, retryCount, waiting, delayVars, keys, effects, sends, accepted,
                 interrupted, stops>>

(* Mutant of Retries: none is counted. *)
RetriesUncounted(m) == 1

(* The number of the retry that is due, 0 when there is none left. *)
Retries(m) == IF retryCount[m] >= MaxRetries THEN 0 ELSE retryCount[m] + 1

(* Mutant of RetryOrDlq: a message out of retries is dropped. *)
RetryOrDrop ==
  LET m == worker.msg
  IN  /\ At("returned")
      /\ worker.failed = "retryable"
      /\ retryCount' = [retryCount EXCEPT ![m] = Retries(m)]
      /\ waiting' = [waiting EXCEPT ![m] = IF Retries(m) = 0 THEN @ ELSE @ + 1]
      /\ worker' = NotBusy
      /\ UNCHANGED <<queue, running, delayVars, keys, effects, bookVars>>

RetryOrDlq ==
  LET m == worker.msg
  IN  /\ At("returned")
      /\ worker.failed = "retryable"
      /\ retryCount' = [retryCount EXCEPT ![m] = Retries(m)]
      /\ IF Retries(m) = 0
         THEN DeadLetter(m) /\ UNCHANGED waiting
         ELSE /\ waiting' = [waiting EXCEPT ![m] = @ + 1]
              /\ UNCHANGED <<queue, deadLettered>>
      /\ worker' = NotBusy
      /\ UNCHANGED <<running, delayVars, keys, effects, sends, accepted, interrupted, stops>>

(* _requeue_after: to the end of the queue. *)
RequeueAfter(m) ==
  /\ waiting[m] > 0
  /\ waiting' = [waiting EXCEPT ![m] = @ - 1]
  /\ Put(m, FALSE)
  /\ UNCHANGED <<worker, running, retryCount, delayVars, keys, effects, bookVars>>

LoopStep ==
  \/ Take \/ TakeDeadLetter \/ SkipDuplicate \/ EnterBusiness \/ BusinessDone
  \/ \E kind \in {"retryable", "nonRetryable"} : BusinessFails(kind)
  \/ Consumed \/ GiveUp \/ RetryOrDlq

Next ==
  \/ \E m \in Msgs : Publish(m) \/ SendDelay(m) \/ CancelDelayed(m) \/ DelayElapsed(m)
                     \/ RequeueAfter(m)
  \/ Start \/ Stop \/ LoopStep

Spec == Init /\ [][Next]_vars

(* The loop runs once it was started and is started again after a stop; a
   handler ends, well or badly; timers elapse. *)
Fairness ==
  /\ WF_vars(Start)
  /\ WF_vars(LoopStep)
  /\ \A m \in Msgs : WF_vars(DelayElapsed(m)) /\ WF_vars(RequeueAfter(m))

FairSpec == Spec /\ Fairness

----------------------------------------
(* Properties. *)

(* Every variable keeps its shape. *)
TypeOK ==
  /\ queue \in Seq(Entry)
  /\ worker \in Busy \union {NotBusy}
  /\ running \in BOOLEAN
  /\ retryCount \in [Msgs -> 0..MaxRetries]
  /\ waiting \in [Msgs -> Nat]
  /\ delayed \subseteq Msgs
  /\ cancelled \subseteq Msgs
  /\ timers \in [Msgs -> Nat]
  /\ keys \in [Handlers -> SUBSET Bizs]
  /\ effects \in [Handlers -> [Msgs -> Nat]]
  /\ sends \in 0..MaxSends
  /\ accepted \subseteq Msgs
  /\ deadLettered \subseteq Msgs
  /\ interrupted \subseteq Msgs
  /\ stops \in 0..MaxStops

Handled(m) == \A h \in Handlers : effects[h][m] > 0

Settled(m) == Handled(m) \/ m \in deadLettered \/ m \in interrupted

UnderWay(m) ==
  \/ \E i \in DOMAIN queue : queue[i] = [msg |-> m, dead |-> FALSE]
  \/ worker # NotBusy /\ worker.msg = m
  \/ waiting[m] > 0

(* A message that got into the queue is on its way, was handled by every
   subscriber, is a dead letter, or was cut off by stop(): no order of
   failures, retries, duplicates and delayed sends loses it. *)
NoSilentLoss == \A m \in accepted : UnderWay(m) \/ Settled(m)

(* However often a message is sent and retried, and although a retry calls
   all subscribers again, each does its work for it at most once. *)
EffectOnce == \A h \in Handlers, m \in Msgs : effects[h][m] <= 1

(* Only a message that is still delayed is marked as cancelled, and a
   delayed message has a timer that will take it: no mark is left behind
   to swallow a later message of the same id. *)
CancelledIsPending ==
  /\ cancelled \subseteq delayed
  /\ \A m \in delayed : timers[m] > 0

(* Every message that got into the queue is settled in the end. *)
GetsSettled == \A m \in Msgs : m \in accepted ~> Settled(m)
=============================================================================
