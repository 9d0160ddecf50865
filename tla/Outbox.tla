------------------------------- MODULE Outbox -------------------------------
(***************************************************************************)
(* The outbox of web_infra.capabilities.mq.outbox: the message_outbox      *)
(* store (MySQL or in memory), the OutboxPublisher rounds that poll it,    *)
(* the cleaner, and the dead-letter consumer that may append a dead letter *)
(* to the outbox again.                                                    *)
(*                                                                         *)
(* A poller is one running call of publish_pending.  Two pollers overlap   *)
(* when a second instance polls without a distributed lock, when the lease *)
(* of that lock runs out, or when TaskScheduler.run_once is called while   *)
(* the loop runs the same task.  Every await of publish_pending is a step  *)
(* boundary.  Rows are numbered in the order of created_at.                *)
(***************************************************************************)
EXTENDS Naturals, FiniteSets

CONSTANTS
  Pollers,        \* concurrent calls of publish_pending
  MaxRows,        \* bound: rows ever appended
  Limit,          \* batch_size
  MaxRetry,       \* MqConfig.max_retry
  MaxAborts,      \* bound: rounds cut short
  AckLoss,        \* may publish raise although the broker kept the message?
  Store           \* "mysql": records are snapshots;  "memory": live objects

ASSUME OutboxAssumption ==
  /\ MaxRows \in Nat \ {0}
  /\ Limit \in Nat \ {0}
  /\ MaxRetry \in Nat \ {0}
  /\ MaxAborts \in Nat
  /\ AckLoss \in BOOLEAN
  /\ Store \in {"mysql", "memory"}

VARIABLES
  rows,           \* number of rows appended so far
  status,         \* status column; "NONE" when there is no row
  retryCounts,    \* retry_count column
  backingOff,     \* is next_retry_at in the future?
  pc,             \* where in publish_pending each poller is
  todo,           \* records of the poller's batch not looked at yet
  cur,            \* record the poller is working on
  copies,         \* copies of each message on its business topic
  deadLetters,    \* dead letters of each row waiting on the DLQ topic
  deadLetteredRows, \* rows whose dead letter ever reached the DLQ topic
  swallowed,      \* rows for which publishing the dead letter failed
  aborts          \* rounds cut short so far

rowVars    == <<rows, status, retryCounts, backingOff>>
pollerVars == <<pc, todo, cur>>
brokerVars == <<copies, deadLetters, deadLetteredRows, swallowed>>
outboxVars == <<rowVars, pollerVars, brokerVars, aborts>>

Rows   == 1..MaxRows
Status == {"NONE", "PENDING", "SENT", "FAILED", "DLQ"}
PC     == {"idle", "publish", "markSent", "markFailed", "sendToDlq", "markDlq"}

(* A record as next_pending hands it out: the row and the retry_count it
   had when it was read. *)
Record   == [id : Rows, retries : Nat]
NoRecord == [id |-> 0, retries |-> 0]

OutboxInit ==
  /\ rows = 0
  /\ status = [m \in Rows |-> "NONE"]
  /\ retryCounts = [m \in Rows |-> 0]
  /\ backingOff = [m \in Rows |-> FALSE]
  /\ pc = [p \in Pollers |-> "idle"]
  /\ todo = [p \in Pollers |-> {}]
  /\ cur = [p \in Pollers |-> NoRecord]
  /\ copies = [m \in Rows |-> 0]
  /\ deadLetters = [m \in Rows |-> 0]
  /\ deadLetteredRows = {}
  /\ swallowed = {}
  /\ aborts = 0

----------------------------------------
(* The store. *)

InsertRow ==
  /\ rows < MaxRows
  /\ rows' = rows + 1
  /\ status' = [status EXCEPT ![rows + 1] = "PENDING"]
  /\ UNCHANGED <<retryCounts, backingOff>>

(* Mutant of Eligible: rows in state SENT are polled too. *)
EligibleUnlessDead ==
  {m \in Rows : status[m] \in {"PENDING", "SENT"} /\ ~backingOff[m]}

Eligible == {m \in Rows : status[m] = "PENDING" /\ ~backingOff[m]}

(* next_pending: the oldest Limit eligible rows. *)
IsNextPending(S) ==
  /\ S \subseteq Eligible
  /\ \A m \in S, n \in Eligible \ S : m < n
  /\ IF Cardinality(Eligible) <= Limit THEN S = Eligible
                                       ELSE Cardinality(S) = Limit

(* UPDATE ... WHERE msg_id = m: nothing happens when the row is gone. *)
SetRow(m, s, r, b) ==
  IF status[m] = "NONE"
  THEN UNCHANGED <<status, retryCounts, backingOff>>
  ELSE /\ status' = [status EXCEPT ![m] = s]
       /\ retryCounts' = [retryCounts EXCEPT ![m] = r]
       /\ backingOff' = [backingOff EXCEPT ![m] = b]

SetSent(m) == SetRow(m, "SENT", retryCounts[m], FALSE)
SetDlq(m)  == SetRow(m, "DLQ", retryCounts[m], FALSE)

(* Mutant of SetFailed: one retry more than max_retry allows. *)
SetFailedLate(m, delayed) ==
  LET r == retryCounts[m] + 1
  IN  IF r > MaxRetry
      THEN SetRow(m, "FAILED", r, FALSE)
      ELSE SetRow(m, "PENDING", r, delayed)

(* mark_failed counts on the row itself, not on what the poller read.  The
   SQL statement writes PENDING back below the limit, the in-memory store
   leaves the status as it is.  delayed: was retry_delay_seconds given? *)
SetFailed(m, delayed) ==
  LET r == retryCounts[m] + 1
  IN  IF r >= MaxRetry
      THEN SetRow(m, "FAILED", r, FALSE)
      ELSE IF Store = "mysql"
           THEN SetRow(m, "PENDING", r, delayed)
           ELSE SetRow(m, status[m], r, delayed \/ backingOff[m])

(* append by the business, in its own transaction when the store is MySQL. *)
AppendRecord ==
  /\ InsertRow
  /\ UNCHANGED <<pollerVars, brokerVars, aborts>>

(* next_retry_at passes. *)
BackoffElapsed(m) ==
  /\ backingOff[m]
  /\ backingOff' = [backingOff EXCEPT ![m] = FALSE]
  /\ UNCHANGED <<rows, status, retryCounts, pollerVars, brokerVars, aborts>>

(* Mutant of Cleanup: deletes every row older than the retention limit. *)
CleanupAnyStatus(before) ==
  /\ \E m \in Rows : m < before /\ status[m] # "NONE"
  /\ status' = [m \in Rows |-> IF m < before THEN "NONE" ELSE status[m]]
  /\ UNCHANGED <<rows, retryCounts, backingOff, pollerVars, brokerVars, aborts>>

(* OutboxCleaner.cleanup: SENT rows created before the retention limit. *)
Cleanup(before) ==
  /\ \E m \in Rows : m < before /\ status[m] = "SENT"
  /\ status' = [m \in Rows |-> IF m < before /\ status[m] = "SENT"
                               THEN "NONE" ELSE status[m]]
  /\ UNCHANGED <<rows, retryCounts, backingOff, pollerVars, brokerVars, aborts>>

----------------------------------------
(* publish_pending. *)

(* Mutant of SeenRetries: what the in-memory store would show if it handed
   out copies. *)
SnapshotRetries(p) == cur[p].retries

(* The retry_count the publisher sees in its record: the snapshot with
   MySQL, the live object with the in-memory store. *)
SeenRetries(p) ==
  IF Store = "mysql" THEN cur[p].retries ELSE retryCounts[cur[p].id]

(* Mutant of Exceeded: compares before counting the attempt that failed. *)
ExceededLate(p) == SeenRetries(p) >= MaxRetry

(* The last attempt was used up, as far as the publisher can tell. *)
Exceeded(p) == SeenRetries(p) + 1 >= MaxRetry

(* The record is done: go on with the batch or return. *)
NextRecord(p) ==
  /\ pc' = [pc EXCEPT ![p] = IF todo[p] = {} THEN "idle" ELSE "publish"]
  /\ cur' = [cur EXCEPT ![p] = NoRecord]
  /\ UNCHANGED todo

Poll(p) ==
  /\ pc[p] = "idle"
  /\ Eligible # {}
  /\ \E S \in SUBSET Eligible :
       /\ IsNextPending(S)
       /\ todo' = [todo EXCEPT
                     ![p] = {[id |-> m, retries |-> retryCounts[m]] : m \in S}]
  /\ pc' = [pc EXCEPT ![p] = "publish"]
  /\ UNCHANGED <<rowVars, cur, brokerVars, aborts>>

(* publish returns or raises; when it raises the broker may still have
   kept the message (a confirmation that got lost). *)
PublishRow(p, ok, kept) ==
  /\ pc[p] = "publish"
  /\ ok => kept
  /\ kept /\ ~ok => AckLoss
  /\ \E r \in todo[p] :
       /\ \A q \in todo[p] : r.id <= q.id
       /\ cur' = [cur EXCEPT ![p] = r]
       /\ todo' = [todo EXCEPT ![p] = @ \ {r}]
       /\ copies' = [copies EXCEPT ![r.id] = IF kept THEN @ + 1 ELSE @]
  /\ pc' = [pc EXCEPT ![p] = IF ok THEN "markSent" ELSE "markFailed"]
  /\ UNCHANGED <<rowVars, deadLetters, deadLetteredRows, swallowed, aborts>>

(* Mutant of MarkSent: the confirmation is never written to the row. *)
MarkSentForgotten(p) ==
  /\ pc[p] = "markSent"
  /\ NextRecord(p)
  /\ UNCHANGED <<rowVars, brokerVars, aborts>>

MarkSent(p) ==
  /\ pc[p] = "markSent"
  /\ SetSent(cur[p].id)
  /\ NextRecord(p)
  /\ UNCHANGED <<rows, brokerVars, aborts>>

(* Mutant of MarkFailed: the row is marked DLQ without a dead letter. *)
MarkFailedUnsent(p) ==
  /\ pc[p] = "markFailed"
  /\ SetFailed(cur[p].id, ~Exceeded(p))
  /\ IF Exceeded(p)
     THEN pc' = [pc EXCEPT ![p] = "markDlq"] /\ UNCHANGED <<todo, cur>>
     ELSE NextRecord(p)
  /\ UNCHANGED <<rows, brokerVars, aborts>>

(* The first call of _handle_failure, in either of its branches. *)
MarkFailed(p) ==
  /\ pc[p] = "markFailed"
  /\ SetFailed(cur[p].id, ~Exceeded(p))
  /\ IF Exceeded(p)
     THEN pc' = [pc EXCEPT ![p] = "sendToDlq"] /\ UNCHANGED <<todo, cur>>
     ELSE NextRecord(p)
  /\ UNCHANGED <<rows, brokerVars, aborts>>

(* Mutant of SendToDlq: the error of publish ends the round's record. *)
SendToDlqRaising(p, kept) ==
  /\ pc[p] = "sendToDlq"
  /\ IF kept
     THEN /\ deadLetters' = [deadLetters EXCEPT ![cur[p].id] = @ + 1]
          /\ deadLetteredRows' = deadLetteredRows \union {cur[p].id}
          /\ pc' = [pc EXCEPT ![p] = "markDlq"]
          /\ UNCHANGED <<todo, cur>>
     ELSE NextRecord(p) /\ UNCHANGED <<deadLetters, deadLetteredRows>>
  /\ UNCHANGED <<rowVars, copies, swallowed, aborts>>

(* _send_to_dlq swallows the error of publish and carries on. *)
SendToDlq(p, kept) ==
  /\ pc[p] = "sendToDlq"
  /\ IF kept
     THEN /\ deadLetters' = [deadLetters EXCEPT ![cur[p].id] = @ + 1]
          /\ deadLetteredRows' = deadLetteredRows \union {cur[p].id}
          /\ UNCHANGED swallowed
     ELSE /\ swallowed' = swallowed \union {cur[p].id}
          /\ UNCHANGED <<deadLetters, deadLetteredRows>>
  /\ pc' = [pc EXCEPT ![p] = "markDlq"]
  /\ UNCHANGED <<rowVars, todo, cur, copies, aborts>>

MarkDlq(p) ==
  /\ pc[p] = "markDlq"
  /\ SetDlq(cur[p].id)
  /\ NextRecord(p)
  /\ UNCHANGED <<rows, brokerVars, aborts>>

(* The round ends where it stands: the process dies, the scheduler's
   timeout cancels the handler, or a call of the store raises. *)
Abort(p) ==
  /\ pc[p] # "idle"
  /\ aborts < MaxAborts
  /\ aborts' = aborts + 1
  /\ pc' = [pc EXCEPT ![p] = "idle"]
  /\ todo' = [todo EXCEPT ![p] = {}]
  /\ cur' = [cur EXCEPT ![p] = NoRecord]
  /\ UNCHANGED <<rowVars, brokerVars>>

----------------------------------------
(* The dead-letter consumer. *)

(* _default_on_dlq logs the message and drops it. *)
DiscardDeadLetter(m) ==
  /\ deadLetters[m] > 0
  /\ deadLetters' = [deadLetters EXCEPT ![m] = @ - 1]
  /\ UNCHANGED <<rowVars, pollerVars, copies, deadLetteredRows, swallowed, aborts>>

(* requeue_dlq_to_outbox appends a new row with retry_count 0. *)
RequeueDeadLetter(m) ==
  /\ deadLetters[m] > 0
  /\ InsertRow
  /\ deadLetters' = [deadLetters EXCEPT ![m] = @ - 1]
  /\ UNCHANGED <<pollerVars, copies, deadLetteredRows, swallowed, aborts>>

----------------------------------------
PollerStep(p) ==
  \/ Poll(p)
  \/ \E ok, kept \in BOOLEAN : PublishRow(p, ok, kept)
  \/ MarkSent(p)
  \/ MarkFailed(p)
  \/ \E kept \in BOOLEAN : SendToDlq(p, kept)
  \/ MarkDlq(p)

OutboxNext ==
  \/ AppendRecord
  \/ \E p \in Pollers : PollerStep(p) \/ Abort(p)
  \/ \E m \in Rows :
       BackoffElapsed(m) \/ DiscardDeadLetter(m) \/ RequeueDeadLetter(m)
  \/ \E before \in 2..(MaxRows + 1) : Cleanup(before)

OutboxSpec == OutboxInit /\ [][OutboxNext]_outboxVars

(* The scheduler runs the task again and again, a call that was started
   goes on, and time passes.  Nothing makes the business append or the
   broker accept a message. *)
OutboxFairness ==
  /\ \A p \in Pollers : WF_outboxVars(PollerStep(p))
  /\ \A m \in Rows : WF_outboxVars(BackoffElapsed(m))

OutboxFairSpec == OutboxSpec /\ OutboxFairness

----------------------------------------
(* Properties. *)

(* Every variable keeps its shape, and a poller works on a record exactly
   while it is inside the loop of publish_pending. *)
OutboxTypeOK ==
  /\ rows \in 0..MaxRows
  /\ status \in [Rows -> Status]
  /\ retryCounts \in [Rows -> Nat]
  /\ backingOff \in [Rows -> BOOLEAN]
  /\ pc \in [Pollers -> PC]
  /\ todo \in [Pollers -> SUBSET Record]
  /\ cur \in [Pollers -> Record \union {NoRecord}]
  /\ copies \in [Rows -> Nat]
  /\ deadLetters \in [Rows -> Nat]
  /\ deadLetteredRows \in SUBSET Rows
  /\ swallowed \in SUBSET Rows
  /\ aborts \in 0..MaxAborts
  /\ \A p \in Pollers : cur[p] = NoRecord <=> pc[p] \in {"idle", "publish"}

(* An accepted message whose row says SENT, or whose row was cleaned away,
   is on the broker, also when two rounds overlap on one row, one
   succeeding and the other failing, or a round is cut short. *)
NoLoss == \A m \in 1..rows : status[m] \in {"NONE", "SENT"} => copies[m] > 0

(* A row still to be sent has attempts left, and a row is only given up
   when max_retry attempts were counted on it, although overlapping rounds
   decide on a retry_count that may be out of date. *)
RetryBudget ==
  \A m \in Rows : /\ status[m] = "PENDING" => retryCounts[m] < MaxRetry
                  /\ status[m] = "FAILED" => retryCounts[m] >= MaxRetry

(* FAILED is a state of passage: a row is only in it while the round that
   put it there is about to publish its dead letter and mark it DLQ. *)
NoStuckFailed ==
  \A m \in Rows : status[m] = "FAILED" =>
    \E p \in Pollers : cur[p].id = m /\ pc[p] \in {"sendToDlq", "markDlq"}

(* One poller: at most one row is left FAILED for every round cut short. *)
StuckExplained ==
  Cardinality({m \in Rows : status[m] = "FAILED" /\ \A p \in Pollers : cur[p].id # m})
    <= aborts

(* What a DLQ row vouches for: its dead letter reached the DLQ topic, or the
   publisher tried, failed and swallowed the error (_send_to_dlq). *)
Tried(m) == m \in deadLetteredRows \union swallowed
DlqExplained == \A m \in Rows : status[m] = "DLQ" => Tried(m)

(* OutboxStatus.DLQ says "delivered to the dead-letter topic".  That is not
   so for a row whose dead letter was swallowed. *)
DlqIsDeadLettered == \A m \in Rows : status[m] = "DLQ" => m \in deadLetteredRows

(* One poller: every copy beyond the first is due to a round cut short
   before mark_sent, or to an attempt that failed although the broker had
   kept the message and that was counted on the row. *)
DuplicatesExplained == \A m \in Rows : copies[m] <= 1 + aborts + retryCounts[m]

(* Rounds cut short, and attempts counted on the row, account for every
   copy and every row left behind, and no row counts as dead-lettered for
   which no dead letter was tried. *)
AbortsExplain == DuplicatesExplained /\ StuckExplained /\ DlqExplained

(* One poller: what was settled stays settled; a SENT or DLQ row is only
   ever deleted by the cleaner, never sent again. *)
SettledIsFinal ==
  [][\A m \in Rows : status[m] \in {"SENT", "DLQ"} =>
       status'[m] = status[m] \/ (status[m] = "SENT" /\ status'[m] = "NONE")]_outboxVars

(* Every row that waits to be sent is sent in the end, or dead-lettered,
   with two exceptions: publishing the dead letter failed, which the
   publisher swallows before it marks the row DLQ all the same, or a round
   was cut short between mark_failed and mark_dlq. *)
Settles ==
  \A m \in Rows : status[m] = "PENDING" ~>
    \/ status[m] = "SENT"
    \/ status[m] = "DLQ" /\ (m \in deadLetteredRows \/ m \in swallowed)
    \/ status[m] = "FAILED" /\ aborts > 0

(* The outbox is a reliable hand-over to the broker. *)
RD == INSTANCE ReliableDelivery WITH
        Msgs      <- Rows,
        accepted  <- 1..rows,
        retained  <- {m \in Rows : status[m] # "NONE"},
        delivered <- {m \in Rows : copies[m] > 0}

(* Whatever the pollers, the cleaner and interruptions do, an accepted
   message keeps its row until the broker holds a copy of it. *)
Reliable == RD!Spec

=============================================================================
