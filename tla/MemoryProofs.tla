---------------------------- MODULE MemoryProofs ----------------------------
(***************************************************************************)
(* Proofs about Outbox, PaymentChannel and MessageQueue, for every value   *)
(* of their constants: any number of pollers, rows, retries and            *)
(* interruptions, either store; any number of concurrent calls, orders and *)
(* refunds, with stores that suspend or not; any number of messages,       *)
(* subscribers, sends and stops.                                           *)
(***************************************************************************)
EXTENDS Outbox, PaymentChannel, MessageQueue, FiniteSetTheorems, SequenceTheorems, TLAPS

----------------------------------------
(* The transactional outbox. *)

(* Rows that were not appended yet are blank. *)
BlankRows ==
  \A m \in Rows : m > rows => status[m] = "NONE" /\ retryCounts[m] = 0

(* Pollers only handle rows that were appended. *)
KnownRecords ==
  \A p \in Pollers :
    /\ \A r \in todo[p] : r.id <= rows
    /\ cur[p] # NoRecord => cur[p].id <= rows

(* A poller about to call mark_sent has put its message on the broker. *)
Confirmed == \A p \in Pollers : pc[p] = "markSent" => copies[cur[p].id] > 0

(* The inductive invariant: neither NoLoss nor RetryBudget is inductive by
   itself, they lean on what the pollers are holding. *)
OutboxIInv ==
  OutboxTypeOK /\ BlankRows /\ KnownRecords /\ Confirmed /\ NoLoss /\ RetryBudget

LEMMA OutboxInitIInv == OutboxInit => OutboxIInv
  BY OutboxAssumption
  DEF OutboxInit, OutboxIInv, OutboxTypeOK, BlankRows, KnownRecords, Confirmed, NoLoss,
      RetryBudget, Rows, Status, PC, Record, NoRecord

(* A poller inside the loop works on a record of the table. *)
LEMMA CurIsRecord ==
  ASSUME OutboxTypeOK, NEW p \in Pollers, pc[p] \notin {"idle", "publish"}
  PROVE  cur[p] \in Record /\ cur[p].id \in Rows /\ cur[p] # NoRecord
  BY DEF OutboxTypeOK, Record

(* The steps of the store that the loop of publish_pending does not take. *)
LEMMA StoreSteps ==
  ASSUME OutboxIInv,
         \/ AppendRecord
         \/ \E m \in Rows :
            \/ BackoffElapsed(m)
            \/ DiscardDeadLetter(m)
            \/ RequeueDeadLetter(m)
         \/ \E before \in 2..(MaxRows + 1) : Cleanup(before)
  PROVE  OutboxIInv'
<1> USE DEF OutboxIInv
<1>1. CASE InsertRow /\ UNCHANGED <<pollerVars, copies, aborts>>
           /\ UNCHANGED <<deadLetteredRows, swallowed>> /\ deadLetters' \in [Rows -> Nat]
  <2>1. rows + 1 \in Rows /\ rows' = rows + 1 /\ rows' \in 0..MaxRows
    BY <1>1, OutboxAssumption DEF OutboxTypeOK, InsertRow, Rows
  <2>2. OutboxTypeOK' BY <1>1, <2>1 DEF OutboxTypeOK, InsertRow, pollerVars, Status
  <2>3. BlankRows' BY <1>1, <2>1 DEF OutboxTypeOK, BlankRows, InsertRow, Rows
  <2>4. KnownRecords' /\ Confirmed'
    BY <1>1, <2>1 DEF OutboxTypeOK, KnownRecords, Confirmed, InsertRow, pollerVars,
                      Rows, Record, NoRecord
  <2>5. NoLoss' BY <1>1, <2>1 DEF OutboxTypeOK, NoLoss, InsertRow, Rows
  <2>6. RetryBudget'
    <3>1. status' = [status EXCEPT ![rows + 1] = "PENDING"] /\ retryCounts' = retryCounts
      BY <1>1 DEF InsertRow
    <3>2. retryCounts[rows + 1] = 0 BY <1>1, <2>1 DEF OutboxTypeOK, BlankRows, InsertRow, Rows
    <3>3. \A n \in Rows : status'[n] = IF n = rows + 1 THEN "PENDING" ELSE status[n]
      BY <3>1 DEF OutboxTypeOK
    <3>4. \A n \in Rows : retryCounts'[n] = retryCounts[n] BY <3>1
    <3>5. 0 < MaxRetry BY OutboxAssumption
    <3> QED BY <2>1, <3>2, <3>3, <3>4, <3>5 DEF RetryBudget
  <2> QED BY <2>2, <2>3, <2>4, <2>5, <2>6
<1>2. CASE AppendRecord BY <1>1, <1>2 DEF AppendRecord, brokerVars, OutboxTypeOK
<1>3. ASSUME NEW m \in Rows, RequeueDeadLetter(m) PROVE OutboxIInv'
  <2>1. deadLetters' \in [Rows -> Nat] BY <1>3 DEF RequeueDeadLetter, OutboxTypeOK
  <2> QED BY <1>1, <1>3, <2>1 DEF RequeueDeadLetter
<1>4. ASSUME NEW m \in Rows, BackoffElapsed(m) PROVE OutboxIInv'
  BY <1>4 DEF BackoffElapsed, OutboxTypeOK, BlankRows, KnownRecords, Confirmed,
              NoLoss, RetryBudget, pollerVars, brokerVars
<1>5. ASSUME NEW m \in Rows, DiscardDeadLetter(m) PROVE OutboxIInv'
  BY <1>5 DEF DiscardDeadLetter, OutboxTypeOK, BlankRows, KnownRecords, Confirmed,
              NoLoss, RetryBudget, rowVars, pollerVars
<1>6. ASSUME NEW before \in 2..(MaxRows + 1), Cleanup(before) PROVE OutboxIInv'
  <2> UNCHANGED <<rows, retryCounts, backingOff, pc, todo, cur, copies,
                  deadLetters, deadLetteredRows, swallowed, aborts>>
    BY <1>6 DEF Cleanup, pollerVars, brokerVars
  <2>1. \A m \in Rows :
    \/ status'[m] = status[m]
    \/ status[m] = "SENT" /\ status'[m] = "NONE"
    BY <1>6 DEF Cleanup
  <2>2. OutboxTypeOK' BY <1>6, <2>1 DEF Cleanup, OutboxTypeOK, Status
  <2>3. BlankRows' /\ KnownRecords' /\ Confirmed' /\ RetryBudget'
    BY <2>1 DEF BlankRows, KnownRecords, Confirmed, RetryBudget
  <2>4. NoLoss' BY <2>1, OutboxAssumption DEF NoLoss, OutboxTypeOK, Rows
  <2> QED BY <2>2, <2>3, <2>4
<1> QED BY <1>2, <1>3, <1>4, <1>5, <1>6

(* What an UPDATE does to the table leaves the rest of OutboxIInv's parts alone. *)
LEMMA SetRowTyped ==
  ASSUME OutboxTypeOK, NEW m \in Rows, NEW s \in Status \ {"NONE"}, NEW r \in Nat,
         NEW b \in BOOLEAN, SetRow(m, s, r, b)
  PROVE  /\ status' \in [Rows -> Status]
         /\ retryCounts' \in [Rows -> Nat]
         /\ backingOff' \in [Rows -> BOOLEAN]
         /\ \A n \in Rows : status[n] = "NONE" <=> status'[n] = "NONE"
         /\ \A n \in Rows : n # m \/ status[m] = "NONE" =>
              status'[n] = status[n] /\ retryCounts'[n] = retryCounts[n]
         /\ status[m] # "NONE" => status'[m] = s /\ retryCounts'[m] = r
  BY DEF OutboxTypeOK, SetRow

(* The three UPDATE statements, by what they write. *)
LEMMA SetFailedIsSetRow ==
  ASSUME OutboxTypeOK, RetryBudget, NEW m \in Rows, NEW d \in BOOLEAN, SetFailed(m, d)
  PROVE  \/ status[m] = "NONE" /\ UNCHANGED <<status, retryCounts, backingOff>>
         \/ \E s \in Status \ {"NONE"}, b \in BOOLEAN :
              /\ SetRow(m, s, retryCounts[m] + 1, b)
              /\ s = "FAILED" => retryCounts[m] + 1 >= MaxRetry
              /\ s = "PENDING" => retryCounts[m] + 1 < MaxRetry
              /\ s = "SENT" => status[m] = "SENT"
<1>1. retryCounts[m] \in Nat /\ status[m] \in Status /\ backingOff[m] \in BOOLEAN
  BY DEF OutboxTypeOK
<1>2. CASE status[m] = "NONE" BY <1>2 DEF SetFailed, SetRow
<1>3. CASE status[m] # "NONE" /\ retryCounts[m] + 1 >= MaxRetry
  <2>1. SetRow(m, "FAILED", retryCounts[m] + 1, FALSE) BY <1>3 DEF SetFailed
  <2>2. "FAILED" \in Status \ {"NONE"} /\ FALSE \in BOOLEAN BY DEF Status
  <2> QED BY <2>1, <2>2, <1>3
<1>4. CASE status[m] # "NONE" /\ ~(retryCounts[m] + 1 >= MaxRetry) /\ Store = "mysql"
  <2>1. SetRow(m, "PENDING", retryCounts[m] + 1, d) BY <1>4 DEF SetFailed
  <2>2. "PENDING" \in Status \ {"NONE"} /\ retryCounts[m] + 1 < MaxRetry
    BY <1>1, <1>4, OutboxAssumption DEF Status
  <2> QED BY <2>1, <2>2
<1>5. CASE status[m] # "NONE" /\ ~(retryCounts[m] + 1 >= MaxRetry) /\ Store # "mysql"
  <2>1. SetRow(m, status[m], retryCounts[m] + 1, d \/ backingOff[m]) BY <1>5 DEF SetFailed
  <2>2. (d \/ backingOff[m]) \in BOOLEAN BY <1>1
  <2>3. status[m] # "FAILED" BY <1>5, <1>1, OutboxAssumption DEF RetryBudget
  <2> QED BY <2>1, <2>2, <2>3, <1>1, <1>5, OutboxAssumption
<1> QED BY <1>2, <1>3, <1>4, <1>5

(* The table after one of the three UPDATE statements. *)
RowUpdated(m) ==
  /\ status' \in [Rows -> Status]
  /\ retryCounts' \in [Rows -> Nat]
  /\ backingOff' \in [Rows -> BOOLEAN]
  /\ \A n \in Rows : status'[n] = "NONE" <=> status[n] = "NONE"
  /\ \A n \in Rows : status'[n] = "NONE" => retryCounts'[n] = retryCounts[n]
  /\ \A n \in Rows : status'[n] = "SENT" => n = m \/ status[n] = "SENT"
  /\ RetryBudget'

(* What remains to be shown for a step of a poller that leaves the table
   alone or updates one row of it. *)
LEMMA PollerStepSuffices ==
  ASSUME OutboxIInv, OutboxTypeOK', KnownRecords', Confirmed', RetryBudget', UNCHANGED rows,
         \A n \in Rows : copies'[n] >= copies[n],
         \A n \in Rows : status'[n] = "NONE" <=> status[n] = "NONE",
         \A n \in Rows : status'[n] = "NONE" => retryCounts'[n] = retryCounts[n],
         \A n \in Rows : status'[n] = "SENT" => status[n] = "SENT" \/ copies[n] > 0
  PROVE  OutboxIInv'
<1>1. BlankRows' BY DEF OutboxIInv, BlankRows
<1>2. ASSUME NEW m \in 1..rows', status'[m] \in {"NONE", "SENT"} PROVE copies'[m] > 0
  <2>1. m \in Rows /\ m \in 1..rows BY OutboxAssumption DEF OutboxIInv, OutboxTypeOK, Rows
  <2>2. status[m] \in {"NONE", "SENT"} \/ copies[m] > 0 BY <2>1, <1>2
  <2>3. copies[m] > 0 BY <2>1, <2>2 DEF OutboxIInv, NoLoss
  <2>4. copies[m] \in Nat /\ copies'[m] \in Nat BY <2>1 DEF OutboxIInv, OutboxTypeOK
  <2> QED BY <2>1, <2>3, <2>4
<1>3. NoLoss' BY <1>2 DEF NoLoss
<1> QED BY <1>1, <1>3 DEF OutboxIInv

LEMMA SetSentUpdates ==
  ASSUME OutboxTypeOK, RetryBudget, NEW m \in Rows, SetSent(m) PROVE RowUpdated(m)
<1>1. "SENT" \in Status \ {"NONE"} /\ retryCounts[m] \in Nat BY DEF OutboxTypeOK, Status
<1>2. /\ status' \in [Rows -> Status]
      /\ retryCounts' \in [Rows -> Nat]
      /\ backingOff' \in [Rows -> BOOLEAN]
      /\ \A n \in Rows : status[n] = "NONE" <=> status'[n] = "NONE"
      /\ \A n \in Rows : n # m \/ status[m] = "NONE" =>
           status'[n] = status[n] /\ retryCounts'[n] = retryCounts[n]
      /\ status[m] # "NONE" => status'[m] = "SENT" /\ retryCounts'[m] = retryCounts[m]
  BY <1>1, SetRowTyped DEF SetSent
<1>3. RetryBudget' BY <1>2 DEF RetryBudget
<1> QED BY <1>2, <1>3 DEF RowUpdated

LEMMA SetDlqUpdates ==
  ASSUME OutboxTypeOK, RetryBudget, NEW m \in Rows, SetDlq(m)
  PROVE  RowUpdated(m) /\ \A n \in Rows : status'[n] = "SENT" => status[n] = "SENT"
<1>1. "DLQ" \in Status \ {"NONE"} /\ retryCounts[m] \in Nat BY DEF OutboxTypeOK, Status
<1>2. /\ status' \in [Rows -> Status]
      /\ retryCounts' \in [Rows -> Nat]
      /\ backingOff' \in [Rows -> BOOLEAN]
      /\ \A n \in Rows : status[n] = "NONE" <=> status'[n] = "NONE"
      /\ \A n \in Rows : n # m \/ status[m] = "NONE" =>
           status'[n] = status[n] /\ retryCounts'[n] = retryCounts[n]
      /\ status[m] # "NONE" => status'[m] = "DLQ" /\ retryCounts'[m] = retryCounts[m]
  BY <1>1, SetRowTyped DEF SetDlq
<1>3. RetryBudget' BY <1>2 DEF RetryBudget
<1>4. \A n \in Rows : status'[n] = "SENT" => status[n] = "SENT" BY <1>2
<1> QED BY <1>2, <1>3, <1>4 DEF RowUpdated

LEMMA SetFailedUpdates ==
  ASSUME OutboxTypeOK, RetryBudget, NEW m \in Rows, NEW d \in BOOLEAN, SetFailed(m, d)
  PROVE  RowUpdated(m) /\ \A n \in Rows : status'[n] = "SENT" => status[n] = "SENT"
<1>1. CASE status[m] = "NONE" /\ UNCHANGED <<status, retryCounts, backingOff>>
  BY <1>1 DEF RowUpdated, RetryBudget, OutboxTypeOK
<1>2. CASE \E s \in Status \ {"NONE"}, b \in BOOLEAN :
              /\ SetRow(m, s, retryCounts[m] + 1, b)
              /\ s = "FAILED" => retryCounts[m] + 1 >= MaxRetry
              /\ s = "PENDING" => retryCounts[m] + 1 < MaxRetry
              /\ s = "SENT" => status[m] = "SENT"
  <2>1. PICK s \in Status \ {"NONE"}, b \in BOOLEAN :
              /\ SetRow(m, s, retryCounts[m] + 1, b)
              /\ s = "FAILED" => retryCounts[m] + 1 >= MaxRetry
              /\ s = "PENDING" => retryCounts[m] + 1 < MaxRetry
              /\ s = "SENT" => status[m] = "SENT"
    BY <1>2
  <2>2. retryCounts[m] + 1 \in Nat BY DEF OutboxTypeOK
  <2>3. /\ status' \in [Rows -> Status]
        /\ retryCounts' \in [Rows -> Nat]
        /\ backingOff' \in [Rows -> BOOLEAN]
        /\ \A n \in Rows : status[n] = "NONE" <=> status'[n] = "NONE"
        /\ \A n \in Rows : n # m \/ status[m] = "NONE" =>
             status'[n] = status[n] /\ retryCounts'[n] = retryCounts[n]
        /\ status[m] # "NONE" => status'[m] = s /\ retryCounts'[m] = retryCounts[m] + 1
    BY <2>1, <2>2, SetRowTyped
  <2>4. RetryBudget' BY <2>1, <2>3 DEF RetryBudget
  <2> QED BY <2>1, <2>3, <2>4 DEF RowUpdated
<1> QED BY <1>1, <1>2, SetFailedIsSetRow

(* NextRecord keeps the poller's variables well formed. *)
LEMMA NextRecordTyped ==
  ASSUME OutboxTypeOK, KnownRecords, NEW p \in Pollers, NextRecord(p), UNCHANGED rows
  PROVE  /\ pc' \in [Pollers -> PC]
         /\ todo' \in [Pollers -> SUBSET Record]
         /\ cur' \in [Pollers -> Record \union {NoRecord}]
         /\ \A q \in Pollers : cur'[q] = NoRecord <=> pc'[q] \in {"idle", "publish"}
         /\ \A q \in Pollers : pc'[q] = "markSent" => pc[q] = "markSent" /\ cur'[q] = cur[q]
         /\ KnownRecords'
  BY DEF OutboxTypeOK, KnownRecords, NextRecord, PC

----------------------------------------
(* One lemma per step of publish_pending. *)

LEMMA PollStep ==
  ASSUME OutboxIInv, NEW p \in Pollers, Poll(p)  PROVE OutboxIInv'
<1> USE DEF OutboxIInv
<1>1. PICK S \in SUBSET Eligible :
        todo' = [todo EXCEPT ![p] = {[id |-> m, retries |-> retryCounts[m]] : m \in S}]
  BY DEF Poll
<1>2. \A m \in S : m \in Rows /\ m <= rows /\ retryCounts[m] \in Nat
  BY OutboxAssumption DEF Eligible, OutboxTypeOK, BlankRows, Rows
<1>3. {[id |-> m, retries |-> retryCounts[m]] : m \in S} \in SUBSET Record BY <1>2 DEF Record
<1>4. OutboxTypeOK' BY <1>1, <1>3 DEF Poll, OutboxTypeOK, rowVars, brokerVars, PC
<1>5. KnownRecords' BY <1>1, <1>2 DEF Poll, OutboxTypeOK, KnownRecords, rowVars
<1>6. Confirmed' /\ RetryBudget'
  BY DEF Poll, OutboxTypeOK, Confirmed, RetryBudget, rowVars, brokerVars
<1> QED BY <1>4, <1>5, <1>6, PollerStepSuffices DEF Poll, rowVars, brokerVars, OutboxTypeOK

LEMMA PublishStep ==
  ASSUME OutboxIInv, NEW p \in Pollers, NEW ok \in BOOLEAN, NEW kept \in BOOLEAN,
         PublishRow(p, ok, kept)
  PROVE  OutboxIInv'
<1> USE DEF OutboxIInv
<1>1. PICK r \in todo[p] :
        /\ cur' = [cur EXCEPT ![p] = r]
        /\ todo' = [todo EXCEPT ![p] = @ \ {r}]
        /\ copies' = [copies EXCEPT ![r.id] = IF kept THEN @ + 1 ELSE @]
  BY DEF PublishRow
<1>2. r \in Record /\ r.id \in Rows /\ r.id <= rows /\ r # NoRecord
  BY DEF OutboxTypeOK, KnownRecords, Record, NoRecord, Rows
<1>3. copies' \in [Rows -> Nat] /\ \A n \in Rows : copies'[n] >= copies[n]
  BY <1>1, <1>2 DEF OutboxTypeOK
<1>4. OutboxTypeOK' BY <1>1, <1>2, <1>3 DEF PublishRow, OutboxTypeOK, rowVars, PC
<1>5. KnownRecords' BY <1>1, <1>2 DEF PublishRow, OutboxTypeOK, KnownRecords, rowVars
<1>6. Confirmed'
  <2> SUFFICES ASSUME NEW q \in Pollers, pc'[q] = "markSent" PROVE copies'[cur'[q].id] > 0
    BY DEF Confirmed
  <2>1. CASE q = p
    <3>1. ok /\ kept BY <2>1 DEF PublishRow, OutboxTypeOK
    <3> QED BY <1>1, <1>2, <2>1, <3>1 DEF OutboxTypeOK
  <2>2. CASE q # p
    <3>1. pc[q] = "markSent" /\ cur'[q] = cur[q] BY <2>2, <1>1 DEF PublishRow, OutboxTypeOK
    <3>2. cur[q].id \in Rows BY <3>1, CurIsRecord
    <3> QED BY <3>1, <3>2, <1>3 DEF Confirmed, OutboxTypeOK
  <2> QED BY <2>1, <2>2
<1>7. RetryBudget' BY DEF PublishRow, RetryBudget, rowVars
<1> QED BY <1>3, <1>4, <1>5, <1>6, <1>7, PollerStepSuffices DEF PublishRow, rowVars

LEMMA MarkSentStep ==
  ASSUME OutboxIInv, NEW p \in Pollers, MarkSent(p)  PROVE OutboxIInv'
<1> USE DEF OutboxIInv
<1>1. cur[p].id \in Rows /\ copies[cur[p].id] > 0 BY CurIsRecord DEF MarkSent, Confirmed
<1>2. RowUpdated(cur[p].id) BY <1>1, SetSentUpdates DEF MarkSent
<1>3. NextRecord(p) /\ UNCHANGED <<rows, brokerVars, aborts>> BY DEF MarkSent
<1>4. OutboxTypeOK' /\ KnownRecords'
  BY <1>2, <1>3, NextRecordTyped DEF OutboxTypeOK, RowUpdated, brokerVars
<1>5. Confirmed' BY <1>3, NextRecordTyped DEF Confirmed, brokerVars
<1> QED BY <1>1, <1>2, <1>3, <1>4, <1>5, PollerStepSuffices
        DEF RowUpdated, brokerVars, OutboxTypeOK

LEMMA MarkFailedStep ==
  ASSUME OutboxIInv, NEW p \in Pollers, MarkFailed(p)  PROVE OutboxIInv'
<1> USE DEF OutboxIInv
<1>1. cur[p].id \in Rows /\ cur[p] # NoRecord BY CurIsRecord DEF MarkFailed
<1>2. (~Exceeded(p)) \in BOOLEAN OBVIOUS
<1>3. /\ RowUpdated(cur[p].id)
      /\ \A n \in Rows : status'[n] = "SENT" => status[n] = "SENT"
  BY <1>1, <1>2, SetFailedUpdates DEF MarkFailed
<1>4. UNCHANGED <<rows, brokerVars, aborts>> BY DEF MarkFailed
<1>5. CASE NextRecord(p)
  <2>1. OutboxTypeOK' /\ KnownRecords'
    BY <1>3, <1>4, <1>5, NextRecordTyped DEF OutboxTypeOK, RowUpdated, brokerVars
  <2>2. Confirmed' BY <1>4, <1>5, NextRecordTyped DEF Confirmed, brokerVars
  <2> QED BY <1>3, <1>4, <2>1, <2>2, PollerStepSuffices
          DEF RowUpdated, brokerVars, OutboxTypeOK
<1>6. CASE pc' = [pc EXCEPT ![p] = "sendToDlq"] /\ UNCHANGED <<todo, cur>>
  <2>1. OutboxTypeOK'
    BY <1>1, <1>3, <1>4, <1>6 DEF OutboxTypeOK, RowUpdated, brokerVars, PC, MarkFailed
  <2>2. KnownRecords' /\ Confirmed'
    BY <1>4, <1>6 DEF OutboxTypeOK, KnownRecords, Confirmed, brokerVars
  <2> QED BY <1>3, <1>4, <2>1, <2>2, PollerStepSuffices
          DEF RowUpdated, brokerVars, OutboxTypeOK
<1> QED BY <1>5, <1>6 DEF MarkFailed

LEMMA SendToDlqStep ==
  ASSUME OutboxIInv, NEW p \in Pollers, NEW kept \in BOOLEAN, SendToDlq(p, kept) PROVE OutboxIInv'
<1> USE DEF OutboxIInv
<1>1. cur[p].id \in Rows /\ cur[p] # NoRecord BY CurIsRecord DEF SendToDlq
<1>2. deadLetters' \in [Rows -> Nat] /\ deadLetteredRows' \in SUBSET Rows /\ swallowed' \in SUBSET Rows
  BY <1>1 DEF SendToDlq, OutboxTypeOK
<1>3. OutboxTypeOK' BY <1>1, <1>2 DEF SendToDlq, OutboxTypeOK, rowVars, PC
<1>4. KnownRecords' /\ Confirmed' /\ RetryBudget'
  BY DEF SendToDlq, OutboxTypeOK, KnownRecords, Confirmed, RetryBudget, rowVars
<1> QED BY <1>3, <1>4, PollerStepSuffices DEF SendToDlq, rowVars, OutboxTypeOK

LEMMA MarkDlqStep ==
  ASSUME OutboxIInv, NEW p \in Pollers, MarkDlq(p)  PROVE OutboxIInv'
<1> USE DEF OutboxIInv
<1>1. cur[p].id \in Rows BY CurIsRecord DEF MarkDlq
<1>2. /\ RowUpdated(cur[p].id)
      /\ \A n \in Rows : status'[n] = "SENT" => status[n] = "SENT"
  BY <1>1, SetDlqUpdates DEF MarkDlq
<1>3. NextRecord(p) /\ UNCHANGED <<rows, brokerVars, aborts>> BY DEF MarkDlq
<1>4. OutboxTypeOK' /\ KnownRecords'
  BY <1>2, <1>3, NextRecordTyped DEF OutboxTypeOK, RowUpdated, brokerVars
<1>5. Confirmed' BY <1>3, NextRecordTyped DEF Confirmed, brokerVars
<1> QED BY <1>2, <1>3, <1>4, <1>5, PollerStepSuffices
        DEF RowUpdated, brokerVars, OutboxTypeOK

LEMMA AbortStep ==
  ASSUME OutboxIInv, NEW p \in Pollers, Abort(p)  PROVE OutboxIInv'
<1> USE DEF OutboxIInv
<1>1. OutboxTypeOK' BY OutboxAssumption DEF Abort, OutboxTypeOK, rowVars, brokerVars, PC
<1>2. KnownRecords' /\ Confirmed' /\ RetryBudget'
  BY DEF Abort, OutboxTypeOK, KnownRecords, Confirmed, RetryBudget, rowVars, brokerVars
<1> QED BY <1>1, <1>2, PollerStepSuffices DEF Abort, rowVars, brokerVars, OutboxTypeOK

----------------------------------------
LEMMA OutboxInductive == OutboxIInv /\ [OutboxNext]_outboxVars => OutboxIInv'
<1> SUFFICES ASSUME OutboxIInv, [OutboxNext]_outboxVars PROVE OutboxIInv' OBVIOUS
<1>1. CASE AppendRecord BY <1>1, StoreSteps
<1>2. ASSUME NEW p \in Pollers, PollerStep(p) PROVE OutboxIInv'
  BY <1>2, PollStep, PublishStep, MarkSentStep, MarkFailedStep, SendToDlqStep,
     MarkDlqStep DEF PollerStep
<1>3. ASSUME NEW p \in Pollers, Abort(p) PROVE OutboxIInv' BY <1>3, AbortStep
<1>4. CASE \E m \in Rows : BackoffElapsed(m) \/ DiscardDeadLetter(m) \/ RequeueDeadLetter(m)
  BY <1>4, StoreSteps
<1>5. CASE \E before \in 2..(MaxRows + 1) : Cleanup(before) BY <1>5, StoreSteps
<1>6. CASE UNCHANGED outboxVars
  BY <1>6 DEF outboxVars, rowVars, pollerVars, brokerVars, OutboxIInv, OutboxTypeOK, BlankRows,
              KnownRecords, Confirmed, NoLoss, RetryBudget
<1> QED BY <1>1, <1>2, <1>3, <1>4, <1>5, <1>6 DEF OutboxNext

LEMMA OutboxIInvHolds == OutboxSpec => []OutboxIInv
  BY OutboxInitIInv, OutboxInductive, PTL DEF OutboxSpec

(* Type correctness of the outbox in every reachable state. *)
THEOREM OutboxTypeCorrect == OutboxSpec => []OutboxTypeOK
<1>1. OutboxIInv => OutboxTypeOK BY DEF OutboxIInv
<1> QED BY <1>1, OutboxIInvHolds, PTL

(* No accepted message is lost: a row that says SENT or that was cleaned
   away belongs to a message the broker holds. *)
THEOREM NothingLost == OutboxSpec => []NoLoss
<1>1. OutboxIInv => NoLoss BY DEF OutboxIInv
<1> QED BY <1>1, OutboxIInvHolds, PTL

(* max_retry is respected although overlapping rounds decide on a
   retry_count that may be out of date. *)
THEOREM RetriesBounded == OutboxSpec => []RetryBudget
<1>1. OutboxIInv => RetryBudget BY DEF OutboxIInv
<1> QED BY <1>1, OutboxIInvHolds, PTL

----------------------------------------
(* The outbox implements the reliable hand-over of ReliableDelivery: every
   step of the table, the pollers and the consumer is a step of the
   abstract specification or changes nothing it can see. *)

(* The abstract state is unchanged. *)
Invisible ==
  /\ rows' = rows
  /\ \A n \in Rows : status'[n] = "NONE" <=> status[n] = "NONE"
  /\ \A n \in Rows : copies'[n] > 0 <=> copies[n] > 0

LEMMA InvisibleStutters ==
  ASSUME OutboxIInv, Invisible  PROVE UNCHANGED RD!rdVars
<1>1. {m \in Rows : status'[m] # "NONE"} = {m \in Rows : status[m] # "NONE"} BY DEF Invisible
<1>2. {m \in Rows : copies'[m] > 0} = {m \in Rows : copies[m] > 0} BY DEF Invisible
<1> QED BY <1>1, <1>2 DEF Invisible, RD!rdVars

LEMMA InsertAccepts ==
  ASSUME OutboxIInv, InsertRow, UNCHANGED copies  PROVE \E m \in Rows : RD!Accept(m)
<1>1. rows + 1 \in Rows /\ rows \in Nat
  BY OutboxAssumption DEF InsertRow, OutboxIInv, OutboxTypeOK, Rows
<1>2. status' = [status EXCEPT ![rows + 1] = "PENDING"] /\ rows' = rows + 1 BY DEF InsertRow
<1>3. {m \in Rows : status'[m] # "NONE"} = {m \in Rows : status[m] # "NONE"} \union {rows + 1}
  BY <1>1, <1>2 DEF OutboxIInv, OutboxTypeOK
<1>4. 1..rows' = (1..rows) \union {rows + 1} /\ rows + 1 \notin 1..rows BY <1>1, <1>2
<1> QED BY <1>1, <1>3, <1>4 DEF RD!Accept

LEMMA PublishDelivers ==
  ASSUME OutboxIInv, NEW p \in Pollers, NEW ok \in BOOLEAN, NEW kept \in BOOLEAN,
         PublishRow(p, ok, kept)
  PROVE  [RD!Next]_(RD!rdVars)
<1> USE DEF OutboxIInv
<1>1. PICK r \in todo[p] : copies' = [copies EXCEPT ![r.id] = IF kept THEN @ + 1 ELSE @]
  BY DEF PublishRow
<1>2. r.id \in Rows /\ r.id \in 1..rows BY DEF OutboxTypeOK, KnownRecords, Record, Rows
<1>3. UNCHANGED <<rows, status>> BY DEF PublishRow, rowVars
<1>4. CASE ~kept \/ copies[r.id] > 0
  <2>1. Invisible BY <1>1, <1>2, <1>3, <1>4 DEF Invisible, OutboxTypeOK
  <2> QED BY <2>1, InvisibleStutters
<1>5. CASE kept /\ ~(copies[r.id] > 0)
  <2>1. status[r.id] # "NONE" BY <1>2, <1>5 DEF NoLoss
  <2>2. {m \in Rows : copies'[m] > 0} = {m \in Rows : copies[m] > 0} \union {r.id}
    BY <1>1, <1>2, <1>5 DEF OutboxTypeOK
  <2>3. RD!Deliver(r.id) BY <1>2, <1>3, <2>1, <2>2 DEF RD!Deliver
  <2> QED BY <1>2, <2>3 DEF RD!Next
<1> QED BY <1>4, <1>5 DEF RD!Forget

LEMMA CleanupForgets ==
  ASSUME OutboxIInv, NEW before \in 2..(MaxRows + 1), Cleanup(before)
  PROVE  \E S \in SUBSET Rows : RD!Forget(S)
<1> DEFINE S == {m \in Rows : m < before /\ status[m] = "SENT"}
<1>1. UNCHANGED <<rows, copies>>
      /\ status' = [m \in Rows |-> IF m < before /\ status[m] = "SENT"
                                   THEN "NONE" ELSE status[m]]
  BY DEF Cleanup, brokerVars
<1>2. \A m \in S : m \in 1..rows /\ copies[m] > 0
  BY OutboxAssumption DEF OutboxIInv, OutboxTypeOK, BlankRows, NoLoss, Rows
<1>3. {m \in Rows : status'[m] # "NONE"} = {m \in Rows : status[m] # "NONE"} \ S BY <1>1
<1>4. RD!Forget(S) BY <1>1, <1>2, <1>3 DEF RD!Forget
<1> HIDE DEF S
<1>5. S \in SUBSET Rows BY DEF S
<1> QED BY <1>4, <1>5 DEF RD!Forget

LEMMA QuietSteps ==
  ASSUME OutboxIInv,
         \/ \E p \in Pollers :
              \/ Poll(p) \/ MarkSent(p) \/ MarkFailed(p) \/ MarkDlq(p) \/ Abort(p)
              \/ \E kept \in BOOLEAN : SendToDlq(p, kept)
         \/ \E m \in Rows : BackoffElapsed(m) \/ DiscardDeadLetter(m)
         \/ UNCHANGED outboxVars
  PROVE  Invisible
<1> USE DEF OutboxIInv
<1>1. ASSUME NEW p \in Pollers, MarkSent(p) PROVE Invisible
  BY <1>1, CurIsRecord, SetSentUpdates DEF MarkSent, RowUpdated, Invisible, brokerVars
<1>2. ASSUME NEW p \in Pollers, MarkDlq(p) PROVE Invisible
  BY <1>2, CurIsRecord, SetDlqUpdates DEF MarkDlq, RowUpdated, Invisible, brokerVars
<1>3. ASSUME NEW p \in Pollers, MarkFailed(p) PROVE Invisible
  <2>1. (~Exceeded(p)) \in BOOLEAN OBVIOUS
  <2> QED BY <1>3, <2>1, CurIsRecord, SetFailedUpdates
          DEF MarkFailed, RowUpdated, Invisible, brokerVars
<1>4. ASSUME UNCHANGED <<rows, status, copies>> PROVE Invisible BY <1>4 DEF Invisible
<1> QED BY <1>1, <1>2, <1>3, <1>4
        DEF Poll, Abort, SendToDlq, BackoffElapsed, DiscardDeadLetter, outboxVars,
            rowVars, pollerVars, brokerVars

(* Every behaviour of the outbox is one of the reliable hand-over. *)
THEOREM OutboxIsReliable == OutboxSpec => Reliable
<1>1. OutboxInit => RD!Init
  <2> SUFFICES ASSUME OutboxInit PROVE RD!Init OBVIOUS
  <2>1. 1..rows = {} BY DEF OutboxInit
  <2> QED BY <2>1 DEF OutboxInit, RD!Init
<1>2. OutboxIInv /\ [OutboxNext]_outboxVars => [RD!Next]_(RD!rdVars)
  <2> SUFFICES ASSUME OutboxIInv, [OutboxNext]_outboxVars PROVE [RD!Next]_(RD!rdVars) OBVIOUS
  <2>1. CASE AppendRecord BY <2>1, InsertAccepts DEF AppendRecord, brokerVars, RD!Next
  <2>2. ASSUME NEW m \in Rows, RequeueDeadLetter(m) PROVE RD!Next
    BY <2>2, InsertAccepts DEF RequeueDeadLetter, RD!Next
  <2>3. ASSUME NEW before \in 2..(MaxRows + 1), Cleanup(before) PROVE RD!Next
    BY <2>3, CleanupForgets DEF RD!Next
  <2>4. ASSUME NEW p \in Pollers, NEW ok \in BOOLEAN, NEW kept \in BOOLEAN, PublishRow(p, ok, kept)
        PROVE  [RD!Next]_(RD!rdVars)
    BY <2>4, PublishDelivers
  <2>5. ASSUME NEW p \in Pollers,
               \/ Poll(p) \/ MarkSent(p) \/ MarkFailed(p) \/ MarkDlq(p) \/ Abort(p)
               \/ \E kept \in BOOLEAN : SendToDlq(p, kept)
        PROVE  UNCHANGED RD!rdVars
    BY <2>5, QuietSteps, InvisibleStutters
  <2>6. ASSUME NEW m \in Rows, BackoffElapsed(m) \/ DiscardDeadLetter(m) PROVE UNCHANGED RD!rdVars
    BY <2>6, QuietSteps, InvisibleStutters
  <2>7. CASE UNCHANGED outboxVars BY <2>7, QuietSteps, InvisibleStutters
  <2> QED BY <2>1, <2>2, <2>3, <2>4, <2>5, <2>6, <2>7 DEF OutboxNext, PollerStep
<1> QED BY <1>1, <1>2, OutboxIInvHolds, PTL DEF OutboxSpec, Reliable, RD!Spec

----------------------------------------
(* One poller at a time: nothing changes a row between the query of a
   round and the update of the row, unless the round is cut short. *)

OnePoller == \E p : Pollers = {p}

Pending == {"markSent", "markFailed"}

(* A record says what is in its row. *)
Fresh(r) == status[r.id] = "PENDING" /\ r.retries = retryCounts[r.id]

FreshRecords ==
  \A p \in Pollers :
    /\ \A r \in todo[p] : Fresh(r) /\ r.id # cur[p].id
    /\ pc[p] \in Pending => Fresh(cur[p])

(* A copy of m is on the broker that no attempt counted on m accounts for. *)
Uncounted(m) ==
  \/ status[m] # "PENDING"
  \/ \E p \in Pollers : cur[p].id = m /\ pc[p] \in Pending

CopiesCounted ==
  \A m \in Rows : /\ m > rows => copies[m] = 0
                  /\ copies[m] <= aborts + retryCounts[m] + IF Uncounted(m) THEN 1 ELSE 0

Stuck == {m \in Rows : status[m] = "FAILED" /\ \A p \in Pollers : cur[p].id # m}

AloneInv == FreshRecords /\ CopiesCounted /\ Cardinality(Stuck) <= aborts

LEMMA AloneParts ==
  ASSUME OutboxIInv, AloneInv, NEW p, Pollers = {p}
  PROVE  /\ p \in Pollers /\ pc[p] \in PC /\ cur[p] \in Record \union {NoRecord}
         /\ aborts \in Nat /\ rows \in Nat
         /\ \A m \in Rows :
            /\ status[m] \in Status /\ retryCounts[m] \in Nat /\ copies[m] \in Nat
            /\ Uncounted(m) <=> \/ status[m] # "PENDING"
                                \/ cur[p].id = m /\ pc[p] \in Pending
         /\ \A r \in todo[p] : r \in Record /\ Fresh(r) /\ r.id # cur[p].id /\ r.id \in Rows
         /\ pc[p] \in Pending => Fresh(cur[p]) /\ cur[p].id \in Rows
         /\ pc[p] \notin {"idle", "publish"} => cur[p] \in Record /\ cur[p].id \in Rows
<1>1. /\ p \in Pollers /\ pc[p] \in PC /\ cur[p] \in Record \union {NoRecord}
      /\ aborts \in Nat /\ rows \in Nat /\ todo[p] \in SUBSET Record
      /\ \A m \in Rows : status[m] \in Status /\ retryCounts[m] \in Nat /\ copies[m] \in Nat
  BY OutboxAssumption DEF OutboxIInv, OutboxTypeOK
<1>2. \A m \in Rows : Uncounted(m) <=>
  \/ status[m] # "PENDING"
  \/ cur[p].id = m /\ pc[p] \in Pending
  BY DEF Uncounted
<1>3. \A r \in todo[p] : r \in Record /\ Fresh(r) /\ r.id # cur[p].id /\ r.id \in Rows
  BY <1>1 DEF AloneInv, FreshRecords, Record
<1>4. pc[p] \notin {"idle", "publish"} => cur[p] \in Record /\ cur[p].id \in Rows
  BY <1>1, CurIsRecord DEF OutboxIInv
<1>5. pc[p] \in Pending => Fresh(cur[p]) /\ cur[p].id \in Rows
  BY <1>1, <1>4 DEF AloneInv, FreshRecords, Pending
<1> QED BY <1>1, <1>2, <1>3, <1>4, <1>5

LEMMA StuckIsFinite == IsFiniteSet(Stuck) /\ Cardinality(Stuck) \in Nat
<1>1. IsFiniteSet(Rows) BY OutboxAssumption, FS_Interval DEF Rows
<1> QED BY <1>1, FS_Subset, FS_CardinalityType DEF Stuck

LEMMA StuckShrinks ==
  ASSUME Stuck' \subseteq Stuck, Cardinality(Stuck) <= aborts, aborts' = aborts, aborts \in Nat
  PROVE  Cardinality(Stuck)' <= aborts'
<1>1. Cardinality(Stuck') \in Nat /\ Cardinality(Stuck') <= Cardinality(Stuck)
  BY StuckIsFinite, FS_Subset, FS_CardinalityType
<1> QED BY <1>1, StuckIsFinite

LEMMA StuckGrows ==
  ASSUME NEW m, Stuck' \subseteq Stuck \cup {m}, Cardinality(Stuck) <= aborts,
         aborts' = aborts + 1, aborts \in Nat
  PROVE  Cardinality(Stuck)' <= aborts'
<1>1. /\ IsFiniteSet(Stuck \cup {m}) /\ Cardinality(Stuck \cup {m}) \in Nat
      /\ Cardinality(Stuck \cup {m}) <= Cardinality(Stuck) + 1
  <2> DEFINE S == Stuck
  <2>1. IsFiniteSet(S) /\ Cardinality(S) \in Nat BY StuckIsFinite
  <2> HIDE DEF S
  <2>2. /\ IsFiniteSet(S \cup {m})
        /\ Cardinality(S \cup {m}) \in {Cardinality(S), Cardinality(S) + 1}
    BY <2>1, FS_AddElement, Zenon
  <2>3. Cardinality(S \cup {m}) \in Nat /\ Cardinality(S \cup {m}) <= Cardinality(S) + 1
    BY <2>1, <2>2
  <2> QED BY <2>2, <2>3 DEF S
<1>2. Cardinality(Stuck') \in Nat /\ Cardinality(Stuck') <= Cardinality(Stuck \cup {m})
  BY <1>1, FS_Subset, FS_CardinalityType
<1> QED BY <1>1, <1>2, StuckIsFinite

(* What it takes that the copies of every row stay accounted for. *)
LEMMA CopiesStay ==
  ASSUME OutboxIInv, OutboxIInv', CopiesCounted, UNCHANGED <<rows, copies>>,
         \A m \in Rows :
           /\ retryCounts[m] + aborts <= retryCounts'[m] + aborts'
           /\ Uncounted(m) => \/ Uncounted(m)'
                              \/ retryCounts[m] + aborts + 1 <= retryCounts'[m] + aborts'
  PROVE  CopiesCounted'
<1>1. /\ aborts \in Nat /\ aborts' \in Nat
      /\ \A m \in Rows : retryCounts[m] \in Nat /\ retryCounts'[m] \in Nat /\ copies[m] \in Nat
  BY OutboxAssumption DEF OutboxIInv, OutboxTypeOK
<1> SUFFICES ASSUME NEW m \in Rows
             PROVE  /\ m > rows => copies[m] = 0
                    /\ copies[m] <= aborts' + retryCounts'[m] + IF Uncounted(m)' THEN 1 ELSE 0
  BY DEF CopiesCounted
<1>2. /\ m > rows => copies[m] = 0
      /\ copies[m] <= aborts + retryCounts[m] + IF Uncounted(m) THEN 1 ELSE 0
  BY DEF CopiesCounted
<1> DEFINE u == Uncounted(m)  v == Uncounted(m)'
<1>3. u => v \/ retryCounts[m] + aborts + 1 <= retryCounts'[m] + aborts' OBVIOUS
<1>4. copies[m] <= aborts + retryCounts[m] + IF u THEN 1 ELSE 0 BY <1>2
<1> HIDE DEF u, v
<1>5. copies[m] <= aborts' + retryCounts'[m] + IF v THEN 1 ELSE 0 BY <1>1, <1>3, <1>4
<1> QED BY <1>2, <1>5 DEF v

(* A step that only changes what no record is about. *)
LEMMA StillAlone ==
  ASSUME AloneInv, OutboxIInv, UNCHANGED <<rows, status, retryCounts, pc, todo, cur, copies, aborts>>
  PROVE  AloneInv'
  BY DEF AloneInv, FreshRecords, Fresh, CopiesCounted, Uncounted, Stuck

LEMMA InsertAlone ==
  ASSUME OutboxIInv, OutboxIInv', AloneInv, OnePoller, InsertRow, UNCHANGED <<pc, todo, cur, copies, aborts>>
  PROVE  AloneInv'
<1>1. PICK p : Pollers = {p} BY DEF OnePoller
<1>2. /\ rows' = rows + 1 /\ rows + 1 \in Rows /\ retryCounts' = retryCounts
      /\ status' = [status EXCEPT ![rows + 1] = "PENDING"] /\ status \in [Rows -> Status]
      /\ rows \in Nat
  BY OutboxAssumption DEF InsertRow, OutboxIInv, OutboxTypeOK, Rows
<1>3. status[rows + 1] = "NONE" /\ copies[rows + 1] = 0 /\ retryCounts[rows + 1] = 0
  BY <1>2 DEF OutboxIInv, BlankRows, AloneInv, CopiesCounted
<1>4. /\ status'[rows + 1] = "PENDING"
      /\ \A m \in Rows \ {rows + 1} : status'[m] = status[m]
  BY <1>2
<1>5. FreshRecords'
  <2>1. \A r \in todo[p] : r.id # rows + 1 BY <1>1, <1>3, AloneParts DEF Fresh
  <2>2. pc[p] \in Pending => cur[p].id # rows + 1 BY <1>1, <1>3, AloneParts DEF Fresh
  <2> QED BY <1>1, <1>2, <1>4, <2>1, <2>2, AloneParts DEF FreshRecords, Fresh
<1>6. CopiesCounted'
  <2> SUFFICES ASSUME NEW m \in Rows
               PROVE  /\ m > rows' => copies'[m] = 0
                      /\ copies'[m] <= aborts' + retryCounts'[m] + IF Uncounted(m)' THEN 1 ELSE 0
    BY DEF CopiesCounted
  <2>1. /\ m > rows => copies[m] = 0
        /\ copies[m] <= aborts + retryCounts[m] + IF Uncounted(m) THEN 1 ELSE 0
    BY DEF AloneInv, CopiesCounted
  <2>2. m > rows' => copies'[m] = 0 BY <1>2, <2>1 DEF Rows
  <2>3. CASE m = rows + 1
    <3>1. aborts \in Nat /\ copies'[m] = 0 /\ retryCounts'[m] = 0 /\ aborts' = aborts
      BY <1>1, <1>2, <1>3, <2>3, AloneParts
    <3> QED BY <2>2, <3>1
  <2>4. CASE m # rows + 1
    <3>1. Uncounted(m)' <=> Uncounted(m) BY <1>4, <2>4 DEF Uncounted
    <3> QED BY <1>2, <2>1, <2>2, <3>1
  <2> QED BY <2>3, <2>4
<1>7. Stuck' \subseteq Stuck BY <1>4 DEF Stuck
<1> QED BY <1>1, <1>5, <1>6, <1>7, StuckShrinks, AloneParts DEF AloneInv

LEMMA CleanupAlone ==
  ASSUME OutboxIInv, OutboxIInv', AloneInv, OnePoller, NEW before \in 2..(MaxRows + 1), Cleanup(before)
  PROVE  AloneInv'
<1>1. PICK p : Pollers = {p} BY DEF OnePoller
<1>2. UNCHANGED <<rows, retryCounts, pc, todo, cur, copies, aborts>>
  BY DEF Cleanup, pollerVars, brokerVars
<1>3. \A m \in Rows :
  \/ status'[m] = status[m]
  \/ status[m] = "SENT" /\ status'[m] = "NONE"
  BY DEF Cleanup
<1>4. FreshRecords' BY <1>1, <1>2, <1>3, AloneParts DEF FreshRecords, Fresh
<1>5. CopiesCounted'
  <2>1. \A m \in Rows : Uncounted(m) => Uncounted(m)' BY <1>2, <1>3 DEF Uncounted
  <2>2. \A m \in Rows : retryCounts[m] + aborts <= retryCounts'[m] + aborts'
    BY <1>1, <1>2, AloneParts
  <2> QED BY <1>2, <2>1, <2>2, CopiesStay DEF AloneInv
<1>6. Stuck' \subseteq Stuck BY <1>2, <1>3 DEF Stuck
<1> QED BY <1>1, <1>2, <1>4, <1>5, <1>6, StuckShrinks, AloneParts DEF AloneInv

LEMMA PollAlone ==
  ASSUME OutboxIInv, OutboxIInv', AloneInv, NEW p, Pollers = {p}, Poll(p) PROVE AloneInv'
<1>1. PICK S \in SUBSET Eligible :
        todo' = [todo EXCEPT ![p] = {[id |-> m, retries |-> retryCounts[m]] : m \in S}]
  BY DEF Poll
<1>2. /\ UNCHANGED <<rows, status, retryCounts, cur, copies, aborts>> /\ pc[p] = "idle"
      /\ pc' = [pc EXCEPT ![p] = "publish"] /\ p \in Pollers
      /\ todo \in [Pollers -> SUBSET Record] /\ pc \in [Pollers -> PC]
  BY DEF Poll, rowVars, brokerVars, OutboxIInv, OutboxTypeOK
<1>3. pc'[p] = "publish" /\ todo'[p] = {[id |-> m, retries |-> retryCounts[m]] : m \in S}
  BY <1>1, <1>2
<1>4. cur[p] = NoRecord BY <1>2 DEF OutboxIInv, OutboxTypeOK
<1>5. FreshRecords'
  <2>1. \A r \in todo'[p] : r.id \in Eligible /\ r.retries = retryCounts[r.id] BY <1>3
  <2>2. \A r \in todo'[p] : r.id # cur[p].id
    BY <1>4, <2>1, OutboxAssumption DEF Eligible, Rows, NoRecord
  <2> QED BY <1>2, <1>3, <2>1, <2>2 DEF FreshRecords, Fresh, Pending, Eligible
<1>6. CopiesCounted'
  <2>1. \A m \in Rows : Uncounted(m) => Uncounted(m)' BY <1>2 DEF Uncounted, Pending
  <2>2. \A m \in Rows : retryCounts[m] + aborts <= retryCounts'[m] + aborts' BY <1>2, AloneParts
  <2> QED BY <1>2, <2>1, <2>2, CopiesStay DEF AloneInv
<1>7. Stuck' \subseteq Stuck BY <1>2 DEF Stuck
<1> QED BY <1>2, <1>5, <1>6, <1>7, StuckShrinks, AloneParts DEF AloneInv

LEMMA PublishAlone ==
  ASSUME OutboxIInv, OutboxIInv', AloneInv, NEW p, Pollers = {p}, NEW ok \in BOOLEAN, NEW kept \in BOOLEAN,
         PublishRow(p, ok, kept)
  PROVE  AloneInv'
<1>1. PICK r \in todo[p] :
        /\ cur' = [cur EXCEPT ![p] = r]
        /\ todo' = [todo EXCEPT ![p] = @ \ {r}]
        /\ copies' = [copies EXCEPT ![r.id] = IF kept THEN @ + 1 ELSE @]
  BY DEF PublishRow
<1>2. /\ UNCHANGED <<rows, status, retryCounts, aborts>> /\ pc[p] = "publish"
      /\ pc' = [pc EXCEPT ![p] = IF ok THEN "markSent" ELSE "markFailed"]
      /\ todo \in [Pollers -> SUBSET Record] /\ pc \in [Pollers -> PC]
      /\ cur \in [Pollers -> Record \union {NoRecord}] /\ copies \in [Rows -> Nat]
      /\ p \in Pollers
  BY DEF PublishRow, rowVars, OutboxIInv, OutboxTypeOK
<1>3. pc'[p] \in Pending /\ todo'[p] = todo[p] \ {r} /\ cur'[p] = r BY <1>1, <1>2 DEF Pending
<1>4. r \in Record /\ Fresh(r) /\ r.id \in Rows /\ r.id <= rows
  BY <1>1, <1>2, AloneParts DEF OutboxIInv, KnownRecords
<1>5. FreshRecords'
  <2>1. \A q \in todo[p] \ {r} : q.id # r.id
    <3> TAKE q \in todo[p] \ {r}
    <3>1. /\ q \in Record /\ Fresh(q) /\ q # r BY AloneParts
    <3>2. q = [id |-> q.id, retries |-> q.retries] /\ r = [id |-> r.id, retries |-> r.retries]
      BY <1>4, <3>1 DEF Record
    <3> QED BY <1>4, <3>1, <3>2 DEF Fresh
  <2>2. \A q \in todo[p] : Fresh(q) BY AloneParts
  <2> QED BY <1>2, <1>3, <1>4, <2>1, <2>2 DEF FreshRecords, Fresh
<1>6. CopiesCounted'
  <2> SUFFICES ASSUME NEW m \in Rows
               PROVE  /\ m > rows' => copies'[m] = 0
                      /\ copies'[m] <= aborts' + retryCounts'[m] + IF Uncounted(m)' THEN 1 ELSE 0
    BY DEF CopiesCounted
  <2>1. /\ m > rows => copies[m] = 0
        /\ copies[m] <= aborts + retryCounts[m] + IF Uncounted(m) THEN 1 ELSE 0
        /\ copies[m] \in Nat /\ retryCounts[m] \in Nat /\ aborts \in Nat
    BY AloneParts DEF AloneInv, CopiesCounted
  <2>2. CASE m = r.id
    <3>1. ~Uncounted(m) BY <1>2, <1>4, <2>2, AloneParts DEF Fresh, Pending
    <3>2. Uncounted(m)' BY <1>2, <1>3, <2>2 DEF Uncounted
    <3>3. copies'[m] \in {copies[m], copies[m] + 1} BY <1>1, <1>2, <2>2
    <3>4. copies'[m] <= aborts' + retryCounts'[m] + 1 BY <1>2, <2>1, <3>1, <3>3
    <3>5. ~(m > rows) BY <1>2, <1>4, <2>2, OutboxAssumption DEF Rows, OutboxIInv, OutboxTypeOK
    <3> QED BY <1>2, <3>2, <3>4, <3>5
  <2>3. CASE m # r.id
    <3>1. copies'[m] = copies[m] BY <1>1, <1>2, <2>3
    <3>2. Uncounted(m) => Uncounted(m)' BY <1>2, AloneParts DEF Uncounted, Pending
    <3> DEFINE u == Uncounted(m)  v == Uncounted(m)'
    <3>3. (u => v) /\ copies[m] <= aborts + retryCounts[m] + IF u THEN 1 ELSE 0 BY <2>1, <3>2
    <3> HIDE DEF u, v
    <3>4. copies'[m] <= aborts' + retryCounts'[m] + IF v THEN 1 ELSE 0 BY <1>2, <2>1, <3>1, <3>3
    <3> QED BY <1>2, <2>1, <3>1, <3>4 DEF v
  <2> QED BY <2>2, <2>3
<1>7. Stuck' \subseteq Stuck
  <2> SUFFICES ASSUME NEW m \in Rows, status[m] = "FAILED", cur'[p].id # m PROVE m \in Stuck
    BY <1>2 DEF Stuck
  <2>1. cur[p] = NoRecord BY <1>2 DEF OutboxIInv, OutboxTypeOK
  <2>2. cur[p].id # m BY <2>1, OutboxAssumption DEF NoRecord, Rows
  <2> QED BY <2>2 DEF Stuck
<1> QED BY <1>2, <1>5, <1>6, <1>7, StuckShrinks, AloneParts DEF AloneInv

(* The update of the row of the record at hand. *)
LEMMA RowOfCur ==
  ASSUME OutboxIInv, NEW m \in Rows, NEW s, NEW c, NEW b, SetRow(m, s, c, b)
  PROVE  /\ \A n \in Rows \ {m} : status'[n] = status[n] /\ retryCounts'[n] = retryCounts[n]
         /\ status[m] # "NONE" => status'[m] = s /\ retryCounts'[m] = c
         /\ status[m] = "NONE" => status'[m] = "NONE" /\ retryCounts'[m] = retryCounts[m]
  BY DEF OutboxIInv, OutboxTypeOK, SetRow

(* The records left to a round are not about the row just updated. *)
LEMMA OthersFresh ==
  ASSUME OutboxIInv, AloneInv, NEW p, Pollers = {p},
         \A n \in Rows \ {cur[p].id} : status'[n] = status[n] /\ retryCounts'[n] = retryCounts[n],
         todo' = todo, cur'[p] \in {cur[p], NoRecord}, pc'[p] \notin Pending
  PROVE  FreshRecords'
<1>1. \A r \in todo[p] : r.id # cur'[p].id BY AloneParts, OutboxAssumption DEF NoRecord, Rows
<1>2. \A r \in todo[p] : status'[r.id] = "PENDING" /\ r.retries = retryCounts'[r.id]
  BY AloneParts DEF Fresh
<1> QED BY <1>1, <1>2 DEF FreshRecords, Fresh

LEMMA NextRecordMoves ==
  ASSUME OutboxIInv, NEW p \in Pollers, NextRecord(p)
  PROVE  /\ pc'[p] \in {"idle", "publish"} /\ pc'[p] \notin Pending
         /\ cur'[p] = NoRecord /\ todo' = todo
  BY DEF OutboxIInv, OutboxTypeOK, NextRecord, Pending

LEMMA MarkSentAlone ==
  ASSUME OutboxIInv, OutboxIInv', AloneInv, NEW p, Pollers = {p}, MarkSent(p) PROVE AloneInv'
<1> DEFINE m == cur[p].id
<1>1. /\ pc[p] = "markSent" /\ NextRecord(p) /\ UNCHANGED <<rows, copies, aborts>>
      /\ SetRow(m, "SENT", retryCounts[m], FALSE)
  BY DEF MarkSent, SetSent, brokerVars
<1>2. m \in Rows /\ Fresh(cur[p]) /\ p \in Pollers BY <1>1, AloneParts DEF Pending
<1>3. /\ \A n \in Rows \ {m} : status'[n] = status[n] /\ retryCounts'[n] = retryCounts[n]
      /\ status'[m] = "SENT" /\ retryCounts'[m] = retryCounts[m]
  BY <1>1, <1>2, RowOfCur DEF Fresh
<1>4. pc'[p] \notin Pending /\ cur'[p] = NoRecord /\ todo' = todo BY <1>1, <1>2, NextRecordMoves
<1>5. FreshRecords' BY <1>3, <1>4, OthersFresh
<1>6. CopiesCounted'
  <2>1. \A n \in Rows : Uncounted(n) => Uncounted(n)' BY <1>3, AloneParts DEF Uncounted
  <2>2. \A n \in Rows : retryCounts[n] + aborts <= retryCounts'[n] + aborts'
    BY <1>1, <1>3, AloneParts
  <2> QED BY <1>1, <2>1, <2>2, CopiesStay DEF AloneInv
<1>7. Stuck' \subseteq Stuck BY <1>3 DEF Stuck
<1> QED BY <1>1, <1>5, <1>6, <1>7, StuckShrinks, AloneParts DEF AloneInv

LEMMA MarkDlqAlone ==
  ASSUME OutboxIInv, OutboxIInv', AloneInv, NEW p, Pollers = {p}, MarkDlq(p) PROVE AloneInv'
<1> DEFINE m == cur[p].id
<1>1. /\ pc[p] = "markDlq" /\ NextRecord(p) /\ UNCHANGED <<rows, copies, aborts>>
      /\ SetRow(m, "DLQ", retryCounts[m], FALSE)
  BY DEF MarkDlq, SetDlq, brokerVars
<1>2. m \in Rows /\ p \in Pollers BY <1>1, AloneParts
<1>3. /\ \A n \in Rows \ {m} : status'[n] = status[n] /\ retryCounts'[n] = retryCounts[n]
      /\ status'[m] \in {"DLQ", "NONE"} /\ retryCounts'[m] = retryCounts[m]
  <2> HIDE DEF m
  <2>1. /\ \A n \in Rows \ {m} : status'[n] = status[n] /\ retryCounts'[n] = retryCounts[n]
        /\ status[m] # "NONE" => status'[m] = "DLQ" /\ retryCounts'[m] = retryCounts[m]
        /\ status[m] = "NONE" => status'[m] = "NONE" /\ retryCounts'[m] = retryCounts[m]
    BY <1>1, <1>2, RowOfCur
  <2> QED BY <2>1
<1>4. pc'[p] \notin Pending /\ cur'[p] = NoRecord /\ todo' = todo BY <1>1, <1>2, NextRecordMoves
<1>5. FreshRecords' BY <1>3, <1>4, OthersFresh
<1>6. CopiesCounted'
  <2>1. \A n \in Rows : Uncounted(n) => Uncounted(n)'
    BY <1>1, <1>3, AloneParts DEF Uncounted, Pending
  <2>2. \A n \in Rows : retryCounts[n] + aborts <= retryCounts'[n] + aborts'
    BY <1>1, <1>3, AloneParts
  <2> QED BY <1>1, <2>1, <2>2, CopiesStay DEF AloneInv
<1>7. Stuck' \subseteq Stuck BY <1>3 DEF Stuck
<1> QED BY <1>1, <1>5, <1>6, <1>7, StuckShrinks, AloneParts DEF AloneInv

LEMMA MarkFailedAlone ==
  ASSUME OutboxIInv, OutboxIInv', AloneInv, NEW p, Pollers = {p}, MarkFailed(p) PROVE AloneInv'
<1> DEFINE m == cur[p].id
<1>1. /\ pc[p] = "markFailed" /\ UNCHANGED <<rows, copies, aborts>> /\ SetFailed(m, ~Exceeded(p))
      /\ \/ Exceeded(p) /\ pc' = [pc EXCEPT ![p] = "sendToDlq"] /\ UNCHANGED <<todo, cur>>
         \/ ~Exceeded(p) /\ NextRecord(p)
  BY DEF MarkFailed, brokerVars
<1>2. m \in Rows /\ status[m] = "PENDING" /\ cur[p].retries = retryCounts[m] /\ p \in Pollers
  BY <1>1, AloneParts DEF Pending, Fresh
<1>3. /\ \A n \in Rows \ {m} : status'[n] = status[n] /\ retryCounts'[n] = retryCounts[n]
      /\ retryCounts'[m] = retryCounts[m] + 1
      /\ status'[m] = IF Exceeded(p) THEN "FAILED" ELSE "PENDING"
  <2>1. Exceeded(p) <=> retryCounts[m] + 1 >= MaxRetry BY <1>2 DEF Exceeded, SeenRetries
  <2>2. CASE Exceeded(p)
    <3>1. SetRow(m, "FAILED", retryCounts[m] + 1, FALSE) BY <1>1, <2>1, <2>2 DEF SetFailed
    <3> HIDE DEF m
    <3>2. /\ \A n \in Rows \ {m} : status'[n] = status[n] /\ retryCounts'[n] = retryCounts[n]
          /\ status'[m] = "FAILED" /\ retryCounts'[m] = retryCounts[m] + 1
      BY <1>2, <3>1, RowOfCur
    <3> QED BY <2>2, <3>2
  <2>3. CASE ~Exceeded(p)
    <3>1. \E b : SetRow(m, "PENDING", retryCounts[m] + 1, b) BY <1>1, <1>2, <2>1, <2>3 DEF SetFailed
    <3> QED BY <1>2, <2>3, <3>1, RowOfCur
  <2> QED BY <2>2, <2>3
<1>4. /\ pc'[p] \notin Pending /\ cur'[p] \in {cur[p], NoRecord} /\ todo' = todo
      /\ Exceeded(p) => cur'[p] = cur[p]
  <2>1. CASE Exceeded(p) BY <1>1, <2>1 DEF OutboxIInv, OutboxTypeOK, Pending
  <2>2. CASE ~Exceeded(p) BY <1>1, <1>2, <2>2, NextRecordMoves
  <2> QED BY <2>1, <2>2
<1>5. FreshRecords' BY <1>3, <1>4, OthersFresh
<1>6. CopiesCounted'
  <2>1. \A n \in Rows : Uncounted(n) => n = m \/ Uncounted(n)' BY <1>3, AloneParts DEF Uncounted
  <2>2. \A n \in Rows : retryCounts[n] + aborts <= retryCounts'[n] + aborts'
    BY <1>1, <1>3, AloneParts
  <2>3. retryCounts[m] + aborts + 1 <= retryCounts'[m] + aborts' BY <1>1, <1>2, <1>3, AloneParts
  <2> HIDE DEF m
  <2> QED BY <1>1, <2>1, <2>2, <2>3, CopiesStay DEF AloneInv
<1>7. Stuck' \subseteq Stuck
  <2> SUFFICES ASSUME NEW n \in Rows, status'[n] = "FAILED", cur'[p].id # n PROVE n \in Stuck
    BY DEF Stuck
  <2>1. n # m BY <1>3, <1>4
  <2> QED BY <1>3, <2>1 DEF Stuck
<1> QED BY <1>1, <1>5, <1>6, <1>7, StuckShrinks, AloneParts DEF AloneInv

LEMMA SendToDlqAlone ==
  ASSUME OutboxIInv, OutboxIInv', AloneInv, NEW p, Pollers = {p}, NEW kept \in BOOLEAN, SendToDlq(p, kept)
  PROVE  AloneInv'
<1>1. /\ UNCHANGED <<rows, status, retryCounts, todo, cur, copies, aborts>>
      /\ pc[p] = "sendToDlq" /\ pc'[p] = "markDlq" /\ p \in Pollers
  BY DEF SendToDlq, rowVars, OutboxIInv, OutboxTypeOK
<1>2. FreshRecords' BY <1>1 DEF FreshRecords, Fresh, Pending, AloneInv
<1>3. CopiesCounted'
  <2>1. \A n \in Rows : Uncounted(n) => Uncounted(n)' BY <1>1 DEF Uncounted, Pending
  <2>2. \A n \in Rows : retryCounts[n] + aborts <= retryCounts'[n] + aborts' BY <1>1, AloneParts
  <2> QED BY <1>1, <2>1, <2>2, CopiesStay DEF AloneInv
<1>4. Stuck' \subseteq Stuck BY <1>1 DEF Stuck
<1> QED BY <1>1, <1>2, <1>3, <1>4, StuckShrinks, AloneParts DEF AloneInv

LEMMA AbortAlone ==
  ASSUME OutboxIInv, OutboxIInv', AloneInv, NEW p, Pollers = {p}, Abort(p) PROVE AloneInv'
<1>1. /\ UNCHANGED <<rows, status, retryCounts, copies>> /\ aborts' = aborts + 1
      /\ pc'[p] = "idle" /\ todo'[p] = {} /\ cur'[p] = NoRecord
  BY DEF Abort, rowVars, brokerVars, OutboxIInv, OutboxTypeOK
<1>2. FreshRecords' BY <1>1 DEF FreshRecords, Pending
<1>3. CopiesCounted'
  <2>0. /\ \A n \in Rows : retryCounts[n] \in Nat
        /\ retryCounts' = retryCounts /\ aborts' = aborts + 1 /\ aborts \in Nat
    <3>1. \A n \in Rows : retryCounts[n] \in Nat BY DEF OutboxIInv, OutboxTypeOK
    <3> QED BY <1>1, <3>1, AloneParts
  <2>1. \A n \in Rows : retryCounts[n] + aborts + 1 <= retryCounts'[n] + aborts' BY <2>0
  <2>2. \A n \in Rows : retryCounts[n] + aborts <= retryCounts'[n] + aborts' BY <2>0
  <2> QED BY <1>1, <2>1, <2>2, CopiesStay DEF AloneInv
<1>4. Stuck' \subseteq Stuck \cup {cur[p].id} BY <1>1 DEF Stuck
<1> QED BY <1>1, <1>2, <1>3, <1>4, StuckGrows, AloneParts DEF AloneInv

LEMMA AloneInductive ==
  ASSUME OnePoller PROVE OutboxIInv /\ AloneInv /\ [OutboxNext]_outboxVars => AloneInv'
<1> SUFFICES ASSUME OutboxIInv, AloneInv, [OutboxNext]_outboxVars PROVE AloneInv' OBVIOUS
<1>1. PICK p : Pollers = {p} BY DEF OnePoller
<1>2. OutboxIInv' BY OutboxInductive
<1>3. CASE AppendRecord BY <1>2, <1>3, InsertAlone DEF AppendRecord, pollerVars, brokerVars
<1>4. CASE PollerStep(p)
  BY <1>1, <1>2, <1>4, PollAlone, PublishAlone, MarkSentAlone, MarkFailedAlone, SendToDlqAlone,
     MarkDlqAlone DEF PollerStep
<1>5. CASE Abort(p) BY <1>1, <1>2, <1>5, AbortAlone
<1>6. CASE \E m \in Rows : BackoffElapsed(m) \/ DiscardDeadLetter(m)
  BY <1>6, StillAlone DEF BackoffElapsed, DiscardDeadLetter, rowVars, pollerVars, brokerVars
<1>7. CASE \E m \in Rows : RequeueDeadLetter(m)
  BY <1>2, <1>7, InsertAlone DEF RequeueDeadLetter, pollerVars
<1>8. CASE \E before \in 2..(MaxRows + 1) : Cleanup(before) BY <1>2, <1>8, CleanupAlone
<1>9. CASE UNCHANGED outboxVars BY <1>9, StillAlone DEF outboxVars, rowVars, pollerVars, brokerVars
<1> QED BY <1>1, <1>3, <1>4, <1>5, <1>6, <1>7, <1>8, <1>9 DEF OutboxNext

LEMMA InitAlone == OutboxInit => AloneInv
<1> SUFFICES ASSUME OutboxInit PROVE AloneInv OBVIOUS
<1>1. FreshRecords /\ CopiesCounted
  BY DEF OutboxInit, FreshRecords, CopiesCounted, Uncounted, Pending, Rows
<1>2. Stuck = {} /\ aborts = 0 BY DEF OutboxInit, Stuck
<1> QED BY <1>1, <1>2, FS_EmptySet DEF AloneInv

(* A row is marked DLQ by a poller that tried its dead letter before. *)
DlqInv == DlqExplained /\ \A p \in Pollers : pc[p] = "markDlq" => Tried(cur[p].id)

LEMMA DlqInductive ==
  ASSUME OutboxIInv, DlqInv, [OutboxNext]_outboxVars PROVE DlqInv'
<1> USE DEF DlqInv, DlqExplained, Tried
<1>1. CASE \/ AppendRecord
           \/ \E m \in Rows : BackoffElapsed(m) \/ DiscardDeadLetter(m) \/ RequeueDeadLetter(m)
           \/ \E before \in 2..(MaxRows + 1) : Cleanup(before)
           \/ UNCHANGED outboxVars
  BY <1>1 DEF AppendRecord, BackoffElapsed, DiscardDeadLetter, RequeueDeadLetter, Cleanup, InsertRow,
     outboxVars, rowVars, pollerVars, brokerVars, OutboxIInv, OutboxTypeOK
<1>2. ASSUME NEW p \in Pollers, PollerStep(p) \/ Abort(p) PROVE DlqInv'
  <2> USE DEF OutboxIInv, OutboxTypeOK
  <2>1. CASE Poll(p) BY <2>1 DEF Poll, rowVars, brokerVars
  <2>2. CASE \E ok, kept \in BOOLEAN : PublishRow(p, ok, kept) BY <2>2 DEF PublishRow, rowVars
  <2>3. CASE MarkSent(p) BY <2>3, CurIsRecord DEF MarkSent, SetSent, SetRow, NextRecord, brokerVars
  <2>4. CASE MarkFailed(p)
    <3>1. \A m \in Rows : status'[m] = "DLQ" => status[m] = "DLQ"
      BY <2>4, CurIsRecord DEF MarkFailed, SetFailed, SetRow
    <3> QED BY <2>4, <3>1, CurIsRecord DEF MarkFailed, NextRecord, brokerVars
  <2>5. CASE \E kept \in BOOLEAN : SendToDlq(p, kept) BY <2>5, CurIsRecord DEF SendToDlq, rowVars
  <2>6. CASE MarkDlq(p) BY <2>6, CurIsRecord DEF MarkDlq, SetDlq, SetRow, NextRecord, brokerVars
  <2>7. CASE Abort(p) BY <2>7 DEF Abort, rowVars, brokerVars
  <2> QED BY <1>2, <2>1, <2>2, <2>3, <2>4, <2>5, <2>6, <2>7 DEF PollerStep
<1> QED BY <1>1, <1>2 DEF OutboxNext

LEMMA AloneExplains == OutboxIInv /\ AloneInv /\ DlqInv => AbortsExplain
<1> SUFFICES ASSUME OutboxIInv, AloneInv, DlqInv PROVE AbortsExplain OBVIOUS
<1>1. DuplicatesExplained
  <2> SUFFICES ASSUME NEW m \in Rows PROVE copies[m] <= 1 + aborts + retryCounts[m]
    BY DEF DuplicatesExplained
  <2>1. /\ copies[m] <= aborts + retryCounts[m] + IF Uncounted(m) THEN 1 ELSE 0
        /\ copies[m] \in Nat /\ aborts \in Nat /\ retryCounts[m] \in Nat
    BY OutboxAssumption DEF AloneInv, CopiesCounted, OutboxIInv, OutboxTypeOK
  <2> QED BY <2>1
<1>2. StuckExplained BY DEF AloneInv, Stuck, StuckExplained
<1> QED BY <1>1, <1>2 DEF AbortsExplain, DlqInv

(* With one poller at a time, rounds that were cut short and attempts that
   were counted account for every further copy of a message and for every
   row left FAILED (publish_pending), and for every DLQ row a dead letter
   was published or its failure swallowed.  With two pollers the first two
   are not so. *)
THEOREM AbortsAccount ==
  ASSUME OnePoller PROVE OutboxSpec => []AbortsExplain
<1>1. OutboxIInv /\ AloneInv /\ [OutboxNext]_outboxVars => AloneInv' BY OnePoller, AloneInductive
<1>2. OutboxInit => DlqInv BY DEF OutboxInit, DlqInv, DlqExplained
<1>3. OutboxIInv /\ DlqInv /\ [OutboxNext]_outboxVars => DlqInv' BY DlqInductive
<1> QED BY <1>1, <1>2, <1>3, InitAlone, AloneExplains, OutboxIInvHolds, PTL DEF OutboxSpec

----------------------------------------
(* What is settled stays settled, with one poller at a time. *)

(* A row is FAILED while its poller gives it up. *)
GivingUp ==
  \A p \in Pollers : pc[p] \in {"sendToDlq", "markDlq"} => status[cur[p].id] = "FAILED"

SettledStep ==
  \A m \in Rows : status[m] \in {"SENT", "DLQ"} =>
    status'[m] = status[m] \/ (status[m] = "SENT" /\ status'[m] = "NONE")

(* What MarkFailed does to the row of its record, with one poller. *)
LEMMA MarkFailedRow ==
  ASSUME OutboxIInv, AloneInv, NEW p, Pollers = {p}, MarkFailed(p)
  PROVE  /\ cur[p].id \in Rows /\ status[cur[p].id] = "PENDING"
         /\ \A n \in Rows \ {cur[p].id} : status'[n] = status[n]
         /\ Exceeded(p) => status'[cur[p].id] = "FAILED" /\ cur' = cur
         /\ ~Exceeded(p) => pc'[p] \in {"idle", "publish"}
<1> DEFINE m == cur[p].id
<1>1. /\ pc[p] = "markFailed" /\ SetFailed(m, ~Exceeded(p))
      /\ \/ Exceeded(p) /\ UNCHANGED cur
         \/ ~Exceeded(p) /\ NextRecord(p)
  BY DEF MarkFailed
<1>2. m \in Rows /\ status[m] = "PENDING" /\ cur[p].retries = retryCounts[m] /\ p \in Pollers
  BY <1>1, AloneParts DEF Pending, Fresh
<1>3. Exceeded(p) <=> retryCounts[m] + 1 >= MaxRetry BY <1>2 DEF Exceeded, SeenRetries
<1>4. \E s, b : SetRow(m, s, retryCounts[m] + 1, b) /\ (Exceeded(p) => s = "FAILED")
  BY <1>1, <1>3 DEF SetFailed
<1>5. ~Exceeded(p) => pc'[p] \in {"idle", "publish"} BY <1>1, <1>2, NextRecordMoves
<1>6. PICK s, b : SetRow(m, s, retryCounts[m] + 1, b) /\ (Exceeded(p) => s = "FAILED") BY <1>4
<1> HIDE DEF m
<1>7. /\ \A n \in Rows \ {m} : status'[n] = status[n]
      /\ status'[m] = s
  BY <1>2, <1>6, RowOfCur
<1> QED BY <1>1, <1>2, <1>5, <1>6, <1>7 DEF m

LEMMA SettledSteps ==
  ASSUME OnePoller, OutboxIInv, AloneInv, GivingUp, [OutboxNext]_outboxVars
  PROVE  GivingUp' /\ SettledStep
<1>1. PICK p : Pollers = {p} BY DEF OnePoller
<1>2. /\ p \in Pollers /\ status \in [Rows -> Status] /\ pc \in [Pollers -> PC]
      /\ pc[p] \in {"sendToDlq", "markDlq"} => status[cur[p].id] = "FAILED" /\ cur[p].id \in Rows
  BY <1>1, AloneParts DEF OutboxIInv, OutboxTypeOK, GivingUp
<1>3. CASE InsertRow /\ UNCHANGED <<pc, cur>>
  <2>1. status[rows + 1] = "NONE" /\ status' = [status EXCEPT ![rows + 1] = "PENDING"]
    BY <1>3, OutboxAssumption DEF InsertRow, OutboxIInv, OutboxTypeOK, BlankRows, Rows
  <2>2. \A m \in Rows : status[m] # "NONE" => status'[m] = status[m] BY <1>2, <2>1
  <2> QED BY <1>1, <1>2, <1>3, <2>2 DEF GivingUp, SettledStep
<1>4. CASE UNCHANGED <<status, pc, cur>> BY <1>4 DEF GivingUp, SettledStep
<1>5. CASE \E before \in 2..(MaxRows + 1) : Cleanup(before)
  <2>1. UNCHANGED <<pc, cur>> /\ \A m \in Rows : \/ status'[m] = status[m]
                                                 \/ status[m] = "SENT" /\ status'[m] = "NONE"
    BY <1>5 DEF Cleanup, pollerVars
  <2> QED BY <1>1, <1>2, <2>1 DEF GivingUp, SettledStep
<1>6. CASE Poll(p) \/ (\E ok, kept \in BOOLEAN : PublishRow(p, ok, kept)) \/ Abort(p)
  <2>1. status' = status /\ pc'[p] \in {"publish", "markSent", "markFailed", "idle"}
    BY <1>2, <1>6 DEF Poll, PublishRow, Abort, rowVars
  <2> QED BY <1>1, <2>1 DEF GivingUp, SettledStep
<1>7. CASE MarkSent(p)
  <2>1. /\ cur[p].id \in Rows /\ status[cur[p].id] = "PENDING"
        /\ SetRow(cur[p].id, "SENT", retryCounts[cur[p].id], FALSE) /\ NextRecord(p)
    BY <1>1, <1>7, AloneParts DEF MarkSent, SetSent, Pending, Fresh
  <2>2. \A n \in Rows \ {cur[p].id} : status'[n] = status[n] BY <2>1, RowOfCur
  <2>3. pc'[p] \in {"idle", "publish"} BY <1>2, <2>1, NextRecordMoves
  <2> QED BY <1>1, <2>1, <2>2, <2>3 DEF GivingUp, SettledStep
<1>8. CASE MarkFailed(p)
  <2>1. /\ cur[p].id \in Rows /\ status[cur[p].id] = "PENDING"
        /\ \A n \in Rows \ {cur[p].id} : status'[n] = status[n]
        /\ Exceeded(p) => status'[cur[p].id] = "FAILED" /\ cur' = cur
        /\ ~Exceeded(p) => pc'[p] \in {"idle", "publish"}
    BY <1>1, <1>8, MarkFailedRow
  <2> QED BY <1>1, <2>1 DEF GivingUp, SettledStep
<1>9. CASE \E kept \in BOOLEAN : SendToDlq(p, kept)
  <2>1. /\ UNCHANGED <<status, cur>> /\ pc[p] = "sendToDlq" BY <1>9 DEF SendToDlq, rowVars
  <2> QED BY <1>1, <1>2, <2>1 DEF GivingUp, SettledStep
<1>10. CASE MarkDlq(p)
  <2>1. /\ cur[p].id \in Rows /\ status[cur[p].id] = "FAILED"
        /\ SetRow(cur[p].id, "DLQ", retryCounts[cur[p].id], FALSE) /\ NextRecord(p)
    BY <1>2, <1>10 DEF MarkDlq, SetDlq
  <2>2. \A n \in Rows \ {cur[p].id} : status'[n] = status[n] BY <2>1, RowOfCur
  <2>3. pc'[p] \in {"idle", "publish"} BY <1>2, <2>1, NextRecordMoves
  <2> QED BY <1>1, <2>1, <2>2, <2>3 DEF GivingUp, SettledStep
<1>11. CASE \E m \in Rows : BackoffElapsed(m) \/ DiscardDeadLetter(m)
  BY <1>4, <1>11 DEF BackoffElapsed, DiscardDeadLetter, rowVars, pollerVars
<1>12. CASE AppendRecord \/ \E m \in Rows : RequeueDeadLetter(m)
  BY <1>3, <1>12 DEF AppendRecord, RequeueDeadLetter, pollerVars
<1>13. CASE UNCHANGED outboxVars BY <1>4, <1>13 DEF outboxVars, rowVars, pollerVars
<1> QED BY <1>1, <1>5, <1>6, <1>7, <1>8, <1>9, <1>10, <1>11, <1>12, <1>13
        DEF OutboxNext, PollerStep

(* With one poller at a time a SENT or DLQ row is only ever deleted by the
   cleaner, and never sent again (publish_pending, OutboxCleaner.cleanup). *)
THEOREM SettledStays ==
  ASSUME OnePoller PROVE OutboxSpec => SettledIsFinal
<1>1. OutboxIInv /\ AloneInv /\ [OutboxNext]_outboxVars => AloneInv' BY OnePoller, AloneInductive
<1>2. OutboxIInv /\ AloneInv /\ GivingUp /\ [OutboxNext]_outboxVars => GivingUp' /\ [SettledStep]_outboxVars
  BY OnePoller, SettledSteps
<1>3. OutboxInit => GivingUp BY DEF OutboxInit, GivingUp
<1>4. OutboxSpec => [][SettledStep]_outboxVars
  BY <1>1, <1>2, <1>3, InitAlone, OutboxIInvHolds, PTL DEF OutboxSpec
<1> QED BY <1>4 DEF SettledIsFinal, SettledStep

----------------------------------------
(* The store in memory, where a poller sees the row itself. *)

LEMMA GivenUpStays ==
  ASSUME Store = "memory", MaxAborts = 0, OutboxIInv, NoStuckFailed, [OutboxNext]_outboxVars
  PROVE  NoStuckFailed'
<1> USE DEF NoStuckFailed
<1>1. /\ status \in [Rows -> Status] /\ pc \in [Pollers -> PC] /\ aborts = 0
      /\ cur \in [Pollers -> Record \union {NoRecord}]
  BY DEF OutboxIInv, OutboxTypeOK
<1>2. CASE InsertRow /\ UNCHANGED <<pc, cur>> BY <1>1, <1>2 DEF InsertRow
<1>3. CASE UNCHANGED <<status, pc, cur>> BY <1>3
<1>4. CASE \E before \in 2..(MaxRows + 1) : Cleanup(before) BY <1>4 DEF Cleanup, pollerVars
<1>5. ASSUME NEW p \in Pollers, Poll(p) \/ \E ok, kept \in BOOLEAN : PublishRow(p, ok, kept)
      PROVE  NoStuckFailed'
  <2>1. /\ status' = status /\ pc[p] \in {"idle", "publish"}
        /\ \A q \in Pollers \ {p} : pc'[q] = pc[q] /\ cur'[q] = cur[q]
    BY <1>1, <1>5 DEF Poll, PublishRow, rowVars
  <2> QED BY <2>1
<1>6. ASSUME NEW p \in Pollers, NEW s \in {"SENT", "DLQ"}, NEW c, NextRecord(p),
             cur[p].id \in Rows, SetRow(cur[p].id, s, c, FALSE)
      PROVE  NoStuckFailed'
  <2>1. /\ \A n \in Rows \ {cur[p].id} : status'[n] = status[n]
        /\ status'[cur[p].id] # "FAILED"
    <3> DEFINE m == cur[p].id
    <3>1. m \in Rows /\ SetRow(m, s, c, FALSE) BY <1>6
    <3> HIDE DEF m
    <3>2. /\ \A n \in Rows \ {m} : status'[n] = status[n]
          /\ status[m] # "NONE" => status'[m] = s
          /\ status[m] = "NONE" => status'[m] = "NONE"
      BY <3>1, RowOfCur
    <3> QED BY <1>6, <3>2 DEF m
  <2>2. \A q \in Pollers \ {p} : pc'[q] = pc[q] /\ cur'[q] = cur[q] BY <1>1, <1>6 DEF NextRecord
  <2> QED BY <2>1, <2>2
<1>7. ASSUME NEW p \in Pollers, MarkFailed(p) PROVE NoStuckFailed'
  <2> DEFINE m == cur[p].id
  <2>1. m \in Rows /\ pc[p] = "markFailed" /\ SetFailed(m, ~Exceeded(p))
    BY <1>7, CurIsRecord DEF MarkFailed, OutboxIInv
  <2>2. Exceeded(p) <=> retryCounts[m] + 1 >= MaxRetry BY DEF Exceeded, SeenRetries
  <2>3. status[m] # "FAILED" \/ Exceeded(p)
    <3>1. retryCounts[m] \in Nat /\ (status[m] = "FAILED" => retryCounts[m] >= MaxRetry)
      BY <2>1 DEF OutboxIInv, OutboxTypeOK, RetryBudget
    <3> QED BY <2>2, <3>1, OutboxAssumption
  <2>4. \E s, c, b : SetRow(m, s, c, b) /\ (~Exceeded(p) => s # "FAILED")
    BY <2>1, <2>2, <2>3 DEF SetFailed
  <2>5. PICK s, c, b : SetRow(m, s, c, b) /\ (~Exceeded(p) => s # "FAILED") BY <2>4
  <2>6. /\ \A n \in Rows \ {m} : status'[n] = status[n]
        /\ ~Exceeded(p) => status'[m] # "FAILED"
    <3> HIDE DEF m
    <3>1. /\ \A n \in Rows \ {m} : status'[n] = status[n]
          /\ status[m] # "NONE" => status'[m] = s
          /\ status[m] = "NONE" => status'[m] = "NONE"
      BY <2>1, <2>5, RowOfCur
    <3> QED BY <2>5, <3>1
  <2>7. \A q \in Pollers \ {p} : pc'[q] = pc[q] /\ cur'[q] = cur[q]
    BY <1>1, <1>7 DEF MarkFailed, NextRecord
  <2>8. Exceeded(p) => pc'[p] = "sendToDlq" /\ cur'[p] = cur[p] BY <1>1, <1>7 DEF MarkFailed
  <2>9. \A n \in Rows \ {m} : status[n] = "FAILED" =>
          \E q \in Pollers \ {p} : cur[q].id = n /\ pc[q] \in {"sendToDlq", "markDlq"}
    BY <2>1
  <2> QED BY <2>6, <2>7, <2>8, <2>9
<1>8. ASSUME NEW p \in Pollers, NEW kept \in BOOLEAN, SendToDlq(p, kept) PROVE NoStuckFailed'
  <2>1. /\ status' = status /\ cur' = cur /\ pc'[p] = "markDlq"
        /\ \A q \in Pollers \ {p} : pc'[q] = pc[q]
    BY <1>1, <1>8 DEF SendToDlq, rowVars
  <2> QED BY <2>1
<1>9. ASSUME NEW p \in Pollers, MarkSent(p) \/ MarkDlq(p) PROVE NoStuckFailed'
  <2>1. cur[p].id \in Rows /\ NextRecord(p) BY <1>9, CurIsRecord DEF MarkSent, MarkDlq, OutboxIInv
  <2> QED BY <1>6, <1>9, <2>1 DEF MarkSent, MarkDlq, SetSent, SetDlq
<1>10. ASSUME NEW p \in Pollers, Abort(p) PROVE NoStuckFailed' BY <1>1, <1>10 DEF Abort
<1>11. CASE \E m \in Rows : BackoffElapsed(m) \/ DiscardDeadLetter(m)
  BY <1>3, <1>11 DEF BackoffElapsed, DiscardDeadLetter, rowVars, pollerVars
<1>12. CASE AppendRecord \/ \E m \in Rows : RequeueDeadLetter(m)
  BY <1>2, <1>12 DEF AppendRecord, RequeueDeadLetter, pollerVars
<1>13. CASE UNCHANGED outboxVars BY <1>3, <1>13 DEF outboxVars, rowVars, pollerVars
<1>14. CASE \E p \in Pollers : PollerStep(p) \/ Abort(p)
  BY <1>5, <1>7, <1>8, <1>9, <1>10, <1>14 DEF PollerStep
<1> QED BY <1>4, <1>11, <1>12, <1>13, <1>14 DEF OutboxNext

(* Without interruptions no row of the store in memory is left FAILED,
   although rounds overlap: whoever counts the last attempt also dead-
   letters the row (InMemoryMessageOutbox, publish_pending). *)
THEOREM NoneStuckInMemory ==
  ASSUME Store = "memory", MaxAborts = 0 PROVE OutboxSpec => []NoStuckFailed
<1>1. OutboxIInv /\ NoStuckFailed /\ [OutboxNext]_outboxVars => NoStuckFailed'
  BY Store = "memory", MaxAborts = 0, GivenUpStays
<1>2. OutboxInit => NoStuckFailed BY DEF OutboxInit, NoStuckFailed
<1> QED BY <1>1, <1>2, OutboxIInvHolds, PTL DEF OutboxSpec

----------------------------------------
(* The channel template of payments. *)

(* The inductive invariant. *)

Closed(o) == channel[o] = "CLOSED"

(* The PAY flow is there, or the notification that will write it. *)
Known(o) ==
  \/ flow[o]["PAY"] # NoFlow
  \/ PayNotice(o, Amount) \in notices

FullyRefunded(o) == \E r \in RefundNos : refunded[o][r] = Amount

(* What a worker relies on when it goes on after a call. *)
TaskOK(t) ==
  /\ t.op = "close" /\ t.step \in {"reply", "update"} => Closed(t.order)
  /\ t.op = "callback" =>
       /\ t.notice.amount = Amount
       /\ Paid(t.notice.order)
       /\ Known(t.notice.order)
       /\ t.target \in {"SUCCESS", "REFUND"}
       /\ t.target = "REFUND" => FullyRefunded(t.notice.order)

TasksOK == \A w \in Workers : TaskOK(task[w])

NoticesOK ==
  \A n \in notices :
    /\ Paid(n.order)
    /\ n.event = "REFUND" => \E r \in RefundNos : refunded[n.order][r] = n.amount

OrdersOK ==
  \A o \in Orders :
    /\ order[o] = "CLOSED" => Closed(o)
    /\ order[o] \in {"SUCCESS", "REFUND"} => Known(o)
    /\ order[o] = "REFUND" => FullyRefunded(o)

PaymentIInv == PaymentTypeOK /\ TasksOK /\ NoticesOK /\ OrdersOK /\ BookedIsPaid

(* What no step ever takes back. *)
Lasting ==
  \A o \in Orders :
    /\ Closed(o) => Closed(o)'
    /\ Paid(o) => Paid(o)'
    /\ Known(o) => Known(o)'
    /\ \A r \in RefundNos : refunded[o][r] # 0 => refunded'[o][r] = refunded[o][r]

----------------------------------------
(* The table of the state machine, by its rows for notifications. *)
LEMMA NotificationTargets ==
  ASSUME NEW s
  PROVE  /\ \A t \in Targets(s, "pay_success") : t = "SUCCESS"
         /\ \A t \in Targets(s, "refund_success") : t = "REFUND" /\ s \in {"SUCCESS", "REFUND"}
<1>1. \A t : <<s, "pay_success", t>> \in Transitions => t = "SUCCESS" BY DEF Transitions
<1>2. \A t : <<s, "refund_success", t>> \in Transitions => t = "REFUND" /\ s = "SUCCESS"
  BY DEF Transitions
<1>3. <<s, "pay_success">> \in IdempotentPairs => s = "SUCCESS" BY DEF IdempotentPairs
<1>4. <<s, "refund_success">> \in IdempotentPairs => s = "REFUND" BY DEF IdempotentPairs
<1> QED BY <1>1, <1>2, <1>3, <1>4 DEF Targets

(* What kind of task a worker has, by its operation. *)
LEMMA TaskKind ==
  ASSUME PaymentTypeOK, NEW w \in Workers
  PROVE  /\ task[w].op = "prepay" => task[w] \in PrepayTask
         /\ task[w].op = "callback" => task[w] \in CallbackTask
         /\ task[w].op = "close" => task[w] \in CloseTask
         /\ task[w].op = "refund" => task[w] \in RefundTask
  BY DEF PaymentTypeOK, Task, Idle, PrepayTask, CallbackTask, CloseTask, RefundTask

(* The fields of a task, by its operation. *)
LEMMA TaskShape ==
  ASSUME PaymentTypeOK, NEW w \in Workers
  PROVE  /\ task[w].op = "callback" =>
            /\ task[w].notice \in Notice
            /\ task[w].notice.order \in Orders
            /\ task[w].target \in PaymentStatus
         /\ task[w].op \in {"prepay", "close", "refund"} => task[w].order \in Orders
         /\ task[w].op = "refund" =>
            /\ task[w].no \in RefundNos
            /\ task[w].amount \in 1..Amount
         /\ task[w].op = "close" => task[w].scheduled \in BOOLEAN
  BY TaskKind DEF PrepayTask, CallbackTask, CloseTask, RefundTask, Notice

(* A task that goes on to another step of its operation. *)
LEMMA NextCallbackStep ==
  ASSUME NEW t \in CallbackTask
  PROVE  LET u == [t EXCEPT !.step = "flow"]
         IN  /\ u \in CallbackTask
             /\ u.op = t.op /\ u.step = "flow"
             /\ u.notice = t.notice /\ u.target = t.target
  BY DEF CallbackTask

LEMMA NextCloseStep ==
  ASSUME NEW t \in CloseTask, NEW s \in {"query", "call", "reply", "update"}
  PROVE  LET u == [t EXCEPT !.step = s]
         IN  /\ u \in CloseTask
             /\ u.op = t.op /\ u.step = s
             /\ u.order = t.order /\ u.scheduled = t.scheduled
  BY DEF CloseTask

LEMMA NextPrepayStep ==
  ASSUME NEW t \in PrepayTask
  PROVE  LET u == [t EXCEPT !.step = "reply"]
         IN  u \in PrepayTask /\ u.op = t.op /\ u.order = t.order /\ u.ended = t.ended
  BY DEF PrepayTask

LEMMA NextRefundStep ==
  ASSUME NEW t \in RefundTask
  PROVE  LET u == [t EXCEPT !.step = "reply"] IN u \in RefundTask /\ u.op = t.op
  BY DEF RefundTask

(* GoTo changes one task. *)
LEMMA GoToShape ==
  ASSUME PaymentTypeOK, NEW w \in Workers, NEW s, GoTo(w, s), [task[w] EXCEPT !.step = s] \in Task
  PROVE  /\ task' \in [Workers -> Task]
         /\ \A v \in Workers \ {w} : task'[v] = task[v]
         /\ task'[w] = [task[w] EXCEPT !.step = s]
<1> DEFINE u == [task[w] EXCEPT !.step = s]
<1>1. task' = [task EXCEPT ![w] = u] BY DEF GoTo
<1>2. u \in Task OBVIOUS
<1> HIDE DEF u
<1> QED BY <1>1, <1>2 DEF PaymentTypeOK, u

LEMMA FinishShape ==
  ASSUME PaymentTypeOK, NEW w \in Workers, Finish(w)
  PROVE  /\ task' \in [Workers -> Task]
         /\ \A v \in Workers \ {w} : task'[v] = task[v]
         /\ task'[w] = Idle
  BY DEF PaymentTypeOK, Finish, Task

LEMMA BeginShape ==
  ASSUME PaymentTypeOK, NEW w \in Workers, NEW t \in Task, Begin(w, t)
  PROVE  /\ task' \in [Workers -> Task]
         /\ \A v \in Workers \ {w} : task'[v] = task[v]
         /\ task'[w] = t
  BY DEF PaymentTypeOK, Begin

(* While nothing is taken back, a task that is left alone stays sound. *)
LEMMA OthersOK ==
  ASSUME PaymentIInv, Lasting, NEW v \in Workers, task'[v] = task[v], PaymentAssumption
  PROVE  TaskOK(task[v])'
<1>1. TaskOK(task[v]) BY DEF PaymentIInv, TasksOK
<1>2. CASE task[v].op = "callback"
  <2>1. task[v].notice.order \in Orders BY <1>2, TaskShape DEF PaymentIInv
  <2>2. FullyRefunded(task[v].notice.order) => FullyRefunded(task[v].notice.order)'
    BY <2>1 DEF Lasting, FullyRefunded, PaymentAssumption
  <2> QED BY <1>1, <1>2, <2>1, <2>2 DEF TaskOK, Lasting
<1>3. CASE task[v].op = "close"
  <2>1. task[v].order \in Orders BY <1>3, TaskShape DEF PaymentIInv
  <2> QED BY <1>1, <1>3, <2>1 DEF TaskOK, Lasting
<1> QED BY <1>2, <1>3 DEF TaskOK

LEMMA TasksStay ==
  ASSUME PaymentIInv, PaymentAssumption, Lasting, NEW w \in Workers,
         \A v \in Workers \ {w} : task'[v] = task[v],
         TaskOK(task[w])'
  PROVE  TasksOK'
<1> SUFFICES ASSUME NEW v \in Workers PROVE TaskOK(task[v])' BY DEF TasksOK
<1>1. CASE v = w BY <1>1
<1>2. CASE v # w BY <1>2, OthersOK
<1> QED BY <1>1, <1>2

(* Notifications that are still repeated stay true. *)
LEMMA NoticesStay ==
  ASSUME PaymentIInv, PaymentAssumption, Lasting, NEW n \in notices
  PROVE  /\ Paid(n.order)'
         /\ n.event = "REFUND" => (\E r \in RefundNos : refunded[n.order][r] = n.amount)'
<1>1. n.order \in Orders /\ n.amount \in 1..Amount BY DEF PaymentIInv, PaymentTypeOK, Notice
<1>2. Paid(n.order)' BY <1>1 DEF PaymentIInv, NoticesOK, Lasting
<1>3. ASSUME n.event = "REFUND" PROVE (\E r \in RefundNos : refunded[n.order][r] = n.amount)'
  <2>1. PICK r \in RefundNos : refunded[n.order][r] = n.amount BY <1>3 DEF PaymentIInv, NoticesOK
  <2>2. refunded'[n.order][r] = n.amount BY <1>1, <2>1 DEF Lasting, PaymentAssumption
  <2> QED BY <2>2
<1> QED BY <1>2, <1>3

(* An order that keeps its status stays sound. *)
LEMMA OrderStays ==
  ASSUME PaymentIInv, PaymentAssumption, Lasting, NEW o \in Orders, order'[o] = order[o]
  PROVE  /\ order'[o] = "CLOSED" => Closed(o)'
         /\ order'[o] \in {"SUCCESS", "REFUND"} => Known(o)'
         /\ order'[o] = "REFUND" => FullyRefunded(o)'
<1>1. FullyRefunded(o) => FullyRefunded(o)' BY DEF Lasting, FullyRefunded, PaymentAssumption
<1> QED BY <1>1 DEF PaymentIInv, OrdersOK, Lasting

(* Neither does a PAY flow that is left alone. *)
LEMMA BookingStays ==
  ASSUME PaymentIInv, Lasting, \A o \in Orders : flow'[o]["PAY"] = flow[o]["PAY"]
  PROVE  BookedIsPaid'
  BY DEF PaymentIInv, BookedIsPaid, Lasting

LEMMA LastingWhenStill ==
  ASSUME UNCHANGED channel, UNCHANGED refunded, UNCHANGED flow, UNCHANGED notices PROVE Lasting
  BY DEF Lasting, Closed, Paid, Known

(* A step that only moves its own task on. *)
LEMMA OnlyTaskOf ==
  ASSUME PaymentIInv, PaymentAssumption, NEW w \in Workers, UNCHANGED <<order, flow, channelVars>>,
         broken' \in SUBSET Orders, task' \in [Workers -> Task],
         \A v \in Workers \ {w} : task'[v] = task[v],
         TaskOK(task'[w])
  PROVE  PaymentIInv'
<1>0. UNCHANGED <<order, flow, channel, payable, notices, refunded>> BY DEF channelVars
<1>1. Lasting BY <1>0, LastingWhenStill
<1>2. TaskOK(task[w])' BY <1>0 DEF TaskOK, Closed, Paid, Known, FullyRefunded
<1>3. TasksOK' BY <1>1, <1>2, TasksStay
<1>4. PaymentTypeOK' BY <1>0 DEF PaymentIInv, PaymentTypeOK
<1>5. NoticesOK' /\ OrdersOK' /\ BookedIsPaid'
  BY <1>0 DEF PaymentIInv, NoticesOK, OrdersOK, BookedIsPaid, Paid, Closed, Known, FullyRefunded
<1> QED BY <1>3, <1>4, <1>5 DEF PaymentIInv

LEMMA OnlyTask ==
  ASSUME PaymentIInv, PaymentAssumption, NEW w \in Workers, UNCHANGED <<localVars, channelVars>>,
         task' \in [Workers -> Task],
         \A v \in Workers \ {w} : task'[v] = task[v],
         TaskOK(task'[w])
  PROVE  PaymentIInv'
<1>1. UNCHANGED <<order, flow, channelVars>> /\ broken' \in SUBSET Orders
  BY DEF localVars, PaymentIInv, PaymentTypeOK
<1> QED BY <1>1, OnlyTaskOf

LEMMA IdleOK == ASSUME NEW t, t = Idle PROVE TaskOK(t)
  BY DEF TaskOK, Idle

----------------------------------------
(* Steps that change nothing but the worker's own task. *)

LEMMA PaymentInitIInv == ASSUME PaymentAssumption, PaymentInit PROVE PaymentIInv
<1>1. PaymentTypeOK BY DEF PaymentInit, PaymentTypeOK, PaymentStatus, Task, PaymentAssumption
<1>2. TasksOK BY IdleOK DEF PaymentInit, TasksOK
<1>3. NoticesOK /\ OrdersOK /\ BookedIsPaid
  BY DEF PaymentInit, NoticesOK, OrdersOK, BookedIsPaid, FlowEvents
<1> QED BY <1>1, <1>2, <1>3 DEF PaymentIInv

LEMMA PrepayStartStep ==
  ASSUME PaymentIInv, PaymentAssumption, NEW w \in Workers, NEW o \in Orders, PrepayStart(w, o)
  PROVE  PaymentIInv'
<1> DEFINE t == [op |-> "prepay", step |-> "call", order |-> o, ended |-> order[o] \in Terminal]
<1>1. t \in Task /\ TaskOK(t) BY DEF Task, PrepayTask, TaskOK
<1>2. Begin(w, t) /\ UNCHANGED <<localVars, channelVars>> BY DEF PrepayStart
<1> HIDE DEF t
<1> QED BY <1>1, <1>2, BeginShape, OnlyTask DEF PaymentIInv

LEMMA RefundStartStep ==
  ASSUME PaymentIInv, PaymentAssumption, NEW w \in Workers, NEW o \in Orders,
         NEW r \in RefundNos, NEW a \in 1..Amount, RefundStart(w, o, r, a)
  PROVE  PaymentIInv'
<1> DEFINE t == [op |-> "refund", step |-> "call", order |-> o, no |-> r, amount |-> a]
<1>1. t \in Task /\ TaskOK(t) BY DEF Task, RefundTask, TaskOK
<1>2. Begin(w, t) /\ UNCHANGED <<localVars, channelVars>> BY DEF RefundStart
<1> HIDE DEF t
<1> QED BY <1>1, <1>2, BeginShape, OnlyTask DEF PaymentIInv

LEMMA CloseStartStep ==
  ASSUME PaymentIInv, PaymentAssumption, NEW w \in Workers, NEW o \in Orders,
         NEW scheduled \in BOOLEAN, CloseStart(w, o, scheduled)
  PROVE  PaymentIInv'
<1> DEFINE t == [op |-> "close", step |-> "local", order |-> o, scheduled |-> scheduled]
<1>1. t \in Task /\ TaskOK(t) BY DEF Task, CloseTask, TaskOK
<1>2. Begin(w, t) /\ UNCHANGED <<localVars, channelVars>> BY DEF CloseStart
<1> HIDE DEF t
<1> QED BY <1>1, <1>2, BeginShape, OnlyTask DEF PaymentIInv

(* A notification that passes the checks is of a payment that is known, or
   of a refund that returned all of it. *)
LEMMA CallbackCheckStep ==
  ASSUME PaymentIInv, PaymentAssumption, NEW w \in Workers, NEW n \in notices, CallbackCheck(w, n)
  PROVE  PaymentIInv'
<1>1. PICK s \in Targets(order[n.order], CallbackEvent(n)) :
        Begin(w, [op |-> "callback", step |-> "update", notice |-> n, target |-> s])
  BY DEF CallbackCheck
<1> DEFINE t == [op |-> "callback", step |-> "update", notice |-> n, target |-> s]
<1>2. n \in Notice /\ n.order \in Orders /\ n.amount = Amount /\ n.event \in {"PAY", "REFUND"}
  BY DEF CallbackCheck, PaymentIInv, PaymentTypeOK, Notice
<1>3. Paid(n.order) BY DEF PaymentIInv, NoticesOK
<1>4. CASE n.event = "PAY"
  <2>1. s = "SUCCESS" BY <1>1, <1>4, NotificationTargets DEF CallbackEvent
  <2>2. n = PayNotice(n.order, Amount) BY <1>2, <1>4 DEF Notice, PayNotice
  <2>3. Known(n.order) BY <2>2 DEF Known
  <2> QED BY <2>1, <2>3, <1>2, <1>3, <1>1, BeginShape, OnlyTask
          DEF PaymentIInv, CallbackCheck, TaskOK, Task, CallbackTask, PaymentStatus
<1>5. CASE n.event = "REFUND"
  <2>1. s = "REFUND" /\ order[n.order] \in {"SUCCESS", "REFUND"}
    BY <1>1, <1>5, NotificationTargets DEF CallbackEvent
  <2>2. Known(n.order) BY <2>1, <1>2 DEF PaymentIInv, OrdersOK
  <2>3. FullyRefunded(n.order) BY <1>2, <1>5 DEF PaymentIInv, NoticesOK, FullyRefunded
  <2> QED BY <2>1, <2>2, <2>3, <1>2, <1>3, <1>1, BeginShape, OnlyTask
          DEF PaymentIInv, CallbackCheck, TaskOK, Task, CallbackTask, PaymentStatus
<1> QED BY <1>2, <1>4, <1>5

LEMMA InterruptStep ==
  ASSUME PaymentIInv, PaymentAssumption, NEW w \in Workers, Interrupt(w) PROVE PaymentIInv'
<1>1. \A o \in Orders : WritesPayment(w, o) => task[w].notice.order = o
  BY DEF WritesPayment, PayNotice
<1>2. broken' \in SUBSET Orders BY <1>1 DEF Interrupt, PaymentIInv, PaymentTypeOK
<1> QED BY <1>2, FinishShape, IdleOK, OnlyTaskOf DEF PaymentIInv, Interrupt

LEMMA CloseQueryStep ==
  ASSUME PaymentIInv, PaymentAssumption, NEW w \in Workers, CloseQuery(w) PROVE PaymentIInv'
<1>1. UNCHANGED <<localVars, channelVars>> /\ task[w] \in CloseTask
  BY TaskKind DEF CloseQuery, TaskAt, PaymentIInv
<1>2. CASE Finish(w) BY <1>1, <1>2, FinishShape, IdleOK, OnlyTask DEF PaymentIInv
<1>3. CASE GoTo(w, "call")
  <2> DEFINE u == [task[w] EXCEPT !.step = "call"]
  <2>1. u \in Task /\ TaskOK(u) BY <1>1, NextCloseStep DEF Task, TaskOK, CloseTask
  <2> QED BY <1>1, <1>3, <2>1, GoToShape, OnlyTask DEF PaymentIInv
<1> QED BY <1>2, <1>3 DEF CloseQuery

(* close_order answers at once only for an order that the channel closed. *)
LEMMA CloseReturnsShape ==
  ASSUME PaymentIInv, NEW w \in Workers, task[w].op = "close", CloseReturns(w), Closed(task[w].order)
  PROVE  /\ task' \in [Workers -> Task]
         /\ \A v \in Workers \ {w} : task'[v] = task[v]
         /\ TaskOK(task'[w])
         /\ task'[w].op \in {"idle", "close"}
         /\ task'[w].op = "close" => task'[w].order = task[w].order
<1>1. task[w] \in CloseTask BY TaskKind DEF PaymentIInv
<1>2. CASE Finish(w) BY <1>2, FinishShape, IdleOK DEF PaymentIInv, Idle
<1>3. CASE GoTo(w, "update")
  <2> DEFINE u == [task[w] EXCEPT !.step = "update"]
  <2>1. u \in Task /\ TaskOK(u) /\ u.op = "close" /\ u.order = task[w].order
    BY <1>1, NextCloseStep DEF Task, TaskOK, CloseTask
  <2> QED BY <1>3, <2>1, GoToShape DEF PaymentIInv
<1> QED BY <1>2, <1>3 DEF CloseReturns

LEMMA CloseLocalStep ==
  ASSUME PaymentIInv, PaymentAssumption, NEW w \in Workers, CloseLocal(w) PROVE PaymentIInv'
<1>1. UNCHANGED <<localVars, channelVars>> /\ task[w].op = "close"
      /\ task[w] \in CloseTask /\ task[w].order \in Orders
  BY TaskKind, TaskShape DEF CloseLocal, TaskAt, PaymentIInv
<1>2. CASE order[task[w].order] = "CLOSED"
  <2>1. CloseReturns(w) BY <1>2 DEF CloseLocal
  <2>2. Closed(task[w].order) BY <1>1, <1>2 DEF PaymentIInv, OrdersOK
  <2> QED BY <1>1, <2>1, <2>2, CloseReturnsShape, OnlyTask
<1>3. CASE Finish(w) BY <1>1, <1>3, FinishShape, IdleOK, OnlyTask DEF PaymentIInv
<1>4. CASE GoTo(w, "query")
  <2> DEFINE u == [task[w] EXCEPT !.step = "query"]
  <2>1. u \in Task /\ TaskOK(u) BY <1>1, NextCloseStep DEF Task, TaskOK, CloseTask
  <2> QED BY <1>1, <1>4, <2>1, GoToShape, OnlyTask DEF PaymentIInv
<1> QED BY <1>2, <1>3, <1>4 DEF CloseLocal

----------------------------------------
(* Steps of the channel. *)

(* A step of the channel that leaves the local stores alone. *)
LEMMA OnlyChannel ==
  ASSUME PaymentIInv, PaymentAssumption, Lasting, UNCHANGED localVars, PaymentTypeOK', NoticesOK',
         NEW w \in Workers,
         \A v \in Workers \ {w} : task'[v] = task[v],
         TaskOK(task[w])'
  PROVE  PaymentIInv'
<1>1. order' = order /\ flow' = flow BY DEF localVars
<1>2. TasksOK' BY TasksStay
<1>3. OrdersOK' BY <1>1, OrderStays DEF OrdersOK
<1>4. BookedIsPaid' BY <1>1, BookingStays
<1> QED BY <1>2, <1>3, <1>4 DEF PaymentIInv

LEMMA NoticesOKWhenStill ==
  ASSUME PaymentIInv, PaymentAssumption, Lasting, notices' \subseteq notices PROVE NoticesOK'
<1> SUFFICES ASSUME NEW n \in notices'
             PROVE  /\ Paid(n.order)'
                    /\ n.event = "REFUND" => (\E r \in RefundNos : refunded[n.order][r] = n.amount)'
  BY DEF NoticesOK
<1> QED BY NoticesStay

LEMMA PrepayCallStep ==
  ASSUME PaymentIInv, PaymentAssumption, NEW w \in Workers, PrepayCall(w) PROVE PaymentIInv'
<1>1. /\ UNCHANGED <<localVars, payable, notices, refunded>>
      /\ task[w] \in PrepayTask
      /\ task[w].order \in Orders
  BY TaskKind, TaskShape DEF PrepayCall, TaskAt, PaymentIInv
<1>2. Lasting
  BY <1>1 DEF PrepayCall, Lasting, Closed, Paid, Known, localVars, PaymentIInv, PaymentTypeOK
<1>3. /\ task' \in [Workers -> Task]
      /\ \A v \in Workers \ {w} : task'[v] = task[v]
      /\ TaskOK(task[w])'
  <2>1. CASE Finish(w) BY <2>1, FinishShape, IdleOK DEF PaymentIInv, TaskOK, Idle
  <2>2. CASE GoTo(w, "reply")
    <3> DEFINE u == [task[w] EXCEPT !.step = "reply"]
    <3>1. u \in Task /\ u.op = "prepay" BY <1>1, NextPrepayStep DEF Task, PrepayTask
    <3> QED BY <2>2, <3>1, GoToShape DEF PaymentIInv, TaskOK
  <2> QED BY <2>1, <2>2 DEF PrepayCall
<1>4. PaymentTypeOK' BY <1>1, <1>3 DEF PrepayCall, PaymentIInv, PaymentTypeOK, localVars
<1>5. NoticesOK' BY <1>1, <1>2, NoticesOKWhenStill
<1> QED BY <1>1, <1>2, <1>3, <1>4, <1>5, OnlyChannel

LEMMA CloseCallStep ==
  ASSUME PaymentIInv, PaymentAssumption, NEW w \in Workers, CloseCall(w) PROVE PaymentIInv'
<1>1. /\ UNCHANGED <<localVars, payable, notices, refunded>>
      /\ task[w].op = "close"
      /\ task[w] \in CloseTask
      /\ task[w].order \in Orders
  BY TaskKind, TaskShape DEF CloseCall, TaskAt, PaymentIInv
<1>2. Lasting
  BY <1>1 DEF CloseCall, Lasting, Closed, Paid, Known, localVars, PaymentIInv, PaymentTypeOK
<1>3. /\ task' \in [Workers -> Task]
      /\ \A v \in Workers \ {w} : task'[v] = task[v]
      /\ TaskOK(task[w])'
  <2>1. CASE Finish(w) BY <2>1, FinishShape, IdleOK DEF PaymentIInv, TaskOK, Idle
  <2>2. CASE ~Finish(w)
    <3> DEFINE u == [task[w] EXCEPT !.step = "reply"]
    <3>1. u \in Task /\ u.op = "close" /\ u.order = task[w].order BY <1>1, NextCloseStep DEF Task
    <3>2. GoTo(w, "reply") /\ channel' = [channel EXCEPT ![task[w].order] = "CLOSED"]
      BY <2>2 DEF CloseCall
    <3>3. Closed(task[w].order)'
      <4>1. PICK o \in Orders : o = task[w].order BY <1>1
      <4>2. channel'[o] = "CLOSED" BY <3>2, <4>1 DEF PaymentIInv, PaymentTypeOK
      <4>3. task'[w].order = o BY <3>1, <3>2, <4>1, GoToShape DEF PaymentIInv
      <4> QED BY <4>2, <4>3 DEF Closed
    <3> QED BY <3>1, <3>2, <3>3, GoToShape DEF PaymentIInv, TaskOK
  <2> QED BY <2>1, <2>2
<1>4. PaymentTypeOK' BY <1>1, <1>3 DEF CloseCall, PaymentIInv, PaymentTypeOK, localVars
<1>5. NoticesOK' BY <1>1, <1>2, NoticesOKWhenStill
<1> QED BY <1>1, <1>2, <1>3, <1>4, <1>5, OnlyChannel

LEMMA RefundCallStep ==
  ASSUME PaymentIInv, PaymentAssumption, NEW w \in Workers, RefundCall(w) PROVE PaymentIInv'
<1>0. /\ task[w] \in RefundTask
      /\ task[w].order \in Orders /\ task[w].no \in RefundNos /\ task[w].amount \in 1..Amount
  BY TaskKind, TaskShape DEF RefundCall, TaskAt, PaymentIInv
<1>a. PICK o \in Orders, r \in RefundNos : o = task[w].order /\ r = task[w].no BY <1>0
<1>b. PICK a \in 1..Amount : a = IF refunded[o][r] = 0 THEN task[w].amount ELSE refunded[o][r]
  BY <1>0, <1>a DEF PaymentIInv, PaymentTypeOK, PaymentAssumption
<1> DEFINE n == [order |-> o, event |-> "REFUND", amount |-> a]
<1>1. /\ UNCHANGED localVars /\ UNCHANGED payable
      /\ task[w] \in RefundTask
      /\ o \in Orders /\ r \in RefundNos
  BY <1>0, <1>a DEF RefundCall
<1>2. CASE Finish(w) /\ UNCHANGED <<channel, refunded, notices>>
  BY <1>1, <1>2, FinishShape, IdleOK, OnlyTask DEF PaymentIInv, channelVars
<1>3. CASE /\ Paid(o)
           /\ channel' = [channel EXCEPT ![o] = "REFUND"]
           /\ refunded' = [refunded EXCEPT ![o][r] = a]
           /\ notices' = notices \union {n}
           /\ GoTo(w, "reply") \/ Finish(w)
  <2>1. a \in 1..Amount /\ (refunded[o][r] # 0 => a = refunded[o][r])
    BY <1>b DEF PaymentIInv, PaymentTypeOK, PaymentAssumption
  <2>2. n \in Notice BY <1>1, <2>1 DEF Notice
  <2>3. refunded'[o][r] = a BY <1>1, <1>3 DEF PaymentIInv, PaymentTypeOK
  <2>4. Paid(o)' BY <1>1, <1>3 DEF Paid, PaymentIInv, PaymentTypeOK
  <2>5. Lasting
    <3> SUFFICES ASSUME NEW x \in Orders
                 PROVE  /\ Closed(x) => Closed(x)'
                        /\ Paid(x) => Paid(x)'
                        /\ Known(x) => Known(x)'
                        /\ \A y \in RefundNos :
                             refunded[x][y] # 0 => refunded'[x][y] = refunded[x][y]
      BY DEF Lasting
    <3>1. (Closed(x) => Closed(x)') /\ (Paid(x) => Paid(x)')
      BY <1>1, <1>3, <2>4 DEF Closed, Paid, PaymentIInv, PaymentTypeOK
    <3>2. Known(x) => Known(x)' BY <1>1, <1>3 DEF Known, localVars
    <3>3. \A y \in RefundNos : refunded[x][y] # 0 => refunded'[x][y] = refunded[x][y]
      BY <1>1, <1>3, <2>1 DEF PaymentIInv, PaymentTypeOK
    <3> QED BY <3>1, <3>2, <3>3
  <2>6. /\ task' \in [Workers -> Task]
        /\ \A v \in Workers \ {w} : task'[v] = task[v]
        /\ TaskOK(task[w])'
    <3>1. CASE Finish(w) BY <3>1, FinishShape, IdleOK DEF PaymentIInv, TaskOK, Idle
    <3>2. CASE GoTo(w, "reply")
      <4> DEFINE u == [task[w] EXCEPT !.step = "reply"]
      <4>1. u \in Task /\ u.op = "refund" BY <1>1, NextRefundStep DEF Task, RefundTask
      <4> QED BY <3>2, <4>1, GoToShape DEF PaymentIInv, TaskOK
    <3> QED BY <1>3, <3>1, <3>2
  <2>7. PaymentTypeOK'
    <3>1. refunded' \in [Orders -> [RefundNos -> 0..Amount]]
      BY <1>1, <1>3, <2>1 DEF PaymentIInv, PaymentTypeOK, PaymentAssumption
    <3>2. notices' \subseteq Notice BY <1>3, <2>2 DEF PaymentIInv, PaymentTypeOK
    <3> QED BY <1>1, <1>3, <2>6, <3>1, <3>2 DEF PaymentIInv, PaymentTypeOK, localVars
  <2>8. NoticesOK'
    <3> SUFFICES ASSUME NEW m \in notices'
                 PROVE  /\ Paid(m.order)'
                        /\ m.event = "REFUND" =>
                             (\E y \in RefundNos : refunded[m.order][y] = m.amount)'
      BY DEF NoticesOK
    <3>1. CASE m \in notices BY <2>5, <3>1, NoticesStay
    <3>2. CASE m = n
      <4>1. m.order = o /\ m.amount = a BY <3>2
      <4>2. Paid(m.order)' BY <1>3, <4>1, <1>1, <2>4 DEF Paid, PaymentIInv, PaymentTypeOK
      <4>3. refunded'[m.order][r] = m.amount BY <2>3, <4>1
      <4> QED BY <1>1, <4>2, <4>3
    <3> QED BY <1>3, <3>1, <3>2
  <2> QED BY <1>1, <2>5, <2>6, <2>7, <2>8, OnlyChannel
<1> QED BY <1>2, <1>3, <1>a, <1>b DEF RefundCall, RefundAccepted, Paid

LEMMA PayStep ==
  ASSUME PaymentIInv, PaymentAssumption, NEW o \in Orders, NEW a \in 1..Amount, Pay(o, a)
  PROVE  PaymentIInv'
<1> DEFINE n == PayNotice(o, a)
<1>1. /\ UNCHANGED <<localVars, task, payable, refunded>>
      /\ channel[o] = "NOTPAY"
      /\ channel' = [channel EXCEPT ![o] = "SUCCESS"]
      /\ notices' = notices \union {n}
  BY DEF Pay
<1>2. Lasting BY <1>1 DEF Lasting, Closed, Paid, Known, localVars, PaymentIInv, PaymentTypeOK
<1>3. n \in Notice /\ n.order = o /\ n.event = "PAY" BY DEF Notice, PayNotice
<1>4. PaymentTypeOK' BY <1>1, <1>3 DEF PaymentIInv, PaymentTypeOK, localVars
<1>5. NoticesOK'
  <2> SUFFICES ASSUME NEW m \in notices'
               PROVE  /\ Paid(m.order)'
                      /\ m.event = "REFUND" =>
                           (\E r \in RefundNos : refunded[m.order][r] = m.amount)'
    BY DEF NoticesOK
  <2>1. CASE m \in notices BY <1>2, <2>1, NoticesStay
  <2>2. CASE m = n BY <1>1, <1>3, <2>2 DEF Paid, PaymentIInv, PaymentTypeOK
  <2> QED BY <1>1, <2>1, <2>2
<1>6. TasksOK' BY <1>1, <1>2, OthersOK DEF TasksOK
<1>7. OrdersOK' /\ BookedIsPaid'
  <2>1. order' = order /\ flow' = flow BY <1>1 DEF localVars
  <2> QED BY <1>2, <2>1, OrderStays, BookingStays DEF OrdersOK
<1> QED BY <1>4, <1>5, <1>6, <1>7 DEF PaymentIInv

----------------------------------------
(* Steps on the local stores. *)

(* What UpdateStatus does. *)
LEMMA UpdateStatusShape ==
  ASSUME PaymentTypeOK, NEW o \in Orders, NEW s \in PaymentStatus, UpdateStatus(o, s)
  PROVE  /\ order' \in [Orders -> PaymentStatus \union {"NONE"}]
         /\ \A x \in Orders \ {o} : order'[x] = order[x]
         /\ order'[o] \in {order[o], s}
  BY DEF PaymentTypeOK, UpdateStatus

LEMMA PrepaySaveStep ==
  ASSUME PaymentIInv, PaymentAssumption, NEW w \in Workers, PrepaySave(w) PROVE PaymentIInv'
<1>1. PICK o \in Orders : o = task[w].order BY TaskShape DEF PrepaySave, TaskAt, PaymentIInv
<1>2. /\ order' = [order EXCEPT ![o] = "NOTPAY"]
      /\ payable' = payable \union {o}
      /\ UNCHANGED <<flow, broken, channel, notices, refunded>>
      /\ Finish(w)
  BY <1>1 DEF PrepaySave
<1>3. Lasting BY <1>2, LastingWhenStill
<1>4. PaymentTypeOK' BY <1>2, FinishShape DEF PaymentIInv, PaymentTypeOK, PaymentStatus
<1>5. TasksOK' BY <1>2, <1>3, FinishShape, TasksStay DEF PaymentIInv, TaskOK, Idle
<1>6. NoticesOK' /\ BookedIsPaid' BY <1>2, <1>3, NoticesOKWhenStill, BookingStays
<1>7. OrdersOK'
  <2> SUFFICES ASSUME NEW x \in Orders
               PROVE  /\ order'[x] = "CLOSED" => Closed(x)'
                      /\ order'[x] \in {"SUCCESS", "REFUND"} => Known(x)'
                      /\ order'[x] = "REFUND" => FullyRefunded(x)'
    BY DEF OrdersOK
  <2>1. CASE x = o BY <1>2, <2>1 DEF PaymentIInv, PaymentTypeOK
  <2>2. CASE x # o BY <1>2, <1>3, <2>2, OrderStays DEF PaymentIInv, PaymentTypeOK
  <2> QED BY <2>1, <2>2
<1> QED BY <1>4, <1>5, <1>6, <1>7 DEF PaymentIInv

(* A status that is justified may be set. *)
LEMMA StatusStep ==
  ASSUME PaymentIInv, PaymentAssumption, NEW o \in Orders, NEW s \in {"SUCCESS", "REFUND", "CLOSED"},
         UpdateStatus(o, s), UNCHANGED <<flow, broken, channel, payable, notices, refunded>>,
         s = "CLOSED" => Closed(o),
         s # "CLOSED" => Known(o),
         s = "REFUND" => FullyRefunded(o),
         NEW w \in Workers, task' \in [Workers -> Task],
         \A v \in Workers \ {w} : task'[v] = task[v],
         TaskOK(task[w])'
  PROVE  PaymentIInv'
<1>1. Lasting BY LastingWhenStill
<1>2. PaymentTypeOK' BY UpdateStatusShape DEF PaymentIInv, PaymentTypeOK, PaymentStatus
<1>3. TasksOK' BY <1>1, TasksStay
<1>4. NoticesOK' /\ BookedIsPaid' BY <1>1, NoticesOKWhenStill, BookingStays
<1>5. OrdersOK'
  <2> SUFFICES ASSUME NEW x \in Orders
               PROVE  /\ order'[x] = "CLOSED" => Closed(x)'
                      /\ order'[x] \in {"SUCCESS", "REFUND"} => Known(x)'
                      /\ order'[x] = "REFUND" => FullyRefunded(x)'
    BY DEF OrdersOK
  <2>1. CASE order'[x] = order[x] BY <1>1, <2>1, OrderStays
  <2>2. CASE order'[x] # order[x]
    <3>1. x = o /\ order'[x] = s BY <2>2, UpdateStatusShape DEF PaymentIInv, PaymentStatus
    <3> QED BY <3>1 DEF Closed, Known, FullyRefunded
  <2> QED BY <2>1, <2>2
<1> QED BY <1>2, <1>3, <1>4, <1>5 DEF PaymentIInv

LEMMA CallbackUpdateStep ==
  ASSUME PaymentIInv, PaymentAssumption, NEW w \in Workers, CallbackUpdate(w) PROVE PaymentIInv'
<1>1. /\ task[w].op = "callback" /\ task[w] \in CallbackTask /\ TaskOK(task[w])
      /\ task[w].notice.order \in Orders
  BY TaskKind, TaskShape DEF CallbackUpdate, TaskAt, PaymentIInv, TasksOK
<1>2. PICK o \in Orders, s \in {"SUCCESS", "REFUND"} :
        o = task[w].notice.order /\ s = task[w].target
  BY <1>1 DEF TaskOK
<1>3. /\ UpdateStatus(o, s) /\ GoTo(w, "flow")
      /\ UNCHANGED <<flow, broken, channel, payable, notices, refunded>>
  BY <1>2 DEF CallbackUpdate, channelVars
<1>4. Known(o) /\ (s = "REFUND" => FullyRefunded(o)) BY <1>1, <1>2 DEF TaskOK
<1> DEFINE u == [task[w] EXCEPT !.step = "flow"]
<1>5. u \in Task /\ u.op = "callback" /\ u.notice = task[w].notice /\ u.target = task[w].target
  BY <1>1, NextCallbackStep DEF Task
<1>6. /\ task' \in [Workers -> Task]
      /\ \A v \in Workers \ {w} : task'[v] = task[v]
      /\ task'[w] = u
  BY <1>3, <1>5, GoToShape DEF PaymentIInv
<1> HIDE DEF u
<1>7. TaskOK(task[w])' BY <1>1, <1>3, <1>5, <1>6 DEF TaskOK, Paid, Known, FullyRefunded
<1> QED BY <1>3, <1>4, <1>6, <1>7, StatusStep

LEMMA CloseUpdateStep ==
  ASSUME PaymentIInv, PaymentAssumption, NEW w \in Workers, CloseUpdate(w) PROVE PaymentIInv'
<1>1. /\ task[w].op = "close" /\ task[w].step = "update" /\ TaskOK(task[w])
      /\ task[w].order \in Orders
  BY TaskShape DEF CloseUpdate, TaskAt, PaymentIInv, TasksOK
<1>2. PICK o \in Orders : o = task[w].order BY <1>1
<1>3. /\ UpdateStatus(o, "CLOSED") /\ Finish(w)
      /\ UNCHANGED <<flow, broken, channel, payable, notices, refunded>>
  BY <1>2 DEF CloseUpdate, channelVars
<1>4. Closed(o) BY <1>1, <1>2 DEF TaskOK
<1>5. /\ task' \in [Workers -> Task]
      /\ \A v \in Workers \ {w} : task'[v] = task[v]
      /\ TaskOK(task[w])'
  BY <1>3, FinishShape DEF PaymentIInv, TaskOK, Idle
<1> QED BY <1>3, <1>4, <1>5, StatusStep

(* A flow may be appended if it is not the booking of money that never
   came; a notification of a payment is answered after its flow. *)
LEMMA FlowStep ==
  ASSUME PaymentIInv, PaymentAssumption, NEW o \in Orders, NEW e \in FlowEvents,
         NEW a \in 0..Amount, NEW s \in {"BOOKED", "PENDING", "CLOSED"},
         AppendFlow(o, e, a, s), UNCHANGED <<order, broken, channel, payable, refunded>>,
         e = "PAY" => Paid(o) /\ a = Amount /\ s = "BOOKED",
         notices' \subseteq notices,
         \A n \in notices \ notices' : n.event = "PAY" => n.order = o /\ e = "PAY",
         NEW w \in Workers, task' \in [Workers -> Task],
         \A v \in Workers \ {w} : task'[v] = task[v]
  PROVE  Lasting /\ (TaskOK(task[w])' => PaymentIInv')
<1>0. /\ flow' \in [Orders -> [FlowEvents -> Flow \union {NoFlow}]]
      /\ \A x \in Orders, d \in FlowEvents : <<x, d>> # <<o, e>> => flow'[x][d] = flow[x][d]
      /\ flow'[o][e] = IF flow[o][e] # NoFlow THEN flow[o][e]
                       ELSE [amount |-> a, status |-> s]
      /\ flow'[o][e] # NoFlow
  <2> DEFINE f == [amount |-> a, status |-> s]
  <2>1. f \in Flow /\ f # NoFlow BY DEF Flow, NoFlow
  <2> HIDE DEF f
  <2>2. flow' = IF flow[o][e] # NoFlow THEN flow ELSE [flow EXCEPT ![o][e] = f] BY DEF AppendFlow, f
  <2> QED BY <2>1, <2>2 DEF PaymentIInv, PaymentTypeOK, f
<1>p. "PAY" \in FlowEvents BY DEF FlowEvents
<1>1. Lasting
  <2> SUFFICES ASSUME NEW x \in Orders, Known(x) PROVE Known(x)' BY DEF Lasting, Closed, Paid
  <2>1. CASE flow[x]["PAY"] # NoFlow
    <3>1. flow'[x]["PAY"] # NoFlow BY <2>1, <1>0, <1>p
    <3> QED BY <3>1 DEF Known
  <2>2. CASE PayNotice(x, Amount) \in notices
    <3> DEFINE n == PayNotice(x, Amount)
    <3>1. CASE n \in notices' BY <3>1 DEF Known
    <3>2. CASE n \notin notices'
      <4>1. x = o /\ e = "PAY" BY <2>2, <3>2 DEF PayNotice
      <4>2. flow'[x]["PAY"] # NoFlow BY <4>1, <1>0
      <4> QED BY <4>2 DEF Known
    <3> QED BY <3>1, <3>2
  <2> QED BY <2>1, <2>2 DEF Known
<1> SUFFICES ASSUME TaskOK(task[w])' PROVE PaymentIInv' BY <1>1
<1>2. PaymentTypeOK' BY <1>0 DEF PaymentIInv, PaymentTypeOK
<1>3. TasksOK' /\ NoticesOK' /\ OrdersOK'
  BY <1>1, TasksStay, NoticesOKWhenStill, OrderStays DEF OrdersOK
<1>4. BookedIsPaid'
  <2> SUFFICES ASSUME NEW x \in Orders, flow'[x]["PAY"] # NoFlow
               PROVE  Paid(x)' /\ flow'[x]["PAY"] = [amount |-> Amount, status |-> "BOOKED"]
    BY DEF BookedIsPaid
  <2>1. CASE flow'[x]["PAY"] = flow[x]["PAY"] BY <1>1, <2>1 DEF PaymentIInv, BookedIsPaid, Lasting
  <2>2. CASE flow'[x]["PAY"] # flow[x]["PAY"]
    <3>1. x = o /\ e = "PAY" BY <2>2, <1>0, <1>p
    <3>2. flow'[x]["PAY"] = [amount |-> a, status |-> s] BY <2>2, <3>1, <1>0
    <3> QED BY <1>1, <3>1, <3>2 DEF Lasting
  <2> QED BY <2>1, <2>2
<1> QED BY <1>2, <1>3, <1>4 DEF PaymentIInv

LEMMA CallbackFlowStep ==
  ASSUME PaymentIInv, PaymentAssumption, NEW w \in Workers, CallbackFlow(w) PROVE PaymentIInv'
<1>1. /\ TaskOK(task[w]) /\ task[w].op = "callback" /\ task[w].notice \in Notice
  BY TaskShape DEF CallbackFlow, TaskAt, PaymentIInv, TasksOK
<1>2. PICK n \in Notice : n = task[w].notice BY <1>1
<1>3. n.order \in Orders /\ n.event \in {"PAY", "REFUND"} /\ n.amount = Amount /\ Paid(n.order)
  BY <1>1, <1>2 DEF TaskOK, Notice
<1>4. /\ AppendFlow(n.order, n.event, n.amount, "BOOKED")
      /\ notices' \in {notices, notices \ {n}}
      /\ Finish(w)
      /\ UNCHANGED <<order, broken, channel, payable, refunded>>
  BY <1>2 DEF CallbackFlow
<1>5. /\ task' \in [Workers -> Task]
      /\ \A v \in Workers \ {w} : task'[v] = task[v]
      /\ TaskOK(task[w])'
  BY <1>4, FinishShape DEF PaymentIInv, TaskOK, Idle
<1>6. n.event \in FlowEvents /\ n.amount \in 0..Amount BY <1>3 DEF FlowEvents, PaymentAssumption
<1>7. /\ notices' \subseteq notices
      /\ \A m \in notices \ notices' : m = n
  BY <1>4
<1> QED BY <1>3, <1>4, <1>5, <1>6, <1>7, FlowStep

LEMMA RefundFlowStep ==
  ASSUME PaymentIInv, PaymentAssumption, NEW w \in Workers, RefundFlow(w) PROVE PaymentIInv'
<1>1. task[w].order \in Orders /\ task[w].amount \in 1..Amount
  BY TaskShape DEF RefundFlow, TaskAt, PaymentIInv
<1>2. PICK o \in Orders, a \in 1..Amount : o = task[w].order /\ a = task[w].amount BY <1>1
<1>3. /\ AppendFlow(o, "REFUND", a, "PENDING") /\ Finish(w)
      /\ UNCHANGED <<order, broken, channel, payable, notices, refunded>>
  BY <1>2 DEF RefundFlow, channelVars
<1>4. /\ task' \in [Workers -> Task]
      /\ \A v \in Workers \ {w} : task'[v] = task[v]
      /\ TaskOK(task[w])'
  BY <1>3, FinishShape DEF PaymentIInv, TaskOK, Idle
<1>5. a \in 0..Amount /\ "REFUND" \in FlowEvents BY DEF FlowEvents, PaymentAssumption
<1> QED BY <1>3, <1>4, <1>5, FlowStep

LEMMA CloseFlowStep ==
  ASSUME PaymentIInv, PaymentAssumption, NEW w \in Workers, CloseFlow(w) PROVE PaymentIInv'
<1>1. /\ task[w].op = "close" /\ task[w].step = "reply" /\ TaskOK(task[w])
      /\ task[w].order \in Orders
  BY TaskShape DEF CloseFlow, TaskAt, PaymentIInv, TasksOK
<1>2. PICK o \in Orders : o = task[w].order BY <1>1
<1>3. /\ AppendFlow(o, "CLOSE", 0, "CLOSED") /\ CloseReturns(w)
      /\ UNCHANGED <<order, broken, channel, payable, notices, refunded>>
  BY <1>2 DEF CloseFlow, channelVars
<1>4. Closed(o) BY <1>1, <1>2 DEF TaskOK
<1>5. /\ task' \in [Workers -> Task]
      /\ \A v \in Workers \ {w} : task'[v] = task[v]
      /\ task'[w].op \in {"idle", "close"}
      /\ task'[w].op = "close" => task'[w].order = o
  BY <1>1, <1>2, <1>3, <1>4, CloseReturnsShape
<1>6. TaskOK(task[w])' BY <1>3, <1>4, <1>5 DEF TaskOK, Closed
<1>7. 0 \in 0..Amount /\ "CLOSE" \in FlowEvents BY DEF FlowEvents, PaymentAssumption
<1> QED BY <1>3, <1>5, <1>6, <1>7, FlowStep

----------------------------------------
(* The theorems. *)

LEMMA PaymentNextIInv == ASSUME PaymentAssumption, PaymentIInv, [PaymentNext]_paymentVars PROVE PaymentIInv'
<1>1. CASE UNCHANGED paymentVars
  BY <1>1 DEF paymentVars, localVars, channelVars, PaymentIInv, PaymentTypeOK, TasksOK, TaskOK, NoticesOK,
     OrdersOK, BookedIsPaid, Closed, Paid, Known, FullyRefunded
<1>2. ASSUME NEW w \in Workers, WorkerStart(w) PROVE PaymentIInv'
  BY <1>2, PrepayStartStep, CloseStartStep, RefundStartStep, CallbackCheckStep
     DEF WorkerStart
<1>3. ASSUME NEW w \in Workers, WorkerStep(w) PROVE PaymentIInv'
  BY <1>3, PrepayCallStep, PrepaySaveStep, CallbackUpdateStep, CallbackFlowStep,
     CloseLocalStep, CloseQueryStep, CloseCallStep, CloseFlowStep, CloseUpdateStep,
     RefundCallStep, RefundFlowStep
     DEF WorkerStep
<1>4. ASSUME NEW w \in Workers, Interrupt(w) PROVE PaymentIInv' BY <1>4, InterruptStep
<1>5. ASSUME NEW o \in Orders, NEW a \in 1..Amount, Pay(o, a) PROVE PaymentIInv' BY <1>5, PayStep
<1> QED BY <1>1, <1>2, <1>3, <1>4, <1>5 DEF PaymentNext

(* The inductive invariant: every task that goes on after a call relies on
   facts about the channel that no other step takes back. *)
THEOREM PaymentInductive == PaymentSpec => []PaymentIInv
<1>1. PaymentInit => PaymentIInv BY PaymentInitIInv, PaymentAssumption
<1>2. PaymentIInv /\ [PaymentNext]_paymentVars => PaymentIInv' BY PaymentNextIInv, PaymentAssumption
<1> QED BY <1>1, <1>2, PTL DEF PaymentSpec

(* Every variable keeps its shape; no flow ever exceeds its order's amount. *)
THEOREM PaymentTypeCorrect == PaymentSpec => []PaymentTypeOK
<1>1. PaymentIInv => PaymentTypeOK BY DEF PaymentIInv
<1> QED BY <1>1, PaymentInductive, PTL

(* The service books money only when the channel has received it, and in
   the amount of the order, however callbacks and calls interleave. *)
THEOREM BookingsAreSound == PaymentSpec => []BookedIsPaid
<1>1. PaymentIInv => BookedIsPaid BY DEF PaymentIInv
<1> QED BY <1>1, PaymentInductive, PTL

(* close_order and close_expired_orders never close an order that was paid. *)
THEOREM PaidOrdersStayOpen == PaymentSpec => []NoPaidOrderClosed
<1>1. PaymentIInv => NoPaidOrderClosed BY DEF PaymentIInv, OrdersOK, NoPaidOrderClosed, Closed, Paid
<1> QED BY <1>1, PaymentInductive, PTL

(* An order becomes REFUND only after one refund returned all of it. *)
THEOREM RefundsAreFull == PaymentSpec => []RefundedIsFull
<1>1. PaymentIInv => RefundedIsFull BY DEF PaymentIInv, OrdersOK, RefundedIsFull, FullyRefunded
<1> QED BY <1>1, PaymentInductive, PTL

----------------------------------------
(* Stores that do not suspend. *)

(* The channel has ended the order. *)
Over == {"SUCCESS", "REFUND", "CLOSED"}

(* What a task relies on when ord and chan are what it finds. *)
TaskCurrent(t, ord, chan) ==
  /\ t.op = "prepay" =>
     /\ t.ended => chan[t.order] \in Over
     /\ t.step = "reply" => ~t.ended
  /\ t.op = "callback" /\ t.step = "update" =>
       t.target \in Targets(ord[t.notice.order], CallbackEvent(t.notice))

FinalInv ==
  /\ \A o \in Orders : order[o] \in {"NONE", "NOTPAY", "SUCCESS", "REFUND", "CLOSED"}
  /\ \A w \in Workers : TaskCurrent(task[w], order, channel)

TerminalStep ==
  \A o \in Orders : order[o] \in Terminal =>
    \/ order'[o] = order[o]
    \/ order[o] = "SUCCESS" /\ order'[o] = "REFUND"
    \/ TakenBack(o)

LEMMA StepKeeps ==
  ASSUME PaymentTypeOK, NEW w \in Workers, NEW s, GoTo(w, s)
  PROVE  /\ \A v \in Workers \ {w} : task'[v] = task[v]
         /\ task[w] # Idle => task'[w].op = task[w].op /\ task'[w].step = s
         /\ task[w].op = "prepay" =>
              task'[w].order = task[w].order /\ task'[w].ended = task[w].ended
<1>1. task[w] \in Task /\ task \in [Workers -> Task] BY DEF PaymentTypeOK
<1>2. task' = [task EXCEPT ![w] = [task[w] EXCEPT !.step = s]] BY <1>1 DEF GoTo
<1>3. task'[w] = [task[w] EXCEPT !.step = s] /\ \A v \in Workers \ {w} : task'[v] = task[v]
  BY <1>1, <1>2
<1>4. CASE task[w] = Idle BY <1>3, <1>4 DEF Idle
<1>5. CASE task[w] \in PrepayTask BY <1>3, <1>5 DEF PrepayTask
<1>6. CASE task[w] \in CallbackTask BY <1>3, <1>6 DEF CallbackTask
<1>7. CASE task[w] \in CloseTask BY <1>3, <1>7 DEF CloseTask
<1>8. CASE task[w] \in RefundTask BY <1>3, <1>8 DEF RefundTask
<1> QED BY <1>1, <1>4, <1>5, <1>6, <1>7, <1>8 DEF Task

(* A step of a worker that leaves the orders alone. *)
LEMMA OrdersUntouched ==
  ASSUME FinalInv, NEW w \in Workers, order' = order,
         \A o \in Orders : channel[o] \in Over => channel'[o] \in Over,
         \A v \in Workers \ {w} : task'[v] = task[v], PaymentTypeOK,
         TaskCurrent(task'[w], order', channel')
  PROVE  FinalInv' /\ TerminalStep
<1>2. \A v \in Workers : TaskCurrent(task'[v], order', channel')
  <2> TAKE v \in Workers
  <2>1. CASE v = w BY <2>1
  <2>2. CASE v # w
    <3>1. TaskCurrent(task[v], order, channel) /\ task'[v] = task[v] BY <2>2 DEF FinalInv
    <3>2. task[v].op = "prepay" => task[v].order \in Orders BY TaskShape
    <3> QED BY <3>1, <3>2 DEF TaskCurrent
  <2> QED BY <2>1, <2>2
<1>3. TerminalStep BY DEF TerminalStep
<1>4. \A v \in Workers : TaskCurrent(task[v], order, channel)' = TaskCurrent(task'[v], order', channel')
  BY DEF TaskCurrent, CallbackEvent
<1> QED BY <1>2, <1>3, <1>4 DEF FinalInv

(* A step to anything but prepay and the update of a callback. *)
LEMMA TaskElsewhere ==
  ASSUME FinalInv, PaymentTypeOK, NEW w \in Workers, UNCHANGED order,
         \A o \in Orders : channel[o] \in Over => channel'[o] \in Over,
         \A v \in Workers \ {w} : task'[v] = task[v],
         task'[w].op # "prepay", task'[w].op # "callback" \/ task'[w].step # "update"
  PROVE  FinalInv' /\ TerminalStep
<1>1. TaskCurrent(task'[w], order', channel') BY DEF TaskCurrent
<1> QED BY <1>1, OrdersUntouched

LEMMA FinishedElsewhere ==
  ASSUME FinalInv, PaymentTypeOK, NEW w \in Workers, UNCHANGED order, Finish(w),
         \A o \in Orders : channel[o] \in Over => channel'[o] \in Over
  PROVE  FinalInv' /\ TerminalStep
<1>1. task'[w].op = "idle" /\ \A v \in Workers \ {w} : task'[v] = task[v] BY FinishShape DEF Idle
<1> QED BY <1>1, TaskElsewhere

LEMMA StepsElsewhere ==
  ASSUME FinalInv, PaymentTypeOK, NEW w \in Workers, NEW s, UNCHANGED order, GoTo(w, s),
         task[w].op \in {"close", "refund"} \/ (task[w].op = "callback" /\ s # "update"),
         \A o \in Orders : channel[o] \in Over => channel'[o] \in Over
  PROVE  FinalInv' /\ TerminalStep
<1>1. /\ \A v \in Workers \ {w} : task'[v] = task[v]
      /\ task'[w].op = task[w].op /\ task'[w].step = s
  BY StepKeeps DEF Idle
<1> QED BY <1>1, TaskElsewhere

LEMMA BeginsElsewhere ==
  ASSUME FinalInv, PaymentTypeOK, NEW w \in Workers, NEW t, UNCHANGED <<order, channel>>, Begin(w, t),
         TaskCurrent(t, order, channel)
  PROVE  FinalInv' /\ TerminalStep
<1>1. task'[w] = t /\ \A v \in Workers \ {w} : task'[v] = task[v] BY DEF Begin, PaymentTypeOK
<1>2. TaskCurrent(task'[w], order', channel') BY <1>1
<1> QED BY <1>1, <1>2, OrdersUntouched

(* A prepay that found the order ended: so had the channel. *)
LEMMA PrepayStartFinal ==
  ASSUME PaymentIInv, FinalInv, NEW w \in Workers, NEW o \in Orders, PrepayStart(w, o)
  PROVE  FinalInv' /\ TerminalStep
<1> DEFINE t == [op |-> "prepay", step |-> "call", order |-> o, ended |-> order[o] \in Terminal]
<1>1. Begin(w, t) /\ UNCHANGED <<order, channel>> BY DEF PrepayStart, localVars, channelVars
<1>2. order[o] \in Terminal => channel[o] \in Over
  <2>1. Known(o) => Paid(o) BY DEF PaymentIInv, NoticesOK, BookedIsPaid, Known, PayNotice
  <2> QED BY <2>1 DEF PaymentIInv, OrdersOK, Closed, Paid, Over, FinalInv, Terminal
<1>3. TaskCurrent(t, order, channel) BY <1>2 DEF TaskCurrent
<1> HIDE DEF t
<1> QED BY <1>1, <1>3, BeginsElsewhere DEF PaymentIInv

LEMMA RefundStartFinal ==
  ASSUME FinalInv, PaymentTypeOK, NEW w \in Workers, NEW o, NEW r, NEW a, RefundStart(w, o, r, a)
  PROVE  FinalInv' /\ TerminalStep
<1> DEFINE t == [op |-> "refund", step |-> "call", order |-> o, no |-> r, amount |-> a]
<1>1. Begin(w, t) /\ UNCHANGED <<order, channel>> BY DEF RefundStart, localVars, channelVars
<1>2. t.op # "prepay" /\ TaskCurrent(t, order, channel) BY DEF TaskCurrent
<1> HIDE DEF t
<1> QED BY <1>1, <1>2, BeginsElsewhere

LEMMA CloseStartFinal ==
  ASSUME FinalInv, PaymentTypeOK, NEW w \in Workers, NEW o, NEW scheduled, CloseStart(w, o, scheduled)
  PROVE  FinalInv' /\ TerminalStep
<1> DEFINE t == [op |-> "close", step |-> "local", order |-> o, scheduled |-> scheduled]
<1>1. Begin(w, t) /\ UNCHANGED <<order, channel>> BY DEF CloseStart, localVars, channelVars
<1>2. t.op # "prepay" /\ TaskCurrent(t, order, channel) BY DEF TaskCurrent
<1> HIDE DEF t
<1> QED BY <1>1, <1>2, BeginsElsewhere

(* The target of a callback is a target of the order's status until it is
   written: nothing else runs in between. *)
LEMMA CallbackCheckFinal ==
  ASSUME FinalInv, PaymentTypeOK, NEW w \in Workers, NEW n, CallbackCheck(w, n)
  PROVE  FinalInv' /\ TerminalStep
<1>1. PICK s \in Targets(order[n.order], CallbackEvent(n)) :
        Begin(w, [op |-> "callback", step |-> "update", notice |-> n, target |-> s])
  BY DEF CallbackCheck
<1> DEFINE t == [op |-> "callback", step |-> "update", notice |-> n, target |-> s]
<1>2. UNCHANGED <<order, channel>> BY DEF CallbackCheck, localVars, channelVars
<1>3. t.op # "prepay" /\ TaskCurrent(t, order, channel) BY DEF TaskCurrent
<1> HIDE DEF t
<1> QED BY <1>1, <1>2, <1>3, BeginsElsewhere DEF t

LEMMA PrepayCallFinal ==
  ASSUME FinalInv, PaymentTypeOK, NEW w \in Workers, PrepayCall(w) PROVE FinalInv' /\ TerminalStep
<1>1. /\ task[w].op = "prepay" /\ task[w].order \in Orders
      /\ UNCHANGED order
  BY TaskShape DEF PrepayCall, TaskAt, localVars
<1>2. PICK o \in Orders : o = task[w].order BY <1>1
<1>3. channel' = [channel EXCEPT ![o] = "NOTPAY"] \/ UNCHANGED channel BY <1>2 DEF PrepayCall
<1>4. \A x \in Orders : channel[x] \in Over => channel'[x] \in Over
  BY <1>2, <1>3 DEF PaymentTypeOK, PrepayCall, Over
<1>5. CASE Finish(w) BY <1>1, <1>4, <1>5, FinishedElsewhere
<1>6. CASE GoTo(w, "reply") /\ channel[o] \in {"NONE", "NOTPAY"}
  <2>1. /\ \A v \in Workers \ {w} : task'[v] = task[v]
        /\ task'[w].op = "prepay" /\ task'[w].ended = task[w].ended
    BY <1>1, <1>6, StepKeeps DEF Idle
  <2>2. ~task[w].ended BY <1>1, <1>2, <1>6 DEF FinalInv, TaskCurrent, Over
  <2>3. TaskCurrent(task'[w], order', channel') BY <2>1, <2>2 DEF TaskCurrent
  <2> QED BY <1>1, <1>4, <2>1, <2>3, OrdersUntouched
<1> QED BY <1>2, <1>5, <1>6 DEF PrepayCall

LEMMA CallbackFlowFinal ==
  ASSUME FinalInv, PaymentTypeOK, NEW w \in Workers, CallbackFlow(w) PROVE FinalInv' /\ TerminalStep
  BY FinishedElsewhere DEF CallbackFlow

LEMMA CloseReturnsFinal ==
  ASSUME FinalInv, PaymentTypeOK, NEW w \in Workers, task[w].op = "close", CloseReturns(w),
         UNCHANGED <<order, channel>>
  PROVE  FinalInv' /\ TerminalStep
  BY FinishedElsewhere, StepsElsewhere DEF CloseReturns

LEMMA CloseFinal ==
  ASSUME FinalInv, PaymentTypeOK, NEW w \in Workers, CloseLocal(w) \/ CloseQuery(w) \/ CloseFlow(w)
  PROVE  FinalInv' /\ TerminalStep
<1>1. UNCHANGED <<order, channel>> /\ task[w].op = "close"
  BY DEF CloseLocal, CloseQuery, CloseFlow, TaskAt, localVars, channelVars
<1>2. CloseReturns(w) \/ Finish(w) \/ GoTo(w, "query") \/ GoTo(w, "call")
  BY DEF CloseLocal, CloseQuery, CloseFlow
<1> QED BY <1>1, <1>2, CloseReturnsFinal, FinishedElsewhere, StepsElsewhere

LEMMA ChannelAnswersFinal ==
  ASSUME FinalInv, PaymentTypeOK, NEW w \in Workers, CloseCall(w) \/ RefundCall(w)
  PROVE  FinalInv' /\ TerminalStep
<1>1. UNCHANGED order /\ task[w].op \in {"close", "refund"} /\ task[w].order \in Orders
  BY TaskShape DEF CloseCall, RefundCall, TaskAt, localVars
<1>2. PICK o \in Orders : o = task[w].order BY <1>1
<1>3. \/ channel' = [channel EXCEPT ![o] = "CLOSED"]
      \/ channel' = [channel EXCEPT ![o] = "REFUND"]
      \/ UNCHANGED channel
  BY <1>2 DEF CloseCall, RefundCall
<1>4. \A x \in Orders : channel[x] \in Over => channel'[x] \in Over BY <1>3 DEF PaymentTypeOK, Over
<1>5. Finish(w) \/ GoTo(w, "reply") BY DEF CloseCall, RefundCall
<1> QED BY <1>1, <1>4, <1>5, FinishedElsewhere, StepsElsewhere

LEMMA RefundFlowFinal ==
  ASSUME FinalInv, PaymentTypeOK, NEW w \in Workers, RefundFlow(w) \/ Interrupt(w)
  PROVE  FinalInv' /\ TerminalStep
<1>1. Finish(w) /\ UNCHANGED <<order, channel>> BY DEF RefundFlow, Interrupt, localVars, channelVars
<1> QED BY <1>1, FinishedElsewhere

LEMMA PayFinal ==
  ASSUME FinalInv, PaymentTypeOK, NEW o \in Orders, NEW a, Pay(o, a) PROVE FinalInv' /\ TerminalStep
<1>1. UNCHANGED <<order, task>> /\ channel' = [channel EXCEPT ![o] = "SUCCESS"]
  BY DEF Pay, localVars
<1>2. \A x \in Orders : channel[x] \in Over => channel'[x] \in Over BY <1>1 DEF PaymentTypeOK, Over
<1>3. \A v \in Workers : task[v].op = "prepay" => task[v].order \in Orders BY TaskShape
<1>4. TerminalStep BY <1>1 DEF TerminalStep
<1>5. \A v \in Workers : TaskCurrent(task[v], order, channel)'
  BY <1>1, <1>2, <1>3 DEF FinalInv, TaskCurrent, CallbackEvent
<1> QED BY <1>1, <1>2, <1>4, <1>5 DEF FinalInv

(* A step of a worker that writes one status: no callback is between its
   check and its update. *)
LEMMA StatusWritten ==
  ASSUME FinalInv, PaymentTypeOK, NEW w \in Workers, NEW o \in Orders, ~StoreYields, MayRun(w),
         NEW s \in {"NOTPAY", "SUCCESS", "REFUND", "CLOSED"},
         order' = [order EXCEPT ![o] = s], UNCHANGED channel,
         \A v \in Workers \ {w} : task'[v] = task[v],
         task'[w].op # "prepay", task'[w].op # "callback" \/ task'[w].step # "update",
         order[o] \in Terminal =>
           s = order[o] \/ (order[o] = "SUCCESS" /\ s = "REFUND") \/ TakenBack(o)
  PROVE  FinalInv' /\ TerminalStep
<1>1. \A x \in Orders : order'[x] = IF x = o THEN s ELSE order[x] BY DEF PaymentTypeOK
<1>2. TerminalStep BY <1>1 DEF TerminalStep
<1>4. \A v \in Workers : TaskCurrent(task'[v], order', channel')
  <2> TAKE v \in Workers
  <2>1. CASE v = w BY <2>1 DEF TaskCurrent
  <2>2. CASE v # w
    <3>1. TaskCurrent(task[v], order, channel) /\ task'[v] = task[v] BY <2>2 DEF FinalInv
    <3>2. task[v].op # "callback" \/ task[v].step # "update" BY <2>2 DEF MayRun, InStore
    <3> QED BY <3>1, <3>2 DEF TaskCurrent
  <2> QED BY <2>1, <2>2
<1>5. \A v \in Workers : TaskCurrent(task[v], order, channel)' = TaskCurrent(task'[v], order', channel')
  BY DEF TaskCurrent, CallbackEvent
<1> QED BY <1>1, <1>2, <1>4, <1>5 DEF FinalInv

LEMMA PrepaySaveFinal ==
  ASSUME ~StoreYields, FinalInv, PaymentTypeOK, NEW w \in Workers, PrepaySave(w)
  PROVE  FinalInv' /\ TerminalStep
<1>1. /\ task[w].op = "prepay" /\ task[w].step = "reply" /\ task[w].order \in Orders
      /\ MayRun(w) /\ Finish(w) /\ UNCHANGED channel
  BY TaskShape DEF PrepaySave, TaskAt
<1>2. PICK o \in Orders : o = task[w].order BY <1>1
<1>3. order' = [order EXCEPT ![o] = "NOTPAY"] BY <1>2 DEF PrepaySave
<1>4. ~task[w].ended BY <1>1 DEF FinalInv, TaskCurrent
<1>5. task'[w] = Idle /\ \A v \in Workers \ {w} : task'[v] = task[v] BY <1>1, FinishShape
<1>6. task'[w].op = "idle" BY <1>5 DEF Idle
<1>7. TakenBack(o) BY <1>1, <1>2, <1>3, <1>4, <1>5 DEF TakenBack, PaymentTypeOK
<1> QED BY <1>1, <1>3, <1>5, <1>6, <1>7, StatusWritten

(* Of the terminal statuses only SUCCESS has another target. *)
LEMMA TerminalTargets ==
  ASSUME NEW s \in Terminal, NEW e \in {"pay_success", "refund_success"}, NEW t \in Targets(s, e)
  PROVE  t = s \/ (s = "SUCCESS" /\ t = "REFUND")
<1>1. CASE <<s, e>> \in IdempotentPairs BY <1>1 DEF Targets
<1>2. CASE <<s, e>> \notin IdempotentPairs
  <2>1. <<s, e, t>> \in Transitions BY <1>2 DEF Targets
  <2> QED BY <2>1 DEF Transitions, Terminal
<1> QED BY <1>1, <1>2

LEMMA CallbackUpdateFinal ==
  ASSUME ~StoreYields, FinalInv, PaymentTypeOK, NEW w \in Workers, TaskOK(task[w]), CallbackUpdate(w)
  PROVE  FinalInv' /\ TerminalStep
<1>1. /\ task[w].op = "callback" /\ task[w].step = "update" /\ task[w].notice \in Notice
      /\ MayRun(w) /\ GoTo(w, "flow") /\ UNCHANGED channel
  BY TaskShape DEF CallbackUpdate, TaskAt, channelVars
<1>2. PICK n \in Notice : n = task[w].notice BY <1>1
<1>3. PICK o \in Orders, s \in {"SUCCESS", "REFUND"} : o = n.order /\ s = task[w].target
  BY <1>1, <1>2 DEF TaskOK, Notice
<1>4. UpdateStatus(o, s) BY <1>2, <1>3 DEF CallbackUpdate
<1>5. s \in Targets(order[o], CallbackEvent(n)) BY <1>1, <1>2, <1>3 DEF FinalInv, TaskCurrent
<1>6. /\ task'[w].op = "callback" /\ task'[w].step = "flow"
      /\ \A v \in Workers \ {w} : task'[v] = task[v]
  BY <1>1, StepKeeps DEF Idle
<1>7. CASE order[o] = "NONE" BY <1>1, <1>4, <1>6, <1>7, TaskElsewhere DEF UpdateStatus
<1>8. CASE order[o] # "NONE"
  <2>1. order' = [order EXCEPT ![o] = s] BY <1>4, <1>8 DEF UpdateStatus
  <2>3. CallbackEvent(n) \in {"pay_success", "refund_success"} BY DEF CallbackEvent
  <2>4. order[o] \in Terminal => s = order[o] \/ (order[o] = "SUCCESS" /\ s = "REFUND")
    BY <1>5, <2>3, TerminalTargets
  <2>5. /\ s \in {"NOTPAY", "SUCCESS", "REFUND", "CLOSED"}
        /\ task'[w].op # "prepay" /\ task'[w].step # "update"
    BY <1>6
  <2>6. MayRun(w) /\ UNCHANGED channel /\ \A v \in Workers \ {w} : task'[v] = task[v] BY <1>1, <1>6
  <2> QED BY <2>1, <2>4, <2>5, <2>6, StatusWritten
<1> QED BY <1>7, <1>8

(* The close task writes CLOSED over no payment: what it relies on would
   contradict the channel's answer. *)
LEMMA CloseUpdateFinal ==
  ASSUME ~StoreYields, PaymentIInv, FinalInv, NEW w \in Workers, CloseUpdate(w)
  PROVE  FinalInv' /\ TerminalStep
<1>0. PaymentTypeOK BY DEF PaymentIInv
<1>1. /\ task[w].op = "close" /\ task[w].step = "update" /\ task[w].order \in Orders
      /\ MayRun(w) /\ Finish(w) /\ UNCHANGED channel /\ TaskOK(task[w])
  BY <1>0, TaskShape DEF CloseUpdate, TaskAt, channelVars, PaymentIInv, TasksOK
<1>2. PICK o \in Orders : o = task[w].order BY <1>1
<1>3. UpdateStatus(o, "CLOSED") /\ channel[o] = "CLOSED"
  BY <1>1, <1>2 DEF CloseUpdate, TaskOK, Closed
<1>4. task'[w].op = "idle" /\ \A v \in Workers \ {w} : task'[v] = task[v]
  BY <1>0, <1>1, FinishShape DEF Idle
<1>5. CASE order[o] = "NONE" BY <1>0, <1>1, <1>3, <1>5, FinishedElsewhere DEF UpdateStatus
<1>6. CASE order[o] # "NONE"
  <2>1. order' = [order EXCEPT ![o] = "CLOSED"] BY <1>3, <1>6 DEF UpdateStatus
  <2>3. order[o] \notin {"SUCCESS", "REFUND"}
    <3>1. Known(o) => Paid(o) BY DEF PaymentIInv, NoticesOK, BookedIsPaid, Known, PayNotice
    <3> QED BY <1>3, <3>1 DEF PaymentIInv, OrdersOK, Paid
  <2>4. order[o] \in Terminal => order[o] = "CLOSED" BY <2>3 DEF FinalInv, Terminal
  <2> QED BY <1>0, <1>1, <1>3, <1>4, <2>1, <2>4, StatusWritten
<1> QED BY <1>5, <1>6

LEMMA FinalSteps ==
  ASSUME ~StoreYields, PaymentIInv, FinalInv, [PaymentNext]_paymentVars
  PROVE  FinalInv' /\ TerminalStep
<1>0. PaymentTypeOK /\ \A w \in Workers : TaskOK(task[w]) BY DEF PaymentIInv, TasksOK
<1>1. CASE UNCHANGED paymentVars
  BY <1>1 DEF paymentVars, localVars, channelVars, FinalInv, TaskCurrent, CallbackEvent,
     TerminalStep
<1>2. ASSUME NEW w \in Workers, WorkerStart(w) PROVE FinalInv' /\ TerminalStep
  BY <1>0, <1>2, PrepayStartFinal, CloseStartFinal, RefundStartFinal, CallbackCheckFinal
     DEF WorkerStart
<1>3. ASSUME NEW w \in Workers, WorkerStep(w) PROVE FinalInv' /\ TerminalStep
  BY <1>0, <1>3, PrepayCallFinal, PrepaySaveFinal, CallbackUpdateFinal, CallbackFlowFinal,
     CloseFinal, CloseUpdateFinal, ChannelAnswersFinal, RefundFlowFinal
     DEF WorkerStep
<1>4. ASSUME NEW w \in Workers, Interrupt(w) PROVE FinalInv' /\ TerminalStep
  BY <1>0, <1>4, RefundFlowFinal
<1>5. ASSUME NEW o \in Orders, NEW a \in 1..Amount, Pay(o, a) PROVE FinalInv' /\ TerminalStep
  BY <1>0, <1>5, PayFinal
<1> QED BY <1>1, <1>2, <1>3, <1>4, <1>5 DEF PaymentNext

(* With the in-memory stores a terminal status is final, but for the refund
   of a paid order and for a prepay that found the order before it ended
   and saves NOTPAY after it, for any number of concurrent calls.  With a
   database it is not: the store suspends between the check of a callback
   and its update. *)
THEOREM TerminalStays == ASSUME ~StoreYields PROVE PaymentSpec => TerminalIsFinal
<1>1. PaymentInit => FinalInv BY DEF PaymentInit, FinalInv, TaskCurrent, Idle
<1>2. PaymentIInv /\ FinalInv /\ [PaymentNext]_paymentVars => FinalInv' /\ TerminalStep
  BY FinalSteps
<1>3. PaymentSpec => [][TerminalStep]_paymentVars
  BY <1>1, <1>2, PaymentInductive, PTL DEF PaymentSpec
<1> QED BY <1>3 DEF TerminalIsFinal, TerminalStep

----------------------------------------
(* No payment is forgotten. *)

(* The PAY flow is there, a callback is about to write it, or was cut short. *)
Kept(o) == flow[o]["PAY"] # NoFlow \/ o \in broken \/ \E w \in Workers : WritesPayment(w, o)

(* The notification of a payment is repeated until the flow is there. *)
Announced(o) ==
  flow[o]["PAY"] # NoFlow \/ \E a \in 1..Amount : PayNotice(o, a) \in notices

SoundTarget(t) ==
  t.op = "callback" => t.target = IF t.notice.event = "PAY" THEN "SUCCESS" ELSE "REFUND"

Refunding(t, o) == t.op = "callback" /\ t.notice.event = "REFUND" /\ t.notice.order = o

MarkedPaid(o) == order[o] \in {"SUCCESS", "REFUND"}

RememberInv ==
  /\ \A o \in Orders :
     /\ order[o] \in {"NONE", "NOTPAY", "SUCCESS", "REFUND", "CLOSED"}
     /\ o \in payable => order[o] # "NONE"
     /\ Paid(o) => o \in payable /\ Announced(o)
     /\ MarkedPaid(o) => Kept(o)
  /\ \A w \in Workers :
     /\ SoundTarget(task[w])
     /\ \A o \in Orders : Refunding(task[w], o) => Kept(o)

(* What a step has to leave in place. *)
LEMMA RememberMoves ==
  ASSUME RememberInv,
         \A o \in Orders :
           /\ order'[o] \in {"NONE", "NOTPAY", "SUCCESS", "REFUND", "CLOSED"}
           /\ o \in payable' => order'[o] # "NONE"
           /\ Paid(o)' => o \in payable' /\ Announced(o)'
           /\ MarkedPaid(o)' => MarkedPaid(o) \/ Kept(o)'
           /\ Kept(o) => Kept(o)',
         \A v \in Workers :
           \/ task'[v] = task[v]
           \/ /\ SoundTarget(task'[v])
             /\ \A o \in Orders : Refunding(task'[v], o) => Kept(o)'
  PROVE  RememberInv'
<1>1. \A v \in Workers : SoundTarget(task'[v]) /\ \A o \in Orders : Refunding(task'[v], o) => Kept(o)'
  BY DEF RememberInv
<1>2. \A v \in Workers :
  /\ SoundTarget(task[v])' = SoundTarget(task'[v])
  /\ \A o \in Orders : Refunding(task[v], o)' = Refunding(task'[v], o)
  BY DEF SoundTarget, Refunding
<1> QED BY <1>1, <1>2 DEF RememberInv

(* A worker's step loses no flow that is about to be written. *)
LEMMA KeptGrows ==
  ASSUME NEW w \in Workers, \A v \in Workers \ {w} : task'[v] = task[v], broken \subseteq broken',
         \A o \in Orders : /\ flow[o]["PAY"] # NoFlow => flow'[o]["PAY"] # NoFlow
                           /\ WritesPayment(w, o) => flow'[o]["PAY"] # NoFlow \/ o \in broken'
  PROVE  \A o \in Orders : Kept(o) => Kept(o)'
<1> SUFFICES ASSUME NEW o \in Orders, Kept(o) PROVE Kept(o)' OBVIOUS
<1>1. ASSUME NEW v \in Workers \ {w}, WritesPayment(v, o) PROVE WritesPayment(v, o)'
  BY <1>1 DEF WritesPayment, PayNotice
<1> QED BY <1>1 DEF Kept

(* A step of a worker that is not in a callback, and leaves orders and
   payments as they are. *)
LEMMA QuietRemembers ==
  ASSUME RememberInv, NEW w \in Workers, UNCHANGED <<order, broken, payable>>,
         \A v \in Workers \ {w} : task'[v] = task[v],
         task[w].op # "callback", task'[w].op # "callback", notices \subseteq notices',
         \A o \in Orders : flow'[o]["PAY"] = flow[o]["PAY"] /\ (Paid(o)' => Paid(o))
  PROVE  RememberInv'
<1>1. \A o \in Orders : Kept(o) => Kept(o)' BY KeptGrows DEF WritesPayment
<1>2. \A o \in Orders : Announced(o) => Announced(o)' BY DEF Announced, PayNotice
<1>3. \A v \in Workers \ {w} : task'[v] = task[v] OBVIOUS
<1>4. SoundTarget(task'[w]) /\ \A o \in Orders : ~Refunding(task'[w], o)
  BY DEF SoundTarget, Refunding
<1>5. \A o \in Orders :
  /\ order'[o] \in {"NONE", "NOTPAY", "SUCCESS", "REFUND", "CLOSED"}
  /\ o \in payable' => order'[o] # "NONE"
  /\ Paid(o)' => o \in payable' /\ Announced(o)'
  /\ MarkedPaid(o)' => MarkedPaid(o) \/ Kept(o)'
  /\ Kept(o) => Kept(o)'
  BY <1>1, <1>2 DEF RememberInv, MarkedPaid
<1> QED BY <1>3, <1>4, <1>5, RememberMoves

LEMMA QuietWork ==
  ASSUME PaymentTypeOK, RememberInv, NEW w \in Workers,
         \/ PrepayCall(w) \/ CloseLocal(w) \/ CloseQuery(w) \/ CloseCall(w) \/ CloseFlow(w)
         \/ RefundCall(w) \/ RefundFlow(w)
         \/ \E o \in Orders :
            \/ PrepayStart(w, o)
            \/ \E b \in BOOLEAN : CloseStart(w, o, b)
            \/ \E r \in RefundNos, a \in 1..Amount : RefundStart(w, o, r, a)
  PROVE  RememberInv'
<1>1. CASE \E o \in Orders :
  \/ PrepayStart(w, o)
  \/ \E b \in BOOLEAN : CloseStart(w, o, b)
  \/ \E r \in RefundNos, a \in 1..Amount : RefundStart(w, o, r, a)
  <2>1. /\ UNCHANGED <<localVars, channelVars>> /\ task[w] = Idle
        /\ \E t : t.op # "callback" /\ task' = [task EXCEPT ![w] = t]
    BY <1>1 DEF PrepayStart, CloseStart, RefundStart, Begin
  <2>2. task[w].op # "callback" BY <2>1 DEF Idle
  <2> QED BY <2>1, <2>2, QuietRemembers DEF localVars, channelVars, Paid, PaymentTypeOK
<1>2. CASE \/ PrepayCall(w) \/ CloseLocal(w) \/ CloseQuery(w) \/ CloseCall(w) \/ CloseFlow(w)
           \/ RefundCall(w) \/ RefundFlow(w)
  <2>1. task[w].op \in {"prepay", "close", "refund"} /\ task[w].order \in Orders
    BY <1>2, TaskShape
       DEF PrepayCall, CloseLocal, CloseQuery, CloseCall, CloseFlow, RefundCall, RefundFlow, TaskAt
  <2>2. Finish(w) \/ \E x : GoTo(w, x)
    BY <1>2 DEF PrepayCall, CloseLocal, CloseQuery, CloseCall, CloseFlow, RefundCall, RefundFlow, CloseReturns
  <2>3. /\ \A v \in Workers \ {w} : task'[v] = task[v]
        /\ task'[w].op # "callback" /\ task[w].op # "callback"
    BY <2>1, <2>2, FinishShape, StepKeeps DEF Idle
  <2>4. PICK o \in Orders : o = task[w].order BY <2>1
  <2>5. UNCHANGED <<order, broken, payable>> /\ notices \subseteq notices'
    BY <1>2 DEF PrepayCall, CloseLocal, CloseQuery, CloseCall, CloseFlow, RefundCall, RefundFlow,
                localVars, channelVars
  <2>6. \A x \in Orders : Paid(x)' => Paid(x)
    <3>1. \/ channel' = channel
          \/ \E c \in {"NOTPAY", "CLOSED"} : channel' = [channel EXCEPT ![o] = c]
          \/ channel' = [channel EXCEPT ![o] = "REFUND"] /\ channel[o] \in {"SUCCESS", "REFUND"}
      BY <1>2, <2>4 DEF PrepayCall, CloseLocal, CloseQuery, CloseCall, CloseFlow, RefundCall,
                        RefundFlow, RefundAccepted, localVars, channelVars
    <3> QED BY <3>1 DEF Paid, PaymentTypeOK
  <2>7. \A x \in Orders : flow'[x]["PAY"] = flow[x]["PAY"]
    <3>1. flow' = flow \/ \E e \in {"CLOSE", "REFUND"} : \E a, b : AppendFlow(o, e, a, b)
      BY <1>2, <2>4 DEF PrepayCall, CloseLocal, CloseQuery, CloseCall, CloseFlow, RefundCall,
                        RefundFlow, localVars
    <3>2. CASE flow' = flow BY <3>2
    <3>3. ASSUME NEW e \in {"CLOSE", "REFUND"}, NEW a, NEW b, AppendFlow(o, e, a, b)
          PROVE  \A x \in Orders : flow'[x]["PAY"] = flow[x]["PAY"]
      <4>1. \A x \in Orders :
        /\ flow[x] \in [FlowEvents -> Flow \union {NoFlow}]
        /\ x \in DOMAIN flow /\ "PAY" \in DOMAIN flow[x] /\ e # "PAY"
        BY DEF PaymentTypeOK, FlowEvents
      <4> QED BY <3>3, <4>1 DEF AppendFlow
    <3> QED BY <3>1, <3>2, <3>3
  <2> QED BY <2>3, <2>5, <2>6, <2>7, QuietRemembers
<1> QED BY <1>1, <1>2

(* An update of the order's status by a worker. *)
LEMMA OrderRemembers ==
  ASSUME PaymentIInv, RememberInv, NEW w \in Workers, NEW o \in Orders,
         NEW s \in {"NOTPAY", "SUCCESS", "REFUND", "CLOSED"},
         order' = order \/ order' = [order EXCEPT ![o] = s],
         UNCHANGED <<flow, broken, channel, notices>>, payable \subseteq payable',
         payable' \subseteq payable \union {o}, o \in payable' => order'[o] # "NONE",
         \A v \in Workers \ {w} : task'[v] = task[v],
         \A x \in Orders : ~WritesPayment(w, x),
         s \in {"SUCCESS", "REFUND"} => Kept(o)',
         SoundTarget(task'[w]), \A x \in Orders : Refunding(task'[w], x) => Kept(x)'
  PROVE  RememberInv'
<1>1. \A x \in Orders : Kept(x) => Kept(x)' BY KeptGrows
<1>2. \A x \in Orders : Announced(x) => Announced(x)' BY DEF Announced, PayNotice
<1>3. order \in [Orders -> PaymentStatus \union {"NONE"}] BY DEF PaymentIInv, PaymentTypeOK
<1>4. \A x \in Orders :
  /\ order'[x] \in {"NONE", "NOTPAY", "SUCCESS", "REFUND", "CLOSED"}
  /\ x \in payable' => order'[x] # "NONE"
  /\ MarkedPaid(x)' => MarkedPaid(x) \/ Kept(x)'
  BY <1>3 DEF RememberInv, MarkedPaid
<1>5. \A x \in Orders : Paid(x)' => x \in payable' /\ Announced(x)' BY <1>2 DEF RememberInv, Paid
<1> QED BY <1>1, <1>4, <1>5, RememberMoves

LEMMA PrepaySaveRemembers ==
  ASSUME PaymentIInv, RememberInv, NEW w \in Workers, PrepaySave(w) PROVE RememberInv'
<1>1. PICK o \in Orders : o = task[w].order BY TaskShape DEF PrepaySave, TaskAt, PaymentIInv
<1>2. /\ order' = [order EXCEPT ![o] = "NOTPAY"] /\ payable' = payable \union {o}
      /\ UNCHANGED <<flow, broken, channel, notices>> /\ Finish(w) /\ task[w].op = "prepay"
  BY <1>1 DEF PrepaySave, TaskAt
<1>3. task'[w] = Idle /\ \A v \in Workers \ {w} : task'[v] = task[v]
  BY <1>2, FinishShape DEF PaymentIInv
<1>4. SoundTarget(task'[w]) /\ \A x \in Orders : ~Refunding(task'[w], x)
  BY <1>3 DEF SoundTarget, Refunding, Idle
<1>5. order'[o] # "NONE" BY <1>2 DEF PaymentIInv, PaymentTypeOK
<1>6. \A x \in Orders : ~WritesPayment(w, x) BY <1>2 DEF WritesPayment
<1> QED BY <1>2, <1>3, <1>4, <1>5, <1>6, OrderRemembers

LEMMA CloseUpdateRemembers ==
  ASSUME PaymentIInv, RememberInv, NEW w \in Workers, CloseUpdate(w) PROVE RememberInv'
<1>1. PICK o \in Orders : o = task[w].order BY TaskShape DEF CloseUpdate, TaskAt, PaymentIInv
<1>2. /\ order' = order \/ order' = [order EXCEPT ![o] = "CLOSED"]
      /\ o \in payable => order'[o] # "NONE"
      /\ UNCHANGED <<flow, broken, channel, notices, payable>> /\ Finish(w) /\ task[w].op = "close"
  BY <1>1 DEF CloseUpdate, TaskAt, UpdateStatus, channelVars, PaymentIInv, PaymentTypeOK, RememberInv
<1>3. task'[w] = Idle /\ \A v \in Workers \ {w} : task'[v] = task[v]
  BY <1>2, FinishShape DEF PaymentIInv
<1>4. SoundTarget(task'[w]) /\ \A x \in Orders : ~Refunding(task'[w], x)
  BY <1>3 DEF SoundTarget, Refunding, Idle
<1>6. \A x \in Orders : ~WritesPayment(w, x) BY <1>2 DEF WritesPayment
<1> QED BY <1>2, <1>3, <1>4, <1>6, OrderRemembers

(* The callback of a payment goes on to its flow; that of a refund found
   the payment kept. *)
LEMMA CallbackUpdateRemembers ==
  ASSUME PaymentIInv, RememberInv, NEW w \in Workers, CallbackUpdate(w) PROVE RememberInv'
<1>1. /\ task[w].op = "callback" /\ task[w].step = "update" /\ task[w] \in CallbackTask
      /\ TaskOK(task[w]) /\ SoundTarget(task[w])
  BY TaskKind DEF CallbackUpdate, TaskAt, PaymentIInv, TasksOK, RememberInv
<1>2. PICK n \in Notice : n = task[w].notice BY <1>1 DEF CallbackTask
<1>3. PICK o \in Orders : o = n.order BY DEF Notice
<1>4. PICK s \in {"SUCCESS", "REFUND"} : s = task[w].target BY <1>1 DEF TaskOK
<1>5. /\ order' = order \/ order' = [order EXCEPT ![o] = s]
      /\ o \in payable => order'[o] # "NONE"
      /\ UNCHANGED <<flow, broken, channel, notices, payable>> /\ GoTo(w, "flow")
  BY <1>2, <1>3, <1>4 DEF CallbackUpdate, UpdateStatus, channelVars, PaymentIInv, PaymentTypeOK, RememberInv
<1> DEFINE u == [task[w] EXCEPT !.step = "flow"]
<1>6. /\ u \in Task /\ u.op = "callback" /\ u.step = "flow" /\ u.notice = n /\ u.target = s
  BY <1>1, <1>2, <1>4, NextCallbackStep DEF Task
<1>7. task'[w] = u /\ \A v \in Workers \ {w} : task'[v] = task[v]
  BY <1>5, <1>6, GoToShape DEF PaymentIInv
<1> HIDE DEF u
<1>8. \A x \in Orders : ~WritesPayment(w, x) BY <1>1 DEF WritesPayment
<1>9. \A x \in Orders : Kept(x) => Kept(x)' BY <1>5, <1>7, <1>8, KeptGrows
<1>10. Kept(o)'
  <2>1. CASE n.event = "PAY"
    <3>1. n = PayNotice(o, Amount) BY <1>1, <1>2, <1>3, <2>1 DEF Notice, PayNotice, TaskOK
    <3>2. WritesPayment(w, o)' BY <1>6, <1>7, <3>1 DEF WritesPayment, PayNotice
    <3> QED BY <3>2 DEF Kept
  <2>2. CASE n.event # "PAY"
    <3>1. Refunding(task[w], o) BY <1>1, <1>2, <1>3, <2>2 DEF Notice, Refunding
    <3> QED BY <1>9, <3>1 DEF RememberInv
  <2> QED BY <2>1, <2>2
<1>11. SoundTarget(task'[w]) /\ \A x \in Orders : Refunding(task'[w], x) => x = o
  BY <1>1, <1>2, <1>3, <1>4, <1>6, <1>7 DEF SoundTarget, Refunding
<1> QED BY <1>5, <1>7, <1>8, <1>10, <1>11, OrderRemembers

LEMMA CallbackCheckRemembers ==
  ASSUME PaymentIInv, RememberInv, NEW w \in Workers, NEW n \in notices, CallbackCheck(w, n)
  PROVE  RememberInv'
<1>1. PICK s \in Targets(order[n.order], CallbackEvent(n)) :
        Begin(w, [op |-> "callback", step |-> "update", notice |-> n, target |-> s])
  BY DEF CallbackCheck
<1> DEFINE t == [op |-> "callback", step |-> "update", notice |-> n, target |-> s]
<1>2. n \in Notice /\ n.order \in Orders /\ n.event \in {"PAY", "REFUND"}
  BY DEF PaymentIInv, PaymentTypeOK, Notice
<1>3. /\ task'[w] = t /\ \A v \in Workers \ {w} : task'[v] = task[v]
      /\ task[w] = Idle /\ UNCHANGED <<order, flow, broken, channel, payable, notices>>
  BY <1>1 DEF Begin, PaymentIInv, PaymentTypeOK, CallbackCheck, localVars, channelVars
<1>4. \A x \in Orders : Kept(x) => Kept(x)' BY <1>3, KeptGrows DEF WritesPayment, Idle
<1>5. SoundTarget(t) BY <1>1, <1>2, NotificationTargets DEF SoundTarget, CallbackEvent
<1>6. \A x \in Orders : Refunding(t, x) => Kept(x)'
  BY <1>1, <1>2, <1>4, NotificationTargets DEF Refunding, CallbackEvent, RememberInv, MarkedPaid
<1> HIDE DEF t
<1>7. \A x \in Orders :
  /\ order'[x] \in {"NONE", "NOTPAY", "SUCCESS", "REFUND", "CLOSED"}
  /\ x \in payable' => order'[x] # "NONE"
  /\ Paid(x)' => x \in payable' /\ Announced(x)'
  /\ MarkedPaid(x)' => MarkedPaid(x)
  BY <1>3 DEF RememberInv, Announced, Paid, MarkedPaid
<1> QED BY <1>3, <1>4, <1>5, <1>6, <1>7, RememberMoves

(* The callback ends: with the flow written, or cut short. *)
LEMMA CallbackEnds ==
  ASSUME PaymentIInv, RememberInv, NEW w \in Workers, CallbackFlow(w) \/ Interrupt(w)
  PROVE  RememberInv'
<1>0. /\ PaymentTypeOK /\ Finish(w) /\ UNCHANGED <<order, channel, payable>>
      /\ broken \subseteq broken'
  BY DEF PaymentIInv, CallbackFlow, Interrupt, channelVars
<1>1. task'[w] = Idle /\ \A v \in Workers \ {w} : task'[v] = task[v] BY <1>0, FinishShape
<1>2. SoundTarget(task'[w]) /\ \A x \in Orders : ~Refunding(task'[w], x)
  BY <1>1 DEF SoundTarget, Refunding, Idle
<1>3. /\ \A x \in Orders :
         /\ flow[x]["PAY"] # NoFlow => flow'[x]["PAY"] # NoFlow
         /\ WritesPayment(w, x) => flow'[x]["PAY"] # NoFlow \/ x \in broken'
         /\ Announced(x) => Announced(x)'
  <2>1. CASE Interrupt(w)
    <3>1. flow' = flow /\ notices' = notices BY <2>1 DEF Interrupt, channelVars
    <3>2. \A x \in Orders : WritesPayment(w, x) => x \in broken'
      BY <2>1 DEF Interrupt, WritesPayment, PayNotice
    <3> QED BY <3>1, <3>2 DEF Announced
  <2>2. CASE CallbackFlow(w)
    <3>1. PICK n \in Notice : n = task[w].notice BY <1>0, <2>2, TaskShape DEF CallbackFlow, TaskAt
    <3>2. /\ AppendFlow(n.order, n.event, n.amount, "BOOKED")
          /\ notices' \in {notices, notices \ {n}}
      BY <2>2, <3>1 DEF CallbackFlow
    <3>3. /\ n.order \in Orders /\ n.event \in {"PAY", "REFUND"}
          /\ [amount |-> n.amount, status |-> "BOOKED"] # NoFlow
      BY DEF Notice, NoFlow
    <3>4. \A x \in Orders :
      /\ flow[x]["PAY"] # NoFlow => flow'[x]["PAY"] # NoFlow
      /\ n.order = x /\ n.event = "PAY" => flow'[x]["PAY"] # NoFlow
      BY <1>0, <3>2, <3>3 DEF AppendFlow, PaymentTypeOK, FlowEvents
    <3>5. \A x \in Orders : WritesPayment(w, x) => n.order = x /\ n.event = "PAY"
      BY <3>1 DEF WritesPayment, PayNotice
    <3>6. \A x \in Orders, a \in 1..Amount :
            PayNotice(x, a) \in notices => PayNotice(x, a) \in notices' \/ (n.order = x /\ n.event = "PAY")
      BY <3>2 DEF PayNotice
    <3>7. \A x \in Orders : Announced(x) => Announced(x)' BY <3>4, <3>6 DEF Announced, PayNotice
    <3> QED BY <3>4, <3>5, <3>7
  <2> QED BY <2>1, <2>2
<1>4. \A x \in Orders : Kept(x) => Kept(x)' BY <1>0, <1>1, <1>3, KeptGrows
<1>5. \A x \in Orders :
  /\ order'[x] \in {"NONE", "NOTPAY", "SUCCESS", "REFUND", "CLOSED"}
  /\ x \in payable' => order'[x] # "NONE"
  /\ Paid(x)' => x \in payable' /\ Announced(x)'
  /\ MarkedPaid(x)' => MarkedPaid(x)
  BY <1>0, <1>3 DEF RememberInv, Paid, MarkedPaid
<1> QED BY <1>1, <1>2, <1>4, <1>5, RememberMoves

LEMMA PayRemembers ==
  ASSUME PaymentIInv, RememberInv, NEW o \in Orders, NEW a \in 1..Amount, Pay(o, a)
  PROVE  RememberInv'
<1>1. /\ UNCHANGED <<order, flow, broken, task, payable>> /\ o \in payable
      /\ channel' = [channel EXCEPT ![o] = "SUCCESS"] /\ notices' = notices \union {PayNotice(o, a)}
      /\ channel \in [Orders -> {"NONE", "NOTPAY", "SUCCESS", "REFUND", "CLOSED"}]
  BY DEF Pay, localVars, PaymentIInv, PaymentTypeOK
<1>2. \A x \in Orders : Kept(x) => Kept(x)' BY <1>1 DEF Kept, WritesPayment, PayNotice
<1>3. \A x \in Orders : Announced(x) \/ x = o => Announced(x)' BY <1>1 DEF Announced, PayNotice
<1>4. \A x \in Orders : Paid(x)' => Paid(x) \/ x = o BY <1>1 DEF Paid
<1>5. \A x \in Orders :
  /\ order'[x] \in {"NONE", "NOTPAY", "SUCCESS", "REFUND", "CLOSED"}
  /\ x \in payable' => order'[x] # "NONE"
  /\ Paid(x)' => x \in payable' /\ Announced(x)'
  /\ MarkedPaid(x)' => MarkedPaid(x)
  BY <1>1, <1>3, <1>4 DEF RememberInv, MarkedPaid
<1> QED BY <1>1, <1>2, <1>5, RememberMoves

LEMMA RememberNext ==
  ASSUME PaymentIInv, RememberInv, [PaymentNext]_paymentVars PROVE RememberInv'
<1>1. CASE UNCHANGED paymentVars
  BY <1>1 DEF paymentVars, localVars, channelVars, RememberInv, Kept, Announced, SoundTarget, Refunding,
     MarkedPaid, Paid, WritesPayment, PayNotice
<1>0. PaymentTypeOK BY DEF PaymentIInv
<1>2. ASSUME NEW w \in Workers, WorkerStart(w) PROVE RememberInv'
  <2>1. CASE \E o \in Orders : \/ PrepayStart(w, o)
                              \/ \E b \in BOOLEAN : CloseStart(w, o, b)
                              \/ \E r \in RefundNos, a \in 1..Amount : RefundStart(w, o, r, a)
    BY <1>0, <2>1, QuietWork
  <2>2. CASE \E n \in notices : CallbackCheck(w, n) BY <2>2, CallbackCheckRemembers
  <2> QED BY <1>2, <2>1, <2>2 DEF WorkerStart
<1>3. ASSUME NEW w \in Workers, WorkerStep(w) PROVE RememberInv'
  <2>1. CASE \/ PrepayCall(w) \/ CloseLocal(w) \/ CloseQuery(w) \/ CloseCall(w) \/ CloseFlow(w)
             \/ RefundCall(w) \/ RefundFlow(w)
    BY <1>0, <2>1, QuietWork
  <2>2. CASE PrepaySave(w) BY <2>2, PrepaySaveRemembers
  <2>3. CASE CallbackUpdate(w) BY <2>3, CallbackUpdateRemembers
  <2>4. CASE CallbackFlow(w) BY <2>4, CallbackEnds
  <2>5. CASE CloseUpdate(w) BY <2>5, CloseUpdateRemembers
  <2> QED BY <1>3, <2>1, <2>2, <2>3, <2>4, <2>5 DEF WorkerStep
<1>4. ASSUME NEW w \in Workers, Interrupt(w) PROVE RememberInv' BY <1>4, CallbackEnds
<1>5. ASSUME NEW o \in Orders, NEW a \in 1..Amount, Pay(o, a) PROVE RememberInv' BY <1>5, PayRemembers
<1> QED BY <1>1, <1>2, <1>3, <1>4, <1>5 DEF PaymentNext

LEMMA RememberedIsTaken == PaymentIInv /\ RememberInv => PaidNotForgotten
<1> SUFFICES ASSUME PaymentIInv, RememberInv, NEW o \in Orders, Paid(o), flow[o]["PAY"] = NoFlow
             PROVE  \E a \in 1..Amount :
                      /\ PayNotice(o, a) \in notices
                      /\ \/ a # Amount
                         \/ Targets(order[o], "pay_success") # {}
                         \/ \E w \in Workers : WritesPayment(w, o)
                         \/ order[o] = "REFUND" /\ o \in broken
  BY DEF PaidNotForgotten
<1>1. PICK a \in 1..Amount : PayNotice(o, a) \in notices BY DEF RememberInv, Announced
<1>2. order[o] \in {"NOTPAY", "SUCCESS", "REFUND"}
  BY DEF RememberInv, PaymentIInv, OrdersOK, Closed, Paid
<1>3. "SUCCESS" \in Targets("NOTPAY", "pay_success") /\ "SUCCESS" \in Targets("SUCCESS", "pay_success")
  BY DEF Targets, IdempotentPairs, Transitions, PaymentStatus
<1>4. CASE order[o] = "REFUND"
  <2>1. o \in broken \/ \E w \in Workers : WritesPayment(w, o)
    BY <1>4 DEF RememberInv, MarkedPaid, Kept
  <2> QED BY <1>1, <1>4, <2>1
<1> QED BY <1>1, <1>2, <1>3, <1>4

(* A payment that the channel holds is never forgotten: its flow is there,
   or the notification that writes it is repeated and still accepted,
   unless the amount is wrong or a callback was cut short between status
   and flow and a refund of all of it came before the next one. *)
THEOREM PaymentsAreRemembered == PaymentSpec => []PaidNotForgotten
<1>1. PaymentInit => RememberInv
  BY DEF PaymentInit, RememberInv, Paid, MarkedPaid, SoundTarget, Refunding, Idle
<1>2. PaymentIInv /\ RememberInv /\ [PaymentNext]_paymentVars => RememberInv' BY RememberNext
<1> QED BY <1>1, <1>2, RememberedIsTaken, PaymentInductive, PTL DEF PaymentSpec

----------------------------------------
(* The in-memory message queue. *)

(* A subscriber that has done its work keeps the key that says so. *)
EffectKeepsKey == \A h \in Handlers, m \in Msgs : effects[h][m] > 0 => BizOf[m] \in keys[h]

(* A subscriber at work holds its key and has done no work for it before. *)
AtWork ==
  At("business") =>
    /\ Key \in keys[worker.handler]
    /\ \A m \in Msgs : BizOf[m] = Key => effects[worker.handler][m] = 0

QueueIInv == TypeOK /\ EffectKeepsKey /\ AtWork /\ EffectOnce /\ CancelledIsPending


----------------------------------------
(* The loop's position. *)

LEMMA BusyShape ==
  ASSUME TypeOK, NEW step, At(step)
  PROVE  /\ worker \in Busy
         /\ worker.step = step
         /\ worker.msg \in Msgs
         /\ worker.handler \in Handlers
         /\ worker.attempt \in 1..MaxRetries
         /\ worker.failed \in {"no", "retryable", "nonRetryable"}
         /\ BizOf[worker.msg] \in Bizs
<1>1. worker \in Busy BY DEF TypeOK, At
<1> QED BY <1>1, MessageQueueAssumption DEF Busy, At

LEMMA ReturnedShape ==
  ASSUME NEW failed \in {"no", "retryable", "nonRetryable"}, worker \in Busy,
         HandlerReturned(failed)
  PROVE  /\ worker' \in Busy
         /\ worker'.step \in {"call", "returned"}
         /\ worker'.msg = worker.msg
         /\ worker'.failed = failed
         /\ \/ worker'.step = "call" /\ worker'.handler = worker.handler + 1
            \/ worker'.step = "returned" /\ worker'.handler = worker.handler
               /\ worker.handler = Subscribers
BY MessageQueueAssumption DEF HandlerReturned, Position, Busy, Handlers

LEMMA QueueInitIInv == Init => QueueIInv
<1> SUFFICES ASSUME Init PROVE QueueIInv OBVIOUS
<1>1. queue \in Seq(Entry) BY DEF Init
<1>a. worker \in Busy \union {NotBusy} /\ running \in BOOLEAN BY Zenon DEF Init
<1>2. /\ retryCount \in [Msgs -> 0..MaxRetries]
      /\ waiting \in [Msgs -> Nat]
      /\ timers \in [Msgs -> Nat]
      /\ keys \in [Handlers -> SUBSET Bizs]
      /\ effects \in [Handlers -> [Msgs -> Nat]]
      /\ sends \in 0..MaxSends
      /\ stops \in 0..MaxStops
  BY MessageQueueAssumption DEF Init
<1>3. TypeOK BY <1>1, <1>a, <1>2 DEF Init, TypeOK
<1>4. \A h \in Handlers, m \in Msgs : effects[h][m] = 0 BY DEF Init
<1>5. EffectKeepsKey /\ EffectOnce BY <1>4 DEF EffectKeepsKey, EffectOnce
<1>6. AtWork /\ CancelledIsPending BY DEF Init, AtWork, At, CancelledIsPending
<1> QED BY <1>3, <1>5, <1>6 DEF QueueIInv

----------------------------------------
(* What a step keeps when it leaves handlers and their keys alone. *)

Consumer == EffectKeepsKey /\ AtWork /\ EffectOnce

LEMMA ConsumerStays ==
  ASSUME Consumer, UNCHANGED <<worker, keys, effects>> PROVE Consumer'
BY DEF Consumer, EffectKeepsKey, AtWork, EffectOnce, At, Key

LEMMA ConsumerLeaves ==
  ASSUME Consumer, UNCHANGED <<keys, effects>>, ~At("business")' PROVE Consumer'
BY DEF Consumer, EffectKeepsKey, AtWork, EffectOnce

LEMMA DelaysStay ==
  ASSUME CancelledIsPending, UNCHANGED delayVars PROVE CancelledIsPending'
BY DEF CancelledIsPending, delayVars

LEMMA NotBusyIsIdle == NotBusy.step = "idle"
BY DEF NotBusy

LEMMA QueueGrows ==
  ASSUME queue \in Seq(Entry), NEW m \in Msgs, NEW dead \in BOOLEAN, Put(m, dead)
  PROVE  queue' \in Seq(Entry)
BY DEF Put, Entry

----------------------------------------
(* Publishers and delayed messages. *)

LEMMA QueuePublishStep ==
  ASSUME QueueIInv, NEW m \in Msgs, Publish(m) PROVE QueueIInv'
<1> USE DEF Publish
<1>1. queue' \in Seq(Entry) BY QueueGrows DEF QueueIInv, TypeOK
<1>2. TypeOK' BY <1>1, MessageQueueAssumption DEF QueueIInv, TypeOK, Send, delayVars
<1>3. Consumer' BY ConsumerStays DEF QueueIInv, Consumer
<1>4. CancelledIsPending' BY DelaysStay DEF QueueIInv
<1> QED BY <1>2, <1>3, <1>4 DEF QueueIInv, Consumer

LEMMA SendDelayStep ==
  ASSUME QueueIInv, NEW m \in Msgs, SendDelay(m) PROVE QueueIInv'
<1> USE DEF SendDelay
<1>1. TypeOK' BY MessageQueueAssumption DEF QueueIInv, TypeOK, Send, queueVars
<1>2. Consumer' BY ConsumerStays DEF QueueIInv, Consumer, queueVars
<1>3. CancelledIsPending' BY DEF QueueIInv, TypeOK, CancelledIsPending
<1> QED BY <1>1, <1>2, <1>3 DEF QueueIInv, Consumer

LEMMA CancelDelayedStep ==
  ASSUME QueueIInv, NEW m \in Msgs, CancelDelayed(m) PROVE QueueIInv'
<1> USE DEF CancelDelayed
<1>1. TypeOK' BY DEF QueueIInv, TypeOK, queueVars, bookVars
<1>2. Consumer' BY ConsumerStays DEF QueueIInv, Consumer, queueVars
<1>3. CancelledIsPending' BY DEF QueueIInv, CancelledIsPending
<1> QED BY <1>1, <1>2, <1>3 DEF QueueIInv, Consumer

LEMMA DelayElapsedStep ==
  ASSUME QueueIInv, NEW m \in Msgs, DelayElapsed(m) PROVE QueueIInv'
<1> USE DEF DelayElapsed
<1>1. queue' \in Seq(Entry) BY QueueGrows DEF QueueIInv, TypeOK
<1>2. timers' \in [Msgs -> Nat] BY DEF QueueIInv, TypeOK
<1>3. accepted' \subseteq Msgs BY DEF QueueIInv, TypeOK
<1>4. TypeOK' BY <1>1, <1>2, <1>3 DEF QueueIInv, TypeOK
<1>5. Consumer' BY ConsumerStays DEF QueueIInv, Consumer
<1>6. CancelledIsPending' BY DEF QueueIInv, TypeOK, CancelledIsPending
<1> QED BY <1>4, <1>5, <1>6 DEF QueueIInv, Consumer

LEMMA RequeueAfterStep ==
  ASSUME QueueIInv, NEW m \in Msgs, RequeueAfter(m) PROVE QueueIInv'
<1> USE DEF RequeueAfter
<1>1. queue' \in Seq(Entry) BY QueueGrows DEF QueueIInv, TypeOK
<1>2. TypeOK' BY <1>1 DEF QueueIInv, TypeOK, delayVars, bookVars
<1>3. Consumer' BY ConsumerStays DEF QueueIInv, Consumer
<1>4. CancelledIsPending' BY DelaysStay DEF QueueIInv
<1> QED BY <1>2, <1>3, <1>4 DEF QueueIInv, Consumer

----------------------------------------
(* The dispatch loop. *)

LEMMA StartStep ==
  ASSUME QueueIInv, Start PROVE QueueIInv'
<1> USE DEF Start
<1>1. running' \in BOOLEAN OBVIOUS
<1>2. TypeOK' BY <1>1 DEF QueueIInv, TypeOK, delayVars, bookVars
<1>3. Consumer' BY ConsumerStays DEF QueueIInv, Consumer
<1>4. CancelledIsPending' BY DelaysStay DEF QueueIInv
<1> QED BY <1>2, <1>3, <1>4 DEF QueueIInv, Consumer

LEMMA StopStep ==
  ASSUME QueueIInv, Stop PROVE QueueIInv'
<1> USE DEF Stop
<1>1. running' \in BOOLEAN OBVIOUS
<1>2. interrupted' \subseteq Msgs BY DEF QueueIInv, TypeOK, Busy
<1>3. TypeOK' BY <1>1, <1>2, MessageQueueAssumption DEF QueueIInv, TypeOK, delayVars
<1>4. Consumer' BY ConsumerLeaves DEF QueueIInv, Consumer, At
<1>5. CancelledIsPending' BY DelaysStay DEF QueueIInv
<1> QED BY <1>3, <1>4, <1>5 DEF QueueIInv, Consumer

LEMMA TakeStep ==
  ASSUME QueueIInv, Take PROVE QueueIInv'
<1> USE DEF Take
<1>1. Head(queue) \in Entry /\ queue' \in Seq(Entry) BY DEF QueueIInv, TypeOK
<1>2. worker' \in Busy /\ worker'.step = "call"
  BY <1>1, MessageQueueAssumption DEF Position, Busy, Entry, Handlers
<1>3. TypeOK' BY <1>1, <1>2 DEF QueueIInv, TypeOK, delayVars, bookVars
<1>4. Consumer' BY <1>2, ConsumerLeaves DEF QueueIInv, Consumer, At
<1>5. CancelledIsPending' BY DelaysStay DEF QueueIInv
<1> QED BY <1>3, <1>4, <1>5 DEF QueueIInv, Consumer

LEMMA TakeDeadLetterStep ==
  ASSUME QueueIInv, TakeDeadLetter PROVE QueueIInv'
<1> USE DEF TakeDeadLetter
<1>1. queue' \in Seq(Entry) BY DEF QueueIInv, TypeOK
<1>2. TypeOK' BY <1>1 DEF QueueIInv, TypeOK, delayVars, bookVars
<1>3. Consumer' BY ConsumerStays DEF QueueIInv, Consumer
<1>4. CancelledIsPending' BY DelaysStay DEF QueueIInv
<1> QED BY <1>2, <1>3, <1>4 DEF QueueIInv, Consumer

LEMMA SkipDuplicateStep ==
  ASSUME QueueIInv, SkipDuplicate PROVE QueueIInv'
<1> USE DEF SkipDuplicate
<1>1. worker' \in Busy /\ worker'.step \in {"call", "returned"}
  BY BusyShape, ReturnedShape DEF QueueIInv
<1>2. TypeOK' BY <1>1 DEF QueueIInv, TypeOK, delayVars, bookVars
<1>3. Consumer' BY <1>1, ConsumerLeaves DEF QueueIInv, Consumer, At
<1>4. CancelledIsPending' BY DelaysStay DEF QueueIInv
<1> QED BY <1>2, <1>3, <1>4 DEF QueueIInv, Consumer

LEMMA EnterBusinessStep ==
  ASSUME QueueIInv, EnterBusiness PROVE QueueIInv'
<1> USE DEF EnterBusiness
<1>0. /\ TypeOK
      /\ keys \in [Handlers -> SUBSET Bizs]
      /\ effects \in [Handlers -> [Msgs -> Nat]]
  BY DEF QueueIInv, TypeOK
<1>1. /\ worker \in Busy
      /\ worker.msg \in Msgs
      /\ worker.handler \in Handlers
      /\ worker.attempt \in 1..MaxRetries
      /\ worker.failed \in {"no", "retryable", "nonRetryable"}
      /\ Key \in Bizs
  BY <1>0, BusyShape DEF Key
<1>2. /\ worker' \in Busy
      /\ worker'.msg = worker.msg
      /\ worker'.handler = worker.handler
  BY <1>1 DEF Position, Busy
<1>3. keys' \in [Handlers -> SUBSET Bizs] BY <1>0, <1>1
<1>4. TypeOK' BY <1>2, <1>3 DEF QueueIInv, TypeOK, delayVars, bookVars
<1>5. EffectKeepsKey' BY <1>0, <1>1 DEF QueueIInv, EffectKeepsKey
<1>6. Key' = Key /\ Key \in keys'[worker.handler] BY <1>0, <1>1, <1>2 DEF Key
<1>7. \A m \in Msgs : BizOf[m] = Key => effects[worker.handler][m] = 0
  BY <1>0, <1>1 DEF QueueIInv, EffectKeepsKey
<1>8. AtWork' BY <1>2, <1>6, <1>7 DEF AtWork
<1>9. EffectOnce' /\ CancelledIsPending' BY DelaysStay DEF QueueIInv, EffectOnce
<1> QED BY <1>4, <1>5, <1>8, <1>9 DEF QueueIInv

LEMMA BusinessDoneStep ==
  ASSUME QueueIInv, BusinessDone PROVE QueueIInv'
<1> USE DEF BusinessDone
<1>0. /\ TypeOK
      /\ effects \in [Handlers -> [Msgs -> Nat]]
  BY DEF QueueIInv, TypeOK
<1>1. /\ worker \in Busy
      /\ worker.msg \in Msgs
      /\ worker.handler \in Handlers
      /\ worker.failed \in {"no", "retryable", "nonRetryable"}
  BY <1>0, BusyShape
<1>2. worker' \in Busy /\ worker'.step \in {"call", "returned"} BY <1>1, ReturnedShape
<1>3. effects' \in [Handlers -> [Msgs -> Nat]] BY <1>0, <1>1
<1>4. TypeOK' BY <1>2, <1>3 DEF QueueIInv, TypeOK, delayVars, bookVars
<1>5. /\ Key \in keys[worker.handler]
      /\ effects[worker.handler][worker.msg] = 0
  BY <1>1 DEF QueueIInv, AtWork, Key
<1>6. \A h \in Handlers, m \in Msgs :
        effects'[h][m] = IF h = worker.handler /\ m = worker.msg THEN 1 ELSE effects[h][m]
  BY <1>0, <1>1, <1>5
<1>7. EffectKeepsKey' BY <1>1, <1>5, <1>6 DEF QueueIInv, EffectKeepsKey, Key
<1>8. EffectOnce' BY <1>1, <1>6 DEF QueueIInv, EffectOnce
<1>9. AtWork' /\ CancelledIsPending' BY <1>2, DelaysStay DEF QueueIInv, AtWork, At
<1> QED BY <1>4, <1>7, <1>8, <1>9 DEF QueueIInv

LEMMA BusinessFailsStep ==
  ASSUME QueueIInv, NEW kind \in {"retryable", "nonRetryable"}, BusinessFails(kind) PROVE QueueIInv'
<1>0. /\ TypeOK
      /\ keys \in [Handlers -> SUBSET Bizs]
      /\ effects \in [Handlers -> [Msgs -> Nat]]
  BY DEF QueueIInv, TypeOK
<1>1. /\ worker \in Busy
      /\ worker.msg \in Msgs
      /\ worker.handler \in Handlers
      /\ worker.attempt \in 1..MaxRetries
      /\ worker.failed \in {"no", "retryable", "nonRetryable"}
  BY <1>0, BusyShape DEF BusinessFails
<1>2. worker' \in Busy /\ worker'.step \in {"call", "returned"}
  <2>1. CASE worker' = Position("call", worker.msg, worker.handler, worker.attempt + 1,
                                worker.failed) /\ worker.attempt < MaxRetries
    BY <1>1, <2>1, MessageQueueAssumption DEF Position, Busy
  <2>2. CASE HandlerReturned(worker.failed) BY <1>1, <2>2, ReturnedShape
  <2>3. CASE HandlerReturned(kind) BY <1>1, <2>3, ReturnedShape
  <2> QED BY <2>1, <2>2, <2>3 DEF BusinessFails
<1>3. queue' \in Seq(Entry) /\ deadLettered' \subseteq Msgs
  BY <1>0, <1>1, QueueGrows DEF BusinessFails, DeadLetter, TypeOK
<1>4. keys' \in [Handlers -> SUBSET Bizs] BY <1>0, <1>1 DEF BusinessFails
<1>5. TypeOK' BY <1>2, <1>3, <1>4 DEF QueueIInv, TypeOK, BusinessFails, delayVars
<1>6. \A m \in Msgs : BizOf[m] = Key => effects[worker.handler][m] = 0
  BY DEF QueueIInv, AtWork, BusinessFails
<1>7. EffectKeepsKey' BY <1>0, <1>1, <1>6 DEF QueueIInv, EffectKeepsKey, BusinessFails
<1>8. EffectOnce' /\ CancelledIsPending' BY DelaysStay DEF QueueIInv, EffectOnce, BusinessFails
<1>9. AtWork' BY <1>2 DEF AtWork, At
<1> QED BY <1>5, <1>7, <1>8, <1>9 DEF QueueIInv

LEMMA ConsumedStep ==
  ASSUME QueueIInv, Consumed PROVE QueueIInv'
<1> USE DEF Consumed
<1>0. retryCount \in [Msgs -> 0..MaxRetries] BY DEF QueueIInv, TypeOK
<1>1. retryCount' \in [Msgs -> 0..MaxRetries]
  <2>1. retryCount' = [retryCount EXCEPT ![worker.msg] = 0] /\ 0 \in 0..MaxRetries
    BY MessageQueueAssumption
  <2> HIDE DEF Consumed
  <2> QED BY <1>0, <2>1
<1>2. TypeOK' BY <1>1 DEF QueueIInv, TypeOK, delayVars, bookVars
<1>3. Consumer' BY ConsumerLeaves DEF QueueIInv, Consumer, At
<1>4. CancelledIsPending' BY DelaysStay DEF QueueIInv
<1> QED BY <1>2, <1>3, <1>4 DEF QueueIInv, Consumer

LEMMA GiveUpStep ==
  ASSUME QueueIInv, GiveUp PROVE QueueIInv'
<1> USE DEF GiveUp
<1>1. queue' \in Seq(Entry) /\ deadLettered' \subseteq Msgs
  BY BusyShape, QueueGrows DEF QueueIInv, TypeOK, DeadLetter
<1>2. TypeOK' BY <1>1 DEF QueueIInv, TypeOK, delayVars
<1>3. Consumer' BY ConsumerLeaves DEF QueueIInv, Consumer, At
<1>4. CancelledIsPending' BY DelaysStay DEF QueueIInv
<1> QED BY <1>2, <1>3, <1>4 DEF QueueIInv, Consumer

LEMMA RetryOrDlqStep ==
  ASSUME QueueIInv, RetryOrDlq PROVE QueueIInv'
<1> USE DEF RetryOrDlq
<1>0. TypeOK /\ worker.msg \in Msgs BY BusyShape DEF QueueIInv
<1>a. retryCount \in [Msgs -> 0..MaxRetries] /\ waiting \in [Msgs -> Nat] BY <1>0 DEF TypeOK
<1>1. Retries(worker.msg) \in 0..MaxRetries
  <2>1. retryCount[worker.msg] \in 0..MaxRetries BY <1>0, <1>a
  <2> QED BY <2>1, MessageQueueAssumption DEF Retries
<1>2. retryCount' \in [Msgs -> 0..MaxRetries] BY <1>0, <1>a, <1>1
<1>3. waiting' \in [Msgs -> Nat] BY <1>0, <1>a
<1>4. queue' \in Seq(Entry) /\ deadLettered' \subseteq Msgs
  BY <1>0, QueueGrows DEF TypeOK, DeadLetter
<1>5. TypeOK' BY <1>2, <1>3, <1>4 DEF QueueIInv, TypeOK, delayVars
<1>6. Consumer' BY ConsumerLeaves DEF QueueIInv, Consumer, At
<1>7. CancelledIsPending' BY DelaysStay DEF QueueIInv
<1> QED BY <1>5, <1>6, <1>7 DEF QueueIInv, Consumer

LEMMA QueueNextIInv == QueueIInv /\ [Next]_vars => QueueIInv'
<1> SUFFICES ASSUME QueueIInv, [Next]_vars PROVE QueueIInv' OBVIOUS
<1>1. CASE \E m \in Msgs :
  \/ Publish(m) \/ SendDelay(m) \/ CancelDelayed(m)
  \/ DelayElapsed(m) \/ RequeueAfter(m)
  BY <1>1, QueuePublishStep, SendDelayStep, CancelDelayedStep, DelayElapsedStep, RequeueAfterStep
<1>2. CASE Start \/ Stop \/ Take \/ TakeDeadLetter \/ Consumed \/ GiveUp \/ RetryOrDlq
  BY <1>2, StartStep, StopStep, TakeStep, TakeDeadLetterStep, ConsumedStep, GiveUpStep,
     RetryOrDlqStep
<1>3. CASE SkipDuplicate \/ EnterBusiness \/ BusinessDone
  BY <1>3, SkipDuplicateStep, EnterBusinessStep, BusinessDoneStep
<1>4. CASE \E kind \in {"retryable", "nonRetryable"} : BusinessFails(kind)
  BY <1>4, BusinessFailsStep
<1>5. CASE UNCHANGED vars
  <2>1. Consumer' /\ CancelledIsPending'
    BY <1>5, ConsumerStays, DelaysStay DEF QueueIInv, Consumer, vars, queueVars
  <2>2. TypeOK' BY <1>5 DEF QueueIInv, TypeOK, vars, queueVars, delayVars, bookVars
  <2> QED BY <2>1, <2>2 DEF QueueIInv, Consumer
<1> QED BY <1>1, <1>2, <1>3, <1>4, <1>5 DEF Next, LoopStep

LEMMA QueueInductive == Spec => []QueueIInv
BY QueueInitIInv, QueueNextIInv, PTL DEF Spec

(* The queue keeps its type: no count of retries exceeds max_retries and
   the loop is at a subscriber that exists, for every value of the
   constants. *)
THEOREM QueueTypeCorrect == Spec => []TypeOK
<1>1. QueueIInv => TypeOK BY DEF QueueIInv
<1> QED BY <1>1, QueueInductive, PTL

(* Idempotent consumers: a subscriber does its work for a message at most
   once, however many sends, retries of the queue, retries of the consumer
   and stops of the loop there are, and also when messages share a
   business id. *)
THEOREM EffectsHappenOnce == Spec => []EffectOnce
<1>1. QueueIInv => EffectOnce BY DEF QueueIInv
<1> QED BY <1>1, QueueInductive, PTL

(* Cancellation of delayed messages: no mark is left behind, however
   delayed sends, cancellations and timers of one id overlap. *)
THEOREM NoMarkLeftBehind == Spec => []CancelledIsPending
<1>1. QueueIInv => CancelledIsPending BY DEF QueueIInv
<1> QED BY <1>1, QueueInductive, PTL

----------------------------------------
(* No message is lost, when no two messages share a business id. *)

OwnBizIds == \A m, n \in Msgs : BizOf[m] = BizOf[n] => m = n

InQueue(m) == \E i \in DOMAIN queue : queue[i] = [msg |-> m, dead |-> FALSE]

(* Nothing is left for handler h to do for m. *)
Done(h, m) == effects[h][m] > 0 \/ m \in deadLettered \/ m \in interrupted

(* An occupied key stands for work that was done, is under way, or was cut
   off by stop(). *)
KeysExplained ==
  \A h \in Handlers, m \in Msgs :
    BizOf[m] \in keys[h] =>
      \/ effects[h][m] > 0
      \/ m \in interrupted
      \/ At("business") /\ worker.msg = m /\ worker.handler = h

(* As long as no handler has failed, those the loop has called are done. *)
EarlierDone ==
  worker # NotBusy /\ worker.failed = "no" => \A h \in Handlers :
      h < worker.handler \/ worker.step = "returned" => Done(h, worker.msg)

LossInv == KeysExplained /\ EarlierDone /\ NoSilentLoss

(* What no step takes back. *)
DoneLasts ==
  \A m \in Msgs : /\ Settled(m) => Settled(m)'
                  /\ \A h \in Handlers : Done(h, m) => Done(h, m)'

LEMMA UntouchedLasts ==
  ASSUME UNCHANGED effects, deadLettered \subseteq deadLettered', interrupted \subseteq interrupted'
  PROVE  DoneLasts
BY DEF DoneLasts, Done, Settled, Handled

LEMMA AllDoneSettles ==
  ASSUME NEW m, \A h \in Handlers : Done(h, m) PROVE Settled(m)
BY DEF Settled, Handled, Done

LEMMA PutKeeps ==
  ASSUME queue \in Seq(Entry), NEW m \in Msgs, NEW dead \in BOOLEAN, Put(m, dead)
  PROVE  \A n \in Msgs : InQueue(n) => InQueue(n)'
<1> SUFFICES ASSUME NEW n \in Msgs, NEW i \in DOMAIN queue, queue[i] = [msg |-> n, dead |-> FALSE]
             PROVE  InQueue(n)'
  BY DEF InQueue
<1>1. [msg |-> m, dead |-> dead] \in Entry /\ i \in 1..Len(queue) BY LenProperties DEF Entry
<1>2. i \in 1..Len(queue') /\ queue'[i] = queue[i] /\ queue' \in Seq(Entry)
  BY <1>1, AppendProperties, LenProperties DEF Put
<1> QED BY <1>2, LenProperties DEF InQueue

LEMMA PutAdds ==
  ASSUME queue \in Seq(Entry), NEW m \in Msgs, Put(m, FALSE) PROVE InQueue(m)'
<1>1. Len(queue) + 1 \in DOMAIN queue' BY DEF Put, Entry
<1>2. queue'[Len(queue) + 1] = [msg |-> m, dead |-> FALSE] BY DEF Put, Entry
<1> QED BY <1>1, <1>2 DEF InQueue

LEMMA TailKeeps ==
  ASSUME queue \in Seq(Entry), queue # <<>>, queue' = Tail(queue)
  PROVE  \A n \in Msgs : InQueue(n) => InQueue(n)' \/ Head(queue) = [msg |-> n, dead |-> FALSE]
<1> SUFFICES ASSUME NEW n \in Msgs, NEW i \in DOMAIN queue, queue[i] = [msg |-> n, dead |-> FALSE],
                    Head(queue) # [msg |-> n, dead |-> FALSE]
             PROVE  InQueue(n)'
  BY DEF InQueue
<1>1. i \in 1..Len(queue) /\ Len(queue) \in Nat BY LenProperties
<1>2. i # 1
  <2>1. queue[1] = Head(queue) BY LenProperties
  <2> QED BY <2>1
<1>3. queue' \in Seq(Entry) /\ Len(queue') = Len(queue) - 1
      /\ \A j \in 1..Len(queue') : queue'[j] = queue[j + 1]
  BY HeadTailProperties
<1>4. i - 1 \in 1..Len(queue') /\ queue'[i - 1] = queue[(i - 1) + 1] /\ (i - 1) + 1 = i
  BY <1>1, <1>2, <1>3
<1> QED BY <1>3, <1>4, LenProperties DEF InQueue

(* A step that leaves the loop with its message, and the retries waiting,
   takes no message off its way. *)
LEMMA UnderWayStays ==
  ASSUME \A n \in Msgs : InQueue(n) => InQueue(n)',
         worker # NotBusy => worker' # NotBusy /\ worker'.msg = worker.msg,
         \A n \in Msgs : waiting[n] > 0 => waiting'[n] > 0
  PROVE  \A n \in Msgs : UnderWay(n) => UnderWay(n)'
BY DEF UnderWay, InQueue

LEMMA NoneLost ==
  ASSUME NoSilentLoss, DoneLasts, accepted \subseteq Msgs,
         \A m \in accepted : UnderWay(m) => UnderWay(m)' \/ Settled(m)',
         \A m \in accepted' \ accepted : UnderWay(m)'
  PROVE  NoSilentLoss'
BY DEF NoSilentLoss, DoneLasts

LEMMA KeysStay ==
  ASSUME KeysExplained, UNCHANGED <<worker, keys, effects, interrupted>> PROVE KeysExplained'
BY DEF KeysExplained, At

LEMMA KeysStayWhenNotAtWork ==
  ASSUME KeysExplained, UNCHANGED <<keys, effects>>, interrupted \subseteq interrupted',
         ~At("business")
  PROVE  KeysExplained'
BY DEF KeysExplained

LEMMA EarlierStays ==
  ASSUME EarlierDone, UNCHANGED <<worker, effects, interrupted, deadLettered>> PROVE EarlierDone'
BY DEF EarlierDone, Done

(* The loop goes on after a handler that has nothing left to do. *)
LEMMA EarlierAdvances ==
  ASSUME worker \in Busy, NEW failed \in {"no", "retryable", "nonRetryable"},
         HandlerReturned(failed), EarlierDone, DoneLasts, worker # NotBusy,
         worker.step # "returned",
         failed = "no" => /\ worker.failed = "no"
                          /\ \A h \in Handlers : h = worker.handler => Done(h, worker.msg)'
  PROVE  EarlierDone'
<1> SUFFICES ASSUME worker'.failed = "no", NEW h \in Handlers,
                    h < worker'.handler \/ worker'.step = "returned"
             PROVE  Done(h, worker.msg)'
  BY DEF EarlierDone
<1>1. /\ failed = "no"
      /\ worker'.msg = worker.msg
      /\ h <= worker.handler
      /\ worker.msg \in Msgs
      /\ worker.handler \in Handlers
  BY ReturnedShape, MessageQueueAssumption DEF Busy, Handlers
<1>2. CASE h = worker.handler BY <1>1, <1>2 DEF Done
<1>3. CASE h < worker.handler
  <2>1. Done(h, worker.msg) BY <1>1, <1>3 DEF EarlierDone
  <2> QED BY <1>1, <2>1 DEF DoneLasts
<1> QED BY <1>1, <1>2, <1>3 DEF Handlers

LEMMA SendDelayKeepsAll ==
  ASSUME QueueIInv, LossInv, NEW m \in Msgs, SendDelay(m) PROVE LossInv'
<1> USE DEF SendDelay
<1>1. DoneLasts BY UntouchedLasts DEF bookVars
<1>2. \A n \in Msgs : InQueue(n) => InQueue(n)' BY DEF InQueue, queueVars
<1>3. \A n \in Msgs : UnderWay(n) => UnderWay(n)' BY <1>2, UnderWayStays DEF queueVars
<1>4. NoSilentLoss' BY <1>1, <1>3, NoneLost DEF LossInv, QueueIInv, TypeOK, bookVars
<1>5. KeysExplained' /\ EarlierDone' BY KeysStay, EarlierStays DEF LossInv, queueVars, bookVars
<1> QED BY <1>4, <1>5 DEF LossInv

LEMMA CancelDelayedKeepsAll ==
  ASSUME QueueIInv, LossInv, NEW m \in Msgs, CancelDelayed(m) PROVE LossInv'
<1> USE DEF CancelDelayed
<1>1. DoneLasts BY UntouchedLasts DEF bookVars
<1>2. \A n \in Msgs : InQueue(n) => InQueue(n)' BY DEF InQueue, queueVars
<1>3. \A n \in Msgs : UnderWay(n) => UnderWay(n)' BY <1>2, UnderWayStays DEF queueVars
<1>4. NoSilentLoss' BY <1>1, <1>3, NoneLost DEF LossInv, QueueIInv, TypeOK, bookVars
<1>5. KeysExplained' /\ EarlierDone' BY KeysStay, EarlierStays DEF LossInv, queueVars, bookVars
<1> QED BY <1>4, <1>5 DEF LossInv

LEMMA StartKeepsAll ==
  ASSUME QueueIInv, LossInv, Start PROVE LossInv'
<1> USE DEF Start
<1>1. DoneLasts BY UntouchedLasts DEF bookVars
<1>2. \A n \in Msgs : InQueue(n) => InQueue(n)' BY DEF InQueue
<1>3. \A n \in Msgs : UnderWay(n) => UnderWay(n)' BY <1>2, UnderWayStays DEF queueVars
<1>4. NoSilentLoss' BY <1>1, <1>3, NoneLost DEF LossInv, QueueIInv, TypeOK, bookVars
<1>5. KeysExplained' /\ EarlierDone' BY KeysStay, EarlierStays DEF LossInv, queueVars, bookVars
<1> QED BY <1>4, <1>5 DEF LossInv

LEMMA PublishKeepsAll ==
  ASSUME QueueIInv, LossInv, NEW m \in Msgs, Publish(m) PROVE LossInv'
<1> USE DEF Publish
<1>0. queue \in Seq(Entry) BY DEF QueueIInv, TypeOK
<1>1. DoneLasts BY UntouchedLasts DEF bookVars
<1>2. InQueue(m)' /\ \A n \in Msgs : InQueue(n) => InQueue(n)' BY <1>0, PutAdds, PutKeeps
<1>3. UnderWay(m)' /\ \A n \in Msgs : UnderWay(n) => UnderWay(n)'
  BY <1>2, UnderWayStays DEF UnderWay, InQueue
<1>4. NoSilentLoss' BY <1>1, <1>3, NoneLost DEF LossInv, QueueIInv, TypeOK
<1>5. KeysExplained' /\ EarlierDone' BY KeysStay, EarlierStays DEF LossInv, bookVars
<1> QED BY <1>4, <1>5 DEF LossInv

LEMMA DelayElapsedKeepsAll ==
  ASSUME QueueIInv, LossInv, NEW m \in Msgs, DelayElapsed(m) PROVE LossInv'
<1> USE DEF DelayElapsed
<1>0. queue \in Seq(Entry) BY DEF QueueIInv, TypeOK
<1>1. DoneLasts BY UntouchedLasts DEF bookVars
<1>2. /\ m \in delayed \ cancelled => InQueue(m)'
      /\ \A n \in Msgs : InQueue(n) => InQueue(n)'
  <2>1. CASE m \in delayed \ cancelled BY <1>0, <2>1, PutAdds, PutKeeps
  <2>2. CASE m \notin delayed \ cancelled BY <2>2 DEF InQueue
  <2> QED BY <2>1, <2>2
<1>3. /\ m \in delayed \ cancelled => UnderWay(m)'
      /\ \A n \in Msgs : UnderWay(n) => UnderWay(n)'
  BY <1>2, UnderWayStays DEF UnderWay, InQueue
<1>4. NoSilentLoss' BY <1>1, <1>3, NoneLost DEF LossInv, QueueIInv, TypeOK
<1>5. KeysExplained' /\ EarlierDone' BY KeysStay, EarlierStays DEF LossInv, bookVars
<1> QED BY <1>4, <1>5 DEF LossInv

LEMMA RequeueAfterKeepsAll ==
  ASSUME QueueIInv, LossInv, NEW m \in Msgs, RequeueAfter(m) PROVE LossInv'
<1> USE DEF RequeueAfter
<1>0. queue \in Seq(Entry) BY DEF QueueIInv, TypeOK
<1>1. DoneLasts BY UntouchedLasts DEF bookVars
<1>2. InQueue(m)' /\ \A n \in Msgs : InQueue(n) => InQueue(n)' BY <1>0, PutAdds, PutKeeps
<1>3. \A n \in Msgs : UnderWay(n) => UnderWay(n)'
  <2>1. UnderWay(m)' BY <1>2 DEF UnderWay, InQueue
  <2>2. ASSUME NEW n \in Msgs \ {m}, UnderWay(n) PROVE UnderWay(n)'
    BY <1>2, <2>2 DEF UnderWay, InQueue, QueueIInv, TypeOK
  <2> QED BY <2>1, <2>2
<1>4. NoSilentLoss' BY <1>1, <1>3, NoneLost DEF LossInv, QueueIInv, TypeOK, bookVars
<1>5. KeysExplained' /\ EarlierDone' BY KeysStay, EarlierStays DEF LossInv, bookVars
<1> QED BY <1>4, <1>5 DEF LossInv

LEMMA TakeDeadLetterKeepsAll ==
  ASSUME QueueIInv, LossInv, TakeDeadLetter PROVE LossInv'
<1> USE DEF TakeDeadLetter
<1>1. DoneLasts BY UntouchedLasts DEF bookVars
<1>2. \A n \in Msgs : InQueue(n) => InQueue(n)' BY TailKeeps DEF QueueIInv, TypeOK
<1>3. \A n \in Msgs : UnderWay(n) => UnderWay(n)' BY <1>2, UnderWayStays
<1>4. NoSilentLoss' BY <1>1, <1>3, NoneLost DEF LossInv, QueueIInv, TypeOK, bookVars
<1>5. KeysExplained' /\ EarlierDone' BY KeysStay, EarlierStays DEF LossInv, bookVars
<1> QED BY <1>4, <1>5 DEF LossInv

LEMMA TakeKeepsAll ==
  ASSUME QueueIInv, LossInv, Take PROVE LossInv'
<1> USE DEF Take
<1>0. queue \in Seq(Entry) BY DEF QueueIInv, TypeOK
<1>1. DoneLasts BY UntouchedLasts DEF bookVars
<1>2. /\ worker'.msg = Head(queue).msg
      /\ worker'.handler = 1
      /\ worker'.step = "call"
      /\ worker' # NotBusy
  BY NotBusyIsIdle DEF Position
<1>3. ASSUME NEW n \in Msgs, UnderWay(n) PROVE UnderWay(n)'
  <2>1. CASE InQueue(n)' BY <2>1 DEF UnderWay, InQueue
  <2>2. CASE Head(queue) = [msg |-> n, dead |-> FALSE] BY <1>2, <2>2 DEF UnderWay
  <2>3. CASE waiting[n] > 0 BY <2>3 DEF UnderWay
  <2> QED BY <1>0, <1>3, <2>1, <2>2, <2>3, TailKeeps DEF UnderWay, InQueue
<1>4. NoSilentLoss' BY <1>1, <1>3, NoneLost DEF LossInv, QueueIInv, TypeOK, bookVars
<1>5. KeysExplained' BY KeysStayWhenNotAtWork DEF LossInv, At, bookVars
<1>6. EarlierDone' BY <1>2 DEF EarlierDone, Handlers
<1> QED BY <1>4, <1>5, <1>6 DEF LossInv

LEMMA StopKeepsAll ==
  ASSUME QueueIInv, LossInv, Stop PROVE LossInv'
<1> USE DEF Stop
<1>1. DoneLasts BY UntouchedLasts
<1>2. worker # NotBusy => worker.msg \in interrupted' OBVIOUS
<1>3. ASSUME NEW n \in Msgs, UnderWay(n) PROVE UnderWay(n)' \/ Settled(n)'
  BY <1>2, <1>3 DEF UnderWay, Settled
<1>4. NoSilentLoss' BY <1>1, <1>3, NoneLost DEF LossInv, QueueIInv, TypeOK
<1>5. KeysExplained' BY <1>2 DEF LossInv, KeysExplained, At
<1>6. EarlierDone' BY DEF EarlierDone
<1> QED BY <1>4, <1>5, <1>6 DEF LossInv

LEMMA SkipDuplicateKeepsAll ==
  ASSUME QueueIInv, LossInv, SkipDuplicate PROVE LossInv'
<1> USE DEF SkipDuplicate
<1>1. DoneLasts BY UntouchedLasts DEF bookVars
<1>2. /\ worker \in Busy
      /\ worker # NotBusy
      /\ worker.step = "call"
      /\ worker.msg \in Msgs
      /\ worker.handler \in Handlers
      /\ worker.failed \in {"no", "retryable", "nonRetryable"}
  BY BusyShape DEF QueueIInv, At
<1>3. worker' # NotBusy /\ worker'.msg = worker.msg BY <1>2, ReturnedShape, NotBusyIsIdle
<1>4. \A n \in Msgs : UnderWay(n) => UnderWay(n)' BY <1>3, UnderWayStays DEF InQueue
<1>5. NoSilentLoss' BY <1>1, <1>4, NoneLost DEF LossInv, QueueIInv, TypeOK, bookVars
<1>6. KeysExplained' BY <1>2, KeysStayWhenNotAtWork DEF LossInv, At, bookVars
<1>7. Done(worker.handler, worker.msg) BY <1>2 DEF LossInv, KeysExplained, Key, Done, At
<1>8. \A h \in Handlers : h = worker.handler => Done(h, worker.msg)'
  BY <1>1, <1>2, <1>3, <1>7 DEF DoneLasts, Done, bookVars
<1>9. EarlierDone' BY <1>1, <1>2, <1>8, EarlierAdvances DEF LossInv
<1> QED BY <1>5, <1>6, <1>9 DEF LossInv

LEMMA EnterBusinessKeepsAll ==
  ASSUME OwnBizIds, QueueIInv, LossInv, EnterBusiness PROVE LossInv'
<1> USE DEF EnterBusiness
<1>1. DoneLasts BY UntouchedLasts DEF bookVars
<1>2. /\ worker # NotBusy
      /\ worker.step = "call"
      /\ worker.msg \in Msgs
      /\ worker.handler \in Handlers
      /\ keys \in [Handlers -> SUBSET Bizs]
  BY BusyShape DEF QueueIInv, At, TypeOK
<1>3. /\ worker' # NotBusy
      /\ worker'.step = "business"
      /\ worker'.msg = worker.msg
      /\ worker'.handler = worker.handler
      /\ worker'.failed = worker.failed
  BY NotBusyIsIdle DEF Position
<1>4. \A n \in Msgs : UnderWay(n) => UnderWay(n)' BY <1>3, UnderWayStays DEF InQueue
<1>5. NoSilentLoss' BY <1>1, <1>4, NoneLost DEF LossInv, QueueIInv, TypeOK, bookVars
<1>6. KeysExplained'
  <2> SUFFICES ASSUME NEW h \in Handlers, NEW m \in Msgs, BizOf[m] \in keys'[h]
               PROVE  \/ effects[h][m] > 0
                      \/ m \in interrupted
                      \/ worker.msg = m /\ worker.handler = h
    BY <1>3 DEF KeysExplained, At, bookVars
  <2>1. CASE BizOf[m] \in keys[h] BY <1>2, <2>1 DEF LossInv, KeysExplained, At
  <2>2. CASE BizOf[m] \notin keys[h] BY <1>2, <2>2 DEF OwnBizIds, Key
  <2> QED BY <2>1, <2>2
<1>7. EarlierDone' BY <1>2, <1>3 DEF LossInv, EarlierDone, Done, bookVars
<1> QED BY <1>5, <1>6, <1>7 DEF LossInv

LEMMA BusinessDoneKeepsAll ==
  ASSUME QueueIInv, LossInv, BusinessDone PROVE LossInv'
<1> USE DEF BusinessDone
<1>1. /\ worker \in Busy
      /\ worker # NotBusy
      /\ worker.step = "business"
      /\ worker.msg \in Msgs
      /\ worker.handler \in Handlers
      /\ worker.failed \in {"no", "retryable", "nonRetryable"}
      /\ effects \in [Handlers -> [Msgs -> Nat]]
  BY BusyShape DEF QueueIInv, At, TypeOK
<1>2. /\ \A h \in Handlers, m \in Msgs : effects[h][m] > 0 => effects'[h][m] > 0
      /\ effects'[worker.handler][worker.msg] > 0
  BY <1>1
<1>3. DoneLasts BY <1>2 DEF DoneLasts, Done, Settled, Handled, bookVars
<1>4. worker' # NotBusy /\ worker'.msg = worker.msg BY <1>1, ReturnedShape, NotBusyIsIdle
<1>5. \A n \in Msgs : UnderWay(n) => UnderWay(n)' BY <1>4, UnderWayStays DEF InQueue
<1>6. NoSilentLoss' BY <1>3, <1>5, NoneLost DEF LossInv, QueueIInv, TypeOK, bookVars
<1>7. KeysExplained' BY <1>2 DEF LossInv, KeysExplained, bookVars
<1>8. \A h \in Handlers : h = worker.handler => Done(h, worker.msg)' BY <1>2, <1>4 DEF Done
<1>9. EarlierDone' BY <1>1, <1>3, <1>8, EarlierAdvances DEF LossInv
<1> QED BY <1>6, <1>7, <1>9 DEF LossInv

LEMMA BusinessFailsKeepsAll ==
  ASSUME QueueIInv, LossInv, NEW kind \in {"retryable", "nonRetryable"}, BusinessFails(kind)
  PROVE  LossInv'
<1>1. /\ worker \in Busy
      /\ worker # NotBusy
      /\ worker.step = "business"
      /\ worker.msg \in Msgs
      /\ worker.handler \in Handlers
      /\ worker.failed \in {"no", "retryable", "nonRetryable"}
      /\ keys \in [Handlers -> SUBSET Bizs]
      /\ queue \in Seq(Entry)
  BY BusyShape DEF QueueIInv, At, TypeOK, BusinessFails
<1>2. DoneLasts BY UntouchedLasts DEF BusinessFails, DeadLetter
<1>3. worker' # NotBusy /\ worker'.msg = worker.msg
  <2>1. CASE worker' = Position("call", worker.msg, worker.handler, worker.attempt + 1,
                                worker.failed)
    BY <2>1, NotBusyIsIdle DEF Position
  <2>2. CASE HandlerReturned(worker.failed) \/ HandlerReturned(kind)
    BY <1>1, <2>2, ReturnedShape, NotBusyIsIdle
  <2> QED BY <2>1, <2>2 DEF BusinessFails
<1>4. \A n \in Msgs : InQueue(n) => InQueue(n)'
  <2>1. CASE UNCHANGED queue BY <2>1 DEF InQueue
  <2>2. CASE DeadLetter(worker.msg) BY <1>1, <2>2, PutKeeps DEF DeadLetter
  <2> QED BY <2>1, <2>2 DEF BusinessFails
<1>5. \A n \in Msgs : UnderWay(n) => UnderWay(n)' BY <1>3, <1>4, UnderWayStays DEF BusinessFails
<1>6. NoSilentLoss' BY <1>2, <1>5, NoneLost DEF LossInv, QueueIInv, TypeOK, BusinessFails
<1>7. KeysExplained' BY <1>1 DEF LossInv, KeysExplained, BusinessFails, Key
<1>8. EarlierDone'
  <2>1. CASE worker' = Position("call", worker.msg, worker.handler, worker.attempt + 1,
                                worker.failed) /\ UNCHANGED deadLettered
    BY <1>1, <2>1 DEF LossInv, EarlierDone, Done, Position, BusinessFails
  <2>2. CASE DeadLetter(worker.msg) /\ HandlerReturned(worker.failed)
    <3>1. \A h \in Handlers : Done(h, worker.msg)' BY <1>3, <2>2 DEF DeadLetter, Done
    <3> QED BY <3>1 DEF EarlierDone
  <2>3. CASE HandlerReturned(kind) BY <1>1, <2>3, ReturnedShape DEF EarlierDone
  <2> QED BY <2>1, <2>2, <2>3 DEF BusinessFails
<1> QED BY <1>6, <1>7, <1>8 DEF LossInv

LEMMA ConsumedKeepsAll ==
  ASSUME QueueIInv, LossInv, Consumed PROVE LossInv'
<1> USE DEF Consumed
<1>1. DoneLasts BY UntouchedLasts DEF bookVars
<1>2. worker # NotBusy /\ worker.step = "returned" BY DEF At
<1>3. Settled(worker.msg) BY <1>2, AllDoneSettles DEF LossInv, EarlierDone
<1>4. ASSUME NEW n \in Msgs, UnderWay(n) PROVE UnderWay(n)' \/ Settled(n)'
  BY <1>1, <1>3, <1>4 DEF UnderWay, InQueue, DoneLasts
<1>5. NoSilentLoss' BY <1>1, <1>4, NoneLost DEF LossInv, QueueIInv, TypeOK, bookVars
<1>6. KeysExplained' /\ EarlierDone'
  BY <1>2, KeysStayWhenNotAtWork DEF LossInv, EarlierDone, At, bookVars
<1> QED BY <1>5, <1>6 DEF LossInv

LEMMA GiveUpKeepsAll ==
  ASSUME QueueIInv, LossInv, GiveUp PROVE LossInv'
<1> USE DEF GiveUp
<1>1. DoneLasts BY UntouchedLasts DEF DeadLetter
<1>2. worker # NotBusy /\ worker.step = "returned" /\ worker.msg \in Msgs
  BY BusyShape DEF QueueIInv, At
<1>3. \A n \in Msgs : InQueue(n) => InQueue(n)' BY <1>2, PutKeeps DEF QueueIInv, TypeOK, DeadLetter
<1>4. ASSUME NEW n \in Msgs, UnderWay(n) PROVE UnderWay(n)' \/ Settled(n)'
  BY <1>3, <1>4 DEF UnderWay, InQueue, Settled, DeadLetter
<1>5. NoSilentLoss' BY <1>1, <1>4, NoneLost DEF LossInv, QueueIInv, TypeOK
<1>6. KeysExplained' /\ EarlierDone' BY <1>2, KeysStayWhenNotAtWork DEF LossInv, EarlierDone, At
<1> QED BY <1>5, <1>6 DEF LossInv

LEMMA RetryOrDlqKeepsAll ==
  ASSUME QueueIInv, LossInv, RetryOrDlq PROVE LossInv'
<1> USE DEF RetryOrDlq
<1>1. DoneLasts BY UntouchedLasts DEF DeadLetter
<1>2. /\ worker # NotBusy
      /\ worker.step = "returned"
      /\ worker.msg \in Msgs
      /\ waiting \in [Msgs -> Nat]
      /\ queue \in Seq(Entry)
  BY BusyShape DEF QueueIInv, At, TypeOK
<1>3. \A n \in Msgs : InQueue(n) => InQueue(n)'
  <2>1. CASE DeadLetter(worker.msg) BY <1>2, <2>1, PutKeeps DEF DeadLetter
  <2>2. CASE UNCHANGED queue BY <2>2 DEF InQueue
  <2> QED BY <2>1, <2>2
<1>4. /\ waiting'[worker.msg] > 0 \/ worker.msg \in deadLettered'
      /\ \A n \in Msgs : waiting[n] > 0 => waiting'[n] > 0
  <2>1. CASE Retries(worker.msg) = 0 BY <2>1 DEF DeadLetter
  <2>2. CASE waiting' = [waiting EXCEPT ![worker.msg] = @ + 1]
    <3> HIDE DEF RetryOrDlq
    <3> QED BY <1>2, <2>2
  <2> QED BY <2>1, <2>2
<1>5. ASSUME NEW n \in Msgs, UnderWay(n) PROVE UnderWay(n)' \/ Settled(n)'
  BY <1>3, <1>4, <1>5 DEF UnderWay, InQueue, Settled
<1>6. NoSilentLoss' BY <1>1, <1>5, NoneLost DEF LossInv, QueueIInv, TypeOK
<1>7. KeysExplained' /\ EarlierDone' BY <1>2, KeysStayWhenNotAtWork DEF LossInv, EarlierDone, At
<1> QED BY <1>6, <1>7 DEF LossInv

LEMMA InitLossInv == Init => LossInv
<1> SUFFICES ASSUME Init PROVE LossInv OBVIOUS
<1>1. KeysExplained
  <2>1. \A h \in Handlers : keys[h] = {} BY DEF Init
  <2> QED BY <2>1 DEF KeysExplained
<1>2. EarlierDone /\ NoSilentLoss BY DEF Init, EarlierDone, NoSilentLoss
<1> QED BY <1>1, <1>2 DEF LossInv

LEMMA NextLossInv ==
  ASSUME OwnBizIds, QueueIInv, LossInv, [Next]_vars PROVE LossInv'
<1>1. CASE \E m \in Msgs :
  \/ Publish(m) \/ SendDelay(m) \/ CancelDelayed(m)
  \/ DelayElapsed(m) \/ RequeueAfter(m)
  BY <1>1, PublishKeepsAll, SendDelayKeepsAll, CancelDelayedKeepsAll, DelayElapsedKeepsAll,
     RequeueAfterKeepsAll
<1>2. CASE Start \/ Stop \/ Take \/ TakeDeadLetter \/ Consumed \/ GiveUp \/ RetryOrDlq
  BY <1>2, StartKeepsAll, StopKeepsAll, TakeKeepsAll, TakeDeadLetterKeepsAll,
     ConsumedKeepsAll, GiveUpKeepsAll, RetryOrDlqKeepsAll
<1>3. CASE SkipDuplicate \/ EnterBusiness \/ BusinessDone
  BY <1>3, SkipDuplicateKeepsAll, EnterBusinessKeepsAll, BusinessDoneKeepsAll
<1>4. CASE \E kind \in {"retryable", "nonRetryable"} : BusinessFails(kind)
  BY <1>4, BusinessFailsKeepsAll
<1>5. CASE UNCHANGED vars
  <2>1. KeysExplained' /\ EarlierDone'
    BY <1>5, KeysStay, EarlierStays DEF LossInv, vars, queueVars, bookVars
  <2>2. NoSilentLoss'
    BY <1>5 DEF LossInv, NoSilentLoss, UnderWay, Settled, Handled, vars, queueVars, bookVars
  <2> QED BY <2>1, <2>2 DEF LossInv
<1> QED BY <1>1, <1>2, <1>3, <1>4, <1>5 DEF Next, LoopStep

(* No message disappears: when every message has a business id of its own,
   one that got into the queue is under way, handled by every subscriber,
   a dead letter, or was cut off by stop().  Without that assumption it is
   false: two messages of one business id share their idempotency key. *)
THEOREM QueueNothingLost ==
  ASSUME OwnBizIds PROVE Spec => []NoSilentLoss
<1>1. Init => LossInv BY InitLossInv
<1>2. QueueIInv /\ LossInv /\ [Next]_vars => LossInv' BY OwnBizIds, NextLossInv
<1>3. LossInv => NoSilentLoss BY DEF LossInv
<1> QED BY <1>1, <1>2, <1>3, QueueInductive, PTL DEF Spec
=============================================================================
