--------------------------- MODULE Reconciliation ---------------------------
(***************************************************************************)
(* run_reconciliation, ReconciliationService and reversal_flow of          *)
(* web_infra.capabilities.payment: once a day has ended, the channel's     *)
(* bill of that day is compared with the local payment flows of that day,  *)
(* differences are confirmed by a query at the channel and then booked or  *)
(* reversed, and the round is put on record.                               *)
(*                                                                         *)
(* Rounds run concurrently with one another and with the callbacks that    *)
(* book flows.  A round handles the lines of the bill first, then the      *)
(* flows, each in the order its provider happened to return them.          *)
(***************************************************************************)
EXTENDS Naturals, FiniteSets

CONSTANTS
  Rounds,     \* concurrent calls of run_reconciliation
  Orders,     \* out_trade_no
  Amount,     \* what an order costs; Amount + 1 stands for any other amount
  LastDay     \* bound: days that are told apart

ASSUME ReconciliationAssumption ==
  /\ Amount \in Nat \ {0}
  /\ LastDay \in Nat \ {0}

VARIABLES
  today,      \* the current day
  channel,    \* the order's state at the channel
  bill,       \* bill[d][o][e]: the line of the channel's bill of day d
  flow,       \* flow[o][e]: the local flow stored under (order, event)
  round,      \* what each round is doing
  audits,     \* audits[d]: audit records of day d
  misbooked,  \* orders whose PAY flow was written in error
  paidLate    \* orders paid after a round was told that they are not

history   == <<misbooked, paidLate>>
reconVars == <<today, channel, bill, flow, round, audits, history>>

Days       == 1..LastDay
FlowEvents == {"PAY", "REFUND", "CLOSE", "REVERSAL"}
BillEvents == {"PAY", "REFUND"}
Amounts    == 0..(Amount + 1)
Keys       == Orders \X FlowEvents

(* of: the event whose flow a reversal reverses. *)
NoFlow == [status |-> "NONE", amount |-> 0, day |-> 0, of |-> "NONE"]
Flow == [status : {"BOOKED", "PENDING", "CLOSED", "REVERSED"}, amount : Amounts,
         day : Days, of : FlowEvents \union {"NONE"}]

NoLine == [status |-> "NONE", amount |-> 0]
Line   == [status : {"SUCCESS", "PROCESSING"}, amount : Amounts]

Difference == [type : {"CHANNEL_ONLY", "LOCAL_ONLY", "REFUND_MISMATCH"}, key : Keys]

(* todo: differences to handle; open: those left to people; cur: the key
   whose query was answered. *)
Idle == [step |-> "idle"]
Round == {Idle}
  \union [step : {"pull"}, day : Days]
  \union [step : {"handle"}, day : Days, todo : SUBSET Difference, open : SUBSET Keys]
  \union [step : {"book", "reverse"}, day : Days, todo : SUBSET Difference,
          open : SUBSET Keys, cur : Keys]

ReconInit ==
  /\ today = 1
  /\ channel = [o \in Orders |-> "NOTPAY"]
  /\ bill = [d \in Days |-> [o \in Orders |-> [e \in BillEvents |-> NoLine]]]
  /\ flow = [o \in Orders |-> [e \in FlowEvents |-> NoFlow]]
  /\ round = [r \in Rounds |-> Idle]
  /\ audits = [d \in Days |-> {}]
  /\ misbooked = {}
  /\ paidLate = {}

----------------------------------------
(* The flow store. *)

(* append: the first flow of a key wins. *)
AppendFlow(k, status, amount) ==
  LET new == [status |-> status, amount |-> amount, day |-> today, of |-> "NONE"]
  IN  flow' = IF flow[k[1]][k[2]] # NoFlow THEN flow
              ELSE [flow EXCEPT ![k[1]][k[2]] = new]

(* Mutant of AppendReversal: the original keeps its status. *)
AppendReversalOnly(o, e) ==
  LET new == [status |-> "REVERSED", amount |-> flow[o][e].amount, day |-> today, of |-> e]
  IN  flow' = IF flow[o]["REVERSAL"] # NoFlow THEN flow
              ELSE [flow EXCEPT ![o]["REVERSAL"] = new]

(* append of a reversal marks the original, unless the order has one. *)
AppendReversal(o, e) ==
  LET new == [status |-> "REVERSED", amount |-> flow[o][e].amount, day |-> today, of |-> e]
  IN  flow' = IF flow[o]["REVERSAL"] # NoFlow THEN flow
              ELSE [flow EXCEPT ![o] = [@ EXCEPT !["REVERSAL"] = new,
                                                 ![e].status = "REVERSED"]]

HasReversal(o, e) == flow[o]["REVERSAL"].of = e

----------------------------------------
(* The channel and the rest of the payment system. *)

PutLine(o, e, status) ==
  bill' = [bill EXCEPT ![today][o][e] = [status |-> status, amount |-> Amount]]

(* The channel said that the order is not paid, and a round is about to
   reverse the PAY flow, or has. *)
FoundUnpaid(o) ==
  \/ flow[o]["PAY"].status = "REVERSED"
  \/ \E r \in Rounds : round[r].step = "reverse" /\ round[r].cur = <<o, "PAY">>

(* A payment that is under way can be on the bill of the day. *)
StartPaying(o) ==
  /\ channel[o] = "NOTPAY"
  /\ PutLine(o, "PAY", "PROCESSING")
  /\ UNCHANGED <<today, channel, flow, round, audits, history>>

Pay(o) ==
  /\ channel[o] = "NOTPAY"
  /\ channel' = [channel EXCEPT ![o] = "SUCCESS"]
  /\ PutLine(o, "PAY", "SUCCESS")
  /\ paidLate' = paidLate \union {x \in {o} : FoundUnpaid(x)}
  /\ UNCHANGED <<today, flow, round, audits, misbooked>>

(* The callback may come late or never. *)
Callback(o) ==
  /\ channel[o] = "SUCCESS"
  /\ AppendFlow(<<o, "PAY">>, "BOOKED", Amount)
  /\ UNCHANGED <<today, channel, bill, round, audits, history>>

(* The channel refunds; the record of the application may get lost. *)
Refund(o) ==
  /\ channel[o] = "SUCCESS"
  /\ channel' = [channel EXCEPT ![o] = "REFUND"]
  /\ PutLine(o, "REFUND", "SUCCESS")
  /\ AppendFlow(<<o, "REFUND">>, "PENDING", Amount) \/ UNCHANGED flow
  /\ UNCHANGED <<today, round, audits, history>>

Close(o) ==
  /\ channel[o] = "NOTPAY"
  /\ channel' = [channel EXCEPT ![o] = "CLOSED"]
  /\ AppendFlow(<<o, "CLOSE">>, "CLOSED", 0)
  /\ UNCHANGED <<today, bill, round, audits, history>>

(* A PAY flow is written in error, what reconciliation is there to find. *)
Misbook(o, amount) ==
  /\ flow[o]["PAY"] = NoFlow
  /\ AppendFlow(<<o, "PAY">>, "BOOKED", amount)
  /\ misbooked' = misbooked \union {o}
  /\ UNCHANGED <<today, channel, bill, round, audits, paidLate>>

NextDay ==
  /\ today < LastDay
  /\ today' = today + 1
  /\ UNCHANGED <<channel, bill, flow, round, audits, history>>

----------------------------------------
(* reconcile: alignment by order and event. *)

LocalKeys(d) == {k \in Keys : flow[k[1]][k[2]].day = d}
BillKeys(d)  == {k \in Orders \X BillEvents : bill[d][k[1]][k[2]] # NoLine}

StatusMatches(f, line) ==
  IF line.status = "SUCCESS" THEN f.status \in {"BOOKED", "PENDING"}
                             ELSE f.status = line.status

Aligned(f, line) == f.amount = line.amount /\ StatusMatches(f, line)

(* AMOUNT_MISMATCH and STATUS_MISMATCH are never handled automatically. *)
ManualOnly(d) ==
  {k \in LocalKeys(d) \intersect BillKeys(d) :
     ~Aligned(flow[k[1]][k[2]], bill[d][k[1]][k[2]])}

(* Mutant of Differences: only flows are looked up in the bill. *)
LocalDifferences(d) ==
  [type : {"LOCAL_ONLY"}, key : {k \in LocalKeys(d) \ BillKeys(d) : k[2] # "REFUND"}]

Differences(d) ==
  [type : {"CHANNEL_ONLY"}, key : BillKeys(d) \ LocalKeys(d)]
  \union [type : {"REFUND_MISMATCH"},
          key : {k \in LocalKeys(d) \ BillKeys(d) : k[2] = "REFUND"}]
  \union [type : {"LOCAL_ONLY"},
          key : {k \in LocalKeys(d) \ BillKeys(d) : k[2] # "REFUND"}]

----------------------------------------
(* A round. *)

SetRound(r, v) == round' = [round EXCEPT ![r] = v]

(* run_reconciliation: a day that is on record is left alone. *)
Start(r, d) ==
  /\ round[r] = Idle
  /\ d < today
  /\ audits[d] = {}
  /\ SetRound(r, [step |-> "pull", day |-> d])
  /\ UNCHANGED <<today, channel, bill, flow, audits, history>>

(* bill_provider and flow_provider returned; the day's bill is final. *)
Compare(r) ==
  /\ round[r].step = "pull"
  /\ LET d == round[r].day
     IN  SetRound(r, [step |-> "handle", day |-> d, todo |-> Differences(d),
                      open |-> ManualOnly(d)])
  /\ UNCHANGED <<today, channel, bill, flow, audits, history>>

(* Mutant of Confirmed: the bill alone decides. *)
ConfirmedByBill(diff) ==
  LET state == channel[diff.key[1]]
  IN  diff.type = "REFUND_MISMATCH" => state = "REFUND"

(* What the answered query allows to do about a difference. *)
Confirmed(diff) ==
  LET state == channel[diff.key[1]]
  IN  CASE diff.type = "CHANNEL_ONLY"    -> state = "SUCCESS"
        [] diff.type = "LOCAL_ONLY"      -> state # "SUCCESS"
        [] diff.type = "REFUND_MISMATCH" -> state = "REFUND"

(* _auto_book, _auto_reverse, _auto_refund_book up to the query's answer.
   A query that fails, or does not confirm, leaves the difference open. *)
Query(r, diff) ==
  /\ round[r].step = "handle"
  /\ diff \in round[r].todo
  /\ diff.type # "CHANNEL_ONLY" => \A e \in round[r].todo : e.type # "CHANNEL_ONLY"
  /\ LET left == round[r].todo \ {diff}
         step == IF diff.type = "LOCAL_ONLY" THEN "reverse" ELSE "book"
     IN  \/ SetRound(r, [round[r] EXCEPT !.todo = left, !.open = @ \union {diff.key}])
         \/ /\ Confirmed(diff)
            /\ SetRound(r, [step |-> step, day |-> round[r].day, todo |-> left,
                            open |-> round[r].open, cur |-> diff.key])
  /\ UNCHANGED <<today, channel, bill, flow, audits, history>>

(* Mutant of Continue: the key that was handled is kept. *)
ContinueKeepingCur(r) == SetRound(r, [round[r] EXCEPT !.step = "handle"])

Continue(r) ==
  SetRound(r, [step |-> "handle", day |-> round[r].day, todo |-> round[r].todo,
               open |-> round[r].open])

(* The amount booked is the bill's, for a refund the local flow's. *)
Book(r) ==
  /\ round[r].step = "book"
  /\ LET k == round[r].cur
         d == round[r].day
     IN  AppendFlow(k, "BOOKED", IF k \in BillKeys(d) THEN bill[d][k[1]][k[2]].amount
                                                      ELSE flow[k[1]][k[2]].amount)
  /\ Continue(r)
  /\ UNCHANGED <<today, channel, bill, audits, history>>

(* reversal_flow: a repeated call returns the first reversal; reversing a
   reversal raises, and takes the whole round with it. *)
Reverse(r) ==
  /\ round[r].step = "reverse"
  /\ LET o == round[r].cur[1]
         e == round[r].cur[2]
     IN  \/ /\ HasReversal(o, e)
            /\ Continue(r)
            /\ UNCHANGED flow
         \/ /\ ~HasReversal(o, e)
            /\ e = "REVERSAL"
            /\ SetRound(r, Idle)
            /\ UNCHANGED flow
         \/ /\ ~HasReversal(o, e)
            /\ e # "REVERSAL"
            /\ AppendReversal(o, e)
            /\ Continue(r)
  /\ UNCHANGED <<today, channel, bill, audits, history>>

(* The audit record of the round. *)
Record(r) ==
  /\ round[r].step = "handle"
  /\ round[r].todo = {}
  /\ audits' = [audits EXCEPT ![round[r].day] = @ \union {round[r].open}]
  /\ SetRound(r, Idle)
  /\ UNCHANGED <<today, channel, bill, flow, history>>

(* A provider or a store raises, or the process dies. *)
Interrupt(r) ==
  /\ round[r] # Idle
  /\ SetRound(r, Idle)
  /\ UNCHANGED <<today, channel, bill, flow, audits, history>>

Environment ==
  \/ \E o \in Orders : StartPaying(o) \/ Pay(o) \/ Callback(o) \/ Refund(o) \/ Close(o)
  \/ \E o \in Orders, amount \in {Amount, Amount + 1} : Misbook(o, amount)
  \/ NextDay

RoundStep(r) ==
  \/ \E d \in Days : Start(r, d)
  \/ Compare(r)
  \/ \E diff \in Difference : Query(r, diff)
  \/ Book(r) \/ Reverse(r) \/ Record(r) \/ Interrupt(r)

ReconNext == Environment \/ \E r \in Rounds : RoundStep(r)

ReconSpec == ReconInit /\ [][ReconNext]_reconVars

----------------------------------------
(* Properties. *)

Paid(o) == channel[o] \in {"SUCCESS", "REFUND"}

(* Every variable keeps its shape. *)
ReconTypeOK ==
  /\ today \in Days
  /\ channel \in [Orders -> {"NOTPAY", "SUCCESS", "REFUND", "CLOSED"}]
  /\ bill \in [Days -> [Orders -> [BillEvents -> Line \union {NoLine}]]]
  /\ flow \in [Orders -> [FlowEvents -> Flow \union {NoFlow}]]
  /\ round \in [Rounds -> Round]
  /\ audits \in [Days -> SUBSET SUBSET Keys]
  /\ misbooked \subseteq Orders
  /\ paidLate \subseteq misbooked

(* "Unconfirmed funds are not touched": what reconciliation books was paid
   at the channel, also when the bill lists a payment still under way. *)
BookedIsPaid ==
  \A o \in Orders : flow[o]["PAY"].status = "BOOKED" /\ o \notin misbooked => Paid(o)

NotHeld(o) == channel[o] # "SUCCESS" \/ o \in paidLate

(* No payment the channel holds is reversed, whatever days flow and bill
   line fell on, but for one made after the channel was asked: between its
   answer and the reversal, or later still. *)
HeldNotReversed ==
  \A o \in Orders : flow[o]["PAY"].status = "REVERSED" => NotHeld(o)

(* A reversal and the flow it reverses are marked together, and an order
   has one reversal, also when two rounds reverse at once. *)
ReversalPaired ==
  \A o \in Orders, e \in FlowEvents \ {"REVERSAL"} :
    flow[o][e].status = "REVERSED" <=> flow[o]["REVERSAL"].of = e

(* A flow is reversed once, and no payment that the channel holds is
   reversed, but for one made after the channel was asked, whose flow was
   written in error before it; over records that keep their shape.
   Other reversals are not covered: a CLOSE flow, and the PAY flow of an
   order that was refunded, are reversed whenever the bill lacks them. *)
ReversalsSound == ReconTypeOK /\ HeldNotReversed /\ ReversalPaired

(* A day on record accounts for its whole bill: each line has a flow, or
   was left to people by that very record. *)
AuditedBillAccounted ==
  \A d \in Days, k \in Orders \X BillEvents :
    bill[d][k[1]][k[2]] # NoLine =>
      flow[k[1]][k[2]] # NoFlow \/ \A open \in audits[d] : k \in open
=============================================================================
