--------------------------- MODULE PaymentChannel ---------------------------
(***************************************************************************)
(* PaymentChannelTemplate of web_infra.capabilities.payment with the local *)
(* order store, the flow store and the close_expired_orders task, against  *)
(* a payment channel outside the system that notifies by callbacks.        *)
(*                                                                         *)
(* A worker is one coroutine inside prepay, refund, close_order (called by *)
(* the business or by the task) or handle_callback.  A worker waits at     *)
(* every call of the channel.  Whether it can be overtaken at a call of a  *)
(* store depends on the store: the in-memory stores never suspend, a       *)
(* database behind the SPI does (StoreYields).                             *)
(*                                                                         *)
(* A step that raises without having changed anything is left out, or      *)
(* returns the worker to Idle: callers retry or give up.                   *)
(***************************************************************************)
EXTENDS Naturals, FiniteSetsExt, TLC

CONSTANTS
  Workers,      \* concurrent calls
  Orders,       \* out_trade_no
  RefundNos,    \* out_refund_no
  Amount,       \* what every order costs
  StoreYields   \* may other coroutines run during a call of a store?

ASSUME PaymentAssumption ==
  /\ Amount \in Nat \ {0}
  /\ StoreYields \in BOOLEAN
  /\ Orders \intersect RefundNos = {}

VARIABLES
  order,        \* status of the local order; "NONE" if there is none
  flow,         \* flow[o][e]: the flow stored under (out_trade_no, event)
  broken,       \* orders of which a callback of the payment was cut short
                \* between the order's status and the flow
  task,         \* what each worker is doing
  channel,      \* the order's state at the channel
  payable,      \* orders whose prepay returned payment parameters
  notices,      \* notifications the channel keeps sending
  refunded      \* refunded[o][r]: amount the channel refunded for r

localVars   == <<order, flow, broken>>
channelVars == <<channel, payable, notices, refunded>>
paymentVars == <<localVars, task, channelVars>>

----------------------------------------
(* PaymentStateMachine: the table of legal transitions of an order, and
   the repeated notifications that count as success without a transition. *)
PaymentStatus == {"NOTPAY", "USERPAYING", "SUCCESS", "REFUND", "CLOSED",
                  "REVOKED", "PAYERROR", "EXCEPTION"}

(* <<current state, event, next state>> *)
Transitions ==
  { <<"NOTPAY", "pay_success", "SUCCESS">>,
    <<"NOTPAY", "pay_failed", "PAYERROR">>,
    <<"NOTPAY", "pay_timeout", "CLOSED">>,
    <<"NOTPAY", "close", "CLOSED">>,
    <<"USERPAYING", "pay_success", "SUCCESS">>,
    <<"USERPAYING", "pay_failed", "PAYERROR">>,
    <<"USERPAYING", "confirm_failed", "CLOSED">>,
    <<"USERPAYING", "confirm_exceed", "EXCEPTION">>,
    <<"EXCEPTION", "reconcile_success", "SUCCESS">>,
    <<"EXCEPTION", "reconcile_failed", "CLOSED">>,
    <<"SUCCESS", "refund_success", "REFUND">>,
    <<"SUCCESS", "refund_partial", "SUCCESS">> }

(* Mutant of IdempotentPairs: a repeated notification of a payment is a
   conflict. *)
IdempotentPairsOfRefunds ==
  {<<"SUCCESS", "refund_partial">>, <<"REFUND", "refund_success">>, <<"CLOSED", "close">>}

IdempotentPairs ==
  { <<"SUCCESS", "pay_success">>, <<"SUCCESS", "refund_partial">>,
    <<"REFUND", "refund_success">>, <<"CLOSED", "close">> }

Terminal == {"SUCCESS", "CLOSED", "REVOKED", "REFUND"}

(* The targets target(current, event) can return: one, or none when it
   raises E4-PAY-003. *)
Targets(s, e) ==
  IF <<s, e>> \in IdempotentPairs
  THEN {s}
  ELSE {t \in PaymentStatus : <<s, e, t>> \in Transitions}

----------------------------------------
FlowEvents == {"PAY", "REFUND", "CLOSE"}
NoFlow     == [amount |-> 0, status |-> "NONE"]
Flow       == [amount : 0..Amount, status : {"BOOKED", "PENDING", "CLOSED"}]
Notice     == [order : Orders, event : {"PAY", "REFUND"}, amount : 1..Amount]

PayNotice(o, a) == [order |-> o, event |-> "PAY", amount |-> a]

(* A prepay task remembers whether its check found the order ended. *)
Idle == [op |-> "idle", step |-> "idle"]
PrepayTask == [op : {"prepay"}, step : {"call", "reply"}, order : Orders,
               ended : BOOLEAN]
CallbackTask == [op : {"callback"}, step : {"update", "flow"}, notice : Notice,
                 target : PaymentStatus]
CloseTask == [op : {"close"}, step : {"local", "query", "call", "reply", "update"},
              order : Orders, scheduled : BOOLEAN]
RefundTask == [op : {"refund"}, step : {"call", "reply"}, order : Orders,
               no : RefundNos, amount : 1..Amount]
Task == {Idle} \union PrepayTask \union CallbackTask \union CloseTask \union RefundTask

PaymentInit ==
  /\ order = [o \in Orders |-> "NONE"]
  /\ flow = [o \in Orders |-> [e \in FlowEvents |-> NoFlow]]
  /\ broken = {}
  /\ task = [w \in Workers |-> Idle]
  /\ channel = [o \in Orders |-> "NONE"]
  /\ payable = {}
  /\ notices = {}
  /\ refunded = [o \in Orders |-> [r \in RefundNos |-> 0]]

----------------------------------------
(* Between these steps and the next one only a store is called. *)
InStore(t) == t.step \in {"update", "flow"}

MayRun(w) == StoreYields \/ \A v \in Workers \ {w} : ~InStore(task[v])

TaskAt(w, op, step) == task[w].op = op /\ task[w].step = step /\ MayRun(w)

GoTo(w, step) == task' = [task EXCEPT ![w].step = step]
Begin(w, t)   == task[w] = Idle /\ MayRun(w) /\ task' = [task EXCEPT ![w] = t]
Finish(w)     == task' = [task EXCEPT ![w] = Idle]

(* PaymentFlowStore.append: the first flow of a key wins. *)
AppendFlow(o, e, a, s) ==
  flow' = IF flow[o][e] # NoFlow THEN flow
          ELSE [flow EXCEPT ![o][e] = [amount |-> a, status |-> s]]

(* find_by_order_and_event(key, REFUND): flows are stored by order number. *)
RefundFlowUnder(key) == key \in Orders /\ flow[key]["REFUND"] # NoFlow

(* sum_refunded: there is at most one REFUND flow of an order. *)
SumRefunded(o) == flow[o]["REFUND"].amount

UpdateStatus(o, s) ==
  order' = IF order[o] = "NONE" THEN order ELSE [order EXCEPT ![o] = s]

----------------------------------------
(* prepay: _check_idempotency, _do_prepay, order_store.save. *)

PrepayStart(w, o) ==
  /\ order[o] \notin {"SUCCESS", "USERPAYING", "EXCEPTION"}
  /\ Begin(w, [op |-> "prepay", step |-> "call", order |-> o,
               ended |-> order[o] \in Terminal])
  /\ UNCHANGED <<localVars, channelVars>>

(* The channel takes the order or refuses it; the answer may get lost. *)
PrepayCall(w) ==
  /\ TaskAt(w, "prepay", "call")
  /\ IF channel[task[w].order] \in {"NONE", "NOTPAY"}
     THEN /\ channel' = [channel EXCEPT ![task[w].order] = "NOTPAY"]
          /\ GoTo(w, "reply") \/ Finish(w)
     ELSE Finish(w) /\ UNCHANGED channel
  /\ UNCHANGED <<localVars, payable, notices, refunded>>

PrepaySave(w) ==
  /\ TaskAt(w, "prepay", "reply")
  /\ order' = [order EXCEPT ![task[w].order] = "NOTPAY"]
  /\ payable' = payable \union {task[w].order}
  /\ Finish(w)
  /\ UNCHANGED <<flow, broken, channel, notices, refunded>>

----------------------------------------
(* The payer pays at the channel, which notifies; the notified amount may
   not be the amount of the order. *)
Pay(o, a) ==
  /\ o \in payable
  /\ channel[o] = "NOTPAY"
  /\ channel' = [channel EXCEPT ![o] = "SUCCESS"]
  /\ notices' = notices \union {PayNotice(o, a)}
  /\ UNCHANGED <<localVars, task, payable, refunded>>

----------------------------------------
(* handle_callback: _verify_and_check, then _persist_flow. *)

CallbackEvent(n) == IF n.event = "PAY" THEN "pay_success" ELSE "refund_success"

(* Mutant of CallbackCheck: without the comparison of the amounts. *)
CallbackCheckAnyAmount(w, n) ==
  /\ order[n.order] # "NONE"
  /\ \E t \in Targets(order[n.order], CallbackEvent(n)) :
       Begin(w, [op |-> "callback", step |-> "update", notice |-> n, target |-> t])
  /\ UNCHANGED <<localVars, channelVars>>

(* The order exists, the amounts agree, and the state machine allows it. *)
CallbackCheck(w, n) ==
  /\ order[n.order] # "NONE"
  /\ n.amount = Amount
  /\ \E t \in Targets(order[n.order], CallbackEvent(n)) :
       Begin(w, [op |-> "callback", step |-> "update", notice |-> n, target |-> t])
  /\ UNCHANGED <<localVars, channelVars>>

(* Mutant of CallbackUpdate: the notification is confirmed at once. *)
CallbackUpdateAcking(w) ==
  /\ TaskAt(w, "callback", "update")
  /\ UpdateStatus(task[w].notice.order, task[w].target)
  /\ notices' = notices \ {task[w].notice}
  /\ GoTo(w, "flow")
  /\ UNCHANGED <<flow, broken, channel, payable, refunded>>

CallbackUpdate(w) ==
  /\ TaskAt(w, "callback", "update")
  /\ UpdateStatus(task[w].notice.order, task[w].target)
  /\ GoTo(w, "flow")
  /\ UNCHANGED <<flow, broken, channelVars>>

(* The channel stops notifying when it gets the answer. *)
CallbackFlow(w) ==
  /\ TaskAt(w, "callback", "flow")
  /\ LET n == task[w].notice
     IN  /\ AppendFlow(n.order, n.event, n.amount, "BOOKED")
         /\ notices' \in {notices, notices \ {n}}
  /\ Finish(w)
  /\ UNCHANGED <<order, broken, channel, payable, refunded>>

----------------------------------------
(* close_order, and the close_expired_orders task around it. *)

CloseStart(w, o, scheduled) ==
  /\ scheduled => order[o] = "NOTPAY"
  /\ Begin(w, [op |-> "close", step |-> "local", order |-> o,
               scheduled |-> scheduled])
  /\ UNCHANGED <<localVars, channelVars>>

(* close_order returned: the task goes on to set the order's status. *)
CloseReturns(w) == IF task[w].scheduled THEN GoTo(w, "update") ELSE Finish(w)

CloseLocal(w) ==
  /\ TaskAt(w, "close", "local")
  /\ CASE order[task[w].order] = "CLOSED"  -> CloseReturns(w)
       [] order[task[w].order] = "SUCCESS" -> Finish(w)
       [] OTHER                            -> GoTo(w, "query")
  /\ UNCHANGED <<localVars, channelVars>>

CloseQuery(w) ==
  /\ TaskAt(w, "close", "query")
  /\ IF channel[task[w].order] = "SUCCESS" THEN Finish(w) ELSE GoTo(w, "call")
  /\ UNCHANGED <<localVars, channelVars>>

(* Mutant of CloseCall: a refusal of the channel is taken for success. *)
CloseCallUnchecked(w) ==
  /\ TaskAt(w, "close", "call")
  /\ channel' = [channel EXCEPT ![task[w].order] = IF @ = "NOTPAY" THEN "CLOSED" ELSE @]
  /\ GoTo(w, "reply")
  /\ UNCHANGED <<localVars, payable, notices, refunded>>

(* The channel refuses to close an order it does not know or that was paid. *)
CloseCall(w) ==
  /\ TaskAt(w, "close", "call")
  /\ IF channel[task[w].order] \in {"NOTPAY", "CLOSED"}
     THEN /\ channel' = [channel EXCEPT ![task[w].order] = "CLOSED"]
          /\ GoTo(w, "reply") \/ Finish(w)
     ELSE Finish(w) /\ UNCHANGED channel
  /\ UNCHANGED <<localVars, payable, notices, refunded>>

CloseFlow(w) ==
  /\ TaskAt(w, "close", "reply")
  /\ AppendFlow(task[w].order, "CLOSE", 0, "CLOSED")
  /\ CloseReturns(w)
  /\ UNCHANGED <<order, broken, channelVars>>

CloseUpdate(w) ==
  /\ TaskAt(w, "close", "update")
  /\ UpdateStatus(task[w].order, "CLOSED")
  /\ Finish(w)
  /\ UNCHANGED <<flow, broken, channelVars>>

----------------------------------------
(* refund: _check_refund_idempotency, _do_refund, _persist_flow. *)

RefundStart(w, o, r, a) ==
  /\ ~RefundFlowUnder(r)
  /\ order[o] # "NONE" => SumRefunded(o) + a <= Amount
  /\ Begin(w, [op |-> "refund", step |-> "call", order |-> o, no |-> r,
               amount |-> a])
  /\ UNCHANGED <<localVars, channelVars>>

(* The channel refuses the refund of an order that was not paid, and makes
   one refund of each refund number.  Nothing here relies on it comparing
   the sum of all refunds with the amount paid. *)
RefundAccepted(t) == channel[t.order] \in {"SUCCESS", "REFUND"}

RefundCall(w) ==
  LET t == task[w]
      a == IF refunded[t.order][t.no] = 0 THEN t.amount ELSE refunded[t.order][t.no]
  IN  /\ TaskAt(w, "refund", "call")
      /\ IF RefundAccepted(t)
         THEN /\ channel' = [channel EXCEPT ![t.order] = "REFUND"]
              /\ refunded' = [refunded EXCEPT ![t.order][t.no] = a]
              /\ notices' = notices \union
                   {[order |-> t.order, event |-> "REFUND", amount |-> a]}
              /\ GoTo(w, "reply") \/ Finish(w)
         ELSE Finish(w) /\ UNCHANGED <<channel, refunded, notices>>
      /\ UNCHANGED <<localVars, payable>>

RefundFlow(w) ==
  /\ TaskAt(w, "refund", "reply")
  /\ AppendFlow(task[w].order, "REFUND", task[w].amount, "PENDING")
  /\ Finish(w)
  /\ UNCHANGED <<order, broken, channelVars>>

----------------------------------------
(* A callback has written the status and is about to write the PAY flow. *)
WritesPayment(w, o) ==
  task[w].op = "callback" /\ task[w].step = "flow" /\ task[w].notice = PayNotice(o, Amount)

(* A call of the channel or of a store raises, or the process dies; a call
   of an in-memory store does neither. *)
Interrupt(w) ==
  /\ task[w] # Idle
  /\ StoreYields \/ ~InStore(task[w])
  /\ MayRun(w)
  /\ broken' = IF \E o \in Orders : WritesPayment(w, o)
               THEN broken \union {task[w].notice.order} ELSE broken
  /\ Finish(w)
  /\ UNCHANGED <<order, flow, channelVars>>

WorkerStep(w) ==
  \/ PrepayCall(w) \/ PrepaySave(w)
  \/ CallbackUpdate(w) \/ CallbackFlow(w)
  \/ CloseLocal(w) \/ CloseQuery(w) \/ CloseCall(w) \/ CloseFlow(w) \/ CloseUpdate(w)
  \/ RefundCall(w) \/ RefundFlow(w)

WorkerStart(w) ==
  \/ \E o \in Orders :
       \/ PrepayStart(w, o)
       \/ \E scheduled \in BOOLEAN : CloseStart(w, o, scheduled)
       \/ \E r \in RefundNos, a \in 1..Amount : RefundStart(w, o, r, a)
  \/ \E n \in notices : CallbackCheck(w, n)

PaymentNext ==
  \/ \E w \in Workers : WorkerStart(w) \/ WorkerStep(w) \/ Interrupt(w)
  \/ \E o \in Orders, a \in 1..Amount : Pay(o, a)

PaymentSpec == PaymentInit /\ [][PaymentNext]_paymentVars

(* Coroutines that were started go on, and the channel repeats each of its
   notifications until it is answered: whenever the service could take it
   again and again, it takes it.  No call is interrupted for ever. *)
PaymentFairness ==
  /\ \A w \in Workers : WF_paymentVars(WorkerStep(w))
  /\ \A o \in Orders : SF_paymentVars(\E w \in Workers, n \in notices :
                                 n.order = o /\ CallbackCheck(w, n))
  /\ \A o \in Orders : SF_paymentVars(\E w \in Workers :
                                 TaskAt(w, "callback", "flow") /\ task[w].notice.order = o
                                 /\ CallbackFlow(w))

PaymentFairSpec == PaymentSpec /\ PaymentFairness

----------------------------------------
(* Properties. *)

(* Every variable keeps its shape. *)
PaymentTypeOK ==
  /\ order \in [Orders -> PaymentStatus \union {"NONE"}]
  /\ flow \in [Orders -> [FlowEvents -> Flow \union {NoFlow}]]
  /\ broken \subseteq Orders
  /\ task \in [Workers -> Task]
  /\ channel \in [Orders -> {"NONE", "NOTPAY", "SUCCESS", "REFUND", "CLOSED"}]
  /\ payable \subseteq Orders
  /\ notices \subseteq Notice
  /\ refunded \in [Orders -> [RefundNos -> 0..Amount]]

Paid(o) == channel[o] \in {"SUCCESS", "REFUND"}

(* An order that was paid at the channel is never closed locally, however
   payment, callback, close_order and the close task interleave. *)
NoPaidOrderClosed == \A o \in Orders : order[o] = "CLOSED" => ~Paid(o)

(* Money is only booked when the channel has received it, and in the
   amount of the order. *)
BookedIsPaid ==
  \A o \in Orders : flow[o]["PAY"] # NoFlow =>
    Paid(o) /\ flow[o]["PAY"] = [amount |-> Amount, status |-> "BOOKED"]

(* An order becomes REFUND only when one refund returned all of it. *)
RefundedIsFull ==
  \A o \in Orders : order[o] = "REFUND" => \E r \in RefundNos : refunded[o][r] = Amount

(* A payment that the channel holds and that has no PAY flow yet is not
   forgotten: the channel still repeats its notification, and the state
   machine still takes it, or a callback is about to write the flow.  Two
   cases are lost to the service: the amount is not the order's, and a
   callback cut short between status and flow was followed by a refund of
   all of it, after which the notification is refused for ever. *)
PaidNotForgotten ==
  \A o \in Orders : Paid(o) /\ flow[o]["PAY"] = NoFlow =>
    \E a \in 1..Amount :
      /\ PayNotice(o, a) \in notices
      /\ \/ a # Amount
         \/ Targets(order[o], "pay_success") # {}
         \/ \E w \in Workers : WritesPayment(w, o)
         \/ order[o] = "REFUND" /\ o \in broken

(* A prepay that found the order before it ended saves NOTPAY over it. *)
TakenBack(o) ==
  \E w \in Workers :
    /\ task[w].op = "prepay" /\ task[w].step = "reply"
    /\ task[w].order = o /\ ~task[w].ended
    /\ task'[w] = Idle /\ order'[o] = "NOTPAY"

(* The state machine says that terminal states are final.  They are left
   by the refund of a paid order, and, beside the state machine, by a prepay
   whose check found the order before it ended: whatever callbacks,
   close_order, the close task and refunds do, nothing else takes a terminal
   order back. *)
TerminalIsFinal ==
  [][\A o \in Orders : order[o] \in Terminal =>
       \/ order'[o] = order[o]
       \/ order[o] = "SUCCESS" /\ order'[o] = "REFUND"
       \/ TakenBack(o)]_paymentVars

(* payment_state_machine.py: terminal states cannot be taken back. *)
TerminalIsKept ==
  [][\A o \in Orders : order[o] \in Terminal => order'[o] \in Terminal]_paymentVars

(* Over stores that do not suspend, a payment in the right amount is booked
   in the end. *)
PaidGetsBooked ==
  \A o \in Orders :
    PayNotice(o, Amount) \in notices
      ~> flow[o]["PAY"].status = "BOOKED"

(* _check_refund_idempotency: refunds of an order stay within what was
   paid. *)
RefundsWithinPaid ==
  \A o \in Orders :
    MapThenSumSet(LAMBDA r : refunded[o][r], RefundNos) <= Amount

(* No call is told from another one: TLC takes states that differ by a
   permutation of the workers for one. *)
WorkerSymmetry == Permutations(Workers)

=============================================================================
