---------------------------- MODULE RecordsProofs ----------------------------
(***************************************************************************)
(* Proofs about Reconciliation (any rounds, orders, amount and number of   *)
(* days), Releases (any runs, titles and versions), Databases (any         *)
(* sources, tenants, sessions and calls), ModelConfigs (any codes,         *)
(* readers, upserts and capacity) and Limits (any calls, keys, limits and  *)
(* number of ticks).                                                       *)
(***************************************************************************)
EXTENDS Reconciliation, Releases, Databases, ModelConfigs, Limits, FiniteSetTheorems,
        SequenceTheorems, TLAPS

----------------------------------------
(* The inductive invariant of Reconciliation. *)

(* The flows f of an order whose state at the channel is c. *)
OrderFits(f, c, mis) ==
  /\ f["PAY"] # NoFlow /\ ~mis => c # "NOTPAY"
  /\ f["PAY"].status = "BOOKED" /\ ~mis => c \in {"SUCCESS", "REFUND"}
  /\ \A e \in FlowEvents \ {"REVERSAL"} : f[e].status = "REVERSED" <=> f["REVERSAL"].of = e

FlowAt(k) == flow[k[1]][k[2]]

(* A difference still to be handled: what its type says of its key. *)
DiffFits(diff) ==
  /\ diff.type = "CHANNEL_ONLY" => diff.key[2] \in BillEvents
  /\ diff.type = "REFUND_MISMATCH" => diff.key[2] = "REFUND"
  /\ diff.type = "LOCAL_ONLY" => FlowAt(diff.key) # NoFlow

(* A round that has compared leaves no line of the bill behind. *)
LineKept(x, k) ==
  \/ FlowAt(k) # NoFlow
  \/ k \in x.open
  \/ \E diff \in x.todo : diff.type = "CHANNEL_ONLY" /\ diff.key = k
  \/ x.step = "book" /\ x.cur = k

(* What a round goes by still holds, although the query was a while ago:
   what was paid stays paid, and a payment that the channel did not hold
   is held only if it was made later. *)
RoundFits(x) ==
  /\ x.step # "idle" => x.day < today
  /\ x.step \in {"handle", "book", "reverse"} =>
       /\ \A diff \in x.todo : DiffFits(diff)
       /\ \A k \in BillKeys(x.day) : LineKept(x, k)
  /\ x.step = "book" => x.cur[2] \in BillEvents /\ Paid(x.cur[1])
  /\ x.step = "reverse" =>
     /\ FlowAt(x.cur) # NoFlow
     /\ x.cur[2] = "PAY" => NotHeld(x.cur[1])

ReconIInv ==
  /\ ReconTypeOK
  /\ \A o \in Orders : OrderFits(flow[o], channel[o], o \in misbooked)
  /\ \A r \in Rounds : RoundFits(round[r])
  /\ \A d \in Days : audits[d] # {} => d < today
  /\ HeldNotReversed
  /\ AuditedBillAccounted

----------------------------------------
(* Flows. *)

Flows == [FlowEvents -> Flow \union {NoFlow}]

LEMMA NoFlowApart == NoFlow \notin Flow /\ NoFlow.status = "NONE" /\ NoFlow.of = "NONE"
<1>1. NoFlow.status = "NONE" /\ NoFlow.of = "NONE" BY DEF NoFlow
<1>2. \A f \in Flow : f.status # "NONE" BY DEF Flow
<1> QED BY <1>1, <1>2

LEMMA AppendFits ==
  ASSUME NEW f \in Flows, NEW c, NEW m \in BOOLEAN, OrderFits(f, c, m), NEW n \in BOOLEAN, m => n,
         NEW e \in {"PAY", "REFUND", "CLOSE"}, NEW new \in Flow, f[e] = NoFlow,
         new.status # "REVERSED",
         e = "PAY" => /\ ~n => c # "NOTPAY"
                      /\ new.status = "BOOKED" /\ ~n => c \in {"SUCCESS", "REFUND"}
  PROVE  OrderFits([f EXCEPT ![e] = new], c, n)
<1> DEFINE g == [f EXCEPT ![e] = new]
<1>1. e \in FlowEvents /\ "PAY" \in FlowEvents /\ "REVERSAL" \in FlowEvents /\ e # "REVERSAL"
  BY DEF FlowEvents
<1>2. g[e] = new /\ \A d \in FlowEvents : d # e => g[d] = f[d] BY <1>1 DEF Flows
<1> HIDE DEF g
<1>3. f[e].status # "REVERSED" BY NoFlowApart
<1>4. /\ g["PAY"] # NoFlow /\ ~n => c # "NOTPAY"
      /\ g["PAY"].status = "BOOKED" /\ ~n => c \in {"SUCCESS", "REFUND"}
  BY <1>1, <1>2 DEF OrderFits
<1>5. \A d \in FlowEvents \ {"REVERSAL"} : g[d].status = "REVERSED" <=> g["REVERSAL"].of = d
  <2> TAKE d \in FlowEvents \ {"REVERSAL"}
  <2>1. g["REVERSAL"] = f["REVERSAL"] BY <1>1, <1>2
  <2>2. f[d].status = "REVERSED" <=> f["REVERSAL"].of = d BY DEF OrderFits
  <2>3. g[d].status = "REVERSED" <=> f[d].status = "REVERSED" BY <1>2, <1>3
  <2> QED BY <2>1, <2>2, <2>3
<1> QED BY <1>4, <1>5 DEF OrderFits, g

(* g: the flows f of an order after its flow of event e was reversed. *)
IsReversed(g, f, e, day) ==
  g = [f EXCEPT !["REVERSAL"] = [status |-> "REVERSED", amount |-> f[e].amount, day |-> day,
                                 of |-> e],
                ![e].status = "REVERSED"]

LEMMA ReverseFits ==
  ASSUME NEW f \in Flows, NEW c, NEW m \in BOOLEAN, OrderFits(f, c, m),
         NEW e \in FlowEvents \ {"REVERSAL"}, f[e] # NoFlow, f["REVERSAL"] = NoFlow,
         NEW day \in Days, NEW g, IsReversed(g, f, e, day)
  PROVE  /\ g \in Flows /\ OrderFits(g, c, m)
         /\ \A d \in FlowEvents : f[d] # NoFlow => g[d] # NoFlow
         /\ \A d \in FlowEvents \ {e, "REVERSAL"} : g[d] = f[d]
<1> DEFINE new == [status |-> "REVERSED", amount |-> f[e].amount, day |-> day, of |-> e]
           old == [f[e] EXCEPT !.status = "REVERSED"]
<1>1. f[e] \in Flow /\ "REVERSAL" \in FlowEvents /\ "PAY" \in FlowEvents BY DEF Flows, FlowEvents
<1>2. new \in Flow /\ new.status = "REVERSED" /\ new.of = e BY <1>1 DEF Flow
<1>3. old \in Flow /\ old.status = "REVERSED" BY <1>1 DEF Flow
<1>4. /\ g["REVERSAL"] = new /\ g[e] = old /\ g \in Flows
      /\ \A d \in FlowEvents \ {e, "REVERSAL"} : g[d] = f[d]
  <2> DEFINE h == [f EXCEPT !["REVERSAL"] = new]
  <2>1. g = [h EXCEPT ![e].status = "REVERSED"] BY DEF IsReversed
  <2> HIDE DEF new
  <2>2. h \in Flows /\ h["REVERSAL"] = new /\ \A d \in FlowEvents \ {"REVERSAL"} : h[d] = f[d]
    BY <1>1, <1>2 DEF Flows
  <2> HIDE DEF h
  <2>3. g = [h EXCEPT ![e] = old] BY <2>1, <2>2
  <2> HIDE DEF old
  <2> QED BY <1>1, <1>3, <2>2, <2>3 DEF Flows
<1> HIDE DEF new, old
<1>5. \A d \in FlowEvents \ {"REVERSAL"} : f[d].status # "REVERSED"
  BY NoFlowApart DEF OrderFits, FlowEvents
<1>6. \A d \in FlowEvents \ {"REVERSAL"} : g[d].status = "REVERSED" <=> g["REVERSAL"].of = d
  BY <1>2, <1>3, <1>4, <1>5
<1>7. /\ g["PAY"] # NoFlow /\ ~m => c # "NOTPAY"
      /\ g["PAY"].status = "BOOKED" /\ ~m => c \in {"SUCCESS", "REFUND"}
  <2>1. CASE e = "PAY" BY <1>3, <1>4, <2>1 DEF OrderFits
  <2>2. CASE e # "PAY" BY <1>1, <1>4, <2>2 DEF OrderFits
  <2> QED BY <2>1, <2>2
<1>8. \A d \in FlowEvents : f[d] # NoFlow => g[d] # NoFlow BY <1>2, <1>3, <1>4, NoFlowApart
<1> QED BY <1>4, <1>6, <1>7, <1>8 DEF OrderFits

(* What the channel does next. *)
LEMMA ChannelFits ==
  ASSUME NEW f, NEW c, NEW m, OrderFits(f, c, m), NEW e,
         \/ c = "NOTPAY" /\ e \in {"SUCCESS", "CLOSED"}
         \/ c = "SUCCESS" /\ e = "REFUND"
         \/ e = c
  PROVE  OrderFits(f, e, m)
  BY DEF OrderFits

NoNewReversal ==
  \A o \in Orders : flow'[o]["PAY"].status = "REVERSED" => flow[o]["PAY"].status = "REVERSED"

(* append: the key has a flow afterwards, and the rest stays. *)
LEMMA AppendKeeps ==
  ASSUME ReconIInv, NEW k \in Orders \X {"PAY", "REFUND", "CLOSE"},
         NEW status \in {"BOOKED", "PENDING", "CLOSED"}, NEW amount \in Amounts,
         AppendFlow(k, status, amount), NEW c, NEW n \in BOOLEAN, (k[1] \in misbooked) => n,
         OrderFits(flow[k[1]], c, k[1] \in misbooked),
         k[2] = "PAY" /\ flow[k[1]]["PAY"] = NoFlow =>
            /\ ~n => c # "NOTPAY"
            /\ status = "BOOKED" /\ ~n => c \in {"SUCCESS", "REFUND"}
  PROVE  /\ flow' \in [Orders -> Flows] /\ \A p \in Orders \ {k[1]} : flow'[p] = flow[p]
         /\ flow'[k[1]][k[2]] # NoFlow
         /\ \A j \in Keys : flow[j[1]][j[2]] # NoFlow => flow'[j[1]][j[2]] # NoFlow
         /\ OrderFits(flow'[k[1]], c, n)
         /\ NoNewReversal
<1> DEFINE o == k[1]
           e == k[2]
           new == [status |-> status, amount |-> amount, day |-> today, of |-> "NONE"]
<1>1. /\ o \in Orders /\ e \in {"PAY", "REFUND", "CLOSE"} /\ e \in FlowEvents
      /\ flow \in [Orders -> Flows] /\ flow[o] \in Flows /\ today \in Days
  BY DEF ReconIInv, ReconTypeOK, Flows, FlowEvents
<1>2. new \in Flow /\ new.status = status /\ new.status # "REVERSED" /\ new # NoFlow
  <2>1. new \in Flow /\ new.status = status BY <1>1 DEF Flow
  <2> HIDE DEF new
  <2> QED BY <2>1, NoFlowApart
<1>3. flow' = IF flow[o][e] # NoFlow THEN flow ELSE [flow EXCEPT ![o][e] = new] BY DEF AppendFlow
<1> HIDE DEF o, e, new
<1>4. CASE flow[o][e] # NoFlow
  <2>1. flow' = flow BY <1>3, <1>4
  <2>2. OrderFits(flow[o], c, n) BY DEF OrderFits, o
  <2> QED BY <1>1, <1>4, <2>1, <2>2 DEF o, e, NoNewReversal
<1>5. CASE flow[o][e] = NoFlow
  <2>1. flow' = [flow EXCEPT ![o][e] = new] BY <1>3, <1>5
  <2> DEFINE g == [flow[o] EXCEPT ![e] = new]
  <2>6. flow' = [flow EXCEPT ![o] = g] BY <2>1
  <2>2. /\ flow' \in [Orders -> Flows] /\ flow'[o] = g
        /\ \A p \in Orders \ {o} : flow'[p] = flow[p]
        /\ flow'[o][e] = new /\ \A d \in FlowEvents \ {e} : flow'[o][d] = flow[o][d]
    <3>2. g \in Flows /\ g[e] = new /\ \A d \in FlowEvents \ {e} : g[d] = flow[o][d]
      BY <1>1, <1>2 DEF Flows
    <3> HIDE DEF g
    <3>3. flow'[o] = g /\ flow' \in [Orders -> Flows] BY <1>1, <2>6, <3>2
    <3>4. \A p \in Orders \ {o} : flow'[p] = flow[p] BY <1>1, <2>6
    <3> QED BY <3>2, <3>3, <3>4
  <2>3. \A j \in Keys : flow[j[1]][j[2]] # NoFlow => flow'[j[1]][j[2]] # NoFlow
    BY <1>2, <2>2 DEF Keys
  <2>4. /\ e = "PAY" => /\ ~n => c # "NOTPAY"
                        /\ new.status = "BOOKED" /\ ~n => c \in {"SUCCESS", "REFUND"}
        /\ OrderFits(flow[o], c, o \in misbooked) /\ (o \in misbooked => n)
    BY <1>2, <1>5 DEF o, e
  <2>5. OrderFits(g, c, n)
    <3> DEFINE m == o \in misbooked
    <3>1. m \in BOOLEAN /\ (m => n) /\ OrderFits(flow[o], c, m) BY <2>4
    <3> HIDE DEF m
    <3> QED BY <1>1, <1>2, <1>5, <2>4, <3>1, AppendFits
  <2>7. NoNewReversal
    <3> SUFFICES ASSUME NEW p \in Orders, flow'[p]["PAY"].status = "REVERSED"
                 PROVE  flow[p]["PAY"].status = "REVERSED"
      BY DEF NoNewReversal
    <3> QED BY <1>1, <1>2, <2>2 DEF FlowEvents
  <2> QED BY <1>2, <2>2, <2>3, <2>5, <2>7 DEF o, e
<1> QED BY <1>4, <1>5

----------------------------------------
(* Time passes. *)

(* What no step undoes, and what a step that reverses has to respect. *)
Later ==
  /\ today <= today'
  /\ \A o \in Orders :
     /\ Paid(o) => Paid(o)'
     /\ FoundUnpaid(o) /\ NotHeld(o) => NotHeld(o)'
     /\ flow'[o]["PAY"].status = "REVERSED" => flow[o]["PAY"].status = "REVERSED" \/ NotHeld(o)'
  /\ \A d \in Days : d < today => bill'[d] = bill[d]
  /\ \A k \in Keys : FlowAt(k) # NoFlow => FlowAt(k)' # NoFlow

LEMMA RoundParts ==
  ASSUME NEW x \in Round
  PROVE  /\ x.step \in {"idle", "pull", "handle", "book", "reverse"}
         /\ x.step = "idle" => x = Idle
         /\ x.step # "idle" => x.day \in Days
         /\ x.step \in {"handle", "book", "reverse"} => x.todo \subseteq Difference /\ x.open \subseteq Keys
         /\ x.step \in {"book", "reverse"} => x.cur \in Keys
  BY DEF Round, Idle

LEMMA DayParts == today \in Days => today \in Nat /\ Days \subseteq Nat
  BY ReconciliationAssumption DEF Days

LEMMA KeyParts ==
  /\ Keys = Orders \X FlowEvents /\ Orders \X BillEvents \subseteq Keys
  /\ \A k \in Keys : k[1] \in Orders /\ k[2] \in FlowEvents /\ k = <<k[1], k[2]>>
  /\ \A diff \in Difference : diff.key \in Keys /\ diff.type \in {"CHANNEL_ONLY", "LOCAL_ONLY", "REFUND_MISMATCH"}
  /\ "PAY" \in BillEvents /\ "REFUND" \in BillEvents /\ BillEvents \subseteq FlowEvents
  BY DEF Keys, BillEvents, FlowEvents, Difference

LEMMA RoundStays ==
  ASSUME ReconTypeOK, Later, today' \in Days, NEW x \in Round, RoundFits(x),
         \/ UNCHANGED <<channel, paidLate>>
         \/ \E r \in Rounds : x = round[r]
  PROVE  RoundFits(x)'
<1>1. today \in Nat /\ today' \in Nat /\ Days \subseteq Nat BY DayParts DEF ReconTypeOK, Days
<1>2. x.step # "idle" => x.day < today /\ x.day < today' /\ x.day \in Days
  <2>1. x.step # "idle" => x.day < today /\ x.day \in Days BY RoundParts DEF RoundFits
  <2>2. today <= today' BY DEF Later
  <2>3. ASSUME x.step # "idle" PROVE x.day < today'
    <3>1. x.day \in Nat /\ x.day < today BY <1>1, <2>1, <2>3
    <3> QED BY <1>1, <2>2, <3>1
  <2> QED BY <2>1, <2>3
<1>3. ASSUME x.step \in {"handle", "book", "reverse"}
      PROVE  /\ \A diff \in x.todo : DiffFits(diff)'
             /\ \A k \in BillKeys(x.day)' : LineKept(x, k)'
  <2>1. x.todo \subseteq Difference /\ x.open \subseteq Keys BY <1>3, RoundParts
  <2>2. bill'[x.day] = bill[x.day] /\ BillKeys(x.day)' = BillKeys(x.day)
    BY <1>2, <1>3 DEF Later, BillKeys
  <2>3. \A diff \in x.todo : DiffFits(diff)' BY <1>3, <2>1, KeyParts DEF RoundFits, DiffFits, Later
  <2>4. \A k \in BillKeys(x.day) : LineKept(x, k) /\ k \in Keys
    BY <1>3, KeyParts DEF RoundFits, BillKeys
  <2>5. \A k \in BillKeys(x.day) : LineKept(x, k)' BY <2>4 DEF LineKept, Later
  <2> QED BY <2>2, <2>3, <2>5
<1>4. x.step = "book" => x.cur[2] \in BillEvents /\ Paid(x.cur[1])'
  BY RoundParts, KeyParts DEF RoundFits, Later
<1>5. x.step = "reverse" => FlowAt(x.cur)' # NoFlow BY RoundParts, KeyParts DEF RoundFits, Later
<1>6. ASSUME x.step = "reverse", x.cur[2] = "PAY" PROVE NotHeld(x.cur[1])'
  <2>1. PICK o \in Orders : x.cur = <<o, "PAY">> /\ NotHeld(o)
    BY <1>6, RoundParts, KeyParts DEF RoundFits
  <2>2. NotHeld(o)'
    <3>1. CASE UNCHANGED <<channel, paidLate>> BY <2>1, <3>1 DEF NotHeld
    <3>2. CASE \E r \in Rounds : x = round[r]
      <4>1. FoundUnpaid(o) BY <1>6, <2>1, <3>2 DEF FoundUnpaid
      <4> QED BY <2>1, <4>1 DEF Later
    <3> QED BY <3>1, <3>2
  <2> QED BY <2>1, <2>2
<1> QED BY <1>2, <1>3, <1>4, <1>5, <1>6 DEF RoundFits

(* A record is never taken back, and the day on record is over. *)
LEMMA AuditsStay ==
  ASSUME ReconIInv, Later, today' \in Days, UNCHANGED audits
  PROVE  AuditedBillAccounted' /\ \A d \in Days : audits'[d] # {} => d < today'
<1>1. today \in Nat /\ today' \in Nat /\ Days \subseteq Nat
  BY DayParts DEF ReconIInv, ReconTypeOK, Days
<1>2. \A d \in Days : audits'[d] # {} => d < today /\ d < today' /\ bill'[d] = bill[d]
  <2> SUFFICES ASSUME NEW d \in Days, audits'[d] # {}
               PROVE  d < today /\ d < today' /\ bill'[d] = bill[d]
    OBVIOUS
  <2>1. audits[d] # {} OBVIOUS
  <2>2. d < today BY <2>1 DEF ReconIInv
  <2>3. today <= today' /\ bill'[d] = bill[d] BY <2>2 DEF Later
  <2> QED BY ONLY <1>1, <2>2, <2>3, d \in Days
<1>3. AuditedBillAccounted'
  <2> SUFFICES ASSUME NEW d \in Days, NEW k \in Orders \X BillEvents,
                      bill'[d][k[1]][k[2]] # NoLine, NEW open \in audits'[d],
                      flow'[k[1]][k[2]] = NoFlow
               PROVE  k \in open
    BY DEF AuditedBillAccounted
  <2>1. bill[d][k[1]][k[2]] # NoLine /\ open \in audits[d] BY <1>2
  <2>2. flow[k[1]][k[2]] = NoFlow BY KeyParts DEF Later, FlowAt
  <2> QED BY <2>1, <2>2 DEF ReconIInv, AuditedBillAccounted
<1> QED BY <1>2, <1>3

LEMMA LaterSame ==
  ASSUME ReconTypeOK, UNCHANGED <<today, channel, bill, flow, paidLate>> PROVE Later
  BY DayParts DEF Later, Paid, FlowAt, ReconTypeOK, NotHeld

(* A step that undoes nothing keeps the invariant, if it keeps it of the
   orders and of the round that moves. *)
LEMMA ReconKeeps ==
  ASSUME ReconIInv, Later, ReconTypeOK',
         \A o \in Orders : OrderFits(flow'[o], channel'[o], o \in misbooked'),
         \A r \in Rounds : \A x : x = round'[r] => x = round[r] \/ RoundFits(x)',
         \/ UNCHANGED audits
         \/ AuditedBillAccounted' /\ \A d \in Days : audits'[d] # {} => d < today'
  PROVE  ReconIInv'
<1>1. today' \in Days /\ ReconTypeOK BY DEF ReconTypeOK, ReconIInv
<1>2. AuditedBillAccounted' /\ \A d \in Days : audits'[d] # {} => d < today' BY <1>1, AuditsStay
<1>3. \A r \in Rounds : RoundFits(round[r])'
  <2> TAKE r \in Rounds
  <2>1. \A x : x = round'[r] => RoundFits(x)'
    <3> SUFFICES ASSUME NEW x, x = round'[r] PROVE RoundFits(x)' OBVIOUS
    <3>1. CASE RoundFits(x)' BY <3>1
    <3>2. CASE x = round[r]
      <4>1. x \in Round /\ RoundFits(x) BY <1>1, <3>2 DEF ReconTypeOK, ReconIInv
      <4> QED BY <1>1, <4>1, RoundStays
    <3> QED BY <3>1, <3>2
  <2> QED BY <2>1 DEF RoundFits
<1>4. \A o \in Orders : OrderFits(flow[o], channel[o], o \in misbooked)'
  BY DEF OrderFits, FlowEvents, NoFlow
<1>5. HeldNotReversed'
  <2> SUFFICES ASSUME NEW o \in Orders, flow'[o]["PAY"].status = "REVERSED" PROVE NotHeld(o)'
    BY DEF HeldNotReversed
  <2> QED BY DEF Later, FoundUnpaid, ReconIInv, HeldNotReversed
<1> QED BY <1>2, <1>3, <1>4, <1>5 DEF ReconIInv

----------------------------------------
(* The channel, the callbacks and the days. *)

LEMMA FlowsTyped ==
  ASSUME ReconTypeOK, flow' \in [Orders -> Flows], UNCHANGED <<today, bill, audits>>,
         channel' \in [Orders -> {"NOTPAY", "SUCCESS", "REFUND", "CLOSED"}],
         round' \in [Rounds -> Round], misbooked' \subseteq Orders, paidLate' \subseteq misbooked'
  PROVE  ReconTypeOK'
  BY DEF ReconTypeOK, Flows

(* Only the bill of the day grows. *)
LEMMA LinePut ==
  ASSUME ReconTypeOK, NEW o \in Orders, NEW e \in BillEvents,
         NEW status \in {"SUCCESS", "PROCESSING"}, PutLine(o, e, status)
  PROVE  /\ bill' \in [Days -> [Orders -> [BillEvents -> Line \union {NoLine}]]]
         /\ \A d \in Days : d < today => bill'[d] = bill[d]
<1> DEFINE line == [status |-> status, amount |-> Amount]
           B == [BillEvents -> Line \union {NoLine}]
<1>1. line \in Line BY ReconciliationAssumption DEF Line, Amounts
<1>2. bill' = [bill EXCEPT ![today][o][e] = line] BY DEF PutLine
<1>3. bill \in [Days -> [Orders -> B]] /\ today \in Days /\ Days \subseteq Nat
  BY DayParts DEF ReconTypeOK
<1> HIDE DEF line
<1>4. [bill[today][o] EXCEPT ![e] = line] \in B BY <1>1, <1>3
<1> DEFINE b == [bill[today][o] EXCEPT ![e] = line]
<1>5. bill' = [bill EXCEPT ![today] = [bill[today] EXCEPT ![o] = b]] BY <1>2
<1> HIDE DEF b, B
<1>6. [bill[today] EXCEPT ![o] = b] \in [Orders -> B] BY <1>3, <1>4 DEF b
<1> DEFINE a == [bill[today] EXCEPT ![o] = b]
<1>7. bill' = [bill EXCEPT ![today] = a] /\ a \in [Orders -> B] BY <1>5, <1>6
<1> HIDE DEF a
<1>8. bill' \in [Days -> [Orders -> B]] BY <1>3, <1>7
<1>9. \A d \in Days : d < today => bill'[d] = bill[d] BY <1>3, <1>7
<1> QED BY <1>8, <1>9 DEF B

LEMMA StartPayingIInv == ASSUME ReconIInv, NEW o \in Orders, StartPaying(o) PROVE ReconIInv'
<1>1. /\ ReconTypeOK /\ PutLine(o, "PAY", "PROCESSING") /\ "PAY" \in BillEvents
      /\ UNCHANGED <<today, channel, flow, round, audits, misbooked, paidLate>>
  BY DEF StartPaying, ReconIInv, BillEvents, history
<1>2. /\ bill' \in [Days -> [Orders -> [BillEvents -> Line \union {NoLine}]]]
      /\ \A d \in Days : d < today => bill'[d] = bill[d]
  BY <1>1, LinePut
<1>3. ReconTypeOK' BY <1>1, <1>2 DEF ReconTypeOK
<1>4. Later BY <1>1, <1>2, DayParts DEF Later, Paid, FlowAt, ReconTypeOK, NotHeld, NoNewReversal
<1> QED BY <1>1, <1>3, <1>4, ReconKeeps DEF ReconIInv

LEMMA PayIInv == ASSUME ReconIInv, NEW o \in Orders, Pay(o) PROVE ReconIInv'
<1>1. /\ ReconTypeOK /\ PutLine(o, "PAY", "SUCCESS") /\ "PAY" \in BillEvents
      /\ channel[o] = "NOTPAY" /\ channel' = [channel EXCEPT ![o] = "SUCCESS"]
      /\ UNCHANGED <<today, flow, round, audits, misbooked>>
      /\ paidLate' = paidLate \union {x \in {o} : FoundUnpaid(x)}
  BY DEF Pay, ReconIInv, BillEvents, history
<1>2. /\ bill' \in [Days -> [Orders -> [BillEvents -> Line \union {NoLine}]]]
      /\ \A d \in Days : d < today => bill'[d] = bill[d]
  BY <1>1, LinePut
<1>3. /\ channel' \in [Orders -> {"NOTPAY", "SUCCESS", "REFUND", "CLOSED"}]
      /\ channel'[o] = "SUCCESS" /\ \A p \in Orders \ {o} : channel'[p] = channel[p]
  BY <1>1 DEF ReconTypeOK
<1>a. ASSUME FoundUnpaid(o) PROVE o \in misbooked
  <2>1. flow[o]["PAY"] # NoFlow
    <3>1. CASE flow[o]["PAY"].status = "REVERSED" BY <3>1, NoFlowApart
    <3>2. ASSUME NEW r \in Rounds, round[r].step = "reverse", round[r].cur = <<o, "PAY">>
          PROVE  flow[o]["PAY"] # NoFlow
      BY <3>2 DEF ReconIInv, RoundFits, FlowAt
    <3> QED BY <1>a, <3>1, <3>2 DEF FoundUnpaid
  <2> QED BY <1>1, <2>1 DEF ReconIInv, OrderFits
<1>4. ReconTypeOK' BY <1>1, <1>2, <1>3, <1>a DEF ReconTypeOK
<1>5. Later BY <1>1, <1>2, <1>3, DayParts DEF Later, Paid, FlowAt, ReconTypeOK, NotHeld, NoNewReversal
<1>6. \A p \in Orders : OrderFits(flow[p], channel'[p], p \in misbooked)
  BY <1>1, <1>3, ChannelFits DEF ReconIInv
<1> QED BY <1>1, <1>4, <1>5, <1>6, ReconKeeps

LEMMA CallbackIInv == ASSUME ReconIInv, NEW o \in Orders, Callback(o) PROVE ReconIInv'
<1> DEFINE k == <<o, "PAY">>
<1>1. /\ ReconTypeOK /\ channel[o] = "SUCCESS" /\ AppendFlow(k, "BOOKED", Amount)
      /\ UNCHANGED <<today, channel, bill, round, audits, misbooked, paidLate>>
  BY DEF Callback, ReconIInv, history
<1>2. /\ k \in Orders \X {"PAY", "REFUND", "CLOSE"} /\ k[1] = o /\ k[2] = "PAY"
      /\ OrderFits(flow[o], channel[o], o \in misbooked) /\ Amount \in Amounts
  BY ReconciliationAssumption DEF ReconIInv, Amounts
<1> HIDE DEF k
<1>3. /\ flow' \in [Orders -> Flows] /\ \A p \in Orders \ {o} : flow'[p] = flow[p]
      /\ \A j \in Keys : flow[j[1]][j[2]] # NoFlow => flow'[j[1]][j[2]] # NoFlow
      /\ OrderFits(flow'[o], channel[o], o \in misbooked) /\ NoNewReversal
  <2> DEFINE m == o \in misbooked
             c == channel[o]
  <2>1. m \in BOOLEAN /\ (m <=> k[1] \in misbooked) /\ c = "SUCCESS" BY <1>1, <1>2
  <2>2. OrderFits(flow[k[1]], c, k[1] \in misbooked) /\ (k[1] \in misbooked => m) BY <1>2
  <2> HIDE DEF m, c
  <2>3. /\ flow' \in [Orders -> Flows] /\ \A p \in Orders \ {k[1]} : flow'[p] = flow[p]
        /\ \A j \in Keys : flow[j[1]][j[2]] # NoFlow => flow'[j[1]][j[2]] # NoFlow
        /\ OrderFits(flow'[k[1]], c, m) /\ NoNewReversal
    BY <1>1, <1>2, <2>1, <2>2, AppendKeeps
  <2> QED BY <1>2, <2>3 DEF m, c
<1>4. ReconTypeOK' BY <1>1, <1>3, FlowsTyped DEF ReconTypeOK
<1>5. Later BY <1>1, <1>3, DayParts DEF Later, Paid, FlowAt, ReconTypeOK, NotHeld, NoNewReversal
<1>6. \A p \in Orders : OrderFits(flow'[p], channel[p], p \in misbooked) BY <1>3 DEF ReconIInv
<1> QED BY <1>1, <1>4, <1>5, <1>6, ReconKeeps

LEMMA RefundIInv == ASSUME ReconIInv, NEW o \in Orders, Refund(o) PROVE ReconIInv'
<1> DEFINE k == <<o, "REFUND">>
<1>1. /\ ReconTypeOK /\ channel[o] = "SUCCESS" /\ channel' = [channel EXCEPT ![o] = "REFUND"]
      /\ PutLine(o, "REFUND", "SUCCESS") /\ "REFUND" \in BillEvents
      /\ AppendFlow(k, "PENDING", Amount) \/ UNCHANGED flow
      /\ UNCHANGED <<today, round, audits, misbooked, paidLate>>
  BY DEF Refund, ReconIInv, BillEvents, history
<1>2. /\ bill' \in [Days -> [Orders -> [BillEvents -> Line \union {NoLine}]]]
      /\ \A d \in Days : d < today => bill'[d] = bill[d]
  BY <1>1, LinePut
<1>3. /\ channel' \in [Orders -> {"NOTPAY", "SUCCESS", "REFUND", "CLOSED"}]
      /\ channel'[o] = "REFUND" /\ \A p \in Orders \ {o} : channel'[p] = channel[p]
  BY <1>1 DEF ReconTypeOK
<1>4. /\ k \in Orders \X {"PAY", "REFUND", "CLOSE"} /\ k[1] = o /\ k[2] = "REFUND"
      /\ OrderFits(flow[o], channel[o], o \in misbooked) /\ Amount \in Amounts
  BY ReconciliationAssumption DEF ReconIInv, Amounts
<1> HIDE DEF k
<1>5. OrderFits(flow[o], "REFUND", o \in misbooked) BY <1>1, <1>4, ChannelFits
<1>6. /\ flow' \in [Orders -> Flows] /\ \A p \in Orders \ {o} : flow'[p] = flow[p]
      /\ \A j \in Keys : flow[j[1]][j[2]] # NoFlow => flow'[j[1]][j[2]] # NoFlow
      /\ OrderFits(flow'[o], "REFUND", o \in misbooked)
  <2>1. CASE UNCHANGED flow BY <1>1, <1>5, <2>1 DEF ReconTypeOK, Flows
  <2>2. CASE AppendFlow(k, "PENDING", Amount)
    <3> DEFINE m == o \in misbooked
    <3>1. m \in BOOLEAN /\ (m <=> k[1] \in misbooked) BY <1>4
    <3>2. OrderFits(flow[k[1]], "REFUND", k[1] \in misbooked) /\ (k[1] \in misbooked => m)
      BY <1>4, <1>5
    <3> HIDE DEF m
    <3>3. /\ flow' \in [Orders -> Flows] /\ \A p \in Orders \ {k[1]} : flow'[p] = flow[p]
          /\ \A j \in Keys : flow[j[1]][j[2]] # NoFlow => flow'[j[1]][j[2]] # NoFlow
          /\ OrderFits(flow'[k[1]], "REFUND", m)
      BY <1>4, <2>2, <3>1, <3>2, AppendKeeps
    <3> QED BY <1>4, <3>3 DEF m
  <2> QED BY <1>1, <2>1, <2>2
<1>7. ReconTypeOK' BY <1>1, <1>2, <1>3, <1>6 DEF ReconTypeOK, Flows
<1>8. Later BY <1>1, <1>2, <1>3, <1>6, DayParts DEF Later, Paid, FlowAt, ReconTypeOK, NotHeld, NoNewReversal
<1>9. \A p \in Orders : OrderFits(flow'[p], channel'[p], p \in misbooked)
  BY <1>3, <1>6 DEF ReconIInv
<1> QED BY <1>1, <1>7, <1>8, <1>9, ReconKeeps

LEMMA CloseIInv == ASSUME ReconIInv, NEW o \in Orders, Close(o) PROVE ReconIInv'
<1> DEFINE k == <<o, "CLOSE">>
<1>1. /\ ReconTypeOK /\ channel[o] = "NOTPAY" /\ channel' = [channel EXCEPT ![o] = "CLOSED"]
      /\ AppendFlow(k, "CLOSED", 0)
      /\ UNCHANGED <<today, bill, round, audits, misbooked, paidLate>>
  BY DEF Close, ReconIInv, history
<1>2. /\ channel' \in [Orders -> {"NOTPAY", "SUCCESS", "REFUND", "CLOSED"}]
      /\ channel'[o] = "CLOSED" /\ \A p \in Orders \ {o} : channel'[p] = channel[p]
  BY <1>1 DEF ReconTypeOK
<1>3. /\ k \in Orders \X {"PAY", "REFUND", "CLOSE"} /\ k[1] = o /\ k[2] = "CLOSE"
      /\ OrderFits(flow[o], channel[o], o \in misbooked) /\ 0 \in Amounts
  BY ReconciliationAssumption DEF ReconIInv, Amounts
<1> HIDE DEF k
<1>4. OrderFits(flow[o], "CLOSED", o \in misbooked) BY <1>1, <1>3, ChannelFits
<1>5. /\ flow' \in [Orders -> Flows] /\ \A p \in Orders \ {o} : flow'[p] = flow[p]
      /\ \A j \in Keys : flow[j[1]][j[2]] # NoFlow => flow'[j[1]][j[2]] # NoFlow
      /\ OrderFits(flow'[o], "CLOSED", o \in misbooked)
  <2> DEFINE m == o \in misbooked
  <2>1. m \in BOOLEAN /\ (m <=> k[1] \in misbooked) BY <1>3
  <2>2. OrderFits(flow[k[1]], "CLOSED", k[1] \in misbooked) /\ (k[1] \in misbooked => m)
    BY <1>3, <1>4
  <2> HIDE DEF m
  <2>3. /\ flow' \in [Orders -> Flows] /\ \A p \in Orders \ {k[1]} : flow'[p] = flow[p]
        /\ \A j \in Keys : flow[j[1]][j[2]] # NoFlow => flow'[j[1]][j[2]] # NoFlow
        /\ OrderFits(flow'[k[1]], "CLOSED", m)
    BY <1>1, <1>3, <2>1, <2>2, AppendKeeps
  <2> QED BY <1>3, <2>3 DEF m
<1>6. ReconTypeOK' BY <1>1, <1>2, <1>5, FlowsTyped DEF ReconTypeOK
<1>7. Later BY <1>1, <1>2, <1>5, DayParts DEF Later, Paid, FlowAt, ReconTypeOK, NotHeld, NoNewReversal
<1>8. \A p \in Orders : OrderFits(flow'[p], channel'[p], p \in misbooked)
  BY <1>2, <1>5 DEF ReconIInv
<1> QED BY <1>1, <1>6, <1>7, <1>8, ReconKeeps

LEMMA MisbookIInv ==
  ASSUME ReconIInv, NEW o \in Orders, NEW amount \in {Amount, Amount + 1}, Misbook(o, amount)
  PROVE  ReconIInv'
<1> DEFINE k == <<o, "PAY">>
<1>1. /\ ReconTypeOK /\ AppendFlow(k, "BOOKED", amount)
      /\ misbooked' = misbooked \union {o}
      /\ UNCHANGED <<today, channel, bill, round, audits, paidLate>>
  BY DEF Misbook, ReconIInv
<1>2. /\ k \in Orders \X {"PAY", "REFUND", "CLOSE"} /\ k[1] = o /\ k[2] = "PAY"
      /\ OrderFits(flow[o], channel[o], o \in misbooked) /\ amount \in Amounts
  BY ReconciliationAssumption DEF ReconIInv, Amounts
<1> HIDE DEF k
<1>3. /\ flow' \in [Orders -> Flows] /\ \A p \in Orders \ {o} : flow'[p] = flow[p]
      /\ \A j \in Keys : flow[j[1]][j[2]] # NoFlow => flow'[j[1]][j[2]] # NoFlow
      /\ OrderFits(flow'[o], channel[o], TRUE) /\ NoNewReversal
  <2> DEFINE c == channel[o]
  <2>1. OrderFits(flow[k[1]], c, k[1] \in misbooked) BY <1>1, <1>2
  <2> HIDE DEF c
  <2>2. /\ flow' \in [Orders -> Flows] /\ \A p \in Orders \ {k[1]} : flow'[p] = flow[p]
        /\ \A j \in Keys : flow[j[1]][j[2]] # NoFlow => flow'[j[1]][j[2]] # NoFlow
        /\ OrderFits(flow'[k[1]], c, TRUE) /\ NoNewReversal
    BY <1>1, <1>2, <2>1, AppendKeeps
  <2> QED BY <1>2, <2>2 DEF c
<1>4. ReconTypeOK' BY <1>1, <1>3, FlowsTyped DEF ReconTypeOK
<1>5. Later BY <1>1, <1>3, DayParts DEF Later, Paid, FlowAt, ReconTypeOK, NotHeld, NoNewReversal
<1>6. \A p \in Orders : OrderFits(flow'[p], channel[p], p \in misbooked')
  <2> TAKE p \in Orders
  <2>1. CASE p = o BY <1>1, <1>3, <2>1 DEF OrderFits
  <2>2. CASE p # o BY <1>1, <1>3, <2>2 DEF ReconIInv, OrderFits
  <2> QED BY <2>1, <2>2
<1> QED BY <1>1, <1>4, <1>5, <1>6, ReconKeeps

LEMMA NextDayIInv == ASSUME ReconIInv, NextDay PROVE ReconIInv'
<1>1. /\ ReconTypeOK /\ today < LastDay /\ today' = today + 1
      /\ UNCHANGED <<channel, bill, flow, round, audits, misbooked, paidLate>>
  BY DEF NextDay, ReconIInv, history
<1>2. today \in Nat /\ today' \in Days /\ today <= today'
  BY <1>1, DayParts, ReconciliationAssumption DEF ReconTypeOK, Days
<1>3. ReconTypeOK' BY <1>1, <1>2 DEF ReconTypeOK
<1>4. Later BY <1>1, <1>2 DEF Later, Paid, FlowAt, NotHeld
<1> QED BY <1>1, <1>3, <1>4, ReconKeeps DEF ReconIInv

----------------------------------------
(* The rounds. *)

LEMMA RoundMoves ==
  ASSUME ReconIInv, NEW r \in Rounds, NEW x \in Round, SetRound(r, x), RoundFits(x)', Later,
         flow' \in [Orders -> Flows], UNCHANGED <<today, channel, bill, misbooked, paidLate>>,
         \A o \in Orders : OrderFits(flow'[o], channel[o], o \in misbooked),
         audits' \in [Days -> SUBSET SUBSET Keys],
         \/ UNCHANGED audits
         \/ AuditedBillAccounted' /\ \A d \in Days : audits'[d] # {} => d < today'
  PROVE  ReconIInv'
<1>1. /\ round \in [Rounds -> Round] /\ round' = [round EXCEPT ![r] = x] /\ ReconTypeOK
  BY DEF ReconIInv, ReconTypeOK, SetRound
<1>2. ReconTypeOK'
  <2>1. round' \in [Rounds -> Round] BY <1>1
  <2> QED BY <1>1, <2>1 DEF ReconTypeOK, Flows
<1>3. \A q \in Rounds : \A y : y = round'[q] => y = round[q] \/ RoundFits(y)'
  <2> SUFFICES ASSUME NEW q \in Rounds, NEW y, y = round'[q], y # round[q] PROVE RoundFits(y)'
    OBVIOUS
  <2>1. y = x BY <1>1
  <2> QED BY <2>1
<1> QED BY <1>2, <1>3, ReconKeeps

(* The same, of a step that changes nothing but the round. *)
LEMMA RoundMovesAlone ==
  ASSUME ReconIInv, NEW r \in Rounds, NEW x \in Round, SetRound(r, x), RoundFits(x),
         UNCHANGED <<today, channel, bill, flow, audits, misbooked, paidLate>>
  PROVE  ReconIInv'
<1>1. ReconTypeOK /\ Later BY LaterSame DEF ReconIInv
<1>2. today' \in Days /\ flow' \in [Orders -> Flows] /\ audits' \in [Days -> SUBSET SUBSET Keys]
  BY <1>1 DEF ReconTypeOK, Flows
<1>3. RoundFits(x)' BY <1>1, <1>2, RoundStays
<1>4. \A o \in Orders : OrderFits(flow'[o], channel[o], o \in misbooked) BY DEF ReconIInv
<1> QED BY <1>1, <1>2, <1>3, <1>4, RoundMoves

LEMMA IdleFits == Idle \in Round /\ RoundFits(Idle)
  BY DEF Round, Idle, RoundFits

LEMMA StartIInv ==
  ASSUME ReconIInv, NEW r \in Rounds, NEW d \in Days, Start(r, d) PROVE ReconIInv'
<1> DEFINE x == [step |-> "pull", day |-> d]
<1>1. x \in Round /\ x.step = "pull" /\ x.day = d BY DEF Round
<1>2. /\ SetRound(r, x) /\ d < today
      /\ UNCHANGED <<today, channel, bill, flow, audits, misbooked, paidLate>>
  BY DEF Start, history
<1> HIDE DEF x
<1>3. RoundFits(x) BY <1>1, <1>2 DEF RoundFits
<1> QED BY <1>1, <1>2, <1>3, RoundMovesAlone

LEMMA DifferencesTyped ==
  ASSUME NEW d \in Days PROVE Differences(d) \subseteq Difference /\ ManualOnly(d) \subseteq Keys
  BY KeyParts DEF Differences, LocalKeys, BillKeys, Difference, ManualOnly

LEMMA CompareIInv == ASSUME ReconIInv, NEW r \in Rounds, Compare(r) PROVE ReconIInv'
<1> DEFINE d == round[r].day
           x == [step |-> "handle", day |-> d, todo |-> Differences(d), open |-> ManualOnly(d)]
<1>1. /\ round[r] \in Round /\ round[r].step = "pull" /\ RoundFits(round[r])
      /\ SetRound(r, x) /\ UNCHANGED <<today, channel, bill, flow, audits, misbooked, paidLate>>
  BY DEF Compare, ReconIInv, ReconTypeOK, history
<1>2. d \in Days /\ d < today BY <1>1, RoundParts DEF RoundFits
<1> HIDE DEF d
<1>3. /\ x \in Round /\ x.step = "handle" /\ x.day = d /\ x.todo = Differences(d)
      /\ x.open = ManualOnly(d)
  BY <1>2, DifferencesTyped DEF Round
<1> HIDE DEF x
<1>4. \A k \in LocalKeys(d) : FlowAt(k) # NoFlow
  <2>1. NoFlow.day = 0 /\ 0 \notin Days BY DEF NoFlow, Days
  <2> QED BY <1>2, <2>1 DEF LocalKeys, FlowAt
<1>5. \A diff \in x.todo : DiffFits(diff)
  <2> SUFFICES ASSUME NEW diff \in Differences(d) PROVE DiffFits(diff) BY <1>3
  <2>1. CASE diff \in [type : {"CHANNEL_ONLY"}, key : BillKeys(d) \ LocalKeys(d)]
    BY <2>1 DEF DiffFits, BillKeys
  <2>2. CASE diff \in [type : {"REFUND_MISMATCH"},
                       key : {k \in LocalKeys(d) \ BillKeys(d) : k[2] = "REFUND"}]
    BY <2>2 DEF DiffFits
  <2>3. CASE diff \in [type : {"LOCAL_ONLY"},
                       key : {k \in LocalKeys(d) \ BillKeys(d) : k[2] # "REFUND"}]
    BY <1>4, <2>3 DEF DiffFits
  <2> QED BY <2>1, <2>2, <2>3 DEF Differences
<1>6. \A k \in BillKeys(d) : LineKept(x, k)
  <2> SUFFICES ASSUME NEW k \in BillKeys(d), k \notin LocalKeys(d) PROVE LineKept(x, k)
    BY <1>4 DEF LineKept
  <2> DEFINE diff == [type |-> "CHANNEL_ONLY", key |-> k]
  <2>1. diff \in Differences(d) /\ diff.type = "CHANNEL_ONLY" /\ diff.key = k BY DEF Differences
  <2> QED BY <1>3, <2>1 DEF LineKept
<1>7. RoundFits(x) BY <1>2, <1>3, <1>5, <1>6 DEF RoundFits
<1> QED BY <1>1, <1>3, <1>7, RoundMovesAlone

LEMMA QueryIInv ==
  ASSUME ReconIInv, NEW r \in Rounds, NEW diff \in Difference, Query(r, diff) PROVE ReconIInv'
<1> DEFINE y == round[r]
           left == y.todo \ {diff}
           step == IF diff.type = "LOCAL_ONLY" THEN "reverse" ELSE "book"
           x == [step |-> step, day |-> y.day, todo |-> left, open |-> y.open, cur |-> diff.key]
           z == [y EXCEPT !.todo = left, !.open = @ \union {diff.key}]
<1>1. /\ y \in Round /\ y.step = "handle" /\ diff \in y.todo /\ RoundFits(y)
      /\ UNCHANGED <<today, channel, bill, flow, audits, misbooked, paidLate>>
      /\ (SetRound(r, z)) \/ (Confirmed(diff) /\ SetRound(r, x))
  BY DEF Query, ReconIInv, ReconTypeOK, history
<1>2. /\ y \in [step : {"handle"}, day : Days, todo : SUBSET Difference, open : SUBSET Keys]
      /\ y.day \in Days /\ y.todo \subseteq Difference /\ y.open \subseteq Keys
  BY <1>1 DEF Round, Idle
<1>3. /\ diff.key \in Keys /\ y.day < today /\ DiffFits(diff)
      /\ \A other \in y.todo : DiffFits(other)
      /\ \A k \in BillKeys(y.day) : LineKept(y, k)
  BY <1>1, KeyParts DEF RoundFits
<1>4. /\ z \in Round /\ z.step = "handle" /\ z.day = y.day /\ z.todo = left
      /\ z.open = y.open \union {diff.key}
  <2> HIDE DEF y
  <2>1. /\ z \in [step : {"handle"}, day : Days, todo : SUBSET Difference, open : SUBSET Keys]
        /\ z.step = "handle" /\ z.day = y.day /\ z.todo = left
        /\ z.open = y.open \union {diff.key}
    BY <1>2, <1>3
  <2> QED BY <2>1 DEF Round
<1>5. /\ x \in Round /\ x.step = step /\ x.day = y.day /\ x.todo = left /\ x.open = y.open
      /\ x.cur = diff.key
  <2> HIDE DEF y
  <2>1. step \in {"book", "reverse"} OBVIOUS
  <2> QED BY <1>2, <1>3, <2>1 DEF Round
<1>6. left \subseteq y.todo /\ \A other \in left : DiffFits(other) BY <1>3
<1>7. \A k \in BillKeys(y.day) :
        \/ FlowAt(k) # NoFlow \/ k \in y.open
        \/ diff.type = "CHANNEL_ONLY" /\ diff.key = k
        \/ \E other \in left : other.type = "CHANNEL_ONLY" /\ other.key = k
  BY <1>1, <1>3 DEF LineKept
<1> HIDE DEF x, z, left, y
<1>8. RoundFits(z)
  <2>1. \A k \in BillKeys(z.day) : LineKept(z, k) BY <1>4, <1>7 DEF LineKept
  <2> QED BY <1>3, <1>4, <1>6, <2>1 DEF RoundFits
<1>9. ASSUME Confirmed(diff) PROVE RoundFits(x)
  <2>1. /\ diff.type = "CHANNEL_ONLY" => channel[diff.key[1]] = "SUCCESS"
        /\ diff.type = "LOCAL_ONLY" => channel[diff.key[1]] # "SUCCESS"
        /\ diff.type = "REFUND_MISMATCH" => channel[diff.key[1]] = "REFUND"
    BY <1>9 DEF Confirmed
  <2>2. \A k \in BillKeys(x.day) : LineKept(x, k)
    <3>1. diff.type = "CHANNEL_ONLY" => step = "book" OBVIOUS
    <3> QED BY <1>5, <1>7, <3>1 DEF LineKept
  <2>3. x.step = "book" => x.cur[2] \in BillEvents /\ Paid(x.cur[1])
    BY <1>3, <1>5, <2>1, KeyParts DEF DiffFits, Paid
  <2>4. x.step = "reverse" =>
    /\ FlowAt(x.cur) # NoFlow
    /\ x.cur[2] = "PAY" => NotHeld(x.cur[1])
    <3> SUFFICES ASSUME x.step = "reverse"
                 PROVE  FlowAt(x.cur) # NoFlow /\ (x.cur[2] = "PAY" => NotHeld(x.cur[1]))
      OBVIOUS
    <3>1. diff.type = "LOCAL_ONLY" /\ FlowAt(x.cur) # NoFlow /\ x.cur = diff.key
      BY <1>3, <1>5 DEF DiffFits
    <3>2. channel[x.cur[1]] # "SUCCESS" BY <2>1, <3>1
    <3>3. NotHeld(x.cur[1]) BY <3>2 DEF NotHeld
    <3> QED BY <3>1, <3>3
  <2>5. x.step \in {"book", "reverse"} BY <1>5
  <2> QED BY <1>3, <1>5, <1>6, <2>2, <2>3, <2>4, <2>5 DEF RoundFits
<1> QED BY <1>1, <1>4, <1>5, <1>8, <1>9, RoundMovesAlone

(* A round that booked or reversed goes on with what it had to do; the key
   it was at has a flow. *)
LEMMA ContinueIInv ==
  ASSUME ReconIInv, NEW r \in Rounds, round[r].step \in {"book", "reverse"}, Continue(r), Later,
         flow' \in [Orders -> Flows], UNCHANGED <<today, channel, bill, audits, misbooked, paidLate>>,
         \A o \in Orders : OrderFits(flow'[o], channel[o], o \in misbooked),
         \A k \in Keys : k = round[r].cur => FlowAt(k)' # NoFlow
  PROVE  ReconIInv'
<1>1. PICK w \in Round :
  /\ w = round[r] /\ RoundFits(w) /\ w.step \in {"book", "reverse"}
  /\ \A k \in Keys : k = w.cur => FlowAt(k)' # NoFlow
  <2>1. round[r] \in Round /\ RoundFits(round[r]) BY DEF ReconIInv, ReconTypeOK
  <2> QED BY <2>1
<1>2. w.day \in Days /\ w.todo \subseteq Difference /\ w.open \subseteq Keys /\ w.cur \in Keys
  BY <1>1, RoundParts
<1>3. PICK x \in Round :
  /\ x.step = "handle" /\ x.day = w.day /\ x.todo = w.todo
  /\ x.open = w.open /\ SetRound(r, x)
  <2> DEFINE x == [step |-> "handle", day |-> w.day, todo |-> w.todo, open |-> w.open]
  <2>1. x \in Round BY <1>2 DEF Round
  <2> QED BY <1>1, <2>1 DEF Continue
<1>4. ReconTypeOK /\ today' \in Days /\ audits' \in [Days -> SUBSET SUBSET Keys]
  BY DEF ReconIInv, ReconTypeOK
<1>5. RoundFits(w)' BY <1>1, <1>4, RoundStays
<1>6. \A k \in BillKeys(w.day)' : LineKept(w, k)' /\ k \in Keys
  BY <1>1, <1>5, KeyParts DEF RoundFits, BillKeys
<1>7. \A k \in BillKeys(w.day)' : LineKept(x, k)' BY <1>1, <1>2, <1>3, <1>6 DEF LineKept
<1>8. RoundFits(x)' BY <1>1, <1>3, <1>5, <1>7 DEF RoundFits
<1> QED BY <1>3, <1>4, <1>8, RoundMoves

LEMMA BookIInv == ASSUME ReconIInv, NEW r \in Rounds, Book(r) PROVE ReconIInv'
<1>1. /\ round[r] \in Round /\ RoundFits(round[r]) /\ round[r].step = "book" /\ ReconTypeOK
      /\ Continue(r) /\ UNCHANGED <<today, channel, bill, audits, misbooked, paidLate>>
  BY DEF Book, ReconIInv, ReconTypeOK, history
<1>2. PICK k \in Keys : k = round[r].cur BY <1>1, RoundParts
<1>3. k[1] \in Orders /\ k[2] \in BillEvents /\ Paid(k[1]) BY <1>1, <1>2, KeyParts DEF RoundFits
<1> DEFINE d == round[r].day
           amount == IF k \in BillKeys(d) THEN bill[d][k[1]][k[2]].amount
                     ELSE flow[k[1]][k[2]].amount
<1>4. AppendFlow(k, "BOOKED", amount) BY <1>2 DEF Book
<1>5. amount \in Amounts
  <2>1. d \in Days /\ k[2] \in FlowEvents BY <1>1, <1>3, RoundParts, KeyParts
  <2>2. CASE k \in BillKeys(d)
    <3>1. bill[d][k[1]][k[2]] \in Line BY <1>1, <1>3, <2>1, <2>2 DEF BillKeys, ReconTypeOK
    <3> QED BY <2>2, <3>1 DEF Line
  <2>3. CASE k \notin BillKeys(d)
    <3>1. flow[k[1]][k[2]] \in Flow \union {NoFlow} BY <1>1, <1>3, <2>1 DEF ReconTypeOK
    <3>2. NoFlow.amount \in Amounts BY ReconciliationAssumption DEF NoFlow, Amounts
    <3> QED BY <2>3, <3>1, <3>2 DEF Flow
  <2> QED BY <2>2, <2>3
<1> HIDE DEF amount, d
<1>6. k \in Orders \X {"PAY", "REFUND", "CLOSE"} BY <1>2, <1>3 DEF BillEvents, Keys
<1> DEFINE o == k[1]
           c == channel[o]
           m == o \in misbooked
<1>7. /\ flow' \in [Orders -> Flows] /\ \A p \in Orders \ {o} : flow'[p] = flow[p]
      /\ flow'[o][k[2]] # NoFlow
      /\ \A j \in Keys : flow[j[1]][j[2]] # NoFlow => flow'[j[1]][j[2]] # NoFlow
      /\ OrderFits(flow'[o], c, m) /\ NoNewReversal
  <2>1. m \in BOOLEAN /\ (m <=> k[1] \in misbooked) /\ c \in {"SUCCESS", "REFUND"} /\ o = k[1]
    BY <1>3 DEF Paid
  <2>2. OrderFits(flow[k[1]], c, k[1] \in misbooked) /\ (k[1] \in misbooked => m)
    BY <1>3 DEF ReconIInv
  <2> HIDE DEF m, c, o
  <2> QED BY <1>4, <1>5, <1>6, <2>1, <2>2, AppendKeeps
<1>8. \A p \in Orders : OrderFits(flow'[p], channel[p], p \in misbooked) BY <1>7 DEF ReconIInv
<1>9. Later BY <1>1, <1>7, DayParts DEF Later, Paid, FlowAt, ReconTypeOK, NotHeld, NoNewReversal
<1>10. \A j \in Keys : j = round[r].cur => FlowAt(j)' # NoFlow BY <1>2, <1>7 DEF FlowAt
<1> QED BY <1>1, <1>7, <1>8, <1>9, <1>10, ContinueIInv

LEMMA ReverseIInv == ASSUME ReconIInv, NEW r \in Rounds, Reverse(r) PROVE ReconIInv'
<1>1. /\ round[r] \in Round /\ RoundFits(round[r]) /\ round[r].step = "reverse" /\ ReconTypeOK
      /\ UNCHANGED <<today, channel, bill, audits, misbooked, paidLate>>
  BY DEF Reverse, ReconIInv, ReconTypeOK, history
<1>2. PICK k \in Keys : k = round[r].cur BY <1>1, RoundParts
<1>3. /\ k[1] \in Orders /\ k[2] \in FlowEvents /\ flow[k[1]][k[2]] # NoFlow
      /\ k[2] = "PAY" => NotHeld(k[1])
      /\ flow \in [Orders -> Flows] /\ today \in Days
  BY <1>1, <1>2, KeyParts DEF RoundFits, FlowAt, ReconTypeOK, Flows
<1>4. CASE SetRound(r, Idle) /\ UNCHANGED flow BY <1>1, <1>4, IdleFits, RoundMovesAlone
<1>5. CASE Continue(r) /\ UNCHANGED flow
  <2>1. Later BY <1>1, <1>5, LaterSame
  <2>2. \A j \in Keys : j = round[r].cur => FlowAt(j)' # NoFlow BY <1>2, <1>3, <1>5 DEF FlowAt
  <2>3. \A p \in Orders : OrderFits(flow'[p], channel[p], p \in misbooked) BY <1>5 DEF ReconIInv
  <2> QED BY <1>1, <1>3, <1>5, <2>1, <2>2, <2>3, ContinueIInv
<1>6. CASE /\ Continue(r) /\ k[2] # "REVERSAL" /\ AppendReversal(k[1], k[2])
           /\ flow[k[1]]["REVERSAL"] = NoFlow
  <2> DEFINE o == k[1]
             e == k[2]
             f == flow[o]
             g == [f EXCEPT !["REVERSAL"] = [status |-> "REVERSED", amount |-> f[e].amount,
                                             day |-> today, of |-> e],
                            ![e].status = "REVERSED"]
  <2>1. flow' = [flow EXCEPT ![o] = g] BY <1>6 DEF AppendReversal
  <2>2. /\ o \in Orders /\ f \in Flows /\ OrderFits(f, channel[o], o \in misbooked)
        /\ e \in FlowEvents \ {"REVERSAL"} /\ f[e] # NoFlow /\ f["REVERSAL"] = NoFlow
        /\ e = "PAY" => NotHeld(o)
    BY <1>3, <1>6 DEF ReconIInv
  <2>3. /\ g \in Flows /\ OrderFits(g, channel[o], o \in misbooked)
        /\ \A d \in FlowEvents : f[d] # NoFlow => g[d] # NoFlow
        /\ e # "PAY" => g["PAY"] = f["PAY"]
    <3> DEFINE m == o \in misbooked
               c == channel[o]
    <3>1. m \in BOOLEAN /\ OrderFits(f, c, m) BY <2>2
    <3>2. IsReversed(g, f, e, today) BY DEF IsReversed
    <3> HIDE DEF m, c, g, f, e
    <3>3. /\ g \in Flows /\ OrderFits(g, c, m)
          /\ \A d \in FlowEvents : f[d] # NoFlow => g[d] # NoFlow
          /\ \A d \in FlowEvents \ {e, "REVERSAL"} : g[d] = f[d]
      BY <1>3, <2>2, <3>1, <3>2, ReverseFits
    <3>4. "PAY" \in FlowEvents BY DEF FlowEvents
    <3> QED BY <3>3, <3>4 DEF m, c
  <2> HIDE DEF g
  <2>4. flow' \in [Orders -> Flows] /\ flow'[o] = g /\ \A p \in Orders \ {o} : flow'[p] = flow[p]
    BY <1>3, <2>1, <2>2, <2>3
  <2>5. \A j \in Keys : flow[j[1]][j[2]] # NoFlow => flow'[j[1]][j[2]] # NoFlow
    BY <2>3, <2>4, KeyParts
  <2>9. \A p \in Orders : flow'[p]["PAY"].status = "REVERSED" =>
                            flow[p]["PAY"].status = "REVERSED" \/ NotHeld(p)
    <3> TAKE p \in Orders
    <3>1. CASE p = o BY <2>2, <2>3, <2>4, <3>1
    <3>2. CASE p # o BY <2>4, <3>2
    <3> QED BY <3>1, <3>2
  <2>6. Later BY <1>1, <2>5, <2>9, DayParts DEF Later, Paid, FlowAt, ReconTypeOK, NotHeld
  <2>7. \A p \in Orders : OrderFits(flow'[p], channel[p], p \in misbooked)
    BY <2>3, <2>4 DEF ReconIInv
  <2>8. \A j \in Keys : j = round[r].cur => FlowAt(j)' # NoFlow BY <1>2, <1>3, <2>5 DEF FlowAt
  <2> QED BY <1>1, <1>6, <2>4, <2>6, <2>7, <2>8, ContinueIInv
<1>7. CASE /\ Continue(r) /\ AppendReversal(k[1], k[2]) /\ flow[k[1]]["REVERSAL"] # NoFlow
  BY <1>5, <1>7 DEF AppendReversal
<1> QED BY <1>2, <1>4, <1>5, <1>6, <1>7 DEF Reverse

LEMMA RecordIInv == ASSUME ReconIInv, NEW r \in Rounds, Record(r) PROVE ReconIInv'
<1>1. /\ round[r] \in Round /\ RoundFits(round[r]) /\ round[r].step = "handle" /\ ReconTypeOK
      /\ round[r].todo = {} /\ SetRound(r, Idle) /\ AuditedBillAccounted
      /\ UNCHANGED <<today, channel, bill, flow, misbooked, paidLate>>
  BY DEF Record, ReconIInv, ReconTypeOK, history
<1> DEFINE d == round[r].day
           open == round[r].open
<1>2. /\ d \in Days /\ d < today /\ open \subseteq Keys
      /\ audits' = [audits EXCEPT ![d] = @ \union {open}]
  BY <1>1, RoundParts DEF RoundFits, Record
<1>3. \A k \in BillKeys(d) : FlowAt(k) # NoFlow \/ k \in open BY <1>1 DEF RoundFits, LineKept
<1> HIDE DEF d, open
<1>4. /\ audits' \in [Days -> SUBSET SUBSET Keys] /\ audits'[d] = audits[d] \union {open}
      /\ \A e \in Days \ {d} : audits'[e] = audits[e]
  BY <1>1, <1>2 DEF ReconTypeOK
<1>5. \A e \in Days : audits'[e] # {} => e < today' BY <1>1, <1>2, <1>4 DEF ReconIInv
<1>6. AuditedBillAccounted'
  <2> SUFFICES ASSUME NEW e \in Days, NEW k \in Orders \X BillEvents,
                      bill[e][k[1]][k[2]] # NoLine, NEW left \in audits'[e],
                      flow[k[1]][k[2]] = NoFlow
               PROVE  k \in left
    BY <1>1 DEF AuditedBillAccounted
  <2>1. CASE left \in audits[e] BY <1>1, <2>1 DEF AuditedBillAccounted
  <2>2. CASE left \notin audits[e]
    <3>1. e = d /\ left = open BY <1>4, <2>2
    <3> QED BY <1>3, <3>1 DEF BillKeys, FlowAt
  <2> QED BY <2>1, <2>2
<1>7. Later /\ flow' \in [Orders -> Flows] BY <1>1, LaterSame DEF ReconTypeOK, Flows
<1>8. RoundFits(Idle)' BY DEF RoundFits, Idle
<1>9. \A o \in Orders : OrderFits(flow'[o], channel[o], o \in misbooked) BY <1>1 DEF ReconIInv
<1> QED BY <1>1, <1>4, <1>5, <1>6, <1>7, <1>8, <1>9, IdleFits, RoundMoves

LEMMA InterruptIInv == ASSUME ReconIInv, NEW r \in Rounds, Interrupt(r) PROVE ReconIInv'
  BY IdleFits, RoundMovesAlone DEF Interrupt, history

LEMMA ReconInductive == ReconIInv /\ [ReconNext]_reconVars => ReconIInv'
<1> SUFFICES ASSUME ReconIInv, [ReconNext]_reconVars PROVE ReconIInv' OBVIOUS
<1>1. CASE UNCHANGED reconVars
  <2>1. UNCHANGED <<today, channel, bill, flow, round, audits, misbooked, paidLate>>
    BY <1>1 DEF reconVars, history
  <2>2. Later /\ ReconTypeOK' BY <2>1, LaterSame DEF ReconIInv, ReconTypeOK
  <2> QED BY <2>1, <2>2, ReconKeeps DEF ReconIInv
<1>2. CASE Environment
  BY <1>2, StartPayingIInv, PayIInv, CallbackIInv, RefundIInv, CloseIInv, MisbookIInv, NextDayIInv
     DEF Environment
<1>3. CASE \E r \in Rounds : RoundStep(r)
  BY <1>3, StartIInv, CompareIInv, QueryIInv, BookIInv, ReverseIInv, RecordIInv, InterruptIInv
     DEF RoundStep
<1> QED BY <1>1, <1>2, <1>3 DEF ReconNext

LEMMA ReconInitIInv == ReconInit => ReconIInv
<1> SUFFICES ASSUME ReconInit PROVE ReconIInv OBVIOUS
<1>1. ReconTypeOK
  <2>1. 1 \in Days BY ReconciliationAssumption DEF Days
  <2>2. flow \in [Orders -> Flows] BY DEF ReconInit, Flows
  <2>3. /\ channel \in [Orders -> {"NOTPAY", "SUCCESS", "REFUND", "CLOSED"}]
        /\ bill \in [Days -> [Orders -> [BillEvents -> Line \union {NoLine}]]]
        /\ round \in [Rounds -> Round] /\ audits \in [Days -> SUBSET SUBSET Keys]
    BY IdleFits DEF ReconInit
  <2> QED BY <2>1, <2>2, <2>3 DEF ReconInit, ReconTypeOK, Flows
<1>2. \A o \in Orders : OrderFits(flow[o], channel[o], o \in misbooked)
  <2>1. \A o \in Orders, e \in FlowEvents : flow[o][e] = NoFlow BY DEF ReconInit
  <2>2. "PAY" \in FlowEvents /\ "REVERSAL" \in FlowEvents /\ "NONE" \notin FlowEvents
    BY DEF FlowEvents
  <2> QED BY <2>1, <2>2, NoFlowApart DEF OrderFits
<1>3. \A r \in Rounds : RoundFits(round[r])
  <2>1. \A r \in Rounds : round[r] = Idle BY DEF ReconInit
  <2> QED BY <2>1, IdleFits
<1>4. AuditedBillAccounted /\ \A d \in Days : audits[d] # {} => d < today
  BY DEF ReconInit, AuditedBillAccounted
<1>5. HeldNotReversed BY DEF ReconInit, HeldNotReversed, NoFlow, FlowEvents
<1> QED BY <1>1, <1>2, <1>3, <1>4, <1>5 DEF ReconIInv

LEMMA ReconIInvSound == ReconIInv => BookedIsPaid /\ ReversalsSound /\ AuditedBillAccounted
<1> SUFFICES ASSUME ReconIInv PROVE BookedIsPaid /\ ReversalsSound BY DEF ReconIInv
<1>1. BookedIsPaid /\ HeldNotReversed BY DEF ReconIInv, OrderFits, BookedIsPaid, Paid
<1>2. ReversalPaired BY DEF ReconIInv, OrderFits, ReversalPaired
<1> QED BY <1>1, <1>2 DEF ReconIInv, ReversalsSound

(* Reconciliation books nothing that was not paid at the channel, although
   the query that said so was answered before (_auto_book). *)
THEOREM OnlyPaidIsBooked == ReconSpec => []BookedIsPaid
<1> QED BY ReconInitIInv, ReconInductive, ReconIInvSound, PTL DEF ReconSpec

(* No payment the channel holds is reversed, and a reversal and the flow
   it reverses are marked together, whatever rounds run at once
   (_auto_reverse, reversal_flow). *)
THEOREM ReversalsHold == ReconSpec => []ReversalsSound
<1> QED BY ReconInitIInv, ReconInductive, ReconIInvSound, PTL DEF ReconSpec

(* Every line of the bill of a day on record has a flow, or was left to
   people by each of its records (run_reconciliation). *)
THEOREM AuditsAccount == ReconSpec => []AuditedBillAccounted
<1> QED BY ReconInitIInv, ReconInductive, ReconIInvSound, PTL DEF ReconSpec

----------------------------------------
(* The inductive invariant of Releases. *)

RunStates == {"none", "queued", "version", "commit", "delete", "push", "pull", "checks", "merge",
              "sync", "look", "tag", "clean", "released", "nothing", "failed"}
RunRecords == [at : RunStates, type : CommitTypes, base : Nat, version : Versions, head : Nat]

Prepared == {"commit", "delete", "push", "pull", "checks", "merge", "sync", "look", "tag",
             "clean", "released"}

(* A run, with what main and the tags are: the version it makes is above
   the one it started from, and from the merge on it is found on main
   where the tag will be, which no older tag of that version contradicts. *)
RunFits(x, commits, t) ==
  /\ x.base \in 0..Len(commits) /\ x.head \in 0..Len(commits)
  /\ x.at = "version" => x.base # 0
  /\ x.at \in Prepared => x.base # 0 /\ Below(commits[x.base], x.version)
  /\ x.at = "sync" => /\ x.base < Len(commits)
                      /\ \E i \in 1..Len(commits) : commits[i] = x.version
  /\ x.at \in {"look", "tag"} =>
     /\ x.base < x.head
     /\ \E i \in 1..x.head : commits[i] = x.version
  /\ x.at \in {"clean", "released"} => t[x.version] # 0 /\ x.base < t[x.version]

MainRises(commits) ==
  /\ commits \in Seq(Versions) /\ Len(commits) # 0
  /\ \A j \in 1..Len(commits) : \A i \in 1..j : ~Below(commits[j], commits[i])

TagFits(at, v, commits) == at # 0 => \E i \in 1..at : commits[i] = v

ReleaseIInv ==
  /\ ReleaseTypeOK
  /\ run \in [Runs -> RunRecords] /\ tags \in [Versions -> Nat]
  /\ MainRises(main)
  /\ \A v \in Versions : TagFits(tags[v], v, main)
  /\ \A r \in Runs : RunFits(run[r], main, tags)

----------------------------------------
(* The order of versions. *)

LEMMA BelowParts ==
  ASSUME NEW v \in Versions, NEW w \in Versions
  PROVE  /\ v.major \in Nat /\ v.minor \in Nat /\ v.patch \in Nat /\ v.dev \in BOOLEAN
         /\ Below(v, w) <=>
              \/ v.major < w.major
              \/ v.major = w.major /\ v.minor < w.minor
              \/ v.major = w.major /\ v.minor = w.minor /\ v.patch < w.patch
              \/ /\ v.major = w.major /\ v.minor = w.minor /\ v.patch = w.patch
                 /\ v.dev /\ ~w.dev
<1>1. /\ v.major \in Nat /\ v.minor \in Nat /\ v.patch \in Nat /\ v.dev \in BOOLEAN
      /\ w.major \in Nat /\ w.minor \in Nat /\ w.patch \in Nat /\ w.dev \in BOOLEAN
  BY ReleasesAssumption DEF Versions
<1>2. Same(v) = Same(w) <=> v.major = w.major /\ v.minor = w.minor /\ v.patch = w.patch
  BY DEF Same, Versions
<1> QED BY <1>1, <1>2 DEF Below

LEMMA BelowIsOrder ==
  ASSUME NEW u \in Versions, NEW v \in Versions, NEW w \in Versions
  PROVE  /\ ~Below(v, v) /\ (Below(v, w) => ~Below(w, v))
         /\ ~Below(w, v) /\ ~Below(v, u) => ~Below(w, u)
  BY BelowParts

(* What a release makes of a version is above it, or it makes nothing. *)
LEMMA ReleaseRises ==
  ASSUME NEW v \in Versions, NEW type \in CommitTypes, NEW w \in Versions,
         w = ReleaseVersion(v, type), w # v
  PROVE  Below(v, w)
<1>2. v.major \in Nat /\ v.minor \in Nat /\ v.patch \in Nat /\ v.dev \in BOOLEAN BY BelowParts
<1>3. CASE type = "skip" BY <1>3 DEF ReleaseVersion
<1>4. CASE type = "no_change"
  <2>1. w = Same(v) BY <1>4 DEF ReleaseVersion
  <2>2. w.major = v.major /\ w.minor = v.minor /\ w.patch = v.patch /\ w.dev = FALSE
    BY <2>1 DEF Same, Versions
  <2>3. v.dev
    <3> SUFFICES ASSUME ~v.dev PROVE FALSE OBVIOUS
    <3>1. v.dev = FALSE BY <1>2
    <3> QED BY <2>1, <3>1 DEF Same, Versions
  <2> QED BY <2>2, <2>3, BelowParts
<1>5. CASE type = "breaking"
  <2>1. w.major = v.major + 1 BY <1>5 DEF ReleaseVersion
  <2> QED BY <1>2, <2>1, BelowParts
<1>6. CASE type = "feat"
  <2>1. w = [[Same(v) EXCEPT !.minor = @ + 1] EXCEPT !.patch = 0] BY <1>6 DEF ReleaseVersion
  <2>2. w.major = v.major /\ w.minor = v.minor + 1 BY <1>2, <2>1 DEF Same, Versions
  <2> QED BY <1>2, <2>2, BelowParts
<1>7. CASE type = "patch"
  <2>1. w = [Same(v) EXCEPT !.patch = @ + 1] BY <1>7 DEF ReleaseVersion
  <2>2. w.major = v.major /\ w.minor = v.minor /\ w.patch = v.patch + 1
    BY <1>2, <2>1 DEF Same, Versions
  <2> QED BY <1>2, <2>2, BelowParts
<1> QED BY <1>3, <1>4, <1>5, <1>6, <1>7 DEF CommitTypes

----------------------------------------
(* main grows. *)

LEMMA CommitAdded ==
  ASSUME NEW commits \in Seq(Versions), NEW v \in Versions
  PROVE  /\ Append(commits, v) \in Seq(Versions) /\ Len(commits) \in Nat
         /\ Len(Append(commits, v)) = Len(commits) + 1
         /\ Append(commits, v)[Len(commits) + 1] = v
         /\ \A i \in 1..Len(commits) : Append(commits, v)[i] = commits[i]
         /\ \A i \in 1..Len(commits) : commits[i] \in Versions
<1>1. Len(commits) \in Nat /\ \A i \in 1..Len(commits) : commits[i] \in Versions
  BY LenProperties, ElementOfSeq
<1> QED BY <1>1, AppendProperties

LEMMA MainGrows ==
  ASSUME NEW commits, MainRises(commits), NEW v \in Versions, ~Below(v, commits[Len(commits)])
  PROVE  MainRises(Append(commits, v))
<1> DEFINE more == Append(commits, v)  n == Len(commits)
<1>1. /\ more \in Seq(Versions) /\ n \in Nat /\ Len(more) = n + 1 /\ more[n + 1] = v
      /\ \A i \in 1..n : more[i] = commits[i] /\ commits[i] \in Versions
  BY CommitAdded DEF MainRises
<1>2. \A j \in 1..n : \A i \in 1..j : ~Below(commits[j], commits[i]) BY DEF MainRises
<1>3. n # 0 /\ ~Below(v, commits[n]) BY DEF MainRises
<1> HIDE DEF more, n
<1>4. ASSUME NEW j \in 1..(n + 1), NEW i \in 1..j PROVE ~Below(more[j], more[i])
  <2>1. CASE j \in 1..n BY <1>1, <1>2, <2>1
  <2>2. CASE j = n + 1 /\ i \in 1..n
    <3>1. n \in 1..n /\ commits[n] \in Versions /\ commits[i] \in Versions BY <1>1, <1>3, <2>2
    <3>2. ~Below(commits[n], commits[i]) BY <1>2, <2>2, <3>1
    <3>3. ~Below(v, commits[i]) BY <1>3, <3>1, <3>2, BelowIsOrder
    <3> QED BY <1>1, <2>2, <3>3
  <2>3. CASE i = n + 1
    <3>1. j = n + 1 BY <1>1, <2>3
    <3> QED BY <1>1, <2>3, <3>1, BelowIsOrder
  <2> QED BY <1>1, <2>1, <2>2, <2>3
<1>5. Len(more) # 0 BY <1>1
<1> QED BY <1>1, <1>4, <1>5 DEF MainRises, more

LEMMA TagStays ==
  ASSUME NEW commits \in Seq(Versions), NEW v \in Versions, NEW w \in Versions,
         NEW at \in 0..Len(commits), TagFits(at, w, commits)
  PROVE  TagFits(at, w, Append(commits, v)) /\ at \in 0..Len(Append(commits, v))
<1>1. /\ Len(commits) \in Nat /\ Len(Append(commits, v)) = Len(commits) + 1
      /\ \A i \in 1..Len(commits) : Append(commits, v)[i] = commits[i]
  BY CommitAdded
<1> QED BY <1>1 DEF TagFits

LEMMA RunStays ==
  ASSUME NEW commits \in Seq(Versions), NEW v \in Versions, NEW more,
         more \in {commits, Append(commits, v)}, NEW t, NEW u, NEW x \in RunRecords,
         RunFits(x, commits, t), \A w \in Versions : t[w] # 0 => u[w] = t[w]
  PROVE  RunFits(x, more, u)
<1>1. /\ Len(commits) \in Nat /\ Len(more) \in Nat /\ Len(commits) <= Len(more)
      /\ \A i \in 1..Len(commits) : more[i] = commits[i]
  BY CommitAdded
<1>2. x.base \in Nat /\ x.head \in Nat /\ x.version \in Versions BY DEF RunRecords
<1>3. /\ x.base \in 0..Len(more) /\ x.head \in 0..Len(more)
      /\ x.at = "version" => x.base # 0
  BY <1>1, <1>2 DEF RunFits
<1>4. x.at \in Prepared => x.base # 0 /\ Below(more[x.base], x.version) BY <1>1, <1>2 DEF RunFits
<1>5. x.at = "sync" => x.base < Len(more) /\ \E i \in 1..Len(more) : more[i] = x.version
  BY <1>1, <1>2 DEF RunFits
<1>6. x.at \in {"look", "tag"} => x.base < x.head /\ \E i \in 1..x.head : more[i] = x.version
  BY <1>1, <1>2 DEF RunFits
<1>7. x.at \in {"clean", "released"} => u[x.version] # 0 /\ x.base < u[x.version]
  BY <1>2 DEF RunFits
<1> QED BY <1>3, <1>4, <1>5, <1>6, <1>7 DEF RunFits

----------------------------------------
(* The steps of a run. *)

LEMMA RunMoves ==
  ASSUME ReleaseIInv, NEW r \in Runs, NEW x \in RunRecords, run' = [run EXCEPT ![r] = x],
         RunFits(x, main', tags'),
         \/ main' = main
         \/ \E v \in Versions : main' = Append(main, v) /\ ~Below(v, main[Len(main)]),
         tags' \in [Versions -> Nat], \A v \in Versions : tags[v] # 0 => tags'[v] = tags[v],
         \A v \in Versions : \/ tags'[v] = tags[v]
                             \/ tags'[v] \in 0..Len(main') /\ TagFits(tags'[v], v, main'),
         branches' \in [Versions -> Runs \cup {NoRun}],
         pull' \in [Runs -> {"none", "open", "closed", "merged"}], reruns' \in 0..MaxReruns
  PROVE  ReleaseIInv'
<1>1. /\ main \in Seq(Versions) /\ MainRises(main) /\ run \in [Runs -> RunRecords]
      /\ \A v \in Versions : tags[v] \in 0..Len(main) /\ TagFits(tags[v], v, main)
      /\ \A q \in Runs : RunFits(run[q], main, tags)
  BY DEF ReleaseIInv, ReleaseTypeOK
<1>2. PICK v \in Versions :
  /\ main' \in {main, Append(main, v)}
  /\ main' # main => ~Below(v, main[Len(main)])
  BY ReleasesAssumption
<1>3. /\ MainRises(main') /\ main' \in Seq(Versions) BY <1>1, <1>2, MainGrows DEF MainRises
<1>4. /\ run' \in [Runs -> RunRecords] /\ run'[r] = x
      /\ \A q \in Runs \ {r} : run'[q] = run[q]
  BY <1>1
<1>5. \A w \in Versions : TagFits(tags'[w], w, main') /\ tags'[w] \in 0..Len(main')
  <2> TAKE w \in Versions
  <2>1. CASE tags'[w] # tags[w] BY <2>1
  <2>2. CASE tags'[w] = tags[w] BY <1>1, <1>2, <2>2, TagStays
  <2> QED BY <2>1, <2>2
<1>6. \A q \in Runs : RunFits(run'[q], main', tags')
  <2> TAKE q \in Runs
  <2>1. CASE q = r BY <1>4, <2>1
  <2>2. CASE q # r
    <3>1. run[q] \in RunRecords /\ RunFits(run[q], main, tags) /\ run'[q] = run[q]
      BY <1>1, <1>4, <2>2
    <3> QED BY <1>1, <1>2, <3>1, RunStays
  <2> QED BY <2>1, <2>2
<1>7. ReleaseTypeOK'
  <2>1. \A q \in Runs :
    /\ run'[q].base \in 0..Len(main') /\ run'[q].head \in 0..Len(main')
    /\ run'[q].version \in Versions /\ run'[q].type \in CommitTypes
    BY <1>4, <1>6 DEF RunFits, RunRecords
  <2> QED BY <1>3, <1>5, <2>1 DEF ReleaseTypeOK
<1>8. /\ MainRises(main)' = MainRises(main')
      /\ \A w \in Versions : TagFits(tags[w], w, main)' = TagFits(tags'[w], w, main')
      /\ \A q \in Runs : RunFits(run[q], main, tags)' = RunFits(run'[q], main', tags')
  BY DEF MainRises, TagFits, RunFits
<1> QED BY <1>3, <1>4, <1>5, <1>6, <1>7, <1>8 DEF ReleaseIInv

(* The same, of a step that leaves main and the tags. *)
LEMMA RunMovesAlone ==
  ASSUME ReleaseIInv, NEW r \in Runs, NEW x \in RunRecords, run' = [run EXCEPT ![r] = x],
         RunFits(x, main, tags), UNCHANGED <<main, tags>>,
         branches' \in [Versions -> Runs \cup {NoRun}],
         pull' \in [Runs -> {"none", "open", "closed", "merged"}], reruns' \in 0..MaxReruns
  PROVE  ReleaseIInv'
<1>1. tags \in [Versions -> Nat] BY DEF ReleaseIInv
<1>2. RunFits(x, main', tags') BY DEF RunFits
<1> QED BY <1>1, <1>2, RunMoves

LEMMA RunAt ==
  ASSUME NEW x \in RunRecords, NEW to \in RunStates
  PROVE  /\ [x EXCEPT !.at = to] \in RunRecords
         /\ [x EXCEPT !.at = to].at = to /\ [x EXCEPT !.at = to].type = x.type
         /\ [x EXCEPT !.at = to].base = x.base /\ [x EXCEPT !.at = to].head = x.head
         /\ [x EXCEPT !.at = to].version = x.version
  BY DEF RunRecords

LEMMA Stepped ==
  ASSUME ReleaseIInv, NEW r \in Runs, NEW from, NEW to \in RunStates, Step(r, from, to)
  PROVE  \E x \in RunRecords :
           /\ run' = [run EXCEPT ![r] = x] /\ x.at = to /\ run[r].at = from
           /\ x.base = run[r].base /\ x.head = run[r].head /\ x.version = run[r].version
           /\ RunFits(run[r], main, tags) /\ run[r] \in RunRecords
<1> DEFINE x == [run[r] EXCEPT !.at = to]
<1>1. /\ run[r] \in RunRecords /\ RunFits(run[r], main, tags) /\ run[r].at = from
      /\ run' = [run EXCEPT ![r] = x]
  BY DEF ReleaseIInv, Step
<1>2. /\ x \in RunRecords /\ x.at = to /\ x.base = run[r].base /\ x.head = run[r].head
      /\ x.version = run[r].version
  BY <1>1, RunAt
<1> HIDE DEF x
<1> QED BY <1>1, <1>2

(* A run that does not know where it is on main fits. *)
LEMMA BlankFits ==
  ASSUME ReleaseIInv, NEW x \in RunRecords, x.base = 0, x.head = 0,
         x.at \in {"none", "queued", "failed"}
  PROVE  RunFits(x, main, tags)
<1>1. Len(main) \in Nat BY LenProperties DEF ReleaseIInv, ReleaseTypeOK
<1> QED BY <1>1 DEF RunFits, Prepared

LEMMA Failed ==
  ASSUME ReleaseIInv, NEW r \in Runs, Fails(r)
  PROVE  \E x \in RunRecords : run' = [run EXCEPT ![r] = x] /\ RunFits(x, main, tags)
<1> DEFINE y == run[r]
           a == [y EXCEPT !.at = "failed"]
           b == [a EXCEPT !.base = 0]
           x == [b EXCEPT !.head = 0]
<1>1. y \in RunRecords /\ run' = [run EXCEPT ![r] = x] BY DEF ReleaseIInv, Fails
<1> HIDE DEF y
<1>2. a \in RunRecords /\ a.at = "failed"
  <2>1. "failed" \in RunStates BY DEF RunStates
  <2> QED BY <1>1, <2>1, RunAt
<1> HIDE DEF a
<1>3. b \in RunRecords /\ b.at = "failed" /\ b.base = 0 BY <1>2 DEF RunRecords
<1> HIDE DEF b
<1>4. x \in RunRecords /\ x.at = "failed" /\ x.base = 0 /\ x.head = 0 BY <1>3 DEF RunRecords
<1> HIDE DEF x
<1>5. RunFits(x, main, tags) BY <1>4, BlankFits
<1> QED BY <1>1, <1>4, <1>5

LEMMA Woken ==
  ASSUME NEW type \in CommitTypes
  PROVE  \E x \in RunRecords :
    /\ x = [Asleep EXCEPT !.at = "queued", !.type = type]
    /\ x.at = "queued" /\ x.base = 0 /\ x.head = 0
<1> DEFINE a == [Asleep EXCEPT !.at = "queued"]
           x == [a EXCEPT !.type = type]
<1>1. Asleep \in RunRecords /\ Asleep.base = 0 /\ Asleep.head = 0
  BY ReleasesAssumption DEF Asleep, RunRecords, RunStates, CommitTypes
<1>2. a \in RunRecords /\ a.at = "queued" /\ a.base = 0 /\ a.head = 0
  <2>1. "queued" \in RunStates BY DEF RunStates
  <2> HIDE DEF a
  <2> QED BY <1>1, <2>1, RunAt DEF a
<1>3. x = [Asleep EXCEPT !.at = "queued", !.type = type] OBVIOUS
<1> HIDE DEF a
<1>4. x \in RunRecords /\ x.at = "queued" /\ x.base = 0 /\ x.head = 0 BY <1>2 DEF RunRecords
<1> QED BY <1>3, <1>4

----------------------------------------
(* Every step keeps the invariant. *)

LEMMA ReleaseParts ==
  ASSUME ReleaseIInv
  PROVE  /\ main \in Seq(Versions) /\ MainRises(main) /\ Len(main) \in Nat \ {0}
         /\ \A i \in 1..Len(main) : main[i] \in Versions
         /\ tags \in [Versions -> Nat]
         /\ \A v \in Versions : tags[v] \in 0..Len(main) /\ TagFits(tags[v], v, main)
         /\ branches \in [Versions -> Runs \cup {NoRun}]
         /\ pull \in [Runs -> {"none", "open", "closed", "merged"}] /\ reruns \in 0..MaxReruns
         /\ \A r \in Runs : run[r] \in RunRecords /\ RunFits(run[r], main, tags)
<1>1. /\ main \in Seq(Versions) /\ MainRises(main) /\ tags \in [Versions -> Nat]
      /\ \A v \in Versions : tags[v] \in 0..Len(main) /\ TagFits(tags[v], v, main)
      /\ branches \in [Versions -> Runs \cup {NoRun}]
      /\ pull \in [Runs -> {"none", "open", "closed", "merged"}] /\ reruns \in 0..MaxReruns
      /\ \A r \in Runs : run[r] \in RunRecords /\ RunFits(run[r], main, tags)
  BY DEF ReleaseIInv, ReleaseTypeOK
<1>2. Len(main) \in Nat /\ Len(main) # 0 /\ \A i \in 1..Len(main) : main[i] \in Versions
  BY <1>1, CommitAdded, LenProperties, ElementOfSeq DEF MainRises
<1> QED BY <1>1, <1>2

LEMMA ClosedTyped ==
  ASSUME ReleaseIInv, NEW v PROVE ClosedWith(v) \in [Runs -> {"none", "open", "closed", "merged"}]
  BY ReleaseParts DEF ClosedWith

LEMMA RunFailsIInv ==
  ASSUME ReleaseIInv, NEW r \in Runs, Fails(r), UNCHANGED <<main, branches, pull, tags, reruns>>
  PROVE  ReleaseIInv'
<1>1. PICK x \in RunRecords : run' = [run EXCEPT ![r] = x] /\ RunFits(x, main, tags) BY Failed
<1>2. /\ branches' \in [Versions -> Runs \cup {NoRun}] /\ reruns' \in 0..MaxReruns
      /\ pull' \in [Runs -> {"none", "open", "closed", "merged"}]
  BY ReleaseParts
<1> QED BY <1>1, <1>2, RunMovesAlone

LEMMA MergeDevIInv ==
  ASSUME ReleaseIInv, NEW r \in Runs, NEW type \in Titles[r], MergeDev(r, type) PROVE ReleaseIInv'
<1>1. type \in CommitTypes BY ReleasesAssumption
<1>2. PICK x \in RunRecords :
  /\ x = [Asleep EXCEPT !.at = "queued", !.type = type]
  /\ x.at = "queued" /\ x.base = 0 /\ x.head = 0
  BY <1>1, Woken
<1>3. run' = [run EXCEPT ![r] = x] /\ UNCHANGED <<branches, pull, tags, reruns>>
  BY <1>2 DEF MergeDev
<1>4. main[Len(main)] \in Versions /\ ~Below(main[Len(main)], main[Len(main)])
  BY ReleaseParts, BelowIsOrder
<1>5. PICK v \in Versions : v = main[Len(main)] BY <1>4
<1>6. main' = Append(main, v) /\ ~Below(v, main[Len(main)]) BY <1>4, <1>5 DEF MergeDev
<1>7. RunFits(x, main, tags) BY <1>2, BlankFits
<1>8. RunFits(x, main', tags') BY <1>3, <1>6, <1>7, ReleaseParts, RunStays
<1>9. /\ tags' \in [Versions -> Nat] /\ branches' \in [Versions -> Runs \cup {NoRun}]
      /\ pull' \in [Runs -> {"none", "open", "closed", "merged"}] /\ reruns' \in 0..MaxReruns
  BY <1>3, ReleaseParts
<1> QED BY <1>3, <1>6, <1>8, <1>9, RunMoves

LEMMA RerunIInv == ASSUME ReleaseIInv, NEW r \in Runs, Rerun(r) PROVE ReleaseIInv'
<1>1. run[r].type \in CommitTypes BY ReleaseParts DEF RunRecords
<1>2. PICK x \in RunRecords :
  /\ x = [Asleep EXCEPT !.at = "queued", !.type = run[r].type]
  /\ x.at = "queued" /\ x.base = 0 /\ x.head = 0
  BY <1>1, Woken
<1>3. run' = [run EXCEPT ![r] = x] /\ UNCHANGED <<main, branches, tags>> BY <1>2 DEF Rerun
<1>4. RunFits(x, main, tags) BY <1>2, BlankFits
<1>5. /\ branches' \in [Versions -> Runs \cup {NoRun}]
      /\ pull' \in [Runs -> {"none", "open", "closed", "merged"}]
  BY <1>3, ReleaseParts DEF Rerun
<1>6. reruns' \in 0..MaxReruns BY ReleaseParts, ReleasesAssumption DEF Rerun
<1> QED BY <1>3, <1>4, <1>5, <1>6, RunMovesAlone

LEMMA StartsIInv == ASSUME ReleaseIInv, NEW r \in Runs, Starts(r) PROVE ReleaseIInv'
<1> DEFINE to == IF run[r].type = "skip" THEN "nothing" ELSE "version"
           a == [run[r] EXCEPT !.base = Len(main)]
           x == [a EXCEPT !.at = to]
<1>1. run' = [run EXCEPT ![r] = x] /\ UNCHANGED <<main, branches, pull, tags, reruns>>
  <2>1. run \in [Runs -> RunRecords] BY DEF ReleaseIInv
  <2> QED BY <2>1 DEF Starts
<1>2. a \in RunRecords /\ a.base = Len(main) /\ a.head = run[r].head BY ReleaseParts DEF RunRecords
<1>3. to \in RunStates /\ to \in {"nothing", "version"} BY DEF RunStates
<1> HIDE DEF a, to
<1>4. x \in RunRecords /\ x.at = to /\ x.base = Len(main) /\ x.head = run[r].head
  BY <1>2, <1>3, RunAt
<1> HIDE DEF x
<1>5. run[r].head \in 0..Len(main) /\ Len(main) \in Nat \ {0} BY ReleaseParts DEF RunFits
<1>6. RunFits(x, main, tags) BY <1>3, <1>4, <1>5 DEF RunFits, Prepared
<1>7. /\ branches' \in [Versions -> Runs \cup {NoRun}] /\ reruns' \in 0..MaxReruns
      /\ pull' \in [Runs -> {"none", "open", "closed", "merged"}]
  BY <1>1, ReleaseParts
<1> QED BY <1>1, <1>4, <1>6, <1>7, RunMovesAlone

LEMMA PrepareIInv == ASSUME ReleaseIInv, NEW r \in Runs, Prepare(r) PROVE ReleaseIInv'
<1>1. PICK type \in Detected(run[r].type) :
        /\ ReleaseVersion(main[run[r].base], type) \in Versions
        /\ run' = [run EXCEPT ![r] = [run[r] EXCEPT
             !.at = IF ReleaseVersion(main[run[r].base], type) = main[run[r].base]
                    THEN "nothing" ELSE "commit",
             !.version = ReleaseVersion(main[run[r].base], type)]]
  BY DEF Prepare
<1> DEFINE v == main[run[r].base]
           w == ReleaseVersion(v, type)
           to == IF w = v THEN "nothing" ELSE "commit"
           a == [run[r] EXCEPT !.at = to]
           x == [a EXCEPT !.version = w]
<1>2. /\ run[r] \in RunRecords /\ run[r].at = "version" /\ RunFits(run[r], main, tags)
      /\ UNCHANGED <<main, branches, pull, tags, reruns>>
  BY ReleaseParts DEF Prepare
<1>3. type \in CommitTypes BY <1>2 DEF Detected, RunRecords, CommitTypes
<1>4. run[r].base \in 1..Len(main) /\ run[r].head \in 0..Len(main) /\ Len(main) \in Nat
  BY <1>2, ReleaseParts DEF RunFits
<1>5. v \in Versions BY <1>4, ReleaseParts
<1>6. run' = [run EXCEPT ![r] = x] /\ w \in Versions BY <1>1
<1> HIDE DEF w
<1>7. w # v => Below(v, w) BY <1>3, <1>5, <1>6, ReleaseRises DEF w
<1>8. to \in RunStates BY DEF RunStates
<1>9. a \in RunRecords /\ a.at = to /\ a.base = run[r].base /\ a.head = run[r].head
  <2> HIDE DEF to
  <2> QED BY <1>2, <1>8, RunAt
<1>10. /\ x \in RunRecords /\ x.at = to /\ x.base = run[r].base /\ x.head = run[r].head
       /\ x.version = w
  <2> HIDE DEF a, to
  <2> QED BY <1>6, <1>9 DEF RunRecords
<1> HIDE DEF x
<1>11. RunFits(x, main, tags) BY <1>4, <1>7, <1>10 DEF RunFits, Prepared
<1>12. /\ branches' \in [Versions -> Runs \cup {NoRun}] /\ reruns' \in 0..MaxReruns
       /\ pull' \in [Runs -> {"none", "open", "closed", "merged"}]
  BY <1>2, ReleaseParts
<1> QED BY <1>2, <1>6, <1>10, <1>11, <1>12, RunMovesAlone

(* A step between two places where the same is known of a run. *)
LEMMA StepIInv ==
  ASSUME ReleaseIInv, NEW r \in Runs, NEW from \in {"commit", "delete", "push", "pull", "checks"},
         NEW to \in {"delete", "push", "pull", "checks", "merge"}, Step(r, from, to),
         UNCHANGED <<main, tags, reruns>>, branches' \in [Versions -> Runs \cup {NoRun}],
         pull' \in [Runs -> {"none", "open", "closed", "merged"}]
  PROVE  ReleaseIInv'
<1>1. to \in RunStates /\ to \in Prepared /\ from \in Prepared BY DEF RunStates, Prepared
<1>2. PICK x \in RunRecords :
           /\ run' = [run EXCEPT ![r] = x] /\ x.at = to /\ run[r].at = from
           /\ x.base = run[r].base /\ x.head = run[r].head /\ x.version = run[r].version
           /\ RunFits(run[r], main, tags) /\ run[r] \in RunRecords
  BY <1>1, Stepped
<1>3. RunFits(x, main, tags) BY <1>1, <1>2 DEF RunFits
<1>4. reruns' \in 0..MaxReruns BY ReleaseParts
<1> QED BY <1>2, <1>3, <1>4, RunMovesAlone

LEMMA LooksForBranchIInv ==
  ASSUME ReleaseIInv, NEW r \in Runs, LooksForBranch(r) PROVE ReleaseIInv'
<1> DEFINE to == IF branches[run[r].version] = NoRun THEN "push" ELSE "delete"
<1>1. to \in {"delete", "push", "pull", "checks", "merge"} OBVIOUS
<1>2. Step(r, "commit", to) /\ UNCHANGED <<main, branches, pull, tags, reruns>>
  BY DEF LooksForBranch
<1>3. /\ branches' \in [Versions -> Runs \cup {NoRun}]
      /\ pull' \in [Runs -> {"none", "open", "closed", "merged"}]
  BY <1>2, ReleaseParts
<1> HIDE DEF to
<1> QED BY <1>1, <1>2, <1>3, StepIInv

LEMMA CleanStaleIInv == ASSUME ReleaseIInv, NEW r \in Runs, CleanStale(r) PROVE ReleaseIInv'
<1>1. CASE branches[run[r].version] = NoRun BY <1>1, RunFailsIInv DEF CleanStale
<1>2. CASE branches[run[r].version] # NoRun
  <2>1. /\ Step(r, "delete", "push") /\ UNCHANGED <<main, tags, reruns>>
        /\ branches' = [branches EXCEPT ![run[r].version] = NoRun]
        /\ pull' = ClosedWith(run[r].version)
    BY <1>2 DEF CleanStale
  <2>2. /\ branches' \in [Versions -> Runs \cup {NoRun}]
        /\ pull' \in [Runs -> {"none", "open", "closed", "merged"}]
    BY <2>1, ReleaseParts, ClosedTyped
  <2> QED BY <2>1, <2>2, StepIInv
<1> QED BY <1>1, <1>2

LEMMA PushIInv == ASSUME ReleaseIInv, NEW r \in Runs, Push(r) PROVE ReleaseIInv'
<1>1. CASE branches[run[r].version] # NoRun BY <1>1, RunFailsIInv DEF Push
<1>2. CASE branches[run[r].version] = NoRun
  <2>1. /\ Step(r, "push", "pull") /\ UNCHANGED <<main, pull, tags, reruns>>
        /\ branches' = [branches EXCEPT ![run[r].version] = r]
    BY <1>2 DEF Push
  <2>2. /\ branches' \in [Versions -> Runs \cup {NoRun}]
        /\ pull' \in [Runs -> {"none", "open", "closed", "merged"}]
    BY <2>1, ReleaseParts
  <2> QED BY <2>1, <2>2, StepIInv
<1> QED BY <1>1, <1>2

LEMMA CreatePullIInv == ASSUME ReleaseIInv, NEW r \in Runs, CreatePull(r) PROVE ReleaseIInv'
<1>1. CASE PullRefused(run[r].version) BY <1>1, RunFailsIInv DEF CreatePull
<1>2. CASE ~PullRefused(run[r].version)
  <2>1. /\ Step(r, "pull", "checks") /\ UNCHANGED <<main, branches, tags, reruns>>
        /\ pull' = [pull EXCEPT ![r] = "open"]
    BY <1>2 DEF CreatePull
  <2>2. /\ branches' \in [Versions -> Runs \cup {NoRun}]
        /\ pull' \in [Runs -> {"none", "open", "closed", "merged"}]
    BY <2>1, ReleaseParts
  <2> QED BY <2>1, <2>2, StepIInv
<1> QED BY <1>1, <1>2

LEMMA WaitForChecksIInv ==
  ASSUME ReleaseIInv, NEW r \in Runs, WaitForChecks(r) PROVE ReleaseIInv'
<1>1. CASE Fails(r) BY <1>1, RunFailsIInv DEF WaitForChecks
<1>2. CASE Step(r, "checks", "merge")
  <2>1. UNCHANGED <<main, branches, pull, tags, reruns>> BY DEF WaitForChecks
  <2>2. /\ branches' \in [Versions -> Runs \cup {NoRun}]
        /\ pull' \in [Runs -> {"none", "open", "closed", "merged"}]
    BY <2>1, ReleaseParts
  <2> QED BY <1>2, <2>1, <2>2, StepIInv
<1> QED BY <1>1, <1>2 DEF WaitForChecks

LEMMA MergePullIInv == ASSUME ReleaseIInv, NEW r \in Runs, MergePull(r) PROVE ReleaseIInv'
<1>1. CASE ~(pull[r] = "open" /\ ~Conflicts(r)) BY <1>1, RunFailsIInv DEF MergePull
<1>2. CASE pull[r] = "open" /\ ~Conflicts(r)
  <2>1. /\ Step(r, "merge", "sync") /\ UNCHANGED <<branches, tags, reruns>>
        /\ main' = Append(main, run[r].version) /\ pull' = [pull EXCEPT ![r] = "merged"]
    BY <1>2 DEF MergePull
  <2>2. "sync" \in RunStates BY DEF RunStates
  <2>3. PICK x \in RunRecords :
           /\ run' = [run EXCEPT ![r] = x] /\ x.at = "sync" /\ run[r].at = "merge"
           /\ x.base = run[r].base /\ x.head = run[r].head /\ x.version = run[r].version
           /\ RunFits(run[r], main, tags) /\ run[r] \in RunRecords
    BY <2>1, <2>2, Stepped
  <2>4. PICK v \in Versions : v = run[r].version BY <2>3 DEF RunRecords
  <2>5. /\ run[r].base \in 1..Len(main) /\ Below(main[run[r].base], v)
        /\ run[r].head \in 0..Len(main)
    BY <2>3, <2>4, ReleaseParts DEF RunFits, Prepared
  <2>6. ~Below(v, main[Len(main)])
    <3>1. main[Len(main)] = main[run[r].base] \/ main[Len(main)] = v BY <1>2, <2>4 DEF Conflicts
    <3>2. main[run[r].base] \in Versions BY <2>5, ReleaseParts
    <3> QED BY <2>5, <3>1, <3>2, BelowIsOrder
  <2>7. /\ Len(main') = Len(main) + 1 /\ main'[Len(main) + 1] = v
        /\ main'[run[r].base] = main[run[r].base] /\ Len(main) \in Nat
    BY <2>1, <2>4, <2>5, ReleaseParts, CommitAdded
  <2>8. RunFits(x, main', tags')
    <3>1. /\ x.base \in 0..Len(main') /\ x.head \in 0..Len(main') /\ x.base # 0
          /\ x.base < Len(main') /\ Below(main'[x.base], x.version)
      BY <2>3, <2>4, <2>5, <2>7
    <3>2. \E i \in 1..Len(main') : main'[i] = x.version
      <4>1. Len(main) + 1 \in 1..Len(main') BY <2>7
      <4> QED BY <2>3, <2>4, <2>7, <4>1
    <3> QED BY <2>3, <3>1, <3>2 DEF RunFits
  <2>9. /\ tags' \in [Versions -> Nat] /\ branches' \in [Versions -> Runs \cup {NoRun}]
        /\ pull' \in [Runs -> {"none", "open", "closed", "merged"}] /\ reruns' \in 0..MaxReruns
    BY <2>1, ReleaseParts
  <2>10. main' = Append(main, v) /\ tags' = tags BY <2>1, <2>4
  <2> QED BY <2>3, <2>6, <2>8, <2>9, <2>10, RunMoves
<1> QED BY <1>1, <1>2

LEMMA SyncMainIInv == ASSUME ReleaseIInv, NEW r \in Runs, SyncMain(r) PROVE ReleaseIInv'
<1> DEFINE a == [run[r] EXCEPT !.at = "look"]
           x == [a EXCEPT !.head = Len(main)]
<1>1. /\ run[r] \in RunRecords /\ RunFits(run[r], main, tags) /\ run[r].at = "sync"
      /\ UNCHANGED <<main, branches, pull, tags, reruns>>
  BY ReleaseParts DEF SyncMain
<1>2. run' = [run EXCEPT ![r] = x]
  <2>1. run \in [Runs -> RunRecords] BY DEF ReleaseIInv
  <2> QED BY <2>1 DEF SyncMain, Fetched
<1>3. /\ a \in RunRecords /\ a.at = "look" /\ a.base = run[r].base
      /\ a.version = run[r].version
  <2>1. "look" \in RunStates BY DEF RunStates
  <2> HIDE DEF a
  <2> QED BY <1>1, <2>1, RunAt DEF a
<1> HIDE DEF a
<1>4. Len(main) \in Nat BY ReleaseParts
<1>5. /\ x \in RunRecords /\ x.at = "look" /\ x.base = run[r].base /\ x.head = Len(main)
      /\ x.version = run[r].version
  BY <1>3, <1>4 DEF RunRecords
<1> HIDE DEF x
<1>6. /\ run[r].base \in 0..Len(main) /\ run[r].base # 0 /\ run[r].base < Len(main)
      /\ Below(main[run[r].base], run[r].version)
      /\ \E i \in 1..Len(main) : main[i] = run[r].version
  BY <1>1 DEF RunFits, Prepared
<1>7. RunFits(x, main, tags) BY <1>4, <1>5, <1>6 DEF RunFits
<1>8. /\ branches' \in [Versions -> Runs \cup {NoRun}] /\ reruns' \in 0..MaxReruns
      /\ pull' \in [Runs -> {"none", "open", "closed", "merged"}]
  BY <1>1, ReleaseParts
<1> QED BY <1>1, <1>2, <1>5, <1>7, <1>8, RunMovesAlone

(* A tag that is there is past the commit a run for its version began at. *)
LEMMA TagIsLater ==
  ASSUME ReleaseIInv, NEW b \in 1..Len(main), NEW v \in Versions, Below(main[b], v), tags[v] # 0
  PROVE  b < tags[v]
<1>1. /\ tags[v] \in 0..Len(main) /\ Len(main) \in Nat
      /\ \A j \in 1..Len(main) : \A i \in 1..j : ~Below(main[j], main[i])
  BY ReleaseParts DEF MainRises
<1>2. PICK i \in 1..tags[v] : main[i] = v BY ReleaseParts DEF TagFits
<1>3. i \notin 1..b BY <1>1, <1>2
<1> QED BY <1>1, <1>2, <1>3

LEMMA LooksForTagIInv == ASSUME ReleaseIInv, NEW r \in Runs, LooksForTag(r) PROVE ReleaseIInv'
<1> DEFINE to == IF tags[run[r].version] = 0 THEN "tag" ELSE "clean"
<1>1. Step(r, "look", to) /\ UNCHANGED <<main, branches, pull, tags, reruns>> BY DEF LooksForTag
<1>2. to \in RunStates /\ to \in {"tag", "clean"} /\ to \in Prepared
      /\ (to = "clean" <=> tags[run[r].version] # 0)
  BY DEF RunStates, Prepared
<1> HIDE DEF to
<1>3. PICK x \in RunRecords :
           /\ run' = [run EXCEPT ![r] = x] /\ x.at = to /\ run[r].at = "look"
           /\ x.base = run[r].base /\ x.head = run[r].head /\ x.version = run[r].version
           /\ RunFits(run[r], main, tags) /\ run[r] \in RunRecords
  BY <1>1, <1>2, Stepped
<1>4. /\ x.base \in 1..Len(main) /\ Below(main[x.base], x.version) /\ x.version \in Versions
      /\ x.base < x.head /\ \E i \in 1..x.head : main[i] = x.version
  BY <1>3, ReleaseParts DEF RunFits, Prepared, RunRecords
<1>5. tags[x.version] # 0 => x.base < tags[x.version] BY <1>4, TagIsLater
<1>6. RunFits(x, main, tags) BY <1>2, <1>3, <1>4, <1>5 DEF RunFits
<1>7. /\ branches' \in [Versions -> Runs \cup {NoRun}] /\ reruns' \in 0..MaxReruns
      /\ pull' \in [Runs -> {"none", "open", "closed", "merged"}]
  BY <1>1, ReleaseParts
<1> QED BY <1>1, <1>3, <1>6, <1>7, RunMovesAlone

LEMMA PushTagIInv == ASSUME ReleaseIInv, NEW r \in Runs, PushTag(r) PROVE ReleaseIInv'
<1>1. CASE tags[run[r].version] # 0 BY <1>1, RunFailsIInv DEF PushTag
<1>2. CASE tags[run[r].version] = 0
  <2>1. /\ Step(r, "tag", "clean") /\ UNCHANGED <<main, branches, pull, reruns>>
        /\ tags' = [tags EXCEPT ![run[r].version] = run[r].head]
    BY <1>2 DEF PushTag
  <2>2. "clean" \in RunStates BY DEF RunStates
  <2>3. PICK x \in RunRecords :
           /\ run' = [run EXCEPT ![r] = x] /\ x.at = "clean" /\ run[r].at = "tag"
           /\ x.base = run[r].base /\ x.head = run[r].head /\ x.version = run[r].version
           /\ RunFits(run[r], main, tags) /\ run[r] \in RunRecords
    BY <2>1, <2>2, Stepped
  <2>4. PICK v \in Versions : v = run[r].version BY <2>3 DEF RunRecords
  <2>5. PICK h \in 0..Len(main) : h = run[r].head BY <2>3 DEF RunFits
  <2>6. /\ x.base \in 1..Len(main) /\ Below(main[x.base], v) /\ x.base < h
        /\ \E i \in 1..h : main[i] = v
    BY <2>3, <2>4, <2>5, ReleaseParts DEF RunFits, Prepared
  <2>7. tags' = [tags EXCEPT ![v] = h] /\ main' = main /\ tags[v] = 0 /\ Len(main) \in Nat
    BY <1>2, <2>1, <2>4, <2>5, ReleaseParts
  <2>8. tags' \in [Versions -> Nat] /\ tags'[v] = h /\ \A w \in Versions \ {v} : tags'[w] = tags[w]
    BY <2>7, ReleaseParts
  <2>9. RunFits(x, main', tags')
    <3>1. x.head \in 0..Len(main) /\ h # 0 BY <2>3, <2>5, <2>6, <2>7
    <3> QED BY <2>3, <2>4, <2>6, <2>7, <2>8, <3>1 DEF RunFits
  <2>10. \A w \in Versions :
    \/ tags'[w] = tags[w]
    \/ tags'[w] \in 0..Len(main') /\ TagFits(tags'[w], w, main')
    BY <2>6, <2>7, <2>8 DEF TagFits
  <2>11. /\ branches' \in [Versions -> Runs \cup {NoRun}] /\ reruns' \in 0..MaxReruns
         /\ pull' \in [Runs -> {"none", "open", "closed", "merged"}]
    BY <2>1, ReleaseParts
  <2>12. \A w \in Versions : tags[w] # 0 => tags'[w] = tags[w] BY <2>7, <2>8
  <2> QED BY <2>3, <2>7, <2>8, <2>9, <2>10, <2>11, <2>12, RunMoves
<1> QED BY <1>1, <1>2

LEMMA DeleteBranchIInv ==
  ASSUME ReleaseIInv, NEW r \in Runs, DeleteBranch(r) PROVE ReleaseIInv'
<1>1. Step(r, "clean", "released") /\ UNCHANGED <<main, tags, reruns>> BY DEF DeleteBranch
<1>2. "released" \in RunStates BY DEF RunStates
<1>3. PICK x \in RunRecords :
           /\ run' = [run EXCEPT ![r] = x] /\ x.at = "released" /\ run[r].at = "clean"
           /\ x.base = run[r].base /\ x.head = run[r].head /\ x.version = run[r].version
           /\ RunFits(run[r], main, tags) /\ run[r] \in RunRecords
  BY <1>1, <1>2, Stepped
<1>4. RunFits(x, main, tags) BY <1>3 DEF RunFits, Prepared
<1>5. /\ branches' \in [Versions -> Runs \cup {NoRun}] /\ reruns' \in 0..MaxReruns
      /\ pull' \in [Runs -> {"none", "open", "closed", "merged"}]
  <2>1. CASE UNCHANGED <<branches, pull>> BY <1>1, <2>1, ReleaseParts
  <2>2. CASE /\ branches' = [branches EXCEPT ![run[r].version] = NoRun]
             /\ pull' = ClosedWith(run[r].version)
    BY <1>1, <2>2, ReleaseParts, ClosedTyped
  <2> QED BY <2>1, <2>2 DEF DeleteBranch
<1> QED BY <1>1, <1>3, <1>4, <1>5, RunMovesAlone

LEMMA ReleaseInductive == ReleaseIInv /\ [ReleaseNext]_releaseVars => ReleaseIInv'
<1> SUFFICES ASSUME ReleaseIInv, [ReleaseNext]_releaseVars PROVE ReleaseIInv' OBVIOUS
<1>1. CASE UNCHANGED releaseVars
  <2>1. /\ UNCHANGED <<main, branches, pull, tags, run, reruns>> BY <1>1 DEF releaseVars
  <2> QED BY <2>1 DEF ReleaseIInv, ReleaseTypeOK, MainRises, TagFits, RunFits
<1>2. CASE ReleaseNext
  <2>1. PICK r \in Runs :
          \/ \E type \in Titles[r] : MergeDev(r, type)
          \/ Rerun(r) \/ Starts(r) \/ Prepare(r) \/ LooksForBranch(r) \/ CleanStale(r) \/ Push(r)
          \/ CreatePull(r) \/ WaitForChecks(r) \/ MergePull(r) \/ SyncMain(r)
          \/ LooksForTag(r) \/ PushTag(r) \/ DeleteBranch(r) \/ RunFails(r)
    BY <1>2 DEF ReleaseNext
  <2>2. RunFails(r) => ReleaseIInv' BY RunFailsIInv DEF RunFails
  <2> QED BY <2>1, <2>2, MergeDevIInv, RerunIInv, StartsIInv, PrepareIInv, LooksForBranchIInv,
             CleanStaleIInv, PushIInv, CreatePullIInv, WaitForChecksIInv, MergePullIInv,
             SyncMainIInv, LooksForTagIInv, PushTagIInv, DeleteBranchIInv
<1> QED BY <1>1, <1>2

LEMMA ReleaseInitIInv == ReleaseInit => ReleaseIInv
<1> SUFFICES ASSUME ReleaseInit PROVE ReleaseIInv OBVIOUS
<1>1. /\ main = <<FirstVersion>> /\ FirstVersion \in Versions /\ reruns = 0 /\ MaxReruns \in Nat
      /\ run = [r \in Runs |-> Asleep] /\ tags = [v \in Versions |-> 0]
  BY ReleasesAssumption DEF ReleaseInit
<1>2. /\ Len(main) = 1 /\ main \in Seq(Versions) /\ main[1] = FirstVersion BY <1>1
<1>3. MainRises(main) BY <1>1, <1>2, BelowIsOrder DEF MainRises
<1>4. Asleep \in RunRecords /\ Asleep.base = 0 /\ Asleep.head = 0 /\ Asleep.at = "none"
  BY <1>1 DEF Asleep, RunRecords, RunStates, CommitTypes
<1>5. RunFits(Asleep, main, tags) BY <1>2, <1>4 DEF RunFits, Prepared
<1>6. /\ branches \in [Versions -> Runs \cup {NoRun}]
      /\ pull \in [Runs -> {"none", "open", "closed", "merged"}]
  BY DEF ReleaseInit
<1>7. ReleaseTypeOK
  <2>1. Asleep.version \in Versions /\ Asleep.type \in CommitTypes BY <1>4 DEF RunRecords
  <2> QED BY <1>1, <1>2, <1>4, <1>6, <2>1 DEF ReleaseTypeOK
<1>8. run \in [Runs -> RunRecords] /\ \A r \in Runs : RunFits(run[r], main, tags)
  BY <1>1, <1>4, <1>5
<1>9. tags \in [Versions -> Nat] /\ \A v \in Versions : TagFits(tags[v], v, main)
  BY <1>1 DEF TagFits
<1> QED BY <1>3, <1>7, <1>8, <1>9 DEF ReleaseIInv

LEMMA ReleaseIInvSound == ReleaseIInv => ReleasesSound
<1> SUFFICES ASSUME ReleaseIInv PROVE ReleasesSound OBVIOUS
<1>1. \A i \in 2..Len(main) : ~Below(main[i], main[i - 1])
  <2>1. Len(main) \in Nat /\ \A j \in 1..Len(main) : \A i \in 1..j : ~Below(main[j], main[i])
    BY ReleaseParts DEF MainRises
  <2> TAKE i \in 2..Len(main)
  <2>2. i \in 1..Len(main) /\ i - 1 \in 1..i BY <2>1
  <2> QED BY <2>1, <2>2
<1>2. \A v \in Versions : tags[v] # 0 => \E i \in 1..tags[v] : main[i] = v
  BY ReleaseParts DEF TagFits
<1>3. \A r \in Runs : run[r].at = "released" =>
        tags[run[r].version] # 0 /\ run[r].base < tags[run[r].version]
  BY ReleaseParts DEF RunFits
<1> QED BY <1>1, <1>2, <1>3 DEF ReleasesSound, ReleasesOnMain, ReleaseIInv

(* The versions on main never go back, a tag is on a commit that has its
   release, and a run that succeeded has what was merged before it in the
   tag, whatever runs interleave and fail (release_after_merge.py). *)
THEOREM ReleasesHold == ReleaseSpec => []ReleasesSound
<1> QED BY ReleaseInitIInv, ReleaseInductive, ReleaseIInvSound, PTL DEF ReleaseSpec

----------------------------------------
(* The inductive invariant of Databases. *)

Jobs == [kind : {"none", "unregister", "close", "connect"}, todo : SUBSET DbSources,
         engines : Seq(Engines), tenant : DbTenants \cup {NoSource}, seen : SUBSET DbSources]

DbShape == DbTypeOK /\ job \in [Admins -> Jobs]

(* Whether a source is known, its engines are looked for where they are. *)
Held(e) == \E s \in DbSources, r \in Roles : engine[s][r] = e
PoolsHeld == \A e \in pooled : Held(e) \/ BeingDisposed(e) \/ e \in excused

(* A source that is removed is to be closed by the one who removed it, or
   has none but the engines of requests that were late. *)
Unregistering(s) == \E a \in Admins : job[a].kind = "unregister" /\ s \in job[a].todo
SourcesKept ==
  \A s \in DbSources :
    \/ s \in connections \/ Unregistering(s)
    \/ \A r \in Roles : engine[s][r] \in excused \cup {0}

(* A call has nothing to dispose before it begins, and one that removes a
   tenant has taken the engines out when it disposes of them. *)
JobsFit ==
  \A a \in Admins :
    /\ job[a].kind = "none" => job[a].engines = <<>> /\ job[a].todo = {}
    /\ job[a].kind = "unregister" =>
       /\ \E s \in DbSources : job[a].todo \subseteq {s}
       /\ job[a].engines # <<>> => job[a].todo = {}

ConnectFits == \A s \in DbSources : connecting[s] # NoAdmin => engine[s].primary # 0
SessionsFit == \A x \in DbSessions : work[x].at \in {"session", "working"} =>
                                       work[x].engine \in Engines

DbInv == DbShape /\ PoolsHeld /\ SourcesKept /\ JobsFit /\ ConnectFits /\ SessionsFit

----------------------------------------
(* Databases: the steps. *)

LEMMA DbParts ==
  ASSUME DbInv
  PROVE  /\ connections \subseteq DbSources /\ mapping \in [DbTenants -> DbSources \cup {NoSource}]
         /\ engine \in [DbSources -> [Roles -> 0..MaxEngines]]
         /\ built \in 0..MaxEngines /\ pooled \subseteq Engines
         /\ connecting \in [DbSources -> Admins \cup {NoAdmin}]
         /\ work \in [DbSessions -> [at : {"idle", "routed", "session", "working"},
                                     source : DbSources, engine : 0..MaxEngines]]
         /\ excused \subseteq Engines /\ job \in [Admins -> Jobs]
         /\ MaxEngines \in Nat /\ DefaultSource \in DbSources /\ NoSource \notin DbSources
         /\ NoAdmin \notin Admins /\ Roles = {"primary", "replica"}
         /\ \A t \in DbTenants : RouteOf(t) \in DbSources
<1>1. \A t \in DbTenants : RouteOf(t) \in DbSources
  BY DatabasesAssumption DEF DbInv, DbShape, DbTypeOK, RouteOf
<1> QED BY <1>1, DatabasesAssumption DEF DbInv, DbShape, DbTypeOK, Roles

LEMMA NoJobTyped == NoJob \in Jobs /\ NoJob.kind = "none" /\ NoJob.engines = <<>> /\ NoJob.todo = {}
<1>1. <<>> \in Seq(Engines) BY EmptySeq
<1> QED BY <1>1 DEF NoJob, Jobs

LEMMA AbsentTyped ==
  Absent \in [at : {"idle", "routed", "session", "working"}, source : DbSources,
              engine : 0..MaxEngines]
BY DatabasesAssumption DEF Absent

LEMMA DbInitInv == DbInit => DbInv
<1> SUFFICES ASSUME DbInit PROVE DbInv OBVIOUS
<1>1. /\ connections = DbSources /\ mapping \in Mappings
      /\ engine = [s \in DbSources |-> [r \in Roles |-> 0]]
      /\ built = 0 /\ pooled = {} /\ connecting = [s \in DbSources |-> NoAdmin]
      /\ work = [x \in DbSessions |-> Absent] /\ job = [a \in Admins |-> NoJob] /\ excused = {}
      /\ MaxEngines \in Nat
  BY DatabasesAssumption DEF DbInit
<1>2. DbShape BY <1>1, DatabasesAssumption, AbsentTyped, NoJobTyped DEF DbShape, DbTypeOK, Engines
<1>3. PoolsHeld /\ SourcesKept /\ ConnectFits BY <1>1 DEF PoolsHeld, SourcesKept, ConnectFits
<1>4. JobsFit BY <1>1, NoJobTyped DEF JobsFit
<1>5. SessionsFit BY <1>1 DEF SessionsFit, Absent
<1> QED BY <1>2, <1>3, <1>4, <1>5 DEF DbInv

(* What is done to the engines and the jobs leaves every pool somewhere. *)
LEMMA PoolsStay ==
  ASSUME PoolsHeld, excused \subseteq excused',
         \A e \in pooled' : e \in pooled \/ Held(e)' \/ BeingDisposed(e)' \/ e \in excused',
         \A e \in pooled' : Held(e) => Held(e)' \/ BeingDisposed(e)' \/ e \in excused',
         \A e \in pooled' : BeingDisposed(e) => BeingDisposed(e)' \/ e \in excused'
  PROVE  PoolsHeld'
BY DEF PoolsHeld

(* Sessions come and go; the calls stay as they are. *)
LEMMA ObtainKeeps ==
  ASSUME DbInv, NEW x \in DbSessions, NEW s \in DbSources, Obtain(x, s) PROVE DbInv'
<1>0. /\ work' = [work EXCEPT ![x] = [Absent EXCEPT !.at = "routed", !.source = s]]
      /\ UNCHANGED <<connections, mapping, engine, built, pooled, connecting, job, excused>>
  BY DEF Obtain
<1>1. [Absent EXCEPT !.at = "routed", !.source = s] \in
        [at : {"idle", "routed", "session", "working"}, source : DbSources, engine : 0..MaxEngines]
      /\ [Absent EXCEPT !.at = "routed", !.source = s].at = "routed"
  BY AbsentTyped
<1> DEFINE w == [Absent EXCEPT !.at = "routed", !.source = s]
<1> HIDE DEF w
<1>2. DbShape' BY <1>0, <1>1, DbParts DEF DbShape, DbTypeOK, w
<1>3. SessionsFit' BY <1>0, <1>1, DbParts DEF DbInv, SessionsFit, w
<1>4. PoolsHeld' /\ SourcesKept' /\ JobsFit' /\ ConnectFits'
  BY <1>0 DEF DbInv, PoolsHeld, Held, BeingDisposed, SourcesKept, Unregistering, JobsFit, ConnectFits
<1> QED BY <1>2, <1>3, <1>4 DEF DbInv

LEMMA ExecutesKeeps ==
  ASSUME DbInv, NEW x \in DbSessions, Executes(x) PROVE DbInv'
<1> DEFINE e == work[x].engine
<1>0. /\ work[x].at = "session" /\ work' = [work EXCEPT ![x].at = "working"]
      /\ pooled' = pooled \cup {e}
      /\ excused' = IF e \in Current \/ BeingDisposed(e) THEN excused ELSE excused \cup {e}
      /\ UNCHANGED <<connections, mapping, engine, built, connecting, job>>
  BY DEF Executes
<1>1. e \in Engines BY <1>0 DEF DbInv, SessionsFit
<1> HIDE DEF e
<1>2. /\ \A y \in DbSessions : work'[y].engine = work[y].engine
      /\ \A y \in DbSessions : work'[y].at \in {"session", "working"}
                                => work[y].at \in {"session", "working"}
      /\ work' \in [DbSessions -> [at : {"idle", "routed", "session", "working"},
                                   source : DbSources, engine : 0..MaxEngines]]
  BY <1>0, DbParts
<1>3. DbShape' BY <1>0, <1>1, <1>2, DbParts DEF DbShape, DbTypeOK
<1>4. SessionsFit' BY <1>2 DEF DbInv, SessionsFit
<1>5. PoolsHeld'
  <2>1. e \in Current => Held(e) BY DbParts DEF Current, Held
  <2>2. \A k : (Held(k)' <=> Held(k)) /\ (BeingDisposed(k)' <=> BeingDisposed(k))
    BY <1>0 DEF Held, BeingDisposed
  <2>3. excused \subseteq excused' /\ (e \in Current \/ BeingDisposed(e) \/ e \in excused') BY <1>0
  <2> QED BY <1>0, <2>1, <2>2, <2>3 DEF DbInv, PoolsHeld
<1>6. SourcesKept' /\ JobsFit' /\ ConnectFits'
  <2>1. excused \subseteq excused' BY <1>0
  <2> QED BY <1>0, <2>1 DEF DbInv, SourcesKept, Unregistering, JobsFit, ConnectFits
<1> QED BY <1>3, <1>4, <1>5, <1>6 DEF DbInv

LEMMA CloseSessionKeeps ==
  ASSUME DbInv, NEW x \in DbSessions, CloseSession(x) PROVE DbInv'
<1>0. /\ work' = [work EXCEPT ![x] = Absent]
      /\ UNCHANGED <<connections, mapping, engine, built, pooled, connecting, job, excused>>
  BY DEF CloseSession
<1>2. DbShape' BY <1>0, AbsentTyped, DbParts DEF DbShape, DbTypeOK
<1>3. SessionsFit' BY <1>0, DbParts DEF DbInv, SessionsFit, Absent
<1>4. PoolsHeld' /\ SourcesKept' /\ JobsFit' /\ ConnectFits'
  BY <1>0 DEF DbInv, PoolsHeld, Held, BeingDisposed, SourcesKept, Unregistering, JobsFit, ConnectFits
<1> QED BY <1>2, <1>3, <1>4 DEF DbInv

(* An engine that is there serves; a new one takes the place of none. *)
LEMMA OpenSessionKeeps ==
  ASSUME DbInv, NEW x \in DbSessions, NEW r \in Roles, NEW e \in Engines, OpenSession(x, r, e)
  PROVE  DbInv'
<1> DEFINE s == work[x].source
<1>0. /\ Serves(s, r, e) \/ Creates(s, r, e)
      /\ work' = [work EXCEPT ![x].at = "session", ![x].engine = e]
      /\ excused' = IF s \in connections THEN excused ELSE excused \cup {e}
      /\ UNCHANGED <<connections, mapping, pooled, connecting, job>>
  BY DEF OpenSession, EnsuredPrimary, EnsuredReplica
<1>1. s \in DbSources /\ MaxEngines \in Nat /\ e \in 0..MaxEngines /\ e # 0 BY DbParts DEF Engines
<1> HIDE DEF s
<1>2. /\ engine' \in [DbSources -> [Roles -> 0..MaxEngines]]
      /\ built' \in 0..MaxEngines
      /\ \A p \in DbSources, q \in Roles : engine'[p][q] = engine[p][q]
                                           \/ (p = s /\ engine[p][q] = 0 /\ engine'[p][q] = e)
  <2>1. CASE Serves(s, r, e) BY <2>1, DbParts DEF Serves
  <2>2. CASE Creates(s, r, e)
    <3>1. /\ engine[s][r] = 0 /\ engine' = [engine EXCEPT ![s][r] = e] /\ built' = e
      BY <2>2 DEF Creates
    <3> QED BY <1>1, <3>1, DbParts
  <2> QED BY <1>0, <2>1, <2>2
<1>3. /\ work' \in [DbSessions -> [at : {"idle", "routed", "session", "working"},
                                   source : DbSources, engine : 0..MaxEngines]]
      /\ \A y \in DbSessions : y # x => work'[y] = work[y]
      /\ work'[x].engine = e
  <2>1. work' = [work EXCEPT ![x] = [work[x] EXCEPT !.at = "session", !.engine = e]]
    BY <1>0, DbParts
  <2>2. [work[x] EXCEPT !.at = "session", !.engine = e] \in
          [at : {"idle", "routed", "session", "working"}, source : DbSources, engine : 0..MaxEngines]
        /\ [work[x] EXCEPT !.at = "session", !.engine = e].engine = e
    BY <1>1, DbParts
  <2> QED BY <2>1, <2>2, DbParts
<1>4. DbShape'
  <2>1. excused' \subseteq Engines BY <1>0, DbParts
  <2> QED BY <1>0, <1>2, <1>3, <2>1, DbParts DEF DbShape, DbTypeOK
<1>5. SessionsFit' BY <1>3 DEF DbInv, SessionsFit
<1>6. PoolsHeld'
  <2>1. excused \subseteq excused' /\ pooled' = pooled /\ \A k : BeingDisposed(k)' <=> BeingDisposed(k)
    BY <1>0 DEF BeingDisposed
  <2>2. ASSUME NEW k \in pooled, Held(k) PROVE Held(k)'
    <3>1. PICK p \in DbSources, q \in Roles : engine[p][q] = k BY <2>2 DEF Held
    <3>2. k # 0 BY <1>1, DbParts DEF Engines
    <3>3. engine'[p][q] = k BY <1>2, <3>1, <3>2
    <3> QED BY <3>3 DEF Held
  <2> QED BY <2>1, <2>2, PoolsStay DEF DbInv
<1>7. SourcesKept'
  <2> SUFFICES ASSUME NEW p \in DbSources, p \notin connections, ~Unregistering(p), NEW q \in Roles
               PROVE  engine'[p][q] \in excused' \cup {0}
    BY <1>0 DEF SourcesKept, Unregistering
  <2>1. engine[p][q] \in excused \cup {0} BY DEF DbInv, SourcesKept
  <2>2. engine'[p][q] = engine[p][q] \/ (p = s /\ engine'[p][q] = e) BY <1>2
  <2> QED BY <1>0, <2>1, <2>2
<1>8. ConnectFits'
  <2>1. "primary" \in Roles BY DEF Roles
  <2>2. \A p \in DbSources : engine[p]["primary"] # 0 => engine'[p]["primary"] # 0 BY <1>2, <2>1
  <2> QED BY <1>0, <2>2 DEF DbInv, ConnectFits
<1>9. JobsFit' BY <1>0 DEF DbInv, JobsFit
<1> QED BY <1>4, <1>5, <1>6, <1>7, <1>8, <1>9 DEF DbInv


----------------------------------------
(* Databases: the calls. *)

LEMMA RegisterTenantKeeps ==
  ASSUME DbInv, NEW t \in DbTenants, NEW s \in DbSources, RegisterTenant(t, s) PROVE DbInv'
<1>0. /\ mapping' = [mapping EXCEPT ![t] = s]
      /\ UNCHANGED <<connections, engine, built, pooled, connecting, work, job, excused>>
  BY DEF RegisterTenant
<1>1. DbShape' BY <1>0, DbParts DEF DbShape, DbTypeOK
<1>2. PoolsHeld' /\ SourcesKept' /\ JobsFit' /\ ConnectFits' /\ SessionsFit'
  BY <1>0 DEF DbInv, PoolsHeld, Held, BeingDisposed, SourcesKept, Unregistering, JobsFit, ConnectFits,
              SessionsFit
<1> QED BY <1>1, <1>2 DEF DbInv

(* A job is replaced that had nothing to dispose, or disposes no less. *)
LEMMA DisposedStays ==
  ASSUME DbInv, NEW a \in Admins, NEW j, job' = [job EXCEPT ![a] = j],
         job[a].engines = <<>>, NEW e, BeingDisposed(e)
  PROVE  BeingDisposed(e)'
<1>1. PICK b \in Admins : \E i \in DOMAIN job[b].engines : job[b].engines[i] = e
  BY DEF BeingDisposed
<1>2. b # a BY <1>1
<1>3. job'[b] = job[b] BY <1>2, DbParts
<1> QED BY <1>1, <1>3 DEF BeingDisposed

LEMMA OthersUnregister ==
  ASSUME DbInv, NEW a \in Admins, NEW j, job' = [job EXCEPT ![a] = j], NEW s \in DbSources,
         Unregistering(s), s \in job[a].todo => job[a].kind # "unregister"
  PROVE  Unregistering(s)'
<1>1. PICK b \in Admins : job[b].kind = "unregister" /\ s \in job[b].todo BY DEF Unregistering
<1>2. b # a BY <1>1
<1>3. job'[b] = job[b] BY <1>2, DbParts
<1> QED BY <1>1, <1>3 DEF Unregistering

LEMMA JobsStillFit ==
  ASSUME DbInv, NEW a \in Admins, NEW j \in Jobs, job' = [job EXCEPT ![a] = j],
         j.kind = "none" => j.engines = <<>> /\ j.todo = {},
         j.kind = "unregister" => /\ \E s \in DbSources : j.todo \subseteq {s}
                                  /\ j.engines # <<>> => j.todo = {}
  PROVE  JobsFit' /\ job' \in [Admins -> Jobs] /\ job'[a] = j
<1>1. job' \in [Admins -> Jobs] /\ job'[a] = j /\ \A b \in Admins : b # a => job'[b] = job[b]
  BY DbParts
<1>2. ASSUME NEW b \in Admins
      PROVE  /\ job'[b].kind = "none" => job'[b].engines = <<>> /\ job'[b].todo = {}
             /\ job'[b].kind = "unregister" =>
                /\ \E s \in DbSources : job'[b].todo \subseteq {s}
                /\ job'[b].engines # <<>> => job'[b].todo = {}
  <2>1. CASE b = a BY <1>1, <2>1
  <2>2. CASE b # a
    <3>1. job'[b] = job[b] BY <1>1, <2>2
    <3>2. /\ job[b].kind = "none" => job[b].engines = <<>> /\ job[b].todo = {}
          /\ job[b].kind = "unregister" =>
             /\ \E s \in DbSources : job[b].todo \subseteq {s}
             /\ job[b].engines # <<>> => job[b].todo = {}
      BY DEF DbInv, JobsFit
    <3> QED BY <3>1, <3>2
  <2> QED BY <2>1, <2>2
<1> QED BY <1>1, <1>2 DEF JobsFit

LEMMA CallUnregisterKeeps ==
  ASSUME DbInv, NEW a \in Admins, NEW t \in DbTenants, CallUnregister(a, t) PROVE DbInv'
<1> DEFINE gone == RouteOf(t)
           todo == {RouteOf(t)} \cap connections
           j == [NoJob EXCEPT !.kind = "unregister", !.tenant = t, !.todo = todo]
<1>0. /\ job[a].kind = "none" /\ connections' = connections \ {gone}
      /\ job' = [job EXCEPT ![a] = j]
      /\ UNCHANGED <<mapping, engine, built, pooled, connecting, work, excused>>
  BY DEF CallUnregister
<1>1. /\ j \in Jobs /\ j.kind = "unregister" /\ j.engines = <<>> /\ j.todo = todo
      /\ gone \in DbSources /\ todo = {gone} \cap connections
  BY NoJobTyped, DbParts DEF Jobs, NoJob
<1>2. job[a].engines = <<>> BY <1>0 DEF DbInv, JobsFit
<1> HIDE DEF j, todo, gone
<1>3. JobsFit' /\ job' \in [Admins -> Jobs] /\ job'[a] = j
  <2>1. j.todo \subseteq {gone} BY <1>1
  <2> QED BY <1>0, <1>1, <2>1, JobsStillFit
<1>4. DbShape' BY <1>0, <1>3, DbParts DEF DbShape, DbTypeOK
<1>5. PoolsHeld'
  <2>1. \A e \in pooled : Held(e)' <=> Held(e) BY <1>0 DEF Held
  <2>2. \A e \in pooled : BeingDisposed(e) => BeingDisposed(e)' BY <1>0, <1>2, DisposedStays
  <2> QED BY <1>0, <2>1, <2>2, PoolsStay DEF DbInv
<1>6. SourcesKept'
  <2> SUFFICES ASSUME NEW s \in DbSources, s \notin connections'
               PROVE  Unregistering(s)' \/ \A r \in Roles : engine[s][r] \in excused \cup {0}
    BY <1>0 DEF SourcesKept
  <2>1. CASE s \in connections
    <3>1. s \in j.todo BY <1>0, <1>1, <2>1
    <3> QED BY <1>1, <1>3, <3>1 DEF Unregistering
  <2>2. CASE s \notin connections
    <3>1. Unregistering(s) \/ \A r \in Roles : engine[s][r] \in excused \cup {0}
      BY <2>2 DEF DbInv, SourcesKept
    <3>2. Unregistering(s) => Unregistering(s)' BY <1>0, OthersUnregister
    <3> QED BY <3>1, <3>2
  <2> QED BY <2>1, <2>2
<1>7. ConnectFits' /\ SessionsFit' BY <1>0 DEF DbInv, ConnectFits, SessionsFit
<1> QED BY <1>3, <1>4, <1>5, <1>6, <1>7 DEF DbInv

(* A step of a call that leaves the engines as they are. *)
LEMMA JobMoves ==
  ASSUME DbInv, NEW a \in Admins, NEW j \in Jobs, job' = [job EXCEPT ![a] = j],
         job[a].engines = <<>>, \A s \in job[a].todo : job[a].kind # "unregister",
         j.kind # "unregister", j.kind = "none" => j.engines = <<>> /\ j.todo = {},
         UNCHANGED <<connections, engine, built, work>>,
         mapping' \in [DbTenants -> DbSources \cup {NoSource}],
         pooled' \subseteq Engines, \A e \in pooled' : e \in pooled \/ Held(e),
         connecting' \in [DbSources -> Admins \cup {NoAdmin}],
         \A s \in DbSources : connecting'[s] # NoAdmin => connecting[s] # NoAdmin,
         excused' = excused
  PROVE  DbInv'
<1>1. JobsFit' /\ job' \in [Admins -> Jobs] BY JobsStillFit
<1>2. DbShape' BY <1>1, DbParts DEF DbShape, DbTypeOK
<1>3. PoolsHeld'
  <2>1. \A e \in pooled' : Held(e)' <=> Held(e) BY DEF Held
  <2>2. \A e \in pooled' : BeingDisposed(e) => BeingDisposed(e)' BY DisposedStays
  <2> QED BY <2>1, <2>2, PoolsStay DEF DbInv
<1>4. SourcesKept'
  <2>1. \A s \in DbSources : Unregistering(s) => Unregistering(s)' BY OthersUnregister
  <2> QED BY <2>1 DEF DbInv, SourcesKept
<1>5. ConnectFits' /\ SessionsFit' BY DEF DbInv, ConnectFits, SessionsFit
<1> QED BY <1>1, <1>2, <1>3, <1>4, <1>5 DEF DbInv

LEMMA CallCloseKeeps == ASSUME DbInv, NEW a \in Admins, CallClose(a) PROVE DbInv'
<1> DEFINE j == [NoJob EXCEPT !.kind = "close", !.todo = connections, !.seen = connections]
<1>0. /\ job[a].kind = "none" /\ job' = [job EXCEPT ![a] = j]
      /\ UNCHANGED <<connections, mapping, engine, built, pooled, connecting, work, excused>>
  BY DEF CallClose
<1>1. j \in Jobs /\ j.kind = "close" BY NoJobTyped, DbParts DEF Jobs, NoJob
<1>2. job[a].engines = <<>> BY <1>0 DEF DbInv, JobsFit
<1> HIDE DEF j
<1> QED BY <1>0, <1>1, <1>2, JobMoves, DbParts

LEMMA EndCloseKeeps == ASSUME DbInv, NEW a \in Admins, EndClose(a) PROVE DbInv'
<1>0. /\ job[a].kind = "close" /\ job[a].engines = <<>> /\ job' = [job EXCEPT ![a] = NoJob]
      /\ UNCHANGED <<connections, mapping, engine, built, pooled, connecting, work, excused>>
  BY DEF EndClose
<1> QED BY <1>0, NoJobTyped, JobMoves, DbParts

LEMMA EndUnregisterKeeps == ASSUME DbInv, NEW a \in Admins, EndUnregister(a) PROVE DbInv'
<1>0. /\ job[a].engines = <<>> /\ job[a].todo = {} /\ job' = [job EXCEPT ![a] = NoJob]
      /\ mapping' = [mapping EXCEPT ![job[a].tenant] = NoSource]
      /\ UNCHANGED <<connections, engine, built, pooled, connecting, work, excused>>
  BY DEF EndUnregister
<1>1. mapping' \in [DbTenants -> DbSources \cup {NoSource}] BY <1>0, DbParts
<1> QED BY <1>0, <1>1, NoJobTyped, JobMoves, DbParts

LEMMA EndConnectKeeps == ASSUME DbInv, NEW a \in Admins, EndConnect(a) PROVE DbInv'
<1>0. /\ job[a].kind = "connect" /\ job[a].engines = <<>> /\ job' = [job EXCEPT ![a] = NoJob]
      /\ connecting' = Released(a)
      /\ UNCHANGED <<connections, mapping, engine, built, work, excused>>
  BY DEF EndConnect
<1>1. PICK s \in DbSources :
        connecting[s] = a /\ pooled' \in {pooled, pooled \cup {engine[s].primary}}
  BY DEF EndConnect
<1>2. engine[s].primary # 0 /\ engine[s].primary \in 0..MaxEngines /\ Held(engine[s].primary)
  <2>1. engine[s].primary # 0 BY <1>1, DbParts DEF DbInv, ConnectFits
  <2>2. "primary" \in Roles /\ engine[s] \in [Roles -> 0..MaxEngines] BY DbParts
  <2> QED BY <2>1, <2>2 DEF Held
<1>3. pooled' \subseteq Engines /\ \A e \in pooled' : e \in pooled \/ Held(e)
  BY <1>1, <1>2, DbParts DEF Engines
<1>4. /\ connecting' \in [DbSources -> Admins \cup {NoAdmin}]
      /\ \A p \in DbSources : connecting'[p] # NoAdmin => connecting[p] # NoAdmin
  BY <1>0, DbParts DEF Released
<1> QED BY <1>0, <1>3, <1>4, NoJobTyped, JobMoves, DbParts

(* What is taken out of a source: its engines, and no others. *)
LEMMA IfBuiltHas ==
  ASSUME NEW e \in 0..MaxEngines
  PROVE  /\ IfBuilt(e) \in Seq(Engines)
         /\ e # 0 => IfBuilt(e) # <<>> /\ Len(IfBuilt(e)) = 1 /\ IfBuilt(e)[1] = e
         /\ Len(IfBuilt(e)) \in Nat
<1>1. CASE e = 0 BY <1>1, EmptySeq DEF IfBuilt
<1>2. CASE e # 0 BY <1>2, DatabasesAssumption DEF IfBuilt, Engines
<1> QED BY <1>1, <1>2

LEMMA TakenOutHas ==
  ASSUME DbInv, NEW s \in DbSources
  PROVE  /\ TakenOut(s) \in Seq(Engines)
         /\ \A r \in Roles : engine[s][r] # 0 =>
              \E i \in DOMAIN TakenOut(s) : TakenOut(s)[i] = engine[s][r]
<1> DEFINE p == engine[s].primary
           q == engine[s].replica
<1>1. p \in 0..MaxEngines /\ q \in 0..MaxEngines
      /\ \A r \in Roles : engine[s][r] = p \/ engine[s][r] = q
  BY DbParts
<1>2. TakenOut(s) = IfBuilt(p) \o IfBuilt(q) BY DEF TakenOut
<1> HIDE DEF p, q
<1> DEFINE m == Len(IfBuilt(p))
           n == Len(IfBuilt(q))
<1>3. /\ IfBuilt(p) \in Seq(Engines) /\ IfBuilt(q) \in Seq(Engines) /\ m \in Nat /\ n \in Nat
      /\ p # 0 => m = 1 /\ IfBuilt(p)[1] = p
      /\ q # 0 => n = 1 /\ IfBuilt(q)[1] = q
  BY <1>1, IfBuiltHas
<1>4. /\ TakenOut(s) \in Seq(Engines) /\ Len(TakenOut(s)) = m + n
      /\ \A i \in 1..m + n : TakenOut(s)[i] = IF i <= m THEN IfBuilt(p)[i] ELSE IfBuilt(q)[i - m]
  BY <1>2, <1>3, ConcatProperties
<1> HIDE DEF m, n
<1>5. DOMAIN TakenOut(s) = 1..m + n BY <1>4, LenProperties
<1>6. p # 0 => \E i \in DOMAIN TakenOut(s) : TakenOut(s)[i] = p
  <2> SUFFICES ASSUME p # 0 PROVE 1 \in 1..m + n /\ TakenOut(s)[1] = p BY <1>5
  <2> QED BY <1>3, <1>4
<1>7. q # 0 => \E i \in DOMAIN TakenOut(s) : TakenOut(s)[i] = q
  <2> SUFFICES ASSUME q # 0 PROVE m + 1 \in 1..m + n /\ TakenOut(s)[m + 1] = q BY <1>5
  <2>1. m + 1 \in 1..m + n /\ ~(m + 1 <= m) /\ m + 1 - m = 1 BY <1>3
  <2> QED BY <1>3, <1>4, <2>1
<1> QED BY <1>1, <1>4, <1>6, <1>7

LEMMA TakeEnginesKeeps ==
  ASSUME DbInv, NEW a \in Admins, NEW s \in DbSources, TakeEngines(a, s) PROVE DbInv'
<1> DEFINE left == job[a].todo \ {s}
           j == [job[a] EXCEPT !.todo = left, !.engines = TakenOut(s)]
<1>0. /\ s \in job[a].todo /\ job[a].engines = <<>> /\ connecting[s] = NoAdmin
      /\ engine' = [engine EXCEPT ![s] = [r \in Roles |-> 0]]
      /\ UNCHANGED <<connections, mapping, built, pooled, connecting, work, excused>>
  BY DEF TakeEngines, LockFree
<1>1. job' = [job EXCEPT ![a] = j] BY DbParts DEF TakeEngines
<1>2. /\ j \in Jobs /\ j.kind = job[a].kind /\ j.engines = TakenOut(s) /\ j.todo = left
  <2>1. job[a] \in Jobs /\ left \subseteq DbSources BY DbParts DEF Jobs
  <2>2. TakenOut(s) \in Seq(Engines) BY TakenOutHas
  <2> HIDE DEF left
  <2> QED BY <2>1, <2>2 DEF Jobs
<1> HIDE DEF j
<1>3. /\ job[a].kind # "none"
      /\ job[a].kind = "unregister" => left = {}
  BY <1>0 DEF DbInv, JobsFit
<1>4. JobsFit' /\ job' \in [Admins -> Jobs] /\ job'[a] = j BY <1>0, <1>1, <1>2, <1>3, JobsStillFit
<1>5. /\ engine' \in [DbSources -> [Roles -> 0..MaxEngines]]
      /\ \A p \in DbSources, q \in Roles : engine'[p][q] = IF p = s THEN 0 ELSE engine[p][q]
  <2>1. [r \in Roles |-> 0] \in [Roles -> 0..MaxEngines] BY DbParts
  <2> QED BY <1>0, <2>1, DbParts
<1>6. DbShape' BY <1>0, <1>4, <1>5, DbParts DEF DbShape, DbTypeOK
<1>7. PoolsHeld'
  <2>1. ASSUME NEW e \in pooled, Held(e) PROVE Held(e)' \/ BeingDisposed(e)'
    <3>1. PICK p \in DbSources, q \in Roles : engine[p][q] = e BY <2>1 DEF Held
    <3>2. CASE p = s
      <4>1. e # 0 BY DbParts DEF Engines
      <4>2. \E i \in DOMAIN job'[a].engines : job'[a].engines[i] = e
        BY <1>2, <1>4, <3>1, <3>2, <4>1, TakenOutHas
      <4> QED BY <4>2 DEF BeingDisposed
    <3>3. CASE p # s BY <1>5, <3>1, <3>3 DEF Held
    <3> QED BY <3>2, <3>3
  <2>2. \A e \in pooled : BeingDisposed(e) => BeingDisposed(e)' BY <1>0, <1>1, DisposedStays
  <2> QED BY <1>0, <2>1, <2>2, PoolsStay DEF DbInv
<1>8. SourcesKept'
  <2> SUFFICES ASSUME NEW p \in DbSources, p \notin connections
               PROVE  Unregistering(p)' \/ \A r \in Roles : engine'[p][r] \in excused \cup {0}
    BY <1>0 DEF SourcesKept
  <2>1. CASE p = s BY <1>5, <2>1
  <2>2. CASE p # s
    <3>1. Unregistering(p) \/ \A r \in Roles : engine[p][r] \in excused \cup {0}
      BY DEF DbInv, SourcesKept
    <3>2. ASSUME Unregistering(p) PROVE Unregistering(p)'
      <4>1. PICK b \in Admins : job[b].kind = "unregister" /\ p \in job[b].todo
        BY <3>2 DEF Unregistering
      <4>2. job'[b].kind = "unregister" /\ p \in job'[b].todo
        <5>1. CASE b = a BY <1>2, <1>4, <2>2, <4>1, <5>1
        <5>2. CASE b # a BY <1>1, <4>1, <5>2, DbParts
        <5> QED BY <5>1, <5>2
      <4> QED BY <4>2 DEF Unregistering
    <3> QED BY <1>5, <2>2, <3>1, <3>2
  <2> QED BY <2>1, <2>2
<1>9. ConnectFits'
  <2> SUFFICES ASSUME NEW p \in DbSources, connecting[p] # NoAdmin PROVE engine'[p].primary # 0
    BY <1>0 DEF ConnectFits
  <2>1. p # s /\ engine[p].primary # 0 BY <1>0 DEF DbInv, ConnectFits
  <2> QED BY <1>0, <2>1, DbParts
<1>10. SessionsFit' BY <1>0 DEF DbInv, SessionsFit
<1> QED BY <1>4, <1>6, <1>7, <1>8, <1>9, <1>10 DEF DbInv

LEMMA ConnectKeeps ==
  ASSUME DbInv, NEW a \in Admins, NEW s \in DbSources, Connect(a, s) PROVE DbInv'
<1> DEFINE old == engine[s].primary
           new == built + 1
           j == [NoJob EXCEPT !.kind = "connect", !.engines = IfBuilt(old)]
<1>0. /\ job[a].kind = "none" /\ s \in connections /\ built' = new /\ built < MaxEngines
      /\ engine' = [engine EXCEPT ![s].primary = new]
      /\ connecting' = [connecting EXCEPT ![s] = a] /\ job' = [job EXCEPT ![a] = j]
      /\ UNCHANGED <<connections, mapping, pooled, work, excused>>
  BY DEF Connect
<1>1. /\ "primary" \in Roles /\ old \in 0..MaxEngines /\ new \in 0..MaxEngines /\ new # 0
      /\ old = engine[s]["primary"]
  BY <1>0, DbParts
<1>2. j \in Jobs /\ j.kind = "connect" /\ j.engines = IfBuilt(old)
  BY <1>1, NoJobTyped, IfBuiltHas DEF Jobs, NoJob
<1>3. job[a].engines = <<>> /\ job[a].todo = {} BY <1>0 DEF DbInv, JobsFit
<1> HIDE DEF j, new, old
<1>4. JobsFit' /\ job' \in [Admins -> Jobs] /\ job'[a] = j BY <1>0, <1>2, JobsStillFit
<1>5. /\ engine' \in [DbSources -> [Roles -> 0..MaxEngines]]
      /\ \A p \in DbSources, q \in Roles :
           engine'[p][q] = IF p = s /\ q = "primary" THEN new ELSE engine[p][q]
  BY <1>0, <1>1, DbParts
<1>6. DbShape' BY <1>0, <1>1, <1>4, <1>5, DbParts DEF DbShape, DbTypeOK
<1>7. PoolsHeld'
  <2>1. ASSUME NEW e \in pooled, Held(e) PROVE Held(e)' \/ BeingDisposed(e)'
    <3>1. PICK p \in DbSources, q \in Roles : engine[p][q] = e BY <2>1 DEF Held
    <3>2. CASE p = s /\ q = "primary"
      <4>1. old = e /\ e # 0 BY <1>1, <3>1, <3>2, DbParts DEF Engines
      <4>2. 1 \in DOMAIN job'[a].engines /\ job'[a].engines[1] = e
        <5>1. IfBuilt(old) \in Seq(Engines) /\ Len(IfBuilt(old)) = 1 /\ IfBuilt(old)[1] = e
          BY <1>1, <4>1, IfBuiltHas
        <5>2. DOMAIN IfBuilt(old) = 1..1 BY <5>1, LenProperties
        <5> QED BY <1>2, <1>4, <5>1, <5>2
      <4> QED BY <4>2 DEF BeingDisposed
    <3>3. CASE ~(p = s /\ q = "primary") BY <1>5, <3>1, <3>3 DEF Held
    <3> QED BY <3>2, <3>3
  <2>2. \A e \in pooled : BeingDisposed(e) => BeingDisposed(e)' BY <1>0, <1>3, DisposedStays
  <2> QED BY <1>0, <2>1, <2>2, PoolsStay DEF DbInv
<1>8. SourcesKept'
  <2> SUFFICES ASSUME NEW p \in DbSources, p \notin connections
               PROVE  Unregistering(p)' \/ \A r \in Roles : engine'[p][r] \in excused \cup {0}
    BY <1>0 DEF SourcesKept
  <2>1. Unregistering(p) \/ \A r \in Roles : engine[p][r] \in excused \cup {0}
    BY DEF DbInv, SourcesKept
  <2>2. Unregistering(p) => Unregistering(p)' BY <1>0, <1>3, OthersUnregister
  <2>3. p # s BY <1>0
  <2> QED BY <1>5, <2>1, <2>2, <2>3
<1>9. ConnectFits'
  <2> SUFFICES ASSUME NEW p \in DbSources, connecting'[p] # NoAdmin PROVE engine'[p]["primary"] # 0
    BY DEF ConnectFits
  <2>1. CASE p = s BY <1>1, <1>5, <2>1
  <2>2. CASE p # s
    <3>1. connecting[p] # NoAdmin BY <1>0, <2>2, DbParts
    <3>2. engine[p]["primary"] # 0 BY <3>1 DEF DbInv, ConnectFits
    <3> QED BY <1>1, <1>5, <2>2, <3>2
  <2> QED BY <2>1, <2>2
<1>10. SessionsFit' BY <1>0 DEF DbInv, SessionsFit
<1> QED BY <1>4, <1>6, <1>7, <1>8, <1>9, <1>10 DEF DbInv

LEMMA DisposeNextKeeps == ASSUME DbInv, NEW a \in Admins, DisposeNext(a) PROVE DbInv'
<1> DEFINE es == job[a].engines
           j == [job[a] EXCEPT !.engines = Tail(es)]
<1>0. /\ es # <<>> /\ pooled' = pooled \ {Head(es)}
      /\ UNCHANGED <<connections, mapping, engine, built, connecting, work, excused>>
  BY DEF DisposeNext
<1>1. job' = [job EXCEPT ![a] = j] BY DbParts DEF DisposeNext
<1>2. es \in Seq(Engines) /\ job[a] \in Jobs BY DbParts DEF Jobs
<1>3. /\ Tail(es) \in Seq(Engines) /\ Len(es) \in Nat \ {0} /\ Head(es) = es[1]
      /\ Len(Tail(es)) = Len(es) - 1 /\ \A i \in 1..Len(es) - 1 : Tail(es)[i] = es[i + 1]
  BY <1>0, <1>2, HeadTailProperties, EmptySeq, LenProperties
<1>4. j \in Jobs /\ j.kind = job[a].kind /\ j.engines = Tail(es) /\ j.todo = job[a].todo
  BY <1>2, <1>3 DEF Jobs
<1> HIDE DEF j
<1>5. /\ job[a].kind # "none"
      /\ job[a].kind = "unregister" => job[a].todo = {} /\ \E s \in DbSources : job[a].todo \subseteq {s}
  BY <1>0 DEF DbInv, JobsFit
<1>6. JobsFit' /\ job' \in [Admins -> Jobs] /\ job'[a] = j BY <1>1, <1>4, <1>5, JobsStillFit
<1>7. DbShape' BY <1>0, <1>6, DbParts DEF DbShape, DbTypeOK
<1>8. PoolsHeld'
  <2>1. \A e \in pooled' : Held(e) <=> Held(e)' BY <1>0 DEF Held
  <2>2. ASSUME NEW e \in pooled, e \in pooled', BeingDisposed(e) PROVE BeingDisposed(e)'
    <3>0. PICK b \in Admins : \E i \in DOMAIN job[b].engines : job[b].engines[i] = e
      BY <2>2 DEF BeingDisposed
    <3>1. PICK i \in DOMAIN job[b].engines : job[b].engines[i] = e BY <3>0
    <3>2. CASE b = a
      <4>0. i \in 1..Len(es) /\ es[i] = e
        <5>1. i \in DOMAIN es BY <3>2
        <5>2. DOMAIN es = 1..Len(es) BY <1>2, LenProperties
        <5> QED BY <3>1, <3>2, <5>1, <5>2
      <4>1. i \in 1..Len(es) /\ i # 1 /\ es[i] = e
        <5>1. e # Head(es) BY <1>0, <2>2
        <5> QED BY <1>3, <4>0, <5>1
      <4> HIDE DEF es
      <4>2. i - 1 \in 1..Len(es) - 1 /\ i - 1 + 1 = i BY <1>3, <4>1
      <4>3. i - 1 \in DOMAIN Tail(es) /\ Tail(es)[i - 1] = e BY <1>3, <4>1, <4>2, LenProperties
      <4> QED BY <1>4, <1>6, <4>3 DEF BeingDisposed
    <3>3. CASE b # a BY <1>1, <3>1, <3>3, DbParts DEF BeingDisposed
    <3> QED BY <3>2, <3>3
  <2> QED BY <1>0, <2>1, <2>2, PoolsStay DEF DbInv
<1>9. SourcesKept'
  <2>1. ASSUME NEW s \in DbSources, Unregistering(s) PROVE Unregistering(s)'
    <3>1. s \in job[a].todo => job[a].kind # "unregister" BY <1>5
    <3> QED BY <1>1, <2>1, <3>1, OthersUnregister
  <2> QED BY <1>0, <2>1 DEF DbInv, SourcesKept
<1>10. ConnectFits' /\ SessionsFit' BY <1>0 DEF DbInv, ConnectFits, SessionsFit
<1> QED BY <1>6, <1>7, <1>8, <1>9, <1>10 DEF DbInv

LEMMA DisposeRaisesKeeps == ASSUME DbInv, NEW a \in Admins, DisposeRaises(a) PROVE DbInv'
<1> DEFINE es == job[a].engines
<1>0. /\ es # <<>> /\ excused' = excused \cup {es[i] : i \in DOMAIN es}
      /\ job' = [job EXCEPT ![a] = NoJob] /\ connecting' = Released(a)
      /\ UNCHANGED <<connections, mapping, engine, built, pooled, work>>
  BY DEF DisposeRaises
<1>1. es \in Seq(Engines) BY DbParts DEF Jobs
<1>2. excused' \subseteq Engines
  <2>1. \A i \in DOMAIN es : es[i] \in Engines BY <1>1, LenProperties, ElementOfSeq
  <2> QED BY <1>0, <2>1, DbParts
<1>3. job[a].kind = "unregister" => job[a].todo = {} BY <1>0 DEF DbInv, JobsFit
<1>4. /\ connecting' \in [DbSources -> Admins \cup {NoAdmin}]
      /\ \A p \in DbSources : connecting'[p] # NoAdmin => connecting[p] # NoAdmin
  BY <1>0, DbParts DEF Released
<1>5. JobsFit' /\ job' \in [Admins -> Jobs] BY <1>0, NoJobTyped, JobsStillFit
<1>6. DbShape' BY <1>0, <1>2, <1>4, <1>5, DbParts DEF DbShape, DbTypeOK
<1>7. PoolsHeld'
  <2>1. \A e \in pooled : Held(e)' <=> Held(e) BY <1>0 DEF Held
  <2>2. ASSUME NEW e \in pooled, BeingDisposed(e) PROVE BeingDisposed(e)' \/ e \in excused'
    <3>0. PICK b \in Admins : \E i \in DOMAIN job[b].engines : job[b].engines[i] = e
      BY <2>2 DEF BeingDisposed
    <3>1. PICK i \in DOMAIN job[b].engines : job[b].engines[i] = e BY <3>0
    <3>2. CASE b = a BY <1>0, <3>1, <3>2
    <3>3. CASE b # a BY <1>0, <3>1, <3>3, DbParts DEF BeingDisposed
    <3> QED BY <3>2, <3>3
  <2> QED BY <1>0, <2>1, <2>2, PoolsStay DEF DbInv
<1>8. SourcesKept'
  <2>1. ASSUME NEW s \in DbSources, Unregistering(s) PROVE Unregistering(s)'
    <3>1. s \in job[a].todo => job[a].kind # "unregister" BY <1>3
    <3> QED BY <1>0, <2>1, <3>1, OthersUnregister
  <2>2. excused \subseteq excused' BY <1>0
  <2> QED BY <1>0, <2>1, <2>2 DEF DbInv, SourcesKept
<1>9. ConnectFits' /\ SessionsFit' BY <1>0, <1>4 DEF DbInv, ConnectFits, SessionsFit
<1> QED BY <1>5, <1>6, <1>7, <1>8, <1>9 DEF DbInv

LEMMA DbInductive == ASSUME DbInv, [DbNext]_dbVars PROVE DbInv'
<1>1. CASE UNCHANGED dbVars
  <2>0. UNCHANGED <<connections, mapping, engine, built, pooled, connecting, work, job, excused>>
    BY <1>1 DEF dbVars
  <2>1. DbShape' BY <2>0, DbParts DEF DbShape, DbTypeOK
  <2>2. PoolsHeld' /\ SourcesKept' /\ JobsFit' /\ ConnectFits' /\ SessionsFit'
    BY <2>0 DEF DbInv, PoolsHeld, Held, BeingDisposed, SourcesKept, Unregistering, JobsFit,
                ConnectFits, SessionsFit
  <2> QED BY <2>1, <2>2 DEF DbInv
<1>2. CASE \E t \in DbTenants, s \in DbSources : RegisterTenant(t, s) BY <1>2, RegisterTenantKeeps
<1>3. CASE \E x \in DbSessions :
             \/ \E s \in DbSources : Obtain(x, s)
             \/ \E r \in Roles, e \in Engines : OpenSession(x, r, e)
             \/ Executes(x) \/ CloseSession(x)
  BY <1>3, ObtainKeeps, OpenSessionKeeps, ExecutesKeeps, CloseSessionKeeps
<1>4. CASE \E a \in Admins :
             \/ \E t \in DbTenants : CallUnregister(a, t)
             \/ \E s \in DbSources : TakeEngines(a, s) \/ Connect(a, s)
             \/ CallClose(a) \/ DisposeNext(a) \/ DisposeRaises(a)
             \/ EndConnect(a) \/ EndUnregister(a) \/ EndClose(a)
  BY <1>4, CallUnregisterKeeps, TakeEnginesKeeps, ConnectKeeps, CallCloseKeeps, DisposeNextKeeps,
     DisposeRaisesKeeps, EndConnectKeeps, EndUnregisterKeeps, EndCloseKeeps
<1> QED BY <1>1, <1>2, <1>3, <1>4 DEF DbNext

LEMMA DbInvSound == DbInv => SourcesSound
<1> SUFFICES ASSUME DbInv PROVE SourcesSound OBVIOUS
<1>1. ASSUME NEW e \in pooled, Held(e), e \notin excused
      PROVE  e \in Current \/ \E a \in Admins : \E s \in job[a].todo : \E r \in Roles : engine[s][r] = e
  <2>1. PICK s \in DbSources, r \in Roles : engine[s][r] = e BY <1>1 DEF Held
  <2>2. e # 0 BY DbParts DEF Engines
  <2>3. s \in connections \/ Unregistering(s) BY <1>1, <2>1, <2>2 DEF DbInv, SourcesKept
  <2> QED BY <2>1, <2>2, <2>3 DEF Current, Unregistering
<1>2. PoolsKnown BY <1>1 DEF PoolsKnown, DbInv, PoolsHeld
<1> QED BY <1>2 DEF SourcesSound, DbInv, DbShape

(* For any number of sources, tenants, sessions, calls and engines: no
   pool with connections is lost between the requests that build engines
   on first use and connect, close and unregister_tenant that replace or
   dispose them (MySQLConfig, DatabaseManager). *)
THEOREM SourcesHold == DbSpec => []SourcesSound
<1> QED BY DbInitInv, DbInductive, DbInvSound, PTL DEF DbSpec

----------------------------------------
(* The inductive invariant of ModelConfigs. *)

Row == [code : Codes, version : 1..MaxVersion]
CacheEntry == [key : CacheKeys, version : 1..MaxVersion]

(* One row per code, and one entry per key. *)
RowsFit(rs) == rs \in Seq(Row) /\ \A i, j \in 1..Len(rs) : rs[i].code = rs[j].code => i = j
CacheFits(s) == s \in Seq(CacheEntry) /\ \A i, j \in 1..Len(s) : s[i].key = s[j].key => i = j

RowsNumbered == \A i \in 1..Len(rows) : rows[i].version <= version

EditsFit == \A e \in Editors : edit[e].at # "none" => edit[e].code \in Codes

(* What is in the cache, or on its way into it, is what the table says, or
   its key is known to be stale. *)
FreshUnlessMissed ==
  /\ \A i \in 1..Len(cached) :
     \/ cached[i].key \in missed
     \/ cached[i].version = Loaded(cached[i].key)
  /\ \A r \in Readers : read[r].at = "answer" =>
     \/ read[r].key \in missed
     \/ read[r].version = Loaded(read[r].key)

(* What a refresh waits for, will find or has found is no older than the
   row was when it began. *)
FloorFits(x) ==
  /\ x.floor <= Loaded(x.key)
  /\ x.at \in {"answer", "done"} => x.version >= x.floor
  /\ x.at = "wait" =>
       /\ \A i \in 1..Len(cached) : cached[i].key = x.key => cached[i].version >= x.floor
       /\ \A q \in Readers : read[q].at = "answer" /\ read[q].key = x.key
                               => read[q].version >= x.floor
FloorsFit == \A r \in Readers : read[r].at # "none" /\ ~read[r].late => FloorFits(read[r])

ConfigInv == ConfigTypeOK /\ RowsFit(rows) /\ RowsNumbered /\ CacheFits(cached) /\ EditsFit
             /\ FreshUnlessMissed /\ FloorsFit

----------------------------------------
(* ModelConfigs: rows and entries. *)

Readings == [at : {"none", "wait", "load", "answer", "done"}, key : CacheKeys,
             version : 0..MaxVersion, floor : 0..MaxVersion, late : BOOLEAN]
Edits == [at : {"none", "write", "commit"}, code : CacheKeys, exists : BOOLEAN]

LEMMA ConfigParts ==
  ASSUME ConfigInv
  PROVE  /\ version \in 0..MaxVersion /\ rows \in Seq(Row) /\ cached \in Seq(CacheEntry)
         /\ Len(cached) <= MaxCached /\ missed \subseteq CacheKeys
         /\ edit \in [Editors -> Edits] /\ read \in [Readers -> Readings]
         /\ Len(cached) \in Nat /\ Len(rows) \in Nat /\ DOMAIN cached = 1..Len(cached)
         /\ DOMAIN rows = 1..Len(rows)
         /\ \A i \in 1..Len(cached) : cached[i] \in CacheEntry
         /\ \A i \in 1..Len(rows) : rows[i] \in Row
         /\ MaxCached \in Nat \ {0} /\ MaxVersion \in Nat /\ Default \notin Codes
         /\ CacheKeys = Codes \cup {Default}
         /\ NotReading \in Readings /\ NotReading.at = "none"
         /\ NotEditing \in Edits /\ NotEditing.at = "none"
<1>1. /\ version \in 0..MaxVersion /\ rows \in Seq(Row) /\ cached \in Seq(CacheEntry)
      /\ Len(cached) <= MaxCached /\ missed \subseteq CacheKeys
      /\ edit \in [Editors -> Edits] /\ read \in [Readers -> Readings]
  BY DEF ConfigInv, ConfigTypeOK, Row, CacheEntry, Edits, Readings
<1>2. /\ Len(cached) \in Nat /\ Len(rows) \in Nat /\ DOMAIN cached = 1..Len(cached)
      /\ DOMAIN rows = 1..Len(rows)
      /\ \A i \in 1..Len(cached) : cached[i] \in CacheEntry
      /\ \A i \in 1..Len(rows) : rows[i] \in Row
  BY <1>1, LenProperties, ElementOfSeq
<1>3. /\ MaxCached \in Nat \ {0} /\ MaxVersion \in Nat /\ Default \notin Codes
      /\ CacheKeys = Codes \cup {Default}
  BY ModelConfigsAssumption DEF CacheKeys
<1>4. /\ NotReading \in Readings /\ NotReading.at = "none"
      /\ NotEditing \in Edits /\ NotEditing.at = "none"
  BY <1>3 DEF NotReading, NotEditing, Readings, Edits
<1> QED BY <1>1, <1>2, <1>3, <1>4

(* load: the only row of a code, and the first one of all. *)
LoadedIn(rs, key) ==
  LET at == {i \in DOMAIN rs : key \in {rs[i].code, Default}}
  IN  IF at = {} THEN 0 ELSE rs[CHOOSE i \in at : \A j \in at : i <= j].version

LEMMA LoadedIs ==
  ASSUME NEW rs, RowsFit(rs)
  PROVE  /\ Len(rs) \in Nat
         /\ \A i \in 1..Len(rs) : LoadedIn(rs, rs[i].code) = rs[i].version
         /\ \A c \in Codes : (\A i \in 1..Len(rs) : rs[i].code # c) => LoadedIn(rs, c) = 0
         /\ LoadedIn(rs, Default) = IF Len(rs) = 0 THEN 0 ELSE rs[1].version
         /\ \A c \in CacheKeys : LoadedIn(rs, c) \in 0..MaxVersion
<1> DEFINE at(key) == {i \in DOMAIN rs : key \in {rs[i].code, Default}}
<1>1. /\ Len(rs) \in Nat /\ DOMAIN rs = 1..Len(rs) /\ \A i \in 1..Len(rs) : rs[i] \in Row
      /\ Default \notin Codes /\ MaxVersion \in Nat
  BY LenProperties, ElementOfSeq, ModelConfigsAssumption DEF RowsFit
<1>2. \A key : LoadedIn(rs, key) = IF at(key) = {} THEN 0
                                  ELSE rs[CHOOSE i \in at(key) : \A j \in at(key) : i <= j].version
  BY DEF LoadedIn
<1>3. ASSUME NEW i \in 1..Len(rs) PROVE LoadedIn(rs, rs[i].code) = rs[i].version
  <2>1. at(rs[i].code) = {i} BY <1>1 DEF RowsFit, Row
  <2>2. (CHOOSE k \in {i} : \A j \in {i} : k <= j) = i BY <1>1
  <2> QED BY <1>2, <2>1, <2>2
<1>4. ASSUME NEW c \in Codes, \A i \in 1..Len(rs) : rs[i].code # c PROVE LoadedIn(rs, c) = 0
  <2>1. at(c) = {} BY <1>1, <1>4
  <2> QED BY <1>2, <2>1
<1>5. LoadedIn(rs, Default) = IF Len(rs) = 0 THEN 0 ELSE rs[1].version
  <2>1. at(Default) = 1..Len(rs) BY <1>1
  <2> DEFINE n == Len(rs)
  <2>2. n \in Nat BY <1>1
  <2> HIDE DEF n
  <2>3. n # 0 => (CHOOSE k \in 1..n : \A j \in 1..n : k <= j) = 1
    <3> SUFFICES ASSUME n # 0 PROVE (CHOOSE k \in 1..n : \A j \in 1..n : k <= j) = 1 OBVIOUS
    <3>1. 1 \in 1..n /\ \A j \in 1..n : 1 <= j BY <2>2
    <3>2. \A k \in 1..n : (\A j \in 1..n : k <= j) => k = 1 BY <2>2, <3>1
    <3> QED BY <3>1, <3>2
  <2>4. n = 0 <=> 1..n = {} BY <2>2
  <2>5. LoadedIn(rs, Default) = IF 1..n = {} THEN 0
                                ELSE rs[CHOOSE i \in 1..n : \A j \in 1..n : i <= j].version
    BY <1>2, <2>1 DEF n
  <2>6. LoadedIn(rs, Default) = IF n = 0 THEN 0 ELSE rs[1].version BY ONLY <2>3, <2>4, <2>5
  <2> QED BY <2>6 DEF n
<1>6. ASSUME NEW c \in CacheKeys PROVE LoadedIn(rs, c) \in 0..MaxVersion
  <2>1. CASE c = Default BY <1>1, <1>5, <2>1 DEF Row
  <2>2. CASE c # Default
    <3>1. c \in Codes BY <2>2 DEF CacheKeys
    <3>2. CASE \E i \in 1..Len(rs) : rs[i].code = c BY <1>1, <1>3, <3>2 DEF Row
    <3>3. CASE \A i \in 1..Len(rs) : rs[i].code # c BY <1>1, <1>4, <3>1, <3>3
    <3> QED BY <3>2, <3>3
  <2> QED BY <2>1, <2>2
<1> QED BY <1>1, <1>3, <1>4, <1>5, <1>6

LEMMA LoadedAre == \A key : Loaded(key) = LoadedIn(rows, key) /\ Loaded(key)' = LoadedIn(rows', key)
BY DEF Loaded, RowsOf, LoadedIn

LEMMA LoadedTyped == ASSUME ConfigInv, NEW key \in CacheKeys PROVE Loaded(key) \in 0..MaxVersion
BY LoadedIs, LoadedAre DEF ConfigInv

(* A sequence without its entry i. *)
LEMMA OneTakenOut ==
  ASSUME NEW S, NEW s \in Seq(S), NEW i \in 1..Len(s), NEW t,
         t = SubSeq(s, 1, i - 1) \o SubSeq(s, i + 1, Len(s))
  PROVE  /\ t \in Seq(S) /\ Len(t) = Len(s) - 1
         /\ \A j \in 1..Len(s) - 1 : t[j] = IF j < i THEN s[j] ELSE s[j + 1]
<1> DEFINE n == Len(s)
           a == SubSeq(s, 1, i - 1)
           b == SubSeq(s, i + 1, n)
<1>1. n \in Nat /\ i \in 1..n /\ \A j \in 1..n : s[j] \in S BY LenProperties, ElementOfSeq
<1>2. /\ a \in Seq(S) /\ Len(a) = (IF 1 <= i - 1 THEN i - 1 - 1 + 1 ELSE 0)
      /\ \A j \in 1..i - 1 - 1 + 1 : a[j] = s[1 + j - 1]
  <2>1. \A j \in 1..i - 1 : s[j] \in S BY <1>1
  <2> QED BY <1>1, <2>1, SubSeqProperties
<1>3. /\ b \in Seq(S) /\ Len(b) = (IF i + 1 <= n THEN n - (i + 1) + 1 ELSE 0)
      /\ \A j \in 1..n - (i + 1) + 1 : b[j] = s[i + 1 + j - 1]
  <2>1. \A j \in i + 1..n : s[j] \in S BY <1>1
  <2> QED BY <1>1, <2>1, SubSeqProperties
<1>4. t = a \o b OBVIOUS
<1> HIDE DEF a, b, n
<1>5. Len(a) = i - 1 /\ Len(b) = n - i
  <2>1. Len(a) = i - 1 BY <1>1, <1>2
  <2>2. Len(b) = n - i BY <1>1, <1>3
  <2> QED BY <2>1, <2>2
<1>6. /\ t \in Seq(S) /\ Len(t) = Len(a) + Len(b)
      /\ \A j \in 1..Len(a) + Len(b) : t[j] = IF j <= Len(a) THEN a[j] ELSE b[j - Len(a)]
  BY ONLY <1>2, <1>3, <1>4, ConcatProperties
<1>7. Len(t) = n - 1 BY ONLY <1>1, <1>5, <1>6
<1>8. ASSUME NEW j \in 1..n - 1 PROVE t[j] = IF j < i THEN s[j] ELSE s[j + 1]
  <2>0. j \in 1..n - 1 OBVIOUS
  <2>1. t[j] = IF j <= i - 1 THEN a[j] ELSE b[j - (i - 1)] BY ONLY <1>1, <1>5, <1>6, <2>0
  <2>2. CASE j < i
    <3>1. j <= i - 1 /\ j \in 1..i - 1 - 1 + 1 /\ 1 + j - 1 = j BY <1>1, <2>2
    <3> QED BY <1>2, <2>1, <2>2, <3>1
  <2>3. CASE ~(j < i)
    <3>1. ~(j <= i - 1) /\ j - (i - 1) \in 1..n - (i + 1) + 1 /\ i + 1 + (j - (i - 1)) - 1 = j + 1
      BY <1>1, <2>3
    <3> QED BY <1>3, <2>1, <2>3, <3>1
  <2> QED BY <2>2, <2>3
<1> QED BY <1>6, <1>7, <1>8 DEF n

(* delete: the entry of the key, and no other. *)
LEMMA WithoutFits ==
  ASSUME ConfigInv, NEW key
  PROVE  /\ CacheFits(Without(key)) /\ Len(Without(key)) \in Nat /\ Len(Without(key)) <= Len(cached)
         /\ \A j \in 1..Len(Without(key)) :
              /\ Without(key)[j].key # key
              /\ \E i \in 1..Len(cached) : Without(key)[j] = cached[i]
<1> DEFINE t == Without(key)
           n == Len(cached)
<1>0. CacheFits(cached) /\ n \in Nat /\ DOMAIN cached = 1..n /\ cached \in Seq(CacheEntry)
  BY ConfigParts DEF ConfigInv
<1>1. CASE ~IsCached(key) BY <1>0, <1>1 DEF Without, IsCached
<1>2. CASE IsCached(key)
  <2> DEFINE p == Position(key)
  <2>1. p \in 1..n /\ cached[p].key = key BY <1>0, <1>2 DEF Position, IsCached
  <2>2. t = SubSeq(cached, 1, p - 1) \o SubSeq(cached, p + 1, Len(cached)) BY <1>2 DEF Without
  <2> HIDE DEF p, t, n
  <2>3. /\ t \in Seq(CacheEntry) /\ Len(t) = n - 1
        /\ \A j \in 1..n - 1 : t[j] = IF j < p THEN cached[j] ELSE cached[j + 1]
    <3>1. cached \in Seq(CacheEntry) /\ p \in 1..Len(cached) BY <1>0, <2>1 DEF n
    <3>2. /\ t \in Seq(CacheEntry) /\ Len(t) = Len(cached) - 1
          /\ \A j \in 1..Len(cached) - 1 : t[j] = IF j < p THEN cached[j] ELSE cached[j + 1]
      BY <2>2, <3>1, OneTakenOut
    <3> QED BY <3>2 DEF n
  <2>4. ASSUME NEW j \in 1..n - 1
        PROVE  \E i \in 1..n : i # p /\ t[j] = cached[i] /\ i = IF j < p THEN j ELSE j + 1
    <3>1. CASE j < p BY <1>0, <2>3, <3>1
    <3>2. CASE ~(j < p)
      <4>1. j + 1 \in 1..n /\ j + 1 # p BY <1>0, <2>1, <3>2
      <4> QED BY <2>3, <3>2, <4>1
    <3> QED BY <3>1, <3>2
  <2>5. \A i \in 1..n : \A k \in 1..n : cached[i].key = cached[k].key => i = k
    BY <1>0 DEF CacheFits, n
  <2>6. ASSUME NEW j \in 1..n - 1, NEW k \in 1..n - 1, t[j].key = t[k].key PROVE j = k
    <3>1. PICK i \in 1..n : t[j] = cached[i] /\ i = IF j < p THEN j ELSE j + 1 BY <2>4
    <3>2. PICK m \in 1..n : t[k] = cached[m] /\ m = IF k < p THEN k ELSE k + 1 BY <2>4
    <3>3. i = m BY <2>5, <2>6, <3>1, <3>2
    <3> QED BY <1>0, <2>1, <3>1, <3>2, <3>3
  <2>7. \A j \in 1..n - 1 : t[j].key # key /\ \E i \in 1..n : t[j] = cached[i] BY <2>1, <2>4, <2>5
  <2>8. n - 1 \in Nat /\ n - 1 <= n BY <1>0, <2>1
  <2> QED BY <2>3, <2>6, <2>7, <2>8 DEF CacheFits, t, n
<1> QED BY <1>1, <1>2

(* set: the new entry, and the oldest one may go. *)
LEMMA WithFits ==
  ASSUME ConfigInv, NEW key \in CacheKeys, NEW v \in 1..MaxVersion
  PROVE  /\ CacheFits(With(key, v)) /\ Len(With(key, v)) <= MaxCached
         /\ \A j \in 1..Len(With(key, v)) :
            \/ With(key, v)[j] = [key |-> key, version |-> v]
            \/ \E i \in 1..Len(cached) : With(key, v)[j] = cached[i]
<1> DEFINE w == Without(key)
           x == [key |-> key, version |-> v]
           s == Append(w, x)
           n == Len(w)
<1>1. /\ CacheFits(w) /\ n \in Nat /\ n <= Len(cached)
      /\ \A j \in 1..n : w[j].key # key /\ \E i \in 1..Len(cached) : w[j] = cached[i]
      /\ Len(cached) \in Nat /\ Len(cached) <= MaxCached /\ MaxCached \in Nat \ {0}
  BY WithoutFits, ConfigParts
<1>2. x \in CacheEntry /\ x.key = key BY DEF CacheEntry
<1>3. With(key, v) = IF Len(s) > MaxCached THEN Tail(s) ELSE s BY DEF With
<1> HIDE DEF w, x, n
<1>4. /\ s \in Seq(CacheEntry) /\ s # <<>> /\ Len(s) = n + 1 /\ s[n + 1] = x /\ \A j \in 1..n : s[j] = w[j]
  BY <1>1, <1>2, AppendProperties DEF CacheFits, n
<1> HIDE DEF s
<1>5. ASSUME NEW j \in 1..n + 1
      PROVE  s[j] = x \/ (j \in 1..n /\ \E i \in 1..Len(cached) : s[j] = cached[i])
  BY <1>1, <1>4
<1>6. ASSUME NEW i \in 1..n + 1, NEW j \in 1..n + 1, s[i].key = s[j].key PROVE i = j
  <2>1. CASE i \in 1..n /\ j \in 1..n BY <1>1, <1>4, <1>6, <2>1 DEF CacheFits, n
  <2>2. CASE i \in 1..n /\ j = n + 1 BY <1>1, <1>2, <1>4, <1>6, <2>2
  <2>3. CASE i = n + 1 /\ j \in 1..n BY <1>1, <1>2, <1>4, <1>6, <2>3
  <2> QED BY <1>1, <2>1, <2>2, <2>3
<1>7. CASE ~(n + 1 > MaxCached)
  <2>1. With(key, v) = s BY <1>3, <1>4, <1>7
  <2>2. CacheFits(s) /\ Len(s) <= MaxCached BY <1>1, <1>4, <1>6, <1>7 DEF CacheFits
  <2>3. \A j \in 1..Len(s) : s[j] = x \/ \E i \in 1..Len(cached) : s[j] = cached[i] BY <1>4, <1>5
  <2> QED BY <2>1, <2>2, <2>3 DEF x
<1>8. CASE n + 1 > MaxCached
  <2> DEFINE t == Tail(s)
  <2>1. With(key, v) = t BY <1>3, <1>4, <1>8
  <2>2. s \in Seq(CacheEntry) /\ s # <<>> BY <1>4
  <2>3. t \in Seq(CacheEntry) /\ Len(t) = Len(s) - 1 /\ \A j \in 1..Len(t) : t[j] = s[j + 1]
    BY <2>2, HeadTailProperties
  <2> HIDE DEF t
  <2>4. Len(t) = n /\ n <= MaxCached BY ONLY <1>1, <1>4, <2>3
  <2>5. \A j \in 1..n : j + 1 \in 1..n + 1 BY <1>1
  <2>6. ASSUME NEW i \in 1..n, NEW j \in 1..n, t[i].key = t[j].key PROVE i = j
    <3>1. i + 1 = j + 1 BY <1>6, <2>3, <2>4, <2>5, <2>6
    <3> QED BY <1>1, <3>1
  <2>7. \A j \in 1..n : t[j] = x \/ \E i \in 1..Len(cached) : t[j] = cached[i]
    BY <1>5, <2>3, <2>4, <2>5
  <2> QED BY <2>1, <2>3, <2>4, <2>6, <2>7 DEF CacheFits, x
<1> QED BY <1>1, <1>7, <1>8

----------------------------------------
(* ModelConfigs: the steps. *)

LEMMA ConfigInitInv == ConfigInit => ConfigInv
<1> SUFFICES ASSUME ConfigInit PROVE ConfigInv OBVIOUS
<1>1. /\ rows = <<>> /\ version = 0 /\ cached = <<>> /\ missed = {}
      /\ edit = [e \in Editors |-> NotEditing] /\ read = [r \in Readers |-> NotReading]
  BY DEF ConfigInit
<1>2. /\ Default \in CacheKeys /\ MaxCached \in Nat \ {0} /\ MaxVersion \in Nat
      /\ rows \in Seq(Row) /\ cached \in Seq(CacheEntry) /\ Len(rows) = 0 /\ Len(cached) = 0
  BY <1>1, EmptySeq, ModelConfigsAssumption DEF CacheKeys
<1>3. /\ NotReading \in Readings /\ NotReading.at = "none"
      /\ NotEditing \in Edits /\ NotEditing.at = "none"
  BY <1>2 DEF NotReading, NotEditing, Readings, Edits
<1>4. ConfigTypeOK
  <2>1. edit \in [Editors -> Edits] /\ read \in [Readers -> Readings] BY <1>1, <1>3
  <2> QED BY <1>1, <1>2, <2>1 DEF ConfigTypeOK, Row, CacheEntry, Edits, Readings
<1>5. RowsFit(rows) /\ RowsNumbered /\ CacheFits(cached)
  BY <1>2 DEF RowsFit, RowsNumbered, CacheFits
<1>6. EditsFit /\ FreshUnlessMissed /\ FloorsFit
  BY <1>1, <1>2, <1>3 DEF EditsFit, FreshUnlessMissed, FloorsFit
<1> QED BY <1>4, <1>5, <1>6 DEF ConfigInv

(* Nothing but an upsert, or a step of one who reads. *)
LEMMA EditorMoves ==
  ASSUME ConfigInv, NEW e \in Editors, NEW x \in Edits, x.at # "none" => x.code \in Codes,
         edit' = [edit EXCEPT ![e] = x], UNCHANGED <<rows, version, cached, read, missed>>
  PROVE  ConfigInv'
<1>1. edit' \in [Editors -> Edits] BY ConfigParts
<1>2. ConfigTypeOK' BY <1>1 DEF ConfigInv, ConfigTypeOK, Edits
<1>3. EditsFit' BY ConfigParts DEF ConfigInv, EditsFit
<1>4. RowsFit(rows)' /\ RowsNumbered' /\ CacheFits(cached)'
  BY DEF ConfigInv, RowsFit, RowsNumbered, CacheFits
<1>5. FreshUnlessMissed' /\ FloorsFit'
  BY DEF ConfigInv, FreshUnlessMissed, FloorsFit, FloorFits, Loaded, RowsOf
<1> QED BY <1>2, <1>3, <1>4, <1>5 DEF ConfigInv

LEMMA SelectKeeps == ASSUME ConfigInv, NEW e \in Editors, NEW c \in Codes, Select(e, c) PROVE ConfigInv'
<1> DEFINE x == [at |-> "write", code |-> c, exists |-> Has(c)]
<1>1. edit' = [edit EXCEPT ![e] = x] /\ UNCHANGED <<rows, version, cached, read, missed>>
  BY DEF Select
<1>2. x.code \in Codes OBVIOUS
<1>3. x \in Edits
  <2>1. Has(c) \in BOOLEAN BY DEF Has
  <2> QED BY <2>1 DEF Edits, CacheKeys
<1> HIDE DEF x
<1> QED BY <1>1, <1>2, <1>3, EditorMoves

LEMMA WriteRowKeeps == ASSUME ConfigInv, NEW e \in Editors, WriteRow(e) PROVE ConfigInv'
<1> DEFINE x == IF Has(edit[e].code) /\ ~edit[e].exists THEN NotEditing
                ELSE [edit[e] EXCEPT !.at = "commit"]
<1>1. /\ edit[e].at = "write" /\ edit' = [edit EXCEPT ![e] = x]
      /\ UNCHANGED <<rows, version, cached, read, missed>>
  BY DEF WriteRow
<1>2. edit[e] \in Edits /\ edit[e].code \in Codes /\ NotEditing \in Edits /\ NotEditing.at = "none"
  BY <1>1, ConfigParts DEF ConfigInv, EditsFit
<1>3. x = NotEditing \/ x = [edit[e] EXCEPT !.at = "commit"] OBVIOUS
<1> HIDE DEF x
<1>4. x \in Edits /\ (x.at # "none" => x.code \in Codes) BY <1>2, <1>3 DEF Edits
<1> QED BY <1>1, <1>4, EditorMoves

LEMMA EditFailsKeeps == ASSUME ConfigInv, NEW e \in Editors, EditFails(e) PROVE ConfigInv'
<1>1. edit' = [edit EXCEPT ![e] = NotEditing] /\ UNCHANGED <<rows, version, cached, read, missed>>
  BY DEF EditFails
<1> QED BY <1>1, ConfigParts, EditorMoves

LEMMA ReaderMoves ==
  ASSUME ConfigInv, NEW r \in Readers, NEW x \in Readings,
         read' = [read EXCEPT ![r] = x], UNCHANGED <<rows, version, edit, cached, missed>>,
         x.at = "answer" => x.version = Loaded(x.key),
         x.at # "none" /\ ~x.late => x.floor <= Loaded(x.key),
         x.at = "done" /\ ~x.late => x.version >= x.floor,
         x.at = "wait" => x.floor = 0
  PROVE  ConfigInv'
<1>1. read' \in [Readers -> Readings] BY ConfigParts
<1>2. ConfigTypeOK' BY <1>1 DEF ConfigInv, ConfigTypeOK, Readings
<1>3. RowsFit(rows)' /\ RowsNumbered' /\ CacheFits(cached)' /\ EditsFit'
  BY DEF ConfigInv, RowsFit, RowsNumbered, CacheFits, EditsFit
<1>4. \A k : Loaded(k)' = Loaded(k) BY DEF Loaded, RowsOf
<1>5. \A q \in Readers : read'[q] = IF q = r THEN x ELSE read[q] BY ConfigParts
<1>6. FreshUnlessMissed' BY <1>4, <1>5 DEF ConfigInv, FreshUnlessMissed
<1>7. /\ x.floor \in Nat /\ x.version \in Nat /\ Loaded(x.key) \in Nat
      /\ \A i \in 1..Len(cached) : cached[i].version \in Nat
      /\ \A q \in Readers : read[q].version \in Nat /\ read[q].floor \in Nat
  <2>1. MaxVersion \in Nat BY ConfigParts
  <2>2. x.key \in CacheKeys /\ x.floor \in Nat /\ x.version \in Nat BY <2>1 DEF Readings
  <2>3. Loaded(x.key) \in Nat BY <2>1, <2>2, LoadedTyped
  <2>4. \A i \in 1..Len(cached) : cached[i].version \in Nat BY <2>1, ConfigParts DEF CacheEntry
  <2>5. \A q \in Readers : read[q].version \in Nat /\ read[q].floor \in Nat
    BY <2>1, ConfigParts DEF Readings
  <2> QED BY <2>2, <2>3, <2>4, <2>5
<1>8. FloorsFit'
  <2> SUFFICES ASSUME NEW q \in Readers, read'[q].at # "none", ~read'[q].late
               PROVE  FloorFits(read[q])'
    BY DEF FloorsFit
  <2>1. CASE q = r
    <3>1. read'[q] = x BY <1>5, <2>1
    <3>2. x.floor <= Loaded(x.key) /\ (x.at \in {"answer", "done"} => x.version >= x.floor)
      BY <1>7, <3>1
    <3>3. ASSUME x.at = "wait"
          PROVE  /\ \A i \in 1..Len(cached) : cached[i].version >= x.floor
                 /\ \A p \in Readers : read'[p].at = "answer" => read'[p].version >= x.floor
      <4>1. x.floor = 0 /\ \A p \in Readers : read'[p].version \in Nat BY <1>5, <1>7, <3>3
      <4> QED BY <1>7, <4>1
    <3> QED BY <1>4, <3>1, <3>2, <3>3 DEF FloorFits
  <2>2. CASE q # r
    <3>1. read'[q] = read[q] /\ FloorFits(read[q]) BY <1>5, <2>2 DEF ConfigInv, FloorsFit
    <3> DEFINE y == read[q]
    <3>2. /\ y.floor <= Loaded(y.key) /\ (y.at \in {"answer", "done"} => y.version >= y.floor)
          /\ y.floor \in Nat
      BY <1>7, <3>1 DEF FloorFits
    <3>3. ASSUME y.at = "wait", NEW p \in Readers, read'[p].at = "answer", read'[p].key = y.key
          PROVE  read'[p].version >= y.floor
      <4>1. CASE p = r
        <5>1. read'[p] = x /\ x.version = Loaded(y.key) BY <1>5, <3>3, <4>1
        <5> HIDE DEF y
        <5> QED BY <1>7, <3>2, <5>1
      <4>2. CASE p # r BY <1>5, <3>1, <3>3, <4>2 DEF FloorFits
      <4> QED BY <4>1, <4>2
    <3> QED BY <1>4, <3>1, <3>2, <3>3 DEF FloorFits
  <2> QED BY <2>1, <2>2
<1> QED BY <1>2, <1>3, <1>6, <1>8 DEF ConfigInv

LEMMA LoadKeeps == ASSUME ConfigInv, NEW r \in Readers, Load(r) PROVE ConfigInv'
<1> DEFINE v == Loaded(read[r].key)
           x == [read[r] EXCEPT !.at = "answer", !.version = v]
<1>1. /\ read[r].at = "load" /\ UNCHANGED <<rows, version, edit, cached, missed>> BY DEF Load
<1>2. read' = [read EXCEPT ![r] = x] BY ConfigParts DEF Load
<1>3. read[r] \in Readings /\ v \in 0..MaxVersion BY ConfigParts, LoadedTyped DEF Readings
<1>4. ~read[r].late => read[r].floor <= v BY <1>1 DEF ConfigInv, FloorsFit, FloorFits
<1>5. v = Loaded(read[r].key) OBVIOUS
<1> HIDE DEF v
<1>6. /\ x \in Readings /\ x.at = "answer" /\ x.version = v /\ x.key = read[r].key
      /\ x.late = read[r].late /\ x.floor = read[r].floor
  BY <1>3 DEF Readings
<1> HIDE DEF x
<1> QED BY <1>1, <1>2, <1>4, <1>5, <1>6, ReaderMoves

LEMMA LoadFailsKeeps == ASSUME ConfigInv, NEW r \in Readers, LoadFails(r) PROVE ConfigInv'
<1>1. read' = [read EXCEPT ![r] = NotReading] /\ UNCHANGED <<rows, version, edit, cached, missed>>
  BY DEF LoadFails
<1> QED BY <1>1, ConfigParts, ReaderMoves

LEMMA GivesBackKeeps == ASSUME ConfigInv, NEW r \in Readers, GivesBack(r) PROVE ConfigInv'
<1>1. read' = [read EXCEPT ![r] = NotReading] /\ UNCHANGED <<rows, version, edit, cached, missed>>
  BY DEF GivesBack
<1> QED BY <1>1, ConfigParts, ReaderMoves

(* Asks: what it says when the key is in the entries, and when it is not. *)
LEMMA AskedOf ==
  ASSUME ConfigInv, NEW r \in Readers, NEW key \in CacheKeys, NEW s, CacheFits(s),
         NEW floor \in 0..MaxVersion, NEW late \in BOOLEAN, Asks(r, key, s, floor, late)
  PROVE  \E x \in Readings :
           /\ read' = [read EXCEPT ![r] = x]
           /\ x.key = key /\ x.floor = floor /\ x.late = late
           /\ \/ x.at = "done" /\ \E i \in 1..Len(s) : s[i].key = key /\ x.version = s[i].version
              \/ x.at \in {"load", "wait"} /\ \A i \in 1..Len(s) : s[i].key # key
           /\ x.at = "wait" => ~ManagerFree
<1> DEFINE hit == \E i \in DOMAIN s : s[i].key = key
           v == s[CHOOSE i \in DOMAIN s : s[i].key = key].version
           x == [key |-> key, floor |-> floor, late |-> late, version |-> IF hit THEN v ELSE 0,
                 at |-> IF hit THEN "done" ELSE IF ManagerFree THEN "load" ELSE "wait"]
<1>1. read' = [read EXCEPT ![r] = x] BY DEF Asks
<1>2. DOMAIN s = 1..Len(s) /\ \A i \in 1..Len(s) : s[i] \in CacheEntry
  BY LenProperties, ElementOfSeq DEF CacheFits
<1>3. hit => \E i \in 1..Len(s) : s[i].key = key /\ v = s[i].version BY <1>2
<1>4. hit => v \in 1..MaxVersion BY <1>2, <1>3 DEF CacheEntry
<1>5. ~hit => \A i \in 1..Len(s) : s[i].key # key BY <1>2
<1>6. MaxVersion \in Nat BY ModelConfigsAssumption
<1> HIDE DEF hit, v
<1>7. /\ x.key = key /\ x.floor = floor /\ x.late = late
      /\ x.version = (IF hit THEN v ELSE 0)
      /\ x.at = (IF hit THEN "done" ELSE IF ManagerFree THEN "load" ELSE "wait")
  OBVIOUS
<1>8. x \in Readings BY <1>4, <1>6 DEF Readings
<1> HIDE DEF x
<1> QED BY <1>1, <1>3, <1>5, <1>7, <1>8

LEMMA GetConfigKeeps ==
  ASSUME ConfigInv, NEW r \in Readers, NEW key \in CacheKeys, GetConfig(r, key) PROVE ConfigInv'
<1>1. Asks(r, key, cached, 0, FALSE) /\ UNCHANGED <<rows, version, edit, cached, missed>>
  BY DEF GetConfig
<1>2. PICK floor \in 0..MaxVersion : floor = 0 BY ConfigParts
<1>6. PICK late \in BOOLEAN : late = FALSE OBVIOUS
<1>3. PICK x \in Readings :
  /\ read' = [read EXCEPT ![r] = x]
  /\ x.key = key /\ x.floor = 0 /\ x.at \in {"done", "load", "wait"}
  <2>1. Asks(r, key, cached, floor, late) /\ CacheFits(cached) BY <1>1, <1>2, <1>6 DEF ConfigInv
  <2> QED BY <1>2, <2>1, AskedOf
<1>4. x.version \in 0..MaxVersion /\ Loaded(key) \in 0..MaxVersion BY LoadedTyped DEF Readings
<1>5. x.floor <= Loaded(x.key) /\ x.version >= x.floor BY <1>3, <1>4
<1> QED BY <1>1, <1>3, <1>5, ReaderMoves

LEMMA GetsLockKeeps == ASSUME ConfigInv, NEW r \in Readers, GetsLock(r) PROVE ConfigInv'
<1> DEFINE y == read[r]
<1>1. /\ y.at = "wait" /\ ManagerFree /\ Asks(r, y.key, cached, y.floor, y.late)
      /\ UNCHANGED <<rows, version, edit, cached, missed>>
  BY DEF GetsLock
<1>2. y.key \in CacheKeys /\ y.floor \in 0..MaxVersion /\ y.late \in BOOLEAN /\ CacheFits(cached)
  BY ConfigParts DEF ConfigInv, Readings
<1>3. ~y.late =>
  /\ y.floor <= Loaded(y.key)
  /\ \A i \in 1..Len(cached) : cached[i].key = y.key => cached[i].version >= y.floor
  BY <1>1 DEF ConfigInv, FloorsFit, FloorFits
<1> HIDE DEF y
<1>4. PICK x \in Readings :
        /\ read' = [read EXCEPT ![r] = x] /\ x.key = y.key /\ x.floor = y.floor /\ x.late = y.late
        /\ \/ x.at = "done" /\ \E i \in 1..Len(cached) : cached[i].key = y.key
                                                         /\ x.version = cached[i].version
           \/ x.at = "load"
  BY <1>1, <1>2, AskedOf
<1>5. x.at = "done" /\ ~x.late => x.version >= x.floor BY <1>3, <1>4
<1>6. x.at # "answer" /\ x.at # "wait" /\ (~x.late => x.floor <= Loaded(x.key)) BY <1>3, <1>4
<1> QED BY <1>1, <1>4, <1>5, <1>6, ReaderMoves

(* What is left of the cache, or comes into it, fits those who read. *)
LEMMA CacheMoves ==
  ASSUME ConfigInv, CacheFits(cached'), Len(cached') <= MaxCached,
         UNCHANGED <<rows, version, edit, read>>, missed' = missed,
         \A j \in 1..Len(cached') : \E i \in 1..Len(cached) : cached'[j] = cached[i]
  PROVE  ConfigInv'
<1>1. ConfigTypeOK' BY DEF ConfigInv, ConfigTypeOK, CacheFits, CacheEntry
<1>2. RowsFit(rows)' /\ RowsNumbered' /\ EditsFit' /\ \A k : Loaded(k)' = Loaded(k)
  BY DEF ConfigInv, RowsFit, RowsNumbered, EditsFit, Loaded, RowsOf
<1>3. FreshUnlessMissed' BY <1>2 DEF ConfigInv, FreshUnlessMissed
<1>4. FloorsFit'
  <2> SUFFICES ASSUME NEW r \in Readers, read[r].at # "none", ~read[r].late
               PROVE  FloorFits(read[r])'
    BY DEF FloorsFit
  <2>1. FloorFits(read[r]) BY DEF ConfigInv, FloorsFit
  <2> QED BY <1>2, <2>1 DEF FloorFits
<1>5. CacheFits(cached)' BY DEF CacheFits
<1> QED BY <1>1, <1>2, <1>3, <1>4, <1>5 DEF ConfigInv

LEMMA EntryExpiresKeeps ==
  ASSUME ConfigInv, NEW key \in CacheKeys, EntryExpires(key) PROVE ConfigInv'
<1>1. cached' = Without(key) /\ UNCHANGED <<rows, version, edit, read, missed>> BY DEF EntryExpires
<1>2. /\ CacheFits(cached') /\ Len(cached') \in Nat /\ Len(cached') <= Len(cached)
      /\ \A j \in 1..Len(cached') : \E i \in 1..Len(cached) : cached'[j] = cached[i]
  BY <1>1, WithoutFits
<1>3. Len(cached') <= MaxCached BY <1>2, ConfigParts
<1> QED BY <1>1, <1>2, <1>3, CacheMoves

(* refresh: what it waits for is as new as the row, unless it knows that
   an older one is on its way. *)
LEMMA RefreshKeeps ==
  ASSUME ConfigInv, NEW r \in Readers, NEW key \in CacheKeys, Refresh(r, key) PROVE ConfigInv'
<1> DEFINE late == OnItsWay(key)
           floor == Loaded(key)
<1>1. /\ cached' = Without(key) /\ Asks(r, key, cached', floor, late)
      /\ missed' = IF late THEN missed ELSE missed \ {key}
      /\ UNCHANGED <<rows, version, edit>>
  BY DEF Refresh, Forgotten
<1>2. late \in BOOLEAN /\ floor \in 0..MaxVersion /\ floor = Loaded(key) BY LoadedTyped DEF OnItsWay
<1>3. ~late => \A q \in Readers : read[q].at = "answer" /\ read[q].key = key
                                    => read[q].version = floor
  BY DEF OnItsWay
<1> HIDE DEF late, floor
<1>4. /\ CacheFits(cached') /\ Len(cached') \in Nat /\ Len(cached') <= Len(cached)
      /\ \A j \in 1..Len(cached') :
         /\ cached'[j].key # key
         /\ \E i \in 1..Len(cached) : cached'[j] = cached[i]
  BY <1>1, WithoutFits
<1>5. Len(cached') <= MaxCached BY <1>4, ConfigParts
<1>6. PICK x \in Readings :
        /\ read' = [read EXCEPT ![r] = x] /\ x.key = key /\ x.floor = floor /\ x.late = late
        /\ x.at \in {"load", "wait"}
  <2>1. PICK c : c = cached' OBVIOUS
  <2>2. CacheFits(c) /\ Asks(r, key, c, floor, late) /\ \A i \in 1..Len(c) : c[i].key # key
    BY <1>1, <1>4, <2>1
  <2> QED BY <1>2, <2>2, AskedOf
<1>7. read' \in [Readers -> Readings] /\ \A q \in Readers : read'[q] = IF q = r THEN x ELSE read[q]
  BY <1>6, ConfigParts
<1>8. ConfigTypeOK'
  <2>1. missed' \subseteq CacheKeys BY <1>1, ConfigParts
  <2> QED BY <1>1, <1>4, <1>5, <1>7, <2>1 DEF ConfigInv, ConfigTypeOK, CacheFits, CacheEntry, Readings
<1>9. RowsFit(rows)' /\ RowsNumbered' /\ EditsFit' /\ \A k : Loaded(k)' = Loaded(k)
  BY <1>1 DEF ConfigInv, RowsFit, RowsNumbered, EditsFit, Loaded, RowsOf
<1>10. FreshUnlessMissed'
  <2>1. ASSUME NEW j \in 1..Len(cached')
        PROVE  cached'[j].key \in missed' \/ cached'[j].version = Loaded(cached'[j].key)
    <3>1. PICK i \in 1..Len(cached) : cached'[j] = cached[i] BY <1>4
    <3>2. cached[i].key \in missed \/ cached[i].version = Loaded(cached[i].key)
      BY DEF ConfigInv, FreshUnlessMissed
    <3> QED BY <1>1, <1>4, <3>1, <3>2
  <2>2. ASSUME NEW q \in Readers, read'[q].at = "answer"
        PROVE  read'[q].key \in missed' \/ read'[q].version = Loaded(read'[q].key)
    <3>1. q # r /\ read'[q] = read[q] BY <1>6, <1>7, <2>2
    <3>2. read[q].key \in missed \/ read[q].version = Loaded(read[q].key)
      BY <2>2, <3>1 DEF ConfigInv, FreshUnlessMissed
    <3> QED BY <1>1, <1>2, <1>3, <2>2, <3>1, <3>2
  <2> QED BY <1>9, <2>1, <2>2 DEF FreshUnlessMissed
<1>11. FloorsFit'
  <2> SUFFICES ASSUME NEW q \in Readers, read'[q].at # "none", ~read'[q].late
               PROVE  FloorFits(read[q])'
    BY DEF FloorsFit
  <2>1. CASE q = r
    <3>1. read'[q] = x /\ ~late /\ x.floor <= Loaded(x.key) /\ x.at \notin {"answer", "done"}
      BY <1>2, <1>6, <1>7, <2>1
    <3>2. \A j \in 1..Len(cached') : cached'[j].key # x.key BY <1>4, <1>6
    <3>3. ASSUME NEW p \in Readers, read'[p].at = "answer", read'[p].key = x.key
          PROVE  read'[p].version >= x.floor
      <4>1. read'[p] = read[p] BY <1>6, <1>7, <3>3
      <4>2. read[p].version = floor BY <1>3, <1>6, <3>1, <3>3, <4>1
      <4> QED BY <1>2, <1>6, <4>1, <4>2
    <3> QED BY <1>9, <3>1, <3>2, <3>3 DEF FloorFits
  <2>2. CASE q # r
    <3>1. read'[q] = read[q] /\ FloorFits(read[q]) BY <1>7, <2>2 DEF ConfigInv, FloorsFit
    <3>2. \A p \in Readers : read'[p].at = "answer" => read'[p] = read[p] BY <1>6, <1>7
    <3> QED BY <1>4, <1>9, <3>1, <3>2 DEF FloorFits
  <2> QED BY <2>1, <2>2
<1>12. CacheFits(cached)' BY <1>4 DEF CacheFits
<1> QED BY <1>8, <1>9, <1>10, <1>11, <1>12 DEF ConfigInv

LEMMA AnswerKeeps == ASSUME ConfigInv, NEW r \in Readers, Answer(r) PROVE ConfigInv'
<1> DEFINE y == read[r]
           x == [y EXCEPT !.at = "done"]
<1>1. y.at = "answer" /\ y \in Readings /\ UNCHANGED <<rows, version, edit, missed>>
  BY ConfigParts DEF Answer
<1>2. CASE y.version = 0
  <2>1. read' = [read EXCEPT ![r] = NotReading] /\ UNCHANGED <<rows, version, edit, cached, missed>>
    BY <1>1, <1>2 DEF Answer
  <2> QED BY <2>1, ConfigParts, ReaderMoves
<1>3. CASE y.version # 0
  <2>1. cached' = With(y.key, y.version) /\ read' = [read EXCEPT ![r] = x] BY <1>3 DEF Answer
  <2>2. y.key \in CacheKeys /\ y.version \in 1..MaxVersion /\ y.floor \in 0..MaxVersion
    BY <1>1, <1>3, ConfigParts DEF Readings
  <2>3. /\ x \in Readings /\ x.at = "done" /\ x.key = y.key /\ x.version = y.version
        /\ x.floor = y.floor /\ x.late = y.late
    BY <1>1 DEF Readings
  <2>4. y.key \in missed \/ y.version = Loaded(y.key) BY <1>1 DEF ConfigInv, FreshUnlessMissed
  <2>5. ~y.late => y.floor <= Loaded(y.key) /\ y.version >= y.floor
    BY <1>1 DEF ConfigInv, FloorsFit, FloorFits
  <2>6. \A q \in Readers : read[q].at = "wait" /\ ~read[q].late /\ read[q].key = y.key
                             => y.version >= read[q].floor
    BY <1>1 DEF ConfigInv, FloorsFit, FloorFits
  <2> HIDE DEF y, x
  <2>7. /\ CacheFits(cached') /\ Len(cached') <= MaxCached
        /\ \A j \in 1..Len(cached') :
           \/ cached'[j].key = y.key /\ cached'[j].version = y.version
           \/ \E i \in 1..Len(cached) : cached'[j] = cached[i]
    <3>1. PICK w : w = With(y.key, y.version) OBVIOUS
    <3>2. /\ CacheFits(w) /\ Len(w) <= MaxCached
          /\ \A j \in 1..Len(w) : \/ w[j] = [key |-> y.key, version |-> y.version]
                                 \/ \E i \in 1..Len(cached) : w[j] = cached[i]
      BY <2>2, <3>1, WithFits
    <3> QED BY <2>1, <3>1, <3>2
  <2>8. /\ read' \in [Readers -> Readings]
        /\ \A q \in Readers : read'[q] = IF q = r THEN x ELSE read[q]
    BY <2>1, <2>3, ConfigParts
  <2>9. ConfigTypeOK'
    BY <1>1, <2>7, <2>8 DEF ConfigInv, ConfigTypeOK, CacheFits, CacheEntry, Readings
  <2>10. RowsFit(rows)' /\ RowsNumbered' /\ EditsFit' /\ \A k : Loaded(k)' = Loaded(k)
    BY <1>1 DEF ConfigInv, RowsFit, RowsNumbered, EditsFit, Loaded, RowsOf
  <2>11. FreshUnlessMissed'
    <3>1. \A q \in Readers : read'[q].at = "answer" => read'[q] = read[q] BY <2>3, <2>8
    <3>2. \A j \in 1..Len(cached') :
      \/ cached'[j].key \in missed
      \/ cached'[j].version = Loaded(cached'[j].key)
      BY <2>4, <2>7 DEF ConfigInv, FreshUnlessMissed
    <3> QED BY <1>1, <2>10, <3>1, <3>2 DEF ConfigInv, FreshUnlessMissed
  <2>12. FloorsFit'
    <3> SUFFICES ASSUME NEW q \in Readers, read'[q].at # "none", ~read'[q].late
                 PROVE  FloorFits(read[q])'
      BY DEF FloorsFit
    <3>1. CASE q = r BY <2>3, <2>5, <2>8, <2>10, <3>1 DEF FloorFits
    <3>2. CASE q # r
      <4>1. read'[q] = read[q] /\ FloorFits(read[q]) BY <2>8, <3>2 DEF ConfigInv, FloorsFit
      <4>2. \A p \in Readers : read'[p].at = "answer" => read'[p] = read[p] BY <2>3, <2>8
      <4>3. ASSUME read[q].at = "wait", NEW j \in 1..Len(cached'), cached'[j].key = read[q].key
            PROVE  cached'[j].version >= read[q].floor
        <5>1. CASE cached'[j].key = y.key /\ cached'[j].version = y.version
          BY <2>6, <4>1, <4>3, <5>1
        <5>2. CASE \E i \in 1..Len(cached) : cached'[j] = cached[i]
          BY <4>1, <4>3, <5>2 DEF FloorFits
        <5> QED BY <2>7, <5>1, <5>2
      <4> QED BY <2>10, <4>1, <4>2, <4>3 DEF FloorFits
    <3> QED BY <3>1, <3>2
  <2>13. CacheFits(cached)' BY <2>7 DEF CacheFits
  <2> QED BY <2>9, <2>10, <2>11, <2>12, <2>13 DEF ConfigInv
<1> QED BY <1>2, <1>3

(* What a commit does to the rows: none goes, none gets an older version,
   and what a key says changes for the keys M only. *)
LEMMA RowsGrow ==
  ASSUME NEW rs, NEW ss, NEW M, RowsFit(rs), RowsFit(ss), Len(rs) <= Len(ss),
         \A i \in 1..Len(rs) : /\ ss[i].code = rs[i].code /\ rs[i].version <= ss[i].version
                               /\ rs[i].code \notin M => ss[i].version = rs[i].version,
         \A i \in 1..Len(ss) : i > Len(rs) => ss[i].code \in M,
         Len(ss) > 0 /\ ss[1].code \in M => Default \in M
  PROVE  \A k \in CacheKeys :
    /\ LoadedIn(rs, k) <= LoadedIn(ss, k)
    /\ k \notin M => LoadedIn(ss, k) = LoadedIn(rs, k)
<1>1. /\ Len(rs) \in Nat /\ Len(ss) \in Nat /\ MaxVersion \in Nat
      /\ \A k \in CacheKeys : LoadedIn(rs, k) \in Nat /\ LoadedIn(ss, k) \in Nat
      /\ \A i \in 1..Len(rs) : i \in 1..Len(ss)
      /\ \A i \in 1..Len(rs) : LoadedIn(rs, rs[i].code) = rs[i].version
      /\ \A i \in 1..Len(ss) : LoadedIn(ss, ss[i].code) = ss[i].version
  BY LoadedIs, ModelConfigsAssumption
<1> SUFFICES ASSUME NEW k \in CacheKeys
             PROVE  /\ LoadedIn(rs, k) <= LoadedIn(ss, k)
                    /\ k \notin M => LoadedIn(ss, k) = LoadedIn(rs, k)
  OBVIOUS
<1>2. CASE k = Default
  <2>1. /\ LoadedIn(rs, k) = IF Len(rs) = 0 THEN 0 ELSE rs[1].version
        /\ LoadedIn(ss, k) = IF Len(ss) = 0 THEN 0 ELSE ss[1].version
    BY <1>2, LoadedIs
  <2>2. CASE Len(rs) = 0
    <3>1. LoadedIn(rs, k) = 0 BY <2>1, <2>2
    <3>2. Len(ss) # 0 => k \in M BY <1>1, <1>2, <2>2
    <3>3. Len(ss) = 0 => LoadedIn(ss, k) = 0 BY <2>1
    <3> QED BY <1>1, <3>1, <3>2, <3>3
  <2>3. CASE Len(rs) # 0
    <3>1. 1 \in 1..Len(rs) /\ Len(ss) # 0 /\ Len(ss) > 0 BY <1>1, <2>3
    <3>2. LoadedIn(rs, k) = rs[1].version /\ LoadedIn(ss, k) = ss[1].version BY <2>1, <2>3, <3>1
    <3>3. k \notin M => rs[1].code \notin M BY <1>2, <3>1
    <3> QED BY <3>1, <3>2, <3>3
  <2> QED BY <2>2, <2>3
<1>3. CASE k # Default /\ \E i \in 1..Len(rs) : rs[i].code = k
  <2>1. PICK i \in 1..Len(rs) : rs[i].code = k BY <1>3
  <2>2. LoadedIn(rs, k) = rs[i].version /\ LoadedIn(ss, k) = ss[i].version BY <1>1, <2>1
  <2> QED BY <2>1, <2>2
<1>4. CASE k # Default /\ \A i \in 1..Len(rs) : rs[i].code # k
  <2>1. k \in Codes BY <1>4 DEF CacheKeys
  <2>2. LoadedIn(rs, k) = 0 BY <1>4, <2>1, LoadedIs
  <2>3. k \notin M => LoadedIn(ss, k) = 0
    <3> SUFFICES ASSUME k \notin M PROVE \A i \in 1..Len(ss) : ss[i].code # k BY <2>1, LoadedIs
    <3> SUFFICES ASSUME NEW i \in 1..Len(ss), ss[i].code = k PROVE FALSE OBVIOUS
    <3>1. CASE i > Len(rs) BY <3>1
    <3>2. CASE ~(i > Len(rs))
      <4>1. i \in 1..Len(rs) BY <1>1, <3>2
      <4> QED BY <1>4, <4>1
    <3> QED BY <3>1, <3>2
  <2> QED BY <1>1, <2>2, <2>3
<1> QED BY <1>2, <1>3, <1>4

LEMMA SameUpTo == ASSUME NEW a \in Nat, NEW b \in Nat, 1..a = 1..b PROVE a = b
<1>1. CASE a < b
  <2>1. b \in 1..b /\ b \notin 1..a BY <1>1
  <2> QED BY <2>1
<1>2. CASE b < a
  <2>1. a \in 1..a /\ a \notin 1..b BY <1>2
  <2> QED BY <2>1
<1> QED BY <1>1, <1>2

LEMMA CommitChanges ==
  ASSUME ConfigInv, NEW e \in Editors, CommitRow(e)
  PROVE  /\ RowsFit(rows') /\ RowsNumbered' /\ missed \subseteq missed' /\ missed' \subseteq CacheKeys
         /\ \A k \in CacheKeys : /\ Loaded(k) <= Loaded(k)'
                                 /\ k \notin missed' => Loaded(k)' = Loaded(k)
<1> DEFINE c == edit[e].code
           v == version + 1
           new == [code |-> c, version |-> v]
           n == Len(rows)
<1>1. /\ edit[e].at = "commit" /\ version < MaxVersion /\ version' = v
      /\ rows' = IF Has(c) THEN [i \in DOMAIN rows |-> IF rows[i].code = c THEN new ELSE rows[i]]
                 ELSE Append(rows, new)
  BY DEF CommitRow
<1>2. PICK M : M = {c} \cup (IF rows'[1].code = c THEN {Default} ELSE {}) OBVIOUS
<1>3. missed' = missed \cup M BY <1>2 DEF CommitRow
<1>4. /\ c \in Codes /\ v \in 1..MaxVersion /\ n \in Nat /\ DOMAIN rows = 1..n /\ v > version
      /\ version \in Nat /\ rows \in Seq(Row) /\ \A i \in 1..n : rows[i] \in Row
  <2>1. c \in Codes BY <1>1 DEF ConfigInv, EditsFit
  <2> QED BY <1>1, <2>1, ConfigParts
<1>5. new \in Row /\ new.code = c /\ new.version = v BY <1>4 DEF Row
<1>6. /\ \A i \in 1..n : rows[i].version \in Nat /\ rows[i].version <= version
      /\ \A i \in 1..n : \A j \in 1..n : rows[i].code = rows[j].code => i = j
  <2>1. \A i \in 1..n : rows[i].version \in Nat BY <1>4 DEF Row
  <2>2. \A i \in 1..n : rows[i].version <= version BY <1>4 DEF ConfigInv, RowsNumbered
  <2>3. \A i \in 1..n : \A j \in 1..n : rows[i].code = rows[j].code => i = j
    BY <1>4 DEF ConfigInv, RowsFit
  <2> QED BY <2>1, <2>2, <2>3
<1>14. n \in Nat /\ n = Len(rows) BY <1>4
<1> HIDE DEF new, v, c, n
<1>7. PICK m \in Nat :
        /\ rows' \in Seq(Row) /\ Len(rows') = m /\ n <= m /\ m <= n + 1
        /\ \A i \in 1..n : rows'[i] = IF rows[i].code = c THEN new ELSE rows[i]
        /\ m = n + 1 => rows'[n + 1] = new /\ \A i \in 1..n : rows[i].code # c
  <2>1. CASE Has(c)
    <3>1. rows' = [i \in 1..n |-> IF rows[i].code = c THEN new ELSE rows[i]] BY <1>1, <1>4, <2>1
    <3>2. rows' \in [1..n -> Row] BY <1>4, <1>5, <3>1
    <3>3. rows' \in Seq(Row) /\ Len(rows') = n
      <4>1. rows' \in Seq(Row) BY <1>4, <3>2, SeqDef
      <4>2. Len(rows') \in Nat /\ 1..Len(rows') = 1..n BY <3>2, <4>1, LenProperties
      <4> QED BY <1>4, <4>1, <4>2, SameUpTo
    <3>4. n <= n /\ n <= n + 1 /\ n # n + 1 BY <1>14
    <3> QED BY <1>14, <3>1, <3>3, <3>4
  <2>2. CASE ~Has(c)
    <3>1. rows' = Append(rows, new) BY <1>1, <2>2
    <3>2. /\ rows' \in Seq(Row) /\ Len(rows') = n + 1 /\ rows'[n + 1] = new
          /\ \A i \in 1..n : rows'[i] = rows[i]
      BY <1>4, <1>5, <1>14, <3>1, AppendProperties
    <3>3. \A i \in 1..n : rows[i].code # c BY <1>4, <2>2 DEF Has
    <3>4. n + 1 \in Nat /\ n <= n + 1 /\ n + 1 <= n + 1 BY <1>14
    <3> QED BY <3>2, <3>3, <3>4
  <2> QED BY <2>1, <2>2
<1>8. \A i \in 1..n :
  /\ rows'[i].code = rows[i].code /\ rows[i].version <= rows'[i].version
  /\ rows[i].code # c => rows'[i].version = rows[i].version
  /\ rows'[i].version <= v
  BY <1>4, <1>5, <1>6, <1>7
<1>9. ASSUME NEW i \in 1..m PROVE i \in 1..n \/ (m = n + 1 /\ i = n + 1 /\ rows'[i] = new)
  BY <1>4, <1>7
<1>10. RowsFit(rows')
  <2> SUFFICES ASSUME NEW i \in 1..m, NEW j \in 1..m, rows'[i].code = rows'[j].code PROVE i = j
    BY <1>7 DEF RowsFit
  <2>1. CASE i \in 1..n /\ j \in 1..n BY <1>6, <1>8, <2>1
  <2>2. CASE i \in 1..n /\ j \notin 1..n BY <1>5, <1>7, <1>8, <1>9, <2>2
  <2>3. CASE i \notin 1..n /\ j \in 1..n BY <1>5, <1>7, <1>8, <1>9, <2>3
  <2>4. CASE i \notin 1..n /\ j \notin 1..n BY <1>9, <2>4
  <2> QED BY <2>1, <2>2, <2>3, <2>4
<1>11. RowsNumbered'
  <2>1. \A i \in 1..m : rows'[i].version <= v BY <1>4, <1>5, <1>8, <1>9
  <2> QED BY <1>1, <1>7, <2>1 DEF RowsNumbered
<1>12. \A k \in CacheKeys :
  /\ LoadedIn(rows, k) <= LoadedIn(rows', k)
  /\ k \notin M => LoadedIn(rows', k) = LoadedIn(rows, k)
  <2>1. PICK ss : ss = rows' OBVIOUS
  <2>2. RowsFit(rows) /\ RowsFit(ss) /\ Len(rows) <= Len(ss) BY <1>7, <1>10, <2>1 DEF ConfigInv, n
  <2>3. \A i \in 1..Len(rows) :
    /\ ss[i].code = rows[i].code /\ rows[i].version <= ss[i].version
    /\ rows[i].code \notin M => ss[i].version = rows[i].version
    BY <1>2, <1>8, <2>1 DEF n
  <2>4. \A i \in 1..Len(ss) : i > Len(rows) => ss[i].code \in M
    <3> SUFFICES ASSUME NEW i \in 1..m, i > n PROVE rows'[i].code \in M BY <1>7, <2>1 DEF n
    <3>1. i \notin 1..n BY <1>4
    <3> QED BY <1>2, <1>5, <1>9, <3>1
  <2>5. Len(ss) > 0 /\ ss[1].code \in M => Default \in M
    <3> SUFFICES ASSUME m > 0, rows'[1].code \in M PROVE Default \in M BY <1>7, <2>1
    <3>1. CASE rows'[1].code = c BY <1>2, <3>1
    <3>2. CASE rows'[1].code # c BY <1>2, <3>2
    <3> QED BY <3>1, <3>2
  <2>6. \A k \in CacheKeys :
    /\ LoadedIn(rows, k) <= LoadedIn(ss, k)
    /\ k \notin M => LoadedIn(ss, k) = LoadedIn(rows, k)
    BY <2>2, <2>3, <2>4, <2>5, RowsGrow
  <2> QED BY <2>1, <2>6
<1>13. M \subseteq CacheKeys BY <1>2, <1>4 DEF CacheKeys
<1> QED BY <1>3, <1>10, <1>11, <1>12, <1>13, LoadedAre, ConfigParts

LEMMA CommitRowKeeps == ASSUME ConfigInv, NEW e \in Editors, CommitRow(e) PROVE ConfigInv'
<1>1. /\ version < MaxVersion /\ version' = version + 1 /\ edit' = [edit EXCEPT ![e] = NotEditing]
      /\ UNCHANGED <<cached, read>>
  BY DEF CommitRow
<1>2. /\ RowsFit(rows)' /\ RowsNumbered' /\ missed \subseteq missed' /\ missed' \subseteq CacheKeys
      /\ \A k \in CacheKeys : /\ Loaded(k) <= Loaded(k)'
                              /\ k \notin missed' => Loaded(k)' = Loaded(k)
  BY CommitChanges DEF RowsFit
<1>3. \A k \in CacheKeys : Loaded(k) \in Nat /\ Loaded(k)' \in Nat
  BY <1>2, LoadedTyped, LoadedIs, LoadedAre, ConfigParts
<1>4. ConfigTypeOK'
  <2>1. version' \in 0..MaxVersion /\ edit' \in [Editors -> Edits] BY <1>1, ConfigParts
  <2> QED BY <1>1, <1>2, <2>1 DEF ConfigInv, ConfigTypeOK, RowsFit, Row, Edits
<1>5. CacheFits(cached)' /\ EditsFit' BY <1>1, ConfigParts DEF ConfigInv, CacheFits, EditsFit
<1>6. FreshUnlessMissed'
  <2>1. \A i \in 1..Len(cached) : cached[i].key \in CacheKeys BY ConfigParts DEF CacheEntry
  <2>2. \A r \in Readers : read[r].key \in CacheKeys BY ConfigParts DEF Readings
  <2> QED BY <1>1, <1>2, <2>1, <2>2 DEF ConfigInv, FreshUnlessMissed
<1>7. FloorsFit'
  <2> SUFFICES ASSUME NEW r \in Readers, read[r].at # "none", ~read[r].late
               PROVE  FloorFits(read[r])'
    BY <1>1 DEF FloorsFit
  <2>1. FloorFits(read[r]) /\ read[r].key \in CacheKeys /\ read[r].floor \in 0..MaxVersion
    BY ConfigParts DEF ConfigInv, FloorsFit, Readings
  <2>2. read[r].floor <= Loaded(read[r].key)'
    <3>1. PICK k \in CacheKeys, f \in 0..MaxVersion : k = read[r].key /\ f = read[r].floor BY <2>1
    <3>2. f <= Loaded(k) /\ Loaded(k) <= Loaded(k)' /\ Loaded(k) \in Nat /\ Loaded(k)' \in Nat
      BY <1>2, <1>3, <2>1, <3>1 DEF FloorFits
    <3>3. f <= Loaded(k)' BY <3>2
    <3> QED BY <1>1, <3>1, <3>3
  <2> QED BY <1>1, <2>1, <2>2 DEF FloorFits
<1> QED BY <1>2, <1>4, <1>5, <1>6, <1>7 DEF ConfigInv

LEMMA ConfigInductive == ASSUME ConfigInv, [ConfigNext]_configVars PROVE ConfigInv'
<1>1. CASE UNCHANGED configVars
  <2>1. UNCHANGED <<rows, version, edit, cached, read, missed>> BY <1>1 DEF configVars
  <2>2. ConfigTypeOK' BY <2>1 DEF ConfigInv, ConfigTypeOK
  <2>4. RowsFit(rows)' /\ CacheFits(cached)' BY <2>1 DEF ConfigInv, RowsFit, CacheFits
  <2>5. RowsNumbered' BY <2>1 DEF ConfigInv, RowsNumbered
  <2>6. EditsFit' BY <2>1 DEF ConfigInv, EditsFit
  <2>3. \A k : Loaded(k)' = Loaded(k) BY <2>1 DEF Loaded, RowsOf
  <2>7. FreshUnlessMissed' BY <2>1, <2>3 DEF ConfigInv, FreshUnlessMissed
  <2>8. FloorsFit' BY <2>1, <2>3 DEF ConfigInv, FloorsFit, FloorFits
  <2> QED BY <2>2, <2>4, <2>5, <2>6, <2>7, <2>8 DEF ConfigInv
<1>2. CASE \E e \in Editors : (\E c \in Codes : Select(e, c)) \/ WriteRow(e)
                              \/ CommitRow(e) \/ EditFails(e)
  BY <1>2, SelectKeeps, WriteRowKeeps, CommitRowKeeps, EditFailsKeeps
<1>3. CASE \E k \in CacheKeys : EntryExpires(k) \/ \E r \in Readers : GetConfig(r, k) \/ Refresh(r, k)
  BY <1>3, EntryExpiresKeeps, GetConfigKeeps, RefreshKeeps
<1>4. CASE \E r \in Readers : GetsLock(r) \/ Load(r) \/ Answer(r) \/ LoadFails(r) \/ GivesBack(r)
  BY <1>4, GetsLockKeeps, LoadKeeps, AnswerKeeps, LoadFailsKeeps, GivesBackKeeps
<1> QED BY <1>1, <1>2, <1>3, <1>4 DEF ConfigNext

LEMMA ConfigInvSound == ConfigInv => ConfigsSound
<1> SUFFICES ASSUME ConfigInv PROVE ConfigsSound OBVIOUS
<1>1. ASSUME NEW k \in CacheKeys, IsCached(k), CachedVersion(k) # Loaded(k) PROVE k \in missed
  <2> DEFINE p == Position(k)
  <2>1. p \in 1..Len(cached) /\ cached[p].key = k BY <1>1, ConfigParts DEF Position, IsCached
  <2>2. cached[p].version # Loaded(k) BY <1>1 DEF CachedVersion
  <2> HIDE DEF p
  <2> QED BY <2>1, <2>2 DEF ConfigInv, FreshUnlessMissed
<1>2. \A r \in Readers : read[r].at = "done" => read[r].late \/ read[r].version >= read[r].floor
  BY DEF ConfigInv, FloorsFit, FloorFits
<1>3. \A i, j \in DOMAIN rows : rows[i].code = rows[j].code => i = j
  BY ConfigParts DEF ConfigInv, RowsFit
<1> QED BY <1>1, <1>2, <1>3 DEF ConfigsSound, FreshConfigs, ConfigInv

(* For any number of codes, readers and upserts and any capacity of the
   cache: a cached configuration is what the table says unless its key is
   known to be stale, refresh returns nothing older than the row was when
   it began unless an older row was on its way into the cache, and a code
   has one row (ModelConfigManager, SqlAlchemyModelConfigStore). *)
THEOREM ConfigsHold == ConfigSpec => []ConfigsSound
<1> QED BY ConfigInitInv, ConfigInductive, ConfigInvSound, PTL DEF ConfigSpec

----------------------------------------
(* The inductive invariant of Limits.  A call that passed a limit was
   counted by it; the calls counted are within the limit, and within what
   the counter says, unless that was dropped since. *)

AfterFrequency == {"split", "passed"}
AfterMonthly == {"frequency"} \cup AfterFrequency
AfterDaily == {"monthly"} \cup AfterMonthly

DayCounted(d) == {c \in Checks : check[c].at \in AfterDaily /\ check[c].day = d}
MonthCounted(m) == {c \in Checks : check[c].at \in AfterMonthly /\ check[c].month = m}
WindowCounted(w) == {c \in Checks : check[c].at \in AfterFrequency /\ check[c].window = w}
SplitCounted(w) ==
  {c \in Checks : check[c].at = "passed" /\ Asked[c] >= Large /\ check[c].split = w}

SumWithin(S, limit, counter) ==
  IsFiniteSet(UnitsOf(S)) /\ SumOf(S) <= limit /\ SumOf(S) <= counter
DaysFit ==
  \A d \in 0..LastTick : SumWithin(DayCounted(d), DailyLimit, counters[<<"daily", d, 0>>])
MonthsFit ==
  \A m \in 0..LastTick : SumWithin(MonthCounted(m), MonthlyLimit, counters[<<"monthly", m, 0>>])

\* The counters of windows that are over may be gone.
Open(w) == w >= tick \div Window
NumberWithin(S, limit, counter, w) ==
  /\ IsFiniteSet(S) /\ Cardinality(S) <= limit
  /\ Open(w) => Cardinality(S) <= counter
WindowsFit ==
  Window <= Hour => \A w \in 0..LastTick :
    NumberWithin(WindowCounted(w), MaxAttempts, counters[<<"frequency", 0, w>>], w)
SplitsFit ==
  Window <= Hour => \A w \in 0..LastTick :
    NumberWithin(SplitCounted(w), SplitCount - 1, counters[<<"split", 0, w>>], w)

(* What was let through since any time, and the tokens left, is the burst
   and what came back; who was told to come again will find enough. *)
SpentSince(k, i) == (Len(accepted[k]) - i + 1) * TokenCost + tokens[k]
BucketFits(k) ==
  /\ accepted[k] \in Seq(Nat) /\ told[k] \in Nat /\ refilled[k] <= tick
  /\ \A i \in 1..Len(accepted[k]) :
       SpentSince(k, i) <= Burst + (refilled[k] - accepted[k][i]) * Refill
  /\ \A j \in 1..Len(accepted[k]) : \A i \in 1..j :
       (j - i + 1) * TokenCost <= Burst + (accepted[k][j] - accepted[k][i]) * Refill
  /\ told[k] # 0 => tokens[k] + (told[k] - refilled[k]) * Refill >= TokenCost

LimitsInv ==
  /\ LimitsTypeOK
  /\ accepted \in [RateKeys -> Seq(Nat)] /\ told \in [RateKeys -> Nat]
  /\ DaysFit /\ MonthsFit /\ WindowsFit /\ SplitsFit
  /\ \A k \in RateKeys : BucketFits(k)

(* Division: of a larger number, by a larger one, and rounded up. *)
LEMMA DivFits ==
  ASSUME NEW a \in Nat, NEW n \in Nat \ {0} PROVE a \div n \in Nat /\ a \div n <= a
<1>1. PICK q \in Int, r \in 0..(n - 1) : a = n * q + r /\ q = a \div n BY SMT
<1>2. q >= 0 BY <1>1
<1>3. q <= n * q BY <1>2
<1> QED BY <1>1, <1>2, <1>3

LEMMA DivGrows ==
  ASSUME NEW a \in Nat, NEW b \in Nat, a <= b, NEW n \in Nat \ {0} PROVE a \div n <= b \div n
  OBVIOUS

LEMMA DivShrinks ==
  ASSUME NEW a \in Nat, NEW m \in Nat \ {0}, NEW n \in Nat \ {0}, m <= n PROVE a \div n <= a \div m
  OBVIOUS

LEMMA RoundedUp ==
  ASSUME NEW x \in Nat, NEW n \in Nat \ {0}
  PROVE  (x + n - 1) \div n \in Nat /\ ((x + n - 1) \div n) * n >= x
  OBVIOUS

(* The units that sets of calls ask for. *)
LEMMA UnitsAdd ==
  ASSUME NEW S, IsFiniteSet(UnitsOf(S)), NEW c, Asked[c] \in Nat
  PROVE  /\ IsFiniteSet(UnitsOf(S \cup {c}))
         /\ SumOf(S \cup {c}) <= SumOf(S) + Asked[c]
<1> DEFINE own == {c} \X (1..Asked[c])
<1>1. UnitsOf(S \cup {c}) = UnitsOf(S) \cup own BY DEF UnitsOf
<1>2. IsFiniteSet({c}) /\ Cardinality({c}) = 1 BY FS_Singleton
<1>3. IsFiniteSet(1..Asked[c]) /\ Cardinality(1..Asked[c]) = Asked[c] BY FS_Interval
<1>4. IsFiniteSet(own) /\ Cardinality(own) = Asked[c]
  <2>1. IsFiniteSet(own) /\ Cardinality(own) = Cardinality({c}) * Cardinality(1..Asked[c])
    BY <1>2, <1>3, FS_Product
  <2> HIDE DEF own
  <2> QED BY <1>2, <1>3, <2>1
<1>5. /\ IsFiniteSet(UnitsOf(S) \cup own)
      /\ Cardinality(UnitsOf(S) \cup own)
           = Cardinality(UnitsOf(S)) + Cardinality(own) - Cardinality(UnitsOf(S) \cap own)
  BY <1>4, FS_Union
<1>6. IsFiniteSet(UnitsOf(S) \cap own) BY <1>4, FS_Subset
<1>7. /\ Cardinality(UnitsOf(S) \cap own) \in Nat
      /\ Cardinality(UnitsOf(S)) \in Nat
  BY <1>6, FS_CardinalityType
<1> HIDE DEF own
<1>8. Cardinality(UnitsOf(S) \cup own) <= Cardinality(UnitsOf(S)) + Asked[c] BY <1>4, <1>5, <1>7
<1> QED BY <1>1, <1>5, <1>8 DEF SumOf

LEMMA UnitsPart ==
  ASSUME NEW S, IsFiniteSet(UnitsOf(S)), NEW T \in SUBSET S
  PROVE  /\ IsFiniteSet(UnitsOf(T)) /\ SumOf(T) \in Nat /\ SumOf(S) \in Nat
         /\ SumOf(T) <= SumOf(S)
<1>1. UnitsOf(T) \subseteq UnitsOf(S) BY DEF UnitsOf
<1>2. IsFiniteSet(UnitsOf(T)) /\ Cardinality(UnitsOf(T)) <= Cardinality(UnitsOf(S))
  BY <1>1, FS_Subset
<1> QED BY <1>2, FS_CardinalityType DEF SumOf

(* A sum stays within its limit when calls drop out of it, and when one
   joins that was counted. *)
LEMMA SumStays ==
  ASSUME NEW S, NEW T \in SUBSET S, NEW limit \in Nat, NEW old \in Nat, NEW new \in Nat,
         old <= new, SumWithin(S, limit, old)
  PROVE  SumWithin(T, limit, new)
BY UnitsPart DEF SumWithin

LEMMA SumGrows ==
  ASSUME NEW S, NEW c, Asked[c] \in Nat, NEW T \in SUBSET (S \cup {c}),
         NEW limit \in Nat, NEW old \in Nat, old + Asked[c] <= limit,
         SumWithin(S, limit, old)
  PROVE  SumWithin(T, limit, old + Asked[c])
<1>1. /\ IsFiniteSet(UnitsOf(S \cup {c}))
      /\ SumOf(S \cup {c}) <= SumOf(S) + Asked[c]
  BY UnitsAdd DEF SumWithin
<1>2. SumOf(S) \in Nat BY UnitsPart DEF SumWithin
<1>3. /\ IsFiniteSet(UnitsOf(T)) /\ SumOf(T) \in Nat /\ SumOf(S \cup {c}) \in Nat
      /\ SumOf(T) <= SumOf(S \cup {c})
  BY <1>1, UnitsPart
<1> QED BY <1>1, <1>2, <1>3 DEF SumWithin

LEMMA NumberPart ==
  ASSUME NEW S, IsFiniteSet(S), NEW T \in SUBSET S
  PROVE  /\ IsFiniteSet(T) /\ Cardinality(T) \in Nat /\ Cardinality(S) \in Nat
         /\ Cardinality(T) <= Cardinality(S)
BY FS_Subset, FS_CardinalityType

LEMMA NumberGrows ==
  ASSUME NEW S, IsFiniteSet(S), NEW c, NEW T \in SUBSET (S \cup {c})
  PROVE  /\ IsFiniteSet(T) /\ Cardinality(T) \in Nat /\ Cardinality(S) \in Nat
         /\ Cardinality(T) <= Cardinality(S) + 1
<1>1. /\ IsFiniteSet(S \cup {c})
      /\ Cardinality(S \cup {c}) = IF c \in S THEN Cardinality(S) ELSE Cardinality(S) + 1
  BY FS_AddElement
<1>2. Cardinality(S) \in Nat BY FS_CardinalityType
<1> QED BY <1>1, <1>2, NumberPart

(* The keys of the counters, and what adding to one does to each. *)
LEMMA KeysOfTimes ==
  ASSUME LimitsAssumption, NEW i \in 0..LastTick
  PROVE  /\ <<"daily", i, 0>> \in CounterKeys /\ <<"monthly", i, 0>> \in CounterKeys
         /\ <<"frequency", 0, i>> \in CounterKeys /\ <<"split", 0, i>> \in CounterKeys
BY DEF CounterKeys, LimitsAssumption

LEMMA CountersGrow ==
  ASSUME LimitsTypeOK, NEW k \in CounterKeys, NEW n \in Nat, AddTo(k, n)
  PROVE  /\ counters' \in [CounterKeys -> Nat]
         /\ \A x \in CounterKeys : ~Stale(x) => counters'[x] >= counters[x]
         /\ ~Stale(k) => counters'[k] = counters[k] + n
<1>1. counters \in [CounterKeys -> Nat] BY DEF LimitsTypeOK
<1> QED BY <1>1 DEF AddTo

(* What is counted per day, per month and in an open window is not stale. *)
LEMMA Fresh ==
  ASSUME LimitsAssumption, LimitsTypeOK, NEW i \in 0..LastTick
  PROVE  /\ ~Stale(<<"daily", i, 0>>) /\ ~Stale(<<"monthly", i, 0>>)
         /\ Window <= Hour /\ Open(i) => ~Stale(<<"frequency", 0, i>>) /\ ~Stale(<<"split", 0, i>>)
<1>1. tick \in Nat BY DEF LimitsTypeOK, LimitsAssumption
<1>2. Window <= Hour => tick \div Hour <= tick \div Window BY <1>1, DivShrinks DEF LimitsAssumption
<1>3. tick \div Hour \in Nat /\ tick \div Window \in Nat BY <1>1, DivFits DEF LimitsAssumption
<1> QED BY <1>2, <1>3 DEF Stale, Open

(* A step of a call moves it alone, into the sets it is counted in now. *)
Into(c, in) == IF in THEN {c} ELSE {}
LEMMA CallMoves ==
  ASSUME LimitsTypeOK, NEW c \in Checks, NEW r, check' = [check EXCEPT ![c] = r]
  PROVE  \A i :
    /\ DayCounted(i)' \subseteq DayCounted(i) \cup Into(c, r.at \in AfterDaily /\ r.day = i)
    /\ MonthCounted(i)' \subseteq MonthCounted(i) \cup Into(c, r.at \in AfterMonthly /\ r.month = i)
    /\ WindowCounted(i)'
         \subseteq WindowCounted(i) \cup Into(c, r.at \in AfterFrequency /\ r.window = i)
    /\ SplitCounted(i)' \subseteq SplitCounted(i)
                     \cup Into(c, r.at = "passed" /\ Asked[c] >= Large /\ r.split = i)
<1>1. DOMAIN check = Checks BY DEF LimitsTypeOK
<1>2. check'[c] = r /\ \A x \in Checks \ {c} : check'[x] = check[x] BY <1>1
<1> QED BY <1>2 DEF Into, DayCounted, MonthCounted, WindowCounted, SplitCounted

(* What remains of the sums and numbers when nothing joins them. *)
LEMMA DaysStay ==
  ASSUME LimitsAssumption, LimitsTypeOK, LimitsTypeOK', DaysFit,
         \A i \in 0..LastTick : /\ DayCounted(i)' \subseteq DayCounted(i)
                                /\ counters'[<<"daily", i, 0>>] >= counters[<<"daily", i, 0>>]
  PROVE  DaysFit'
<1>1. SUFFICES ASSUME NEW i \in 0..LastTick
               PROVE  SumWithin(DayCounted(i)', DailyLimit, counters'[<<"daily", i, 0>>])
  BY DEF DaysFit, SumWithin, SumOf, UnitsOf
<1>2. counters[<<"daily", i, 0>>] \in Nat /\ counters'[<<"daily", i, 0>>] \in Nat
  BY KeysOfTimes DEF LimitsTypeOK
<1>3. SumWithin(DayCounted(i), DailyLimit, counters[<<"daily", i, 0>>]) BY DEF DaysFit
<1> QED BY <1>2, <1>3, SumStays DEF LimitsAssumption

LEMMA MonthsStay ==
  ASSUME LimitsAssumption, LimitsTypeOK, LimitsTypeOK', MonthsFit,
         \A i \in 0..LastTick :
           /\ MonthCounted(i)' \subseteq MonthCounted(i)
           /\ counters'[<<"monthly", i, 0>>] >= counters[<<"monthly", i, 0>>]
  PROVE  MonthsFit'
<1>1. SUFFICES ASSUME NEW i \in 0..LastTick
               PROVE  SumWithin(MonthCounted(i)', MonthlyLimit, counters'[<<"monthly", i, 0>>])
  BY DEF MonthsFit, SumWithin, SumOf, UnitsOf
<1>2. counters[<<"monthly", i, 0>>] \in Nat /\ counters'[<<"monthly", i, 0>>] \in Nat
  BY KeysOfTimes DEF LimitsTypeOK
<1>3. SumWithin(MonthCounted(i), MonthlyLimit, counters[<<"monthly", i, 0>>]) BY DEF MonthsFit
<1> QED BY <1>2, <1>3, SumStays DEF LimitsAssumption

LEMMA WindowsStay ==
  ASSUME LimitsAssumption, LimitsTypeOK, LimitsTypeOK', WindowsFit,
         Window <= Hour => \A i \in 0..LastTick :
           /\ WindowCounted(i)' \subseteq WindowCounted(i)
           /\ Open(i)' => /\ Open(i)
                          /\ counters'[<<"frequency", 0, i>>] >= counters[<<"frequency", 0, i>>]
  PROVE  WindowsFit'
<1>1. SUFFICES ASSUME Window <= Hour, NEW i \in 0..LastTick
               PROVE  NumberWithin(WindowCounted(i), MaxAttempts,
                                   counters[<<"frequency", 0, i>>], i)'
  BY DEF WindowsFit
<1>2. counters[<<"frequency", 0, i>>] \in Nat /\ counters'[<<"frequency", 0, i>>] \in Nat
  BY KeysOfTimes DEF LimitsTypeOK
<1>3. NumberWithin(WindowCounted(i), MaxAttempts, counters[<<"frequency", 0, i>>], i)
  BY <1>1 DEF WindowsFit
<1>4. /\ IsFiniteSet(WindowCounted(i)') /\ Cardinality(WindowCounted(i)') \in Nat
      /\ Cardinality(WindowCounted(i)) \in Nat
      /\ Cardinality(WindowCounted(i)') <= Cardinality(WindowCounted(i))
  BY <1>1, <1>3, NumberPart DEF NumberWithin
<1> QED BY <1>1, <1>2, <1>3, <1>4 DEF NumberWithin, LimitsAssumption

LEMMA SplitsStay ==
  ASSUME LimitsAssumption, LimitsTypeOK, LimitsTypeOK', SplitsFit,
         Window <= Hour => \A i \in 0..LastTick :
           /\ SplitCounted(i)' \subseteq SplitCounted(i)
           /\ Open(i)' => Open(i) /\ counters'[<<"split", 0, i>>] >= counters[<<"split", 0, i>>]
  PROVE  SplitsFit'
<1>1. SUFFICES ASSUME Window <= Hour, NEW i \in 0..LastTick
               PROVE  NumberWithin(SplitCounted(i), SplitCount - 1, counters[<<"split", 0, i>>], i)'
  BY DEF SplitsFit
<1>2. counters[<<"split", 0, i>>] \in Nat /\ counters'[<<"split", 0, i>>] \in Nat
  BY KeysOfTimes DEF LimitsTypeOK
<1>3. NumberWithin(SplitCounted(i), SplitCount - 1, counters[<<"split", 0, i>>], i)
  BY <1>1 DEF SplitsFit
<1>4. /\ IsFiniteSet(SplitCounted(i)') /\ Cardinality(SplitCounted(i)') \in Nat
      /\ Cardinality(SplitCounted(i)) \in Nat
      /\ Cardinality(SplitCounted(i)') <= Cardinality(SplitCounted(i))
  BY <1>1, <1>3, NumberPart DEF NumberWithin
<1> QED BY <1>1, <1>2, <1>3, <1>4 DEF NumberWithin, LimitsAssumption

Calls ==
  [at : {"transaction", "daily", "monthly", "frequency", "split", "passed", "refused"},
   day : Nat, month : Nat, window : Nat, split : Nat]

LEMMA Now ==
  ASSUME LimitsAssumption, LimitsTypeOK, NEW n \in Nat \ {0}
  PROVE  tick \in Nat /\ tick \div n \in Nat /\ tick \div n \in 0..LastTick
<1>1. tick \in Nat /\ tick <= LastTick /\ LastTick \in Nat BY DEF LimitsTypeOK, LimitsAssumption
<1>2. tick \div n \in Nat /\ tick \div n <= tick BY <1>1, DivFits
<1> QED BY <1>1, <1>2

LEMMA CallTypes ==
  ASSUME LimitsTypeOK, NEW c \in Checks, NEW r \in Calls, check' = [check EXCEPT ![c] = r],
         counters' \in [CounterKeys -> Nat], UNCHANGED <<tick, rateVars>>
  PROVE  LimitsTypeOK'
BY DEF LimitsTypeOK, Calls, rateVars

LEMMA BucketsStay ==
  ASSUME LimitsTypeOK, LimitsTypeOK', \A k \in RateKeys : BucketFits(k), UNCHANGED rateVars,
         tick' >= tick, FirstTick \in Nat, LastTick \in Nat
  PROVE  \A k \in RateKeys : BucketFits(k)'
<1> SUFFICES ASSUME NEW k \in RateKeys PROVE BucketFits(k)' OBVIOUS
<1>1. tick \in Nat /\ tick' \in Nat /\ refilled[k] \in Nat BY DEF LimitsTypeOK
<1>2. BucketFits(k) OBVIOUS
<1> QED BY <1>1, <1>2 DEF BucketFits, SpentSince, rateVars

(* A step of a call that adds to the counter k leaves alone what counts
   the calls in other counters. *)
LEMMA Counts ==
  ASSUME LimitsAssumption, LimitsInv, NEW c \in Checks, NEW r \in Calls,
         check' = [check EXCEPT ![c] = r], NEW k \in CounterKeys, NEW n \in Nat,
         \/ AddTo(k, n)
         \/ UNCHANGED counters,
         UNCHANGED <<tick, rateVars>>
  PROVE  /\ LimitsTypeOK'
         /\ (r.at \in AfterDaily => check[c].at \in AfterDaily /\ r.day = check[c].day) => DaysFit'
         /\ (r.at \in AfterMonthly => check[c].at \in AfterMonthly /\ r.month = check[c].month)
              => MonthsFit'
         /\ (r.at \in AfterFrequency =>
               check[c].at \in AfterFrequency /\ r.window = check[c].window)
              => WindowsFit'
         /\ (r.at = "passed" => Asked[c] < Large) => SplitsFit'
         /\ MonthsFit' /\ DaysFit' /\ WindowsFit' /\ SplitsFit' => LimitsInv'
<1>1. LimitsTypeOK /\ counters \in [CounterKeys -> Nat] BY DEF LimitsInv, LimitsTypeOK
<1>2. /\ counters' \in [CounterKeys -> Nat]
      /\ \A x \in CounterKeys : ~Stale(x) => counters'[x] >= counters[x]
  <2>1. CASE AddTo(k, n) BY <1>1, <2>1, CountersGrow
  <2>2. CASE UNCHANGED counters BY <1>1, <2>2
  <2> QED BY <2>1, <2>2
<1>3. LimitsTypeOK' BY <1>1, <1>2, CallTypes
<1>4. \A i : Open(i)' <=> Open(i) BY DEF Open
<1>5. \A i \in 0..LastTick :
        /\ counters'[<<"daily", i, 0>>] >= counters[<<"daily", i, 0>>]
        /\ counters'[<<"monthly", i, 0>>] >= counters[<<"monthly", i, 0>>]
        /\ Window <= Hour /\ Open(i) =>
             /\ counters'[<<"frequency", 0, i>>] >= counters[<<"frequency", 0, i>>]
             /\ counters'[<<"split", 0, i>>] >= counters[<<"split", 0, i>>]
  BY <1>1, <1>2, Fresh, KeysOfTimes
<1>6. ASSUME r.at \in AfterDaily => check[c].at \in AfterDaily /\ r.day = check[c].day
      PROVE  DaysFit'
  <2>1. \A i : DayCounted(i)' \subseteq DayCounted(i) BY <1>1, <1>6, CallMoves DEF Into, DayCounted
  <2> QED BY <1>1, <1>3, <1>5, <2>1, DaysStay DEF LimitsInv
<1>7. ASSUME r.at \in AfterMonthly => check[c].at \in AfterMonthly /\ r.month = check[c].month
      PROVE  MonthsFit'
  <2>1. \A i : MonthCounted(i)' \subseteq MonthCounted(i)
    BY <1>1, <1>7, CallMoves DEF Into, MonthCounted
  <2> QED BY <1>1, <1>3, <1>5, <2>1, MonthsStay DEF LimitsInv
<1>8. ASSUME r.at \in AfterFrequency => check[c].at \in AfterFrequency /\ r.window = check[c].window
      PROVE  WindowsFit'
  <2>1. \A i : WindowCounted(i)' \subseteq WindowCounted(i)
    BY <1>1, <1>8, CallMoves DEF Into, WindowCounted
  <2> QED BY <1>1, <1>3, <1>4, <1>5, <2>1, WindowsStay DEF LimitsInv
<1>9. ASSUME r.at = "passed" => Asked[c] < Large PROVE SplitsFit'
  <2>1. ~(r.at = "passed" /\ Asked[c] >= Large) BY <1>9 DEF LimitsAssumption
  <2>2. \A i : SplitCounted(i)' \subseteq SplitCounted(i) BY <1>1, <2>1, CallMoves DEF Into
  <2> QED BY <1>1, <1>3, <1>4, <1>5, <2>2, SplitsStay DEF LimitsInv
<1>10. \A q \in RateKeys : BucketFits(q)'
  <2>1. tick' >= tick BY <1>1 DEF LimitsTypeOK, LimitsAssumption
  <2> QED BY <1>1, <1>3, <2>1, BucketsStay DEF LimitsInv, LimitsAssumption
<1>11. accepted' \in [RateKeys -> Seq(Nat)] /\ told' \in [RateKeys -> Nat]
  BY DEF LimitsInv, rateVars
<1> QED BY <1>3, <1>6, <1>7, <1>8, <1>9, <1>10, <1>11 DEF LimitsInv

LEMMA CheckTransactionStep ==
  ASSUME LimitsAssumption, LimitsInv, NEW c \in Checks, CheckTransaction(c) PROVE LimitsInv'
<1>1. check[c] \in Calls BY DEF LimitsInv, LimitsTypeOK, Calls
<1>2. PICK to : to \in {"refused", "daily"} /\ check' = [check EXCEPT ![c].at = to]
  BY DEF CheckTransaction
<1>3. PICK r : r = [check[c] EXCEPT !.at = to] OBVIOUS
<1>4. r \in Calls /\ r.at \in {"refused", "daily"} /\ check' = [check EXCEPT ![c] = r]
  <2>1. r \in Calls /\ r.at \in {"refused", "daily"} BY <1>1, <1>2, <1>3 DEF Calls
  <2>2. check' = [check EXCEPT ![c] = r] BY <1>2, <1>3, Zenon
  <2> QED BY <2>1, <2>2
<1>5. 0 \in 0..LastTick /\ <<"daily", 0, 0>> \in CounterKeys
  BY KeysOfTimes DEF LimitsAssumption, CounterKeys
<1>6. UNCHANGED counters /\ UNCHANGED <<tick, rateVars>> BY DEF CheckTransaction
<1>7. /\ r.at \notin AfterDaily /\ r.at \notin AfterMonthly /\ r.at \notin AfterFrequency
      /\ r.at # "passed"
  BY <1>4 DEF AfterDaily, AfterMonthly, AfterFrequency
<1> QED BY <1>4, <1>5, <1>6, <1>7, Counts

LEMMA CheckDailyStep ==
  ASSUME LimitsAssumption, LimitsInv, NEW c \in Checks, CheckDaily(c) PROVE LimitsInv'
<1> DEFINE n == Asked[c]
<1>2a. PICK day : day = tick \div Day OBVIOUS
<1> DEFINE key == <<"daily", day, 0>>
<1>2b. PICK r : r = IF Total(key, n) <= DailyLimit
                   THEN [check[c] EXCEPT !.at = "monthly", !.day = day]
                   ELSE [check[c] EXCEPT !.at = "refused"]
  OBVIOUS
<1>1. check[c] \in Calls /\ n \in Nat /\ LimitsTypeOK /\ check[c].at = "daily"
  BY DEF LimitsInv, LimitsTypeOK, Calls, LimitsAssumption, CheckDaily
<1>2. day \in Nat /\ day \in 0..LastTick BY <1>2a, <1>1, Now DEF LimitsAssumption
<1>3. r \in Calls BY <1>2b, <1>1, <1>2 DEF Calls
<1>4. /\ r.at \in {"monthly", "refused"}
      /\ r.at = "monthly" => Total(key, n) <= DailyLimit /\ r.day = day
  BY <1>2b, <1>1 DEF Calls
<1>5. check' = [check EXCEPT ![c] = r] /\ AddTo(key, n) /\ UNCHANGED <<tick, rateVars>>
  BY <1>2a, <1>2b DEF CheckDaily, Counted
<1>6. key \in CounterKeys BY <1>2, KeysOfTimes
<1>7. r.at \notin AfterMonthly /\ r.at \notin AfterFrequency /\ r.at # "passed"
  BY <1>4 DEF AfterMonthly, AfterFrequency
<1> HIDE DEF key, n
<1>8. /\ LimitsTypeOK' /\ MonthsFit' /\ WindowsFit' /\ SplitsFit'
      /\ r.at \notin AfterDaily => DaysFit'
      /\ DaysFit' => LimitsInv'
  BY <1>1, <1>3, <1>5, <1>6, <1>7, Counts
<1>9. DaysFit'
  <2>1. CASE r.at = "refused" BY <1>8, <2>1 DEF AfterDaily, AfterMonthly, AfterFrequency
  <2>2. CASE r.at = "monthly"
    <3>1. SUFFICES ASSUME NEW i \in 0..LastTick
                   PROVE  SumWithin(DayCounted(i)', DailyLimit, counters'[<<"daily", i, 0>>])
      BY DEF DaysFit, SumWithin, SumOf, UnitsOf
    <3>2. /\ counters[<<"daily", i, 0>>] \in Nat /\ counters'[<<"daily", i, 0>>] \in Nat
          /\ SumWithin(DayCounted(i), DailyLimit, counters[<<"daily", i, 0>>])
          /\ DailyLimit \in Nat
      BY <1>1, <1>8, KeysOfTimes DEF LimitsTypeOK, LimitsInv, DaysFit, LimitsAssumption
    <3>3. CASE i = day
      <4>1. DayCounted(i)' \subseteq DayCounted(i) \cup {c} BY <1>1, <1>5, CallMoves DEF Into
      <4>2. /\ counters'[<<"daily", i, 0>>] = counters[<<"daily", i, 0>>] + Asked[c]
            /\ counters[<<"daily", i, 0>>] + Asked[c] <= DailyLimit
        BY <1>1, <1>4, <1>5, <1>6, <2>2, <3>3, Fresh, CountersGrow DEF key, n, Total
      <4>3. Asked[c] \in Nat BY <1>1 DEF n
      <4> QED BY <3>2, <4>1, <4>2, <4>3, SumGrows
    <3>4. CASE i # day
      <4>1. DayCounted(i)' \subseteq DayCounted(i)
        <5>1. r.day # i BY <1>4, <2>2, <3>4
        <5> QED BY <1>1, <1>5, <5>1, CallMoves DEF Into
      <4>2. counters'[<<"daily", i, 0>>] >= counters[<<"daily", i, 0>>]
        BY <1>1, <1>5, <1>6, Fresh, KeysOfTimes, CountersGrow
      <4> QED BY <3>2, <4>1, <4>2, SumStays
    <3> QED BY <3>3, <3>4
  <2> QED BY <1>4, <2>1, <2>2
<1> QED BY <1>8, <1>9

LEMMA CheckMonthlyStep ==
  ASSUME LimitsAssumption, LimitsInv, NEW c \in Checks, CheckMonthly(c) PROVE LimitsInv'
<1> DEFINE n == Asked[c]
<1>2a. PICK month : month = tick \div Month OBVIOUS
<1> DEFINE key == <<"monthly", month, 0>>
<1>2b. PICK r : r = IF Total(key, n) <= MonthlyLimit
                   THEN [check[c] EXCEPT !.at = "frequency", !.month = month]
                   ELSE [check[c] EXCEPT !.at = "refused"]
  OBVIOUS
<1>1. check[c] \in Calls /\ n \in Nat /\ LimitsTypeOK /\ check[c].at = "monthly"
  BY DEF LimitsInv, LimitsTypeOK, Calls, LimitsAssumption, CheckMonthly
<1>2. month \in Nat /\ month \in 0..LastTick BY <1>2a, <1>1, Now DEF LimitsAssumption
<1>3. r \in Calls BY <1>2b, <1>1, <1>2 DEF Calls
<1>4. /\ r.at \in {"frequency", "refused"} /\ r.day = check[c].day
      /\ r.at = "frequency" => Total(key, n) <= MonthlyLimit /\ r.month = month
  BY <1>2b, <1>1 DEF Calls
<1>5. check' = [check EXCEPT ![c] = r] /\ AddTo(key, n) /\ UNCHANGED <<tick, rateVars>>
  BY <1>2a, <1>2b DEF CheckMonthly, Counted
<1>6. key \in CounterKeys BY <1>2, KeysOfTimes
<1>7. r.at \notin AfterFrequency /\ r.at # "passed" /\ check[c].at \in AfterDaily
  BY <1>1, <1>4 DEF AfterDaily, AfterMonthly, AfterFrequency
<1> HIDE DEF key, n
<1>8. /\ LimitsTypeOK' /\ DaysFit' /\ WindowsFit' /\ SplitsFit'
      /\ r.at \notin AfterMonthly => MonthsFit'
      /\ MonthsFit' => LimitsInv'
  BY <1>1, <1>3, <1>4, <1>5, <1>6, <1>7, Counts
<1>9. MonthsFit'
  <2>1. CASE r.at = "refused" BY <1>8, <2>1 DEF AfterMonthly, AfterFrequency
  <2>2. CASE r.at = "frequency"
    <3>1. SUFFICES ASSUME NEW i \in 0..LastTick
                   PROVE  SumWithin(MonthCounted(i)', MonthlyLimit, counters'[<<"monthly", i, 0>>])
      BY DEF MonthsFit, SumWithin, SumOf, UnitsOf
    <3>2. /\ counters[<<"monthly", i, 0>>] \in Nat /\ counters'[<<"monthly", i, 0>>] \in Nat
          /\ SumWithin(MonthCounted(i), MonthlyLimit, counters[<<"monthly", i, 0>>])
          /\ MonthlyLimit \in Nat
      BY <1>1, <1>8, KeysOfTimes DEF LimitsTypeOK, LimitsInv, MonthsFit, LimitsAssumption
    <3>3. CASE i = month
      <4>1. MonthCounted(i)' \subseteq MonthCounted(i) \cup {c} BY <1>1, <1>5, CallMoves DEF Into
      <4>2. /\ counters'[<<"monthly", i, 0>>] = counters[<<"monthly", i, 0>>] + Asked[c]
            /\ counters[<<"monthly", i, 0>>] + Asked[c] <= MonthlyLimit
        BY <1>1, <1>4, <1>5, <1>6, <2>2, <3>3, Fresh, CountersGrow DEF key, n, Total
      <4>3. Asked[c] \in Nat BY <1>1 DEF n
      <4> QED BY <3>2, <4>1, <4>2, <4>3, SumGrows
    <3>4. CASE i # month
      <4>1. MonthCounted(i)' \subseteq MonthCounted(i)
        <5>1. r.month # i BY <1>4, <2>2, <3>4
        <5> QED BY <1>1, <1>5, <5>1, CallMoves DEF Into
      <4>2. counters'[<<"monthly", i, 0>>] >= counters[<<"monthly", i, 0>>]
        BY <1>1, <1>5, <1>6, Fresh, KeysOfTimes, CountersGrow
      <4> QED BY <3>2, <4>1, <4>2, SumStays
    <3> QED BY <3>3, <3>4
  <2> QED BY <1>4, <2>1, <2>2
<1> QED BY <1>8, <1>9

LEMMA CheckFrequencyStep ==
  ASSUME LimitsAssumption, LimitsInv, NEW c \in Checks, CheckFrequency(c) PROVE LimitsInv'
<1>1. PICK window : window = tick \div Window OBVIOUS
<1> DEFINE key == <<"frequency", 0, window>>
<1>2. PICK r : r = IF Total(key, 1) <= MaxAttempts
                   THEN [check[c] EXCEPT !.window = window,
                           !.at = IF Asked[c] >= Large THEN "split" ELSE "passed"]
                   ELSE [check[c] EXCEPT !.at = "refused"]
  OBVIOUS
<1>3. check[c] \in Calls /\ LimitsTypeOK /\ check[c].at = "frequency"
  BY DEF LimitsInv, LimitsTypeOK, Calls, CheckFrequency
<1>4. window \in Nat /\ window \in 0..LastTick BY <1>1, <1>3, Now DEF LimitsAssumption
<1>5. r \in Calls BY <1>2, <1>3, <1>4 DEF Calls
<1>6. /\ r.at \in {"split", "passed", "refused"}
      /\ r.day = check[c].day /\ r.month = check[c].month
      /\ r.at # "refused" => Total(key, 1) <= MaxAttempts /\ r.window = window
      /\ r.at = "passed" => Asked[c] < Large
  BY <1>2, <1>3 DEF Calls, LimitsAssumption
<1>7. check' = [check EXCEPT ![c] = r] /\ AddTo(key, 1) /\ UNCHANGED <<tick, rateVars>>
  BY <1>1, <1>2 DEF CheckFrequency, Counted
<1>8. key \in CounterKeys BY <1>4, KeysOfTimes
<1>9. check[c].at \in AfterDaily /\ check[c].at \in AfterMonthly
  BY <1>3 DEF AfterDaily, AfterMonthly, AfterFrequency
<1> HIDE DEF key
<1>10. /\ LimitsTypeOK' /\ DaysFit' /\ MonthsFit' /\ SplitsFit'
       /\ r.at \notin AfterFrequency => WindowsFit'
       /\ WindowsFit' => LimitsInv'
  BY <1>3, <1>5, <1>6, <1>7, <1>8, <1>9, Counts
<1>11. WindowsFit'
  <2>1. CASE r.at = "refused" BY <1>10, <2>1 DEF AfterFrequency
  <2>2. CASE r.at # "refused"
    <3>1. SUFFICES ASSUME Window <= Hour, NEW i \in 0..LastTick
                   PROVE  NumberWithin(WindowCounted(i), MaxAttempts,
                                       counters[<<"frequency", 0, i>>], i)'
      BY DEF WindowsFit
    <3>2. /\ counters[<<"frequency", 0, i>>] \in Nat /\ counters'[<<"frequency", 0, i>>] \in Nat
          /\ NumberWithin(WindowCounted(i), MaxAttempts, counters[<<"frequency", 0, i>>], i)
          /\ MaxAttempts \in Nat
      BY <1>3, <1>10, <3>1, KeysOfTimes DEF LimitsTypeOK, LimitsInv, WindowsFit, LimitsAssumption
    <3>3. Open(i)' <=> Open(i) BY <1>7 DEF Open
    <3>4. CASE i = window
      <4>1. WindowCounted(i)' \subseteq WindowCounted(i) \cup {c} BY <1>3, <1>7, CallMoves DEF Into
      <4>2. Open(i) BY <1>1, <1>4, <3>4 DEF Open
      <4>3. /\ counters'[<<"frequency", 0, i>>] = counters[<<"frequency", 0, i>>] + 1
            /\ counters[<<"frequency", 0, i>>] + 1 <= MaxAttempts
        BY <1>3, <1>6, <1>7, <1>8, <2>2, <3>1, <3>4, <4>2, Fresh, CountersGrow DEF key, Total
      <4>4. /\ IsFiniteSet(WindowCounted(i)') /\ Cardinality(WindowCounted(i)') \in Nat
            /\ Cardinality(WindowCounted(i)) \in Nat
            /\ Cardinality(WindowCounted(i)') <= Cardinality(WindowCounted(i)) + 1
        BY <3>2, <4>1, NumberGrows DEF NumberWithin
      <4> QED BY <3>2, <4>2, <4>3, <4>4 DEF NumberWithin
    <3>5. CASE i # window
      <4>1. WindowCounted(i)' \subseteq WindowCounted(i)
        <5>1. r.window # i BY <1>6, <2>2, <3>5
        <5> QED BY <1>3, <1>7, <5>1, CallMoves DEF Into
      <4>2. Open(i) => counters'[<<"frequency", 0, i>>] >= counters[<<"frequency", 0, i>>]
        BY <1>3, <1>7, <1>8, <3>1, Fresh, KeysOfTimes, CountersGrow
      <4>3. /\ IsFiniteSet(WindowCounted(i)') /\ Cardinality(WindowCounted(i)') \in Nat
            /\ Cardinality(WindowCounted(i)) \in Nat
            /\ Cardinality(WindowCounted(i)') <= Cardinality(WindowCounted(i))
        BY <3>2, <4>1, NumberPart DEF NumberWithin
      <4> QED BY <3>2, <3>3, <4>2, <4>3 DEF NumberWithin
    <3> QED BY <3>4, <3>5
  <2> QED BY <2>1, <2>2
<1> QED BY <1>10, <1>11

LEMMA CheckSplitStep ==
  ASSUME LimitsAssumption, LimitsInv, NEW c \in Checks, CheckSplit(c) PROVE LimitsInv'
<1>1. PICK window : window = tick \div Window OBVIOUS
<1> DEFINE key == <<"split", 0, window>>
<1>2. PICK r : r = IF Total(key, 1) < SplitCount
                   THEN [check[c] EXCEPT !.at = "passed", !.split = window]
                   ELSE [check[c] EXCEPT !.at = "refused"]
  OBVIOUS
<1>3. check[c] \in Calls /\ LimitsTypeOK /\ check[c].at = "split"
  BY DEF LimitsInv, LimitsTypeOK, Calls, CheckSplit
<1>4. window \in Nat /\ window \in 0..LastTick BY <1>1, <1>3, Now DEF LimitsAssumption
<1>5. r \in Calls BY <1>2, <1>3, <1>4 DEF Calls
<1>6. /\ r.at \in {"passed", "refused"}
      /\ r.day = check[c].day /\ r.month = check[c].month /\ r.window = check[c].window
      /\ r.at = "passed" => Total(key, 1) < SplitCount /\ r.split = window
  BY <1>2, <1>3 DEF Calls
<1>7. check' = [check EXCEPT ![c] = r] /\ AddTo(key, 1) /\ UNCHANGED <<tick, rateVars>>
  BY <1>1, <1>2 DEF CheckSplit, Counted
<1>8. key \in CounterKeys BY <1>4, KeysOfTimes
<1>9. check[c].at \in AfterDaily /\ check[c].at \in AfterMonthly /\ check[c].at \in AfterFrequency
  BY <1>3 DEF AfterDaily, AfterMonthly, AfterFrequency
<1> HIDE DEF key
<1>10. /\ LimitsTypeOK' /\ DaysFit' /\ MonthsFit' /\ WindowsFit'
       /\ r.at # "passed" => SplitsFit'
       /\ SplitsFit' => LimitsInv'
  BY <1>3, <1>5, <1>6, <1>7, <1>8, <1>9, Counts
<1>11. SplitsFit'
  <2>1. CASE r.at = "refused" BY <1>10, <2>1
  <2>2. CASE r.at = "passed"
    <3>1. SUFFICES ASSUME Window <= Hour, NEW i \in 0..LastTick
                   PROVE  NumberWithin(SplitCounted(i), SplitCount - 1,
                                       counters[<<"split", 0, i>>], i)'
      BY DEF SplitsFit
    <3>2. /\ counters[<<"split", 0, i>>] \in Nat /\ counters'[<<"split", 0, i>>] \in Nat
          /\ NumberWithin(SplitCounted(i), SplitCount - 1, counters[<<"split", 0, i>>], i)
          /\ SplitCount \in Nat
      BY <1>3, <1>10, <3>1, KeysOfTimes DEF LimitsTypeOK, LimitsInv, SplitsFit, LimitsAssumption
    <3>3. Open(i)' <=> Open(i) BY <1>7 DEF Open
    <3>4. CASE i = window
      <4>1. SplitCounted(i)' \subseteq SplitCounted(i) \cup {c} BY <1>3, <1>7, CallMoves DEF Into
      <4>2. Open(i) BY <1>1, <1>4, <3>4 DEF Open
      <4>3. /\ counters'[<<"split", 0, i>>] = counters[<<"split", 0, i>>] + 1
            /\ counters[<<"split", 0, i>>] + 1 < SplitCount
        BY <1>3, <1>6, <1>7, <1>8, <2>2, <3>1, <3>4, <4>2, Fresh, CountersGrow DEF key, Total
      <4>4. /\ IsFiniteSet(SplitCounted(i)') /\ Cardinality(SplitCounted(i)') \in Nat
            /\ Cardinality(SplitCounted(i)) \in Nat
            /\ Cardinality(SplitCounted(i)') <= Cardinality(SplitCounted(i)) + 1
        BY <3>2, <4>1, NumberGrows DEF NumberWithin
      <4> QED BY <3>2, <4>2, <4>3, <4>4 DEF NumberWithin
    <3>5. CASE i # window
      <4>1. SplitCounted(i)' \subseteq SplitCounted(i)
        <5>1. r.split # i BY <1>6, <2>2, <3>5
        <5> QED BY <1>3, <1>7, <5>1, CallMoves DEF Into
      <4>2. Open(i) => counters'[<<"split", 0, i>>] >= counters[<<"split", 0, i>>]
        BY <1>3, <1>7, <1>8, <3>1, Fresh, KeysOfTimes, CountersGrow
      <4>3. /\ IsFiniteSet(SplitCounted(i)') /\ Cardinality(SplitCounted(i)') \in Nat
            /\ Cardinality(SplitCounted(i)) \in Nat
            /\ Cardinality(SplitCounted(i)') <= Cardinality(SplitCounted(i))
        BY <3>2, <4>1, NumberPart DEF NumberWithin
      <4> QED BY <3>2, <3>3, <4>2, <4>3 DEF NumberWithin
    <3> QED BY <3>4, <3>5
  <2> QED BY <1>6, <2>1, <2>2
<1> QED BY <1>10, <1>11

LEMMA PassesStep == ASSUME LimitsAssumption, LimitsInv, Passes PROVE LimitsInv'
<1>1. /\ tick \in Nat /\ tick' = tick + 1 /\ tick' \in Nat /\ LimitsTypeOK
      /\ FirstTick \in Nat /\ LastTick \in Nat
  BY DEF Passes, LimitsInv, LimitsTypeOK, LimitsAssumption
<1>2. LimitsTypeOK' BY <1>1 DEF Passes, LimitsTypeOK, riskVars, rateVars
<1>3. UNCHANGED <<check, counters>> /\ UNCHANGED rateVars BY DEF Passes, riskVars
<1>4. \A i \in 0..LastTick : Open(i)' => Open(i)
  <2>1. /\ tick \div Window <= tick' \div Window
        /\ tick \div Window \in Nat /\ tick' \div Window \in Nat
    BY <1>1, DivGrows, DivFits DEF LimitsAssumption
  <2> QED BY <2>1 DEF Open
<1>5. \A i : /\ DayCounted(i)' = DayCounted(i) /\ MonthCounted(i)' = MonthCounted(i)
             /\ WindowCounted(i)' = WindowCounted(i) /\ SplitCounted(i)' = SplitCounted(i)
  BY <1>3 DEF DayCounted, MonthCounted, WindowCounted, SplitCounted
<1>6. \A i \in 0..LastTick :
        /\ counters'[<<"daily", i, 0>>] >= counters[<<"daily", i, 0>>]
        /\ counters'[<<"monthly", i, 0>>] >= counters[<<"monthly", i, 0>>]
        /\ counters'[<<"frequency", 0, i>>] >= counters[<<"frequency", 0, i>>]
        /\ counters'[<<"split", 0, i>>] >= counters[<<"split", 0, i>>]
  <2>1. \A x \in CounterKeys : counters'[x] >= counters[x] BY <1>1, <1>3 DEF LimitsTypeOK
  <2> QED BY <2>1, KeysOfTimes
<1>7. DaysFit' BY <1>1, <1>2, <1>5, <1>6, DaysStay DEF LimitsInv
<1>8. MonthsFit' BY <1>1, <1>2, <1>5, <1>6, MonthsStay DEF LimitsInv
<1>9. WindowsFit' BY <1>1, <1>2, <1>4, <1>5, <1>6, WindowsStay DEF LimitsInv
<1>10. SplitsFit' BY <1>1, <1>2, <1>4, <1>5, <1>6, SplitsStay DEF LimitsInv
<1>11. \A k \in RateKeys : BucketFits(k)' BY <1>1, <1>2, <1>3, BucketsStay DEF LimitsInv
<1>12. accepted' \in [RateKeys -> Seq(Nat)] /\ told' \in [RateKeys -> Nat]
  BY <1>3 DEF LimitsInv, rateVars
<1> QED BY <1>2, <1>7, <1>8, <1>9, <1>10, <1>11, <1>12 DEF LimitsInv

(* The limiters of requests: their number, and what is in a bucket. *)
LEMMA LimiterTypes ==
  ASSUME LimitsAssumption, LimitsTypeOK, NEW k \in RateKeys, LimiterFor(k)
  PROVE  limiters' \in Seq(RateKeys) /\ Len(limiters') <= MaxLimiters
<1>1. limiters \in Seq(RateKeys) /\ Len(limiters) <= MaxLimiters /\ MaxLimiters \in Nat \ {0}
  BY DEF LimitsTypeOK, LimitsAssumption
<1>2. CASE Known(k)
  <2>1. PICK i \in 1..Len(limiters) : i = CHOOSE j \in DOMAIN limiters : limiters[j] = k
    BY <1>1, <1>2 DEF Known
  <2> DEFINE front == SubSeq(limiters, 1, i - 1)
             back == SubSeq(limiters, i + 1, Len(limiters))
  <2>2. limiters' = front \o Append(back, k) BY <1>2, <2>1 DEF LimiterFor, MovedToEnd
  <2>3. front \in Seq(RateKeys) /\ Len(front) = i - 1
    <3>1. \A e \in 1..(i - 1) : limiters[e] \in RateKeys BY <1>1, <2>1
    <3> QED BY <2>1, <3>1, SubSeqProperties
  <2>4. back \in Seq(RateKeys) /\ Len(back) = Len(limiters) - i
    <3>1. \A e \in (i + 1)..Len(limiters) : limiters[e] \in RateKeys BY <1>1, <2>1
    <3>2. Len(limiters) \in Int /\ i + 1 \in Int /\ i <= Len(limiters) BY <1>1, <2>1
    <3>3. /\ back \in Seq(RateKeys)
          /\ Len(back) = IF i + 1 <= Len(limiters) THEN Len(limiters) - (i + 1) + 1 ELSE 0
      BY <3>1, <3>2, SubSeqProperties
    <3> QED BY <3>2, <3>3
  <2> HIDE DEF front, back
  <2>5. PICK end : end = Append(back, k) OBVIOUS
  <2>6. end \in Seq(RateKeys) /\ Len(end) = Len(limiters) - i + 1
    <3>1. Append(back, k) \in Seq(RateKeys) /\ Len(Append(back, k)) = Len(back) + 1
      BY <2>4, AppendProperties
    <3> QED BY <2>4, <2>5, <3>1
  <2>7. front \o end \in Seq(RateKeys) /\ Len(front \o end) = Len(front) + Len(end)
    BY <2>3, <2>6, ConcatProperties
  <2>8. limiters' = front \o end BY <2>2, <2>5
  <2>9. Len(limiters) \in Nat BY <1>1
  <2> QED BY <1>1, <2>1, <2>3, <2>6, <2>7, <2>8, <2>9
<1>3. CASE ~Known(k)
  <2>1. PICK rest : rest = IF Len(limiters) = MaxLimiters THEN Tail(limiters) ELSE limiters OBVIOUS
  <2>2. rest \in Seq(RateKeys) /\ Len(rest) \in Nat /\ Len(rest) < MaxLimiters
    BY <1>1, <2>1, HeadTailProperties
  <2>3. limiters' = Append(rest, k) BY <1>3, <2>1 DEF LimiterFor
  <2> QED BY <1>1, <2>2, <2>3, AppendProperties
<1> QED BY <1>2, <1>3

LEMMA RefilledFits ==
  ASSUME LimitsAssumption, LimitsInv, NEW k \in RateKeys
  PROVE  /\ Refilled(k) \in Nat /\ Refilled(k) <= Burst
         /\ ~Known(k) => Refilled(k) = Burst
         /\ Known(k) => Refilled(k) <= tokens[k] + (tick - refilled[k]) * Refill
         /\ Known(k) /\ Refilled(k) # Burst =>
              Refilled(k) = tokens[k] + (tick - refilled[k]) * Refill
<1>1. /\ tokens[k] \in Nat /\ tick \in Nat /\ refilled[k] \in Nat /\ refilled[k] <= tick
      /\ Burst \in Nat /\ Refill \in Nat
  BY DEF LimitsInv, LimitsTypeOK, BucketFits, LimitsAssumption
<1>2. (tick - refilled[k]) * Refill \in Nat
  <2>1. tick - refilled[k] \in Nat BY <1>1
  <2> QED BY <1>1, <2>1
<1> QED BY <1>1, <1>2 DEF Refilled

(* A request that passes adds to what was spent what it takes. *)
LEMMA AcquireFits ==
  ASSUME LimitsAssumption, LimitsInv, NEW k \in RateKeys,
         TryAcquire(k), RateLimited(k), UNCHANGED tick
  PROVE  BucketFits(k)' /\ tokens'[k] \in 0..Burst /\ refilled'[k] = tick
<1>1. /\ tokens[k] \in Nat /\ tick \in Nat /\ refilled[k] \in Nat /\ BucketFits(k)
      /\ Burst \in Nat /\ Refill \in Nat \ {0} /\ TokenCost \in Nat \ {0}
      /\ DOMAIN accepted = RateKeys /\ accepted[k] \in Seq(Nat)
      /\ DOMAIN tokens = RateKeys /\ DOMAIN refilled = RateKeys /\ DOMAIN told = RateKeys
  BY DEF LimitsInv, LimitsTypeOK, LimitsAssumption
<1>2. PICK have : have = Refilled(k) OBVIOUS
<1>3. PICK before : before = IF Known(k) THEN accepted[k] ELSE <<>> OBVIOUS
<1>4. have \in Nat /\ have <= Burst BY <1>2, RefilledFits
<1>5. before \in Seq(Nat) /\ Len(before) \in Nat BY <1>1, <1>3
<1>6. \A i \in 1..Len(before) :
        /\ before[i] \in Nat
        /\ (Len(before) - i + 1) * TokenCost + have <= Burst + (tick - before[i]) * Refill
  <2>1. SUFFICES ASSUME NEW i \in 1..Len(before)
                 PROVE  /\ before[i] \in Nat
                        /\ (Len(before) - i + 1) * TokenCost + have
                             <= Burst + (tick - before[i]) * Refill
    OBVIOUS
  <2>2. Known(k) /\ before = accepted[k] /\ before[i] \in Nat BY <1>3, <1>5
  <2>3. (Len(before) - i + 1) * TokenCost + tokens[k] <= Burst + (refilled[k] - before[i]) * Refill
    BY <1>1, <2>2 DEF BucketFits, SpentSince
  <2>4. have <= tokens[k] + (tick - refilled[k]) * Refill BY <1>2, <2>2, RefilledFits
  <2>5. PICK spent \in Int : spent = (Len(before) - i + 1) * TokenCost BY <1>1, <1>5
  <2>6. spent + tokens[k] <= Burst + (refilled[k] - before[i]) * Refill BY <2>3, <2>5
  <2>7. PICK then \in Int : then = (refilled[k] - before[i]) * Refill BY <1>1, <2>2
  <2>8. PICK since \in Int : since = (tick - refilled[k]) * Refill BY <1>1
  <2>9. (tick - before[i]) * Refill = then + since BY <1>1, <2>2, <2>7, <2>8
  <2>10. spent + tokens[k] <= Burst + then /\ have <= tokens[k] + since BY <2>4, <2>6, <2>7, <2>8
  <2>11. spent + have <= Burst + (then + since) BY <1>1, <1>4, <2>10
  <2> QED BY <2>2, <2>5, <2>9, <2>11
<1>7. \A j \in 1..Len(before) : \A i \in 1..j :
        (j - i + 1) * TokenCost <= Burst + (before[j] - before[i]) * Refill
  BY <1>1, <1>3, <1>5 DEF BucketFits
<1>8. refilled'[k] = tick /\ tick' = tick BY <1>1 DEF TryAcquire
<1>9. CASE have >= TokenCost
  <2>1. tokens'[k] = have - TokenCost /\ accepted'[k] = Append(before, tick) /\ told'[k] = 0
    BY <1>1, <1>2, <1>3, <1>9 DEF TryAcquire, RateLimited
  <2>2. PICK n \in Nat : n = Len(before) BY <1>5
  <2>3. PICK after \in Seq(Nat) :
    /\ after = Append(before, tick) /\ Len(after) = n + 1
    /\ \A i \in 1..n : after[i] = before[i]
    /\ after[n + 1] = tick
    <3>1. /\ Append(before, tick) \in Seq(Nat)
          /\ Len(Append(before, tick)) = Len(before) + 1
          /\ \A i \in 1..Len(before) : Append(before, tick)[i] = before[i]
          /\ Append(before, tick)[Len(before) + 1] = tick
      BY <1>1, <1>5, AppendProperties
    <3> QED BY <2>2, <3>1
  <2>4. \A i \in 1..n : (n - i + 1) * TokenCost + have <= Burst + (tick - after[i]) * Refill
    BY <1>6, <2>2, <2>3
  <2>5. \A i \in 1..(n + 1) : ((n + 1) - i + 1) * TokenCost + (have - TokenCost)
            <= Burst + (tick - after[i]) * Refill
    <3>1. SUFFICES ASSUME NEW i \in 1..(n + 1)
                   PROVE  ((n + 1) - i + 1) * TokenCost + (have - TokenCost)
                            <= Burst + (tick - after[i]) * Refill
      OBVIOUS
    <3>2. ((n + 1) - i + 1) * TokenCost = (n - i + 1) * TokenCost + TokenCost BY <1>1
    <3>3. (n - i + 1) * TokenCost \in Int BY <1>1
    <3>4. CASE i \in 1..n
      <4>1. (n - i + 1) * TokenCost + have <= Burst + (tick - after[i]) * Refill BY <2>4, <3>4
      <4>2. after[i] \in Nat /\ (tick - after[i]) * Refill \in Int BY <1>1, <2>3
      <4> QED BY <1>1, <1>4, <3>2, <3>3, <4>1, <4>2
    <3>5. CASE i = n + 1
      <4>1. n - i + 1 = 0 /\ tick - after[i] = 0 BY <1>1, <2>3, <3>5
      <4>2. (tick - after[i]) * Refill = 0 BY <1>1, <4>1
      <4>3. ((n + 1) - i + 1) * TokenCost = TokenCost BY <1>1, <4>1
      <4>4. TokenCost + (have - TokenCost) <= Burst + 0 BY <1>1, <1>4
      <4> QED BY <4>2, <4>3, <4>4
    <3> QED BY <3>4, <3>5
  <2>6. \A j \in 1..(n + 1) : \A i \in 1..j :
          (j - i + 1) * TokenCost <= Burst + (after[j] - after[i]) * Refill
    <3>1. SUFFICES ASSUME NEW j \in 1..(n + 1), NEW i \in 1..j
                   PROVE  (j - i + 1) * TokenCost <= Burst + (after[j] - after[i]) * Refill
      OBVIOUS
    <3>2. CASE j \in 1..n BY <1>7, <2>2, <2>3, <3>2
    <3>3. CASE j = n + 1
      <4>1. ((n + 1) - i + 1) * TokenCost + (have - TokenCost) <= Burst + (tick - after[i]) * Refill
        BY <2>5
      <4>2. PICK spent \in Int : spent = ((n + 1) - i + 1) * TokenCost BY <1>1
      <4>3. after[i] \in Nat BY <2>3, <3>3
      <4>4. PICK back \in Int : back = (tick - after[i]) * Refill BY <1>1, <4>3
      <4>5. spent + (have - TokenCost) <= Burst + back BY <4>1, <4>2, <4>4
      <4>6. spent <= Burst + back BY <1>1, <1>4, <1>9, <4>5
      <4> QED BY <2>3, <3>3, <4>2, <4>4, <4>6
    <3> QED BY <3>2, <3>3
  <2>7. BucketFits(k)'
    <3>1. accepted'[k] = after /\ Len(accepted'[k]) = n + 1 BY <2>1, <2>3
    <3>2. accepted'[k] \in Seq(Nat) /\ told'[k] \in Nat /\ refilled'[k] <= tick'
      BY <1>1, <1>8, <2>1, <3>1
    <3>3. \A i \in 1..Len(accepted'[k]) :
            SpentSince(k, i)' <= Burst + (refilled'[k] - accepted'[k][i]) * Refill
      BY <1>8, <2>1, <2>5, <3>1 DEF SpentSince
    <3>4. \A j \in 1..Len(accepted'[k]) : \A i \in 1..j :
            (j - i + 1) * TokenCost <= Burst + (accepted'[k][j] - accepted'[k][i]) * Refill
      BY <2>6, <3>1
    <3> QED BY <2>1, <3>2, <3>3, <3>4 DEF BucketFits
  <2> QED BY <1>1, <1>4, <1>8, <1>9, <2>1, <2>7
<1>10. CASE have < TokenCost
  <2>1. PICK wait : wait = (TokenCost - have + Refill - 1) \div Refill OBVIOUS
  <2>2. ~(have >= TokenCost) BY <1>1, <1>4, <1>10
  <2>3. tokens'[k] = have /\ accepted'[k] = before /\ told'[k] = tick + wait
    BY <1>1, <1>2, <1>3, <2>1, <2>2 DEF TryAcquire, RateLimited, RetryAfter
  <2>4. TokenCost - have \in Nat BY <1>1, <1>4, <1>10
  <2>5. wait \in Nat /\ wait * Refill >= TokenCost - have BY <1>1, <2>1, <2>4, RoundedUp
  <2>6. have + (tick + wait - tick) * Refill >= TokenCost
    <3>1. tick + wait - tick = wait /\ wait * Refill \in Nat BY <1>1, <2>5
    <3> QED BY <1>1, <1>4, <2>5, <3>1
  <2>7. BucketFits(k)' BY <1>1, <1>5, <1>6, <1>7, <1>8, <2>3, <2>5, <2>6 DEF BucketFits, SpentSince
  <2> QED BY <1>1, <1>4, <1>8, <2>3, <2>7
<1> QED BY <1>1, <1>4, <1>9, <1>10

LEMMA DispatchStep ==
  ASSUME LimitsAssumption, LimitsInv, NEW k \in RateKeys, Dispatch(k) PROVE LimitsInv'
<1>1. LimitsTypeOK /\ LimiterFor(k) /\ TryAcquire(k) /\ RateLimited(k) BY DEF LimitsInv, Dispatch
<1>2. tick' = tick /\ check' = check /\ counters' = counters BY DEF Dispatch, riskVars
<1>3. BucketFits(k)' /\ tokens'[k] \in 0..Burst /\ refilled'[k] = tick BY <1>1, <1>2, AcquireFits
<1>4. limiters' \in Seq(RateKeys) /\ Len(limiters') <= MaxLimiters BY <1>1, LimiterTypes
<1>5. /\ DOMAIN accepted = RateKeys /\ DOMAIN tokens = RateKeys
      /\ DOMAIN refilled = RateKeys /\ DOMAIN told = RateKeys
      /\ tokens \in [RateKeys -> 0..Burst] /\ refilled \in [RateKeys -> 0..LastTick]
      /\ accepted \in [RateKeys -> Seq(Nat)] /\ told \in [RateKeys -> Nat]
      /\ tick \in 0..LastTick
  BY DEF LimitsInv, LimitsTypeOK, LimitsAssumption
<1>6. /\ DOMAIN accepted' = RateKeys /\ DOMAIN tokens' = RateKeys
      /\ DOMAIN refilled' = RateKeys /\ DOMAIN told' = RateKeys
      /\ \A x \in RateKeys \ {k} : /\ accepted'[x] = accepted[x] /\ tokens'[x] = tokens[x]
                                  /\ refilled'[x] = refilled[x] /\ told'[x] = told[x]
  BY <1>1, <1>5 DEF TryAcquire, RateLimited
<1>7. \E t, r, a, s :
        /\ tokens' = [tokens EXCEPT ![k] = t] /\ accepted' = [accepted EXCEPT ![k] = a]
        /\ refilled' = [refilled EXCEPT ![k] = r] /\ told' = [told EXCEPT ![k] = s]
  BY <1>1 DEF TryAcquire, RateLimited
<1>8. /\ tokens' \in [RateKeys -> 0..Burst] /\ refilled' \in [RateKeys -> 0..LastTick]
      /\ accepted' \in [RateKeys -> Seq(Nat)] /\ told' \in [RateKeys -> Nat]
  <2>1. accepted'[k] \in Seq(Nat) /\ told'[k] \in Nat BY <1>3 DEF BucketFits
  <2> QED BY <1>3, <1>5, <1>7, <2>1
<1>9. LimitsTypeOK' BY <1>1, <1>2, <1>4, <1>8 DEF LimitsTypeOK
<1>10. \A x \in RateKeys : BucketFits(x)'
  <2>1. SUFFICES ASSUME NEW x \in RateKeys \ {k} PROVE BucketFits(x)' BY <1>3
  <2>2. BucketFits(x) BY DEF LimitsInv
  <2> QED BY <1>2, <1>6, <2>1, <2>2 DEF BucketFits, SpentSince
<1>11. DaysFit' /\ MonthsFit'
  BY <1>2 DEF LimitsInv, DaysFit, MonthsFit, DayCounted, MonthCounted, SumWithin, SumOf, UnitsOf
<1>12. WindowsFit' /\ SplitsFit'
  BY <1>2 DEF LimitsInv, WindowsFit, SplitsFit, WindowCounted, SplitCounted, NumberWithin, Open
<1> QED BY <1>8, <1>9, <1>10, <1>11, <1>12 DEF LimitsInv

LEMMA InitLimits == ASSUME LimitsAssumption, LimitsInit PROVE LimitsInv
<1>1. /\ FirstTick \in Nat /\ LastTick \in Nat /\ FirstTick <= LastTick /\ Burst \in Nat
      /\ DailyLimit \in Nat /\ MonthlyLimit \in Nat /\ Refill \in Nat /\ TokenCost \in Nat
      /\ MaxLimiters \in Nat /\ MaxAttempts \in Nat /\ SplitCount \in Nat \ {0}
  BY DEF LimitsAssumption
<1>2. check \in [Checks -> Calls] /\ \A c \in Checks : check[c].at = "transaction"
  BY DEF LimitsInit, NotYet, Calls
<1>3. counters \in [CounterKeys -> Nat] /\ \A x \in CounterKeys : counters[x] = 0 BY DEF LimitsInit
<1>4. LimitsTypeOK BY <1>1, <1>2, <1>3 DEF LimitsInit, LimitsTypeOK, Calls
<1>5. \A i : /\ DayCounted(i) = {} /\ MonthCounted(i) = {}
             /\ WindowCounted(i) = {} /\ SplitCounted(i) = {}
  BY <1>2 DEF DayCounted, MonthCounted, WindowCounted, SplitCounted,
              AfterDaily, AfterMonthly, AfterFrequency
<1>6. IsFiniteSet({}) /\ Cardinality({}) = 0 /\ UnitsOf({}) = {} BY FS_EmptySet DEF UnitsOf
<1>7. DaysFit /\ MonthsFit
  <2>1. \A limit \in Nat : SumWithin({}, limit, 0) BY <1>6 DEF SumWithin, SumOf
  <2>2. \A i \in 0..LastTick : counters[<<"daily", i, 0>>] = 0 /\ counters[<<"monthly", i, 0>>] = 0
    BY <1>3, KeysOfTimes
  <2> QED BY <1>1, <1>5, <2>1, <2>2 DEF DaysFit, MonthsFit
<1>8. WindowsFit /\ SplitsFit
  <2>1. \A i : \A limit \in Nat : NumberWithin({}, limit, 0, i) BY <1>6 DEF NumberWithin
  <2>2. \A i \in 0..LastTick :
          counters[<<"frequency", 0, i>>] = 0 /\ counters[<<"split", 0, i>>] = 0
    BY <1>3, KeysOfTimes
  <2>3. SplitCount - 1 \in Nat BY <1>1
  <2> QED BY <1>1, <1>5, <2>1, <2>2, <2>3 DEF WindowsFit, SplitsFit
<1>9. \A k \in RateKeys : BucketFits(k) BY <1>1 DEF LimitsInit, BucketFits
<1>10. accepted \in [RateKeys -> Seq(Nat)] /\ told \in [RateKeys -> Nat] BY DEF LimitsInit
<1> QED BY <1>4, <1>7, <1>8, <1>9, <1>10 DEF LimitsInv

LEMMA LimitsNextKeeps ==
  ASSUME LimitsAssumption, LimitsInv, [LimitsNext]_limitVars PROVE LimitsInv'
<1>1. CASE LimitsNext
  <2>1. CASE Passes BY <2>1, PassesStep
  <2>2. ASSUME NEW c \in Checks, CheckTransaction(c) PROVE LimitsInv' BY <2>2, CheckTransactionStep
  <2>3. ASSUME NEW c \in Checks, CheckDaily(c) PROVE LimitsInv' BY <2>3, CheckDailyStep
  <2>4. ASSUME NEW c \in Checks, CheckMonthly(c) PROVE LimitsInv' BY <2>4, CheckMonthlyStep
  <2>5. ASSUME NEW c \in Checks, CheckFrequency(c) PROVE LimitsInv' BY <2>5, CheckFrequencyStep
  <2>6. ASSUME NEW c \in Checks, CheckSplit(c) PROVE LimitsInv' BY <2>6, CheckSplitStep
  <2>7. ASSUME NEW k \in RateKeys, Dispatch(k) PROVE LimitsInv' BY <2>7, DispatchStep
  <2> QED BY <1>1, <2>1, <2>2, <2>3, <2>4, <2>5, <2>6, <2>7 DEF LimitsNext, RiskNext, RateNext
<1>2. CASE UNCHANGED limitVars
  <2>1. /\ UNCHANGED <<tick, check, counters, limiters, tokens, refilled, accepted, told>>
    BY <1>2 DEF limitVars, riskVars, rateVars
  <2>2. /\ LimitsTypeOK' /\ accepted' \in [RateKeys -> Seq(Nat)] /\ told' \in [RateKeys -> Nat]
    BY <2>1 DEF LimitsInv, LimitsTypeOK
  <2>3. DaysFit' /\ MonthsFit'
    BY <2>1 DEF LimitsInv, DaysFit, MonthsFit, DayCounted, MonthCounted, SumWithin, SumOf, UnitsOf
  <2>4. WindowsFit' /\ SplitsFit'
    BY <2>1 DEF LimitsInv, WindowsFit, SplitsFit, WindowCounted, SplitCounted, NumberWithin, Open
  <2>5. \A k \in RateKeys : BucketFits(k)' BY <2>1 DEF LimitsInv, BucketFits, SpentSince
  <2> QED BY <2>2, <2>3, <2>4, <2>5 DEF LimitsInv
<1> QED BY <1>1, <1>2

(* The calls that passed are among those that were counted. *)
LEMMA LimitsFollow == ASSUME LimitsAssumption, LimitsInv PROVE LimitsSound
<1>1. \A d \in 0..LastTick : SumOf({c \in Passed : check[c].day = d}) <= DailyLimit
  <2>1. SUFFICES ASSUME NEW d \in 0..LastTick
                 PROVE  SumOf({c \in Passed : check[c].day = d}) <= DailyLimit
    OBVIOUS
  <2>2. {c \in Passed : check[c].day = d} \subseteq DayCounted(d)
    BY DEF Passed, DayCounted, AfterDaily, AfterMonthly, AfterFrequency
  <2>3. IsFiniteSet(UnitsOf(DayCounted(d))) /\ SumOf(DayCounted(d)) <= DailyLimit
    BY DEF LimitsInv, DaysFit, SumWithin
  <2>4. DailyLimit \in Nat BY DEF LimitsAssumption
  <2> QED BY <2>2, <2>3, <2>4, UnitsPart
<1>2. \A m \in 0..LastTick : SumOf({c \in Passed : check[c].month = m}) <= MonthlyLimit
  <2>1. SUFFICES ASSUME NEW m \in 0..LastTick
                 PROVE  SumOf({c \in Passed : check[c].month = m}) <= MonthlyLimit
    OBVIOUS
  <2>2. {c \in Passed : check[c].month = m} \subseteq MonthCounted(m)
    BY DEF Passed, MonthCounted, AfterMonthly, AfterFrequency
  <2>3. IsFiniteSet(UnitsOf(MonthCounted(m))) /\ SumOf(MonthCounted(m)) <= MonthlyLimit
    BY DEF LimitsInv, MonthsFit, SumWithin
  <2>4. MonthlyLimit \in Nat BY DEF LimitsAssumption
  <2> QED BY <2>2, <2>3, <2>4, UnitsPart
<1>3. Window <= Hour => \A w \in 0..LastTick :
        /\ Cardinality({c \in Passed : check[c].window = w}) <= MaxAttempts
        /\ Cardinality({c \in Passed : Asked[c] >= Large /\ check[c].split = w}) < SplitCount
  <2>1. SUFFICES ASSUME Window <= Hour, NEW w \in 0..LastTick
                 PROVE  /\ Cardinality({c \in Passed : check[c].window = w}) <= MaxAttempts
                        /\ Cardinality({c \in Passed : Asked[c] >= Large /\ check[c].split = w})
                             < SplitCount
    OBVIOUS
  <2>2. {c \in Passed : check[c].window = w} \subseteq WindowCounted(w)
    BY DEF Passed, WindowCounted, AfterFrequency
  <2>3. {c \in Passed : Asked[c] >= Large /\ check[c].split = w} = SplitCounted(w)
    BY DEF Passed, SplitCounted
  <2>4. /\ IsFiniteSet(WindowCounted(w)) /\ Cardinality(WindowCounted(w)) <= MaxAttempts
        /\ IsFiniteSet(SplitCounted(w)) /\ Cardinality(SplitCounted(w)) <= SplitCount - 1
    BY <2>1 DEF LimitsInv, WindowsFit, SplitsFit, NumberWithin
  <2>5. MaxAttempts \in Nat /\ SplitCount \in Nat BY DEF LimitsAssumption
  <2>6. Cardinality({c \in Passed : check[c].window = w}) <= MaxAttempts
    BY <2>2, <2>4, <2>5, NumberPart
  <2>7. Cardinality(SplitCounted(w)) \in Nat BY <2>4, FS_CardinalityType
  <2>8. Cardinality(SplitCounted(w)) < SplitCount BY <2>4, <2>5, <2>7
  <2> QED BY <2>3, <2>6, <2>8
<1>4. \A k \in RateKeys : \A j \in DOMAIN accepted[k] : \A i \in 1..j :
        (j - i + 1) * TokenCost <= Burst + (accepted[k][j] - accepted[k][i]) * Refill
  <2>1. \A k \in RateKeys : DOMAIN accepted[k] = 1..Len(accepted[k]) BY DEF LimitsInv
  <2> QED BY <2>1 DEF LimitsInv, BucketFits
<1>5. Burst >= TokenCost => \A k \in RateKeys :
        Known(k) /\ told[k] # 0 /\ tick >= told[k] => Refilled(k) >= TokenCost
  <2>1. SUFFICES ASSUME Burst >= TokenCost, NEW k \in RateKeys,
                        Known(k), told[k] # 0, tick >= told[k]
                 PROVE  Refilled(k) >= TokenCost
    OBVIOUS
  <2>2. /\ told[k] \in Nat /\ tick \in Nat /\ refilled[k] \in Nat /\ tokens[k] \in Nat
        /\ Refill \in Nat /\ TokenCost \in Nat /\ Burst \in Nat
        /\ tokens[k] + (told[k] - refilled[k]) * Refill >= TokenCost
    BY <2>1 DEF LimitsInv, LimitsTypeOK, BucketFits, LimitsAssumption
  <2>3. PICK then \in Int : then = (told[k] - refilled[k]) * Refill BY <2>2
  <2>4. PICK late \in Nat : late = tick - told[k] BY <2>1, <2>2
  <2>5. (tick - refilled[k]) * Refill = then + late * Refill /\ late * Refill \in Nat
    BY <2>2, <2>3, <2>4
  <2>6. tokens[k] + (tick - refilled[k]) * Refill >= TokenCost BY <2>2, <2>3, <2>5
  <2>7. Refilled(k) = Burst \/ Refilled(k) = tokens[k] + (tick - refilled[k]) * Refill
    BY <2>1, RefilledFits
  <2> QED BY <2>1, <2>6, <2>7
<1> QED BY <1>1, <1>2, <1>3, <1>4, <1>5 DEF LimitsInv, LimitsSound, LimitsHold

(* For any number of payments, keys and ticks, any limits and windows:
   what passes within a time stays within the limits, whatever checks
   interleave, and a limiter lets pass its burst and what came back. *)
THEOREM LimitsAreKept == LimitsSpec => []LimitsSound
<1>1. LimitsInit => LimitsInv BY LimitsAssumption, InitLimits
<1>2. LimitsInv /\ [LimitsNext]_limitVars => LimitsInv' BY LimitsAssumption, LimitsNextKeeps
<1>3. LimitsInv => LimitsSound BY LimitsAssumption, LimitsFollow
<1> QED BY <1>1, <1>2, <1>3, PTL DEF LimitsSpec
=============================================================================
