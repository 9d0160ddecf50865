------------------------------ MODULE MCMemory ------------------------------
(* What the framework keeps in memory, for TLC: the message queue, and the
   in-memory stores of the outbox and of the payment channel.  The three
   share no state and are explored side by side; `part` says which one
   moves. *)
EXTENDS Outbox, PaymentChannel, MessageQueue, TLC

CONSTANTS m1, m2, b1, b2

(* Each message is about a business action of its own. *)
OwnBiz == m1 :> b1 @@ m2 :> b2

VARIABLE part

MemoryInit == /\ part \in {"outbox", "payment", "queue"}
              /\ OutboxInit /\ PaymentInit /\ Init

(* The application starts the queue, whichever part it uses then. *)
MemoryNext ==
  /\ UNCHANGED part
  /\ \/ part = "outbox" /\ OutboxNext /\ UNCHANGED <<paymentVars, vars>>
     \/ part = "payment" /\ PaymentNext /\ UNCHANGED <<outboxVars, vars>>
     \/ /\ IF part = "queue" THEN Next ELSE Start
        /\ UNCHANGED <<outboxVars, paymentVars>>

MemorySpec ==
  /\ MemoryInit
  /\ [][MemoryNext]_<<outboxVars, paymentVars, vars, part>>
  /\ PaymentFairness /\ Fairness
=============================================================================
