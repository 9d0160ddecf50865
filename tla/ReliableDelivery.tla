-------------------------- MODULE ReliableDelivery --------------------------
(***************************************************************************)
(* What a transactional outbox promises, whatever its pollers, its store   *)
(* and its clean-up do: a message that was accepted stays on record until  *)
(* the broker holds at least one copy of it.  Messages may be delivered    *)
(* more than once, and delivery may be given up for good, but an accepted  *)
(* message never vanishes without a trace.                                 *)
(***************************************************************************)
CONSTANT Msgs            \* the identifiers a message can have

VARIABLES accepted,      \* messages the outbox took over from the business
          retained,      \* accepted messages the outbox still has a row for
          delivered      \* messages the broker acknowledged or at least holds

rdVars == <<accepted, retained, delivered>>

Init ==
  /\ accepted = {}
  /\ retained = {}
  /\ delivered = {}

Accept(m) ==
  /\ m \notin accepted
  /\ accepted' = accepted \union {m}
  /\ retained' = retained \union {m}
  /\ UNCHANGED delivered

Deliver(m) ==
  /\ m \in retained
  /\ delivered' = delivered \union {m}
  /\ UNCHANGED <<accepted, retained>>

(* Rows are dropped in bulk, and only those of delivered messages. *)
Forget(S) ==
  /\ S \subseteq retained \intersect delivered
  /\ retained' = retained \ S
  /\ UNCHANGED <<accepted, delivered>>

Next ==
  \/ \E m \in Msgs : Accept(m) \/ Deliver(m)
  \/ \E S \in SUBSET Msgs : Forget(S)

Spec == Init /\ [][Next]_rdVars
=============================================================================
