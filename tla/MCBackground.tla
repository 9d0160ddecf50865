---------------------------- MODULE MCBackground ----------------------------
(* Instances of Tasks and Scheduling for TLC.  The two meet in the record
   store only, where Tasks has the record of an execution as an action;
   here they are explored side by side, with the making of the shared
   pool, and `part` says which one moves. *)
EXTENDS Tasks, Scheduling, TLC

CONSTANTS c1, c2, i1, i2, a1, u1, u2, u3

(* Every call is given an id of its own. *)
Own == c1 :> i1 @@ c2 :> i2

(* One of the threads asks for a pool without a queue. *)
Sizes == u1 :> 2 @@ u2 :> 4 @@ u3 :> 0

VARIABLE part

Init == /\ part \in {"tasks", "scheduling", "pools"}
        /\ TasksInit /\ SchedInit /\ SharedPoolInit

Next == \/ part = "tasks" /\ TasksNext /\ UNCHANGED <<schedVars, sharedVars, part>>
        \/ part = "scheduling" /\ SchedNext /\ UNCHANGED <<tasksVars, sharedVars, part>>
        \/ part = "pools" /\ SharedPoolNext /\ UNCHANGED <<tasksVars, schedVars, part>>

Spec == Init /\ [][Next]_<<tasksVars, schedVars, sharedVars, part>> /\ TasksFairness
=============================================================================
