----------------------------- MODULE MCRecords ------------------------------
(* Instances, for TLC, of what keeps records by itself or through people:
   reconciliation, the limits of payments and requests, the data sources
   of an application, and the workflow that releases the package.  They
   share no state and are explored side by side; `part` says which moves. *)
EXTENDS Reconciliation, Limits, Databases, Releases, ModelConfigs, TLC

CONSTANTS c1, c2, c3, c4, s0, t1, ra, rb

(* Payments of one user, the last of which is too large by itself. *)
Payments == c1 :> 2 @@ c2 :> 2 @@ c3 :> 1 @@ c4 :> 3

(* The router may have a mapping of the tenant; the name it would make up
   is that of the same data source. *)
TenantMappings == {t1 :> NoSource, t1 :> s0}
MadeUp == t1 :> s0

(* A pull request with a feature, and another that may be anything else. *)
PullTitles == ra :> {"feat"} @@ rb :> {"no_change", "patch", "skip"}
Initial == [major |-> 0, minor |-> 0, patch |-> 0, dev |-> TRUE]

VARIABLE part

Init == /\ part \in {"rounds", "risk", "rate", "databases", "releases", "configs"}
        /\ ReconInit /\ LimitsInit /\ DbInit /\ ReleaseInit /\ ConfigInit
        /\ part # "databases" => mapping = [t \in DbTenants |-> NoSource]

Next ==
  /\ UNCHANGED part
  /\ part = "rounds" \/ UNCHANGED reconVars
  /\ part \in {"risk", "rate"} \/ UNCHANGED limitVars
  /\ part = "databases" \/ UNCHANGED dbVars
  /\ part = "releases" \/ UNCHANGED releaseVars
  /\ part = "configs" \/ UNCHANGED configVars
  /\ \/ part = "rounds" /\ ReconNext
     \/ part = "risk" /\ RiskNext
     \/ part = "rate" /\ RateNext
     \/ part = "databases" /\ DbNext
     \/ part = "releases" /\ ReleaseNext
     \/ part = "configs" /\ ConfigNext

Spec == Init /\ [][Next]_<<reconVars, limitVars, dbVars, releaseVars, configVars, part>>

Symmetry == Permutations(Rounds)
=============================================================================
