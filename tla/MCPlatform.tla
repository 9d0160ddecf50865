----------------------------- MODULE MCPlatform -----------------------------
(* Instances of the components that serve requests, for TLC: the model
   gateway and the calls of other services, the middlewares, the stores
   of credentials, objects and their uploads, and the application that
   assembles them.  They share no state and are explored side by side;
   `part` says which one moves. *)
EXTENDS ModelGateway, ServiceCall, WebRequests, Credentials, Uploads,
        Application, TLC

CONSTANTS r1, r2, r3, r4, m1, m2, t1, u1, k1,
          p1, p2, p3, p4, p5, ua, ub, ik,
          l1, l2, l3, d1, d2, f1, f2, f3, ip,
          put1, put2, put3, w1, w2, w3, done1, done2, drop1, e1, e2, e3, ghost

Entries == r1 :> "chat" @@ r2 :> "stream" @@ r3 :> "chat" @@ r4 :> "embed"
Routes == r1 :> <<m1, m2>> @@ r2 :> <<m1, m2>> @@ r3 :> <<m1>> @@ r4 :> <<m1>>
Refused == {<<r1, m2>>}
Quotas == r1 :> <<t1>> @@ r2 :> <<t1>> @@ r3 :> <<t1>> @@ r4 :> <<u1, t1>>
CacheKeys == r1 :> k1 @@ r2 :> k1 @@ r3 :> k1 @@ r4 :> k1

(* Of the four requests, whichever they are, three come. *)
ThreeCome == Cardinality({r \in Requests : job[r].at # "new"}) <= 3

(* Of the calls of an upload five come. *)
FiveCome == Cardinality({u \in Puts : put[u] # "new"})
              + Cardinality({c \in Callers : caller[c].at # "new"}) <= 5

(* Posts of two users with one key, two of them with the other user's name
   in the header, one with other content, and one without a key. *)
Senders == p1 :> ua @@ p2 :> ua @@ p3 :> ua @@ p4 :> ub @@ p5 :> ub
Headers == p1 :> Nobody @@ p2 :> ub @@ p3 :> Nobody @@ p4 :> ua @@ p5 :> Nobody
PostKeys == p1 :> ik @@ p2 :> ik @@ p3 :> ik @@ p4 :> ik @@ p5 :> NoKey
Digests == p1 :> 1 @@ p2 :> 1 @@ p3 :> 2 @@ p4 :> 1 @@ p5 :> 1

LoginDevices == l1 :> d1 @@ l2 :> d1 @@ l3 :> d2
FailedFor == f1 :> ua @@ f2 :> ub
Limits == ua :> 1 @@ ub :> 2 @@ ip :> 2

PutParts == put1 :> 1 @@ put2 :> 2 @@ put3 :> 1
PutContents == put1 :> "good" @@ put2 :> "good" @@ put3 :> "other"

(* What is put into an object: a short text and a longer one. *)
PutTexts == {<<"a">>, <<"b", "b">>}

VARIABLE part

allVars == <<gatewayVars, serviceVars, guardedVars, webVars, tokenVars, lockVars, uploadVars, objectVars,
             appVars>>

(* An application is assembled from any graph of three extensions; a name
   that is not registered is required, or enabled with one that is. *)
Init == /\ part \in {"gateway", "service", "guarded", "web", "tokens", "locks", "uploads",
                    "objects", "application"}
        /\ GatewayInit /\ ServiceInit /\ GuardedInit /\ WebInit /\ TokenInit /\ LockInit
        /\ part # "guarded" => fallback = "none" /\ sync
        /\ UploadInit /\ ObjectsInit /\ AppInit
        /\ part # "web" => idemStore = "memory"
        /\ part # "tokens" => tokenStore = "memory"
        /\ part \notin {"uploads", "objects"} => storage = "local"
        /\ IF part = "application"
           THEN enabled \subseteq Extensions \/ enabled = {e1, ghost}
           ELSE enabled = {} /\ requires = [e \in Extensions |-> {}]

Next ==
  /\ UNCHANGED part
  /\ \/ /\ part = "gateway" /\ GatewayNext /\ ThreeCome'
        /\ UNCHANGED <<serviceVars, guardedVars, webVars, tokenVars, lockVars,
                       uploadVars, objectVars, appVars>>
     \/ /\ part = "service" /\ ServiceNext
        /\ UNCHANGED <<gatewayVars, guardedVars, webVars, tokenVars, lockVars,
                       uploadVars, objectVars, appVars>>
     \/ /\ part = "guarded" /\ GuardedNext
        /\ UNCHANGED <<gatewayVars, webVars, tokenVars, lockVars, uploadVars,
                       objectVars, appVars>>
     \/ /\ part = "web" /\ WebNext
        /\ UNCHANGED <<gatewayVars, serviceVars, guardedVars, tokenVars,
                       lockVars, uploadVars, objectVars, appVars>>
     \/ /\ part = "tokens" /\ TokenNext
        /\ UNCHANGED <<gatewayVars, serviceVars, guardedVars, webVars,
                       lockVars, uploadVars, objectVars, appVars>>
     \/ /\ part = "locks" /\ LockNext
        /\ UNCHANGED <<gatewayVars, serviceVars, guardedVars, webVars,
                       tokenVars, uploadVars, objectVars, appVars>>
     \/ /\ part = "uploads" /\ UploadNext /\ FiveCome'
        /\ UNCHANGED <<gatewayVars, serviceVars, guardedVars, webVars,
                       tokenVars, lockVars, objectVars, appVars>>
     \/ /\ part = "objects" /\ ObjectsNext
        /\ UNCHANGED <<gatewayVars, serviceVars, guardedVars, webVars,
                       tokenVars, lockVars, uploadVars, appVars>>
     \/ /\ part = "application" /\ AppNext
        /\ UNCHANGED <<gatewayVars, serviceVars, guardedVars, webVars,
                       tokenVars, lockVars, uploadVars, objectVars>>

Spec == Init /\ [][Next]_<<allVars, part>>
=============================================================================
