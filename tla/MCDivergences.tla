--------------------------- MODULE MCDivergences ----------------------------
(* Small instances of Uploads and WebRequests for the runs in which the
   code does not do what a document says: one upload of two parts that is
   completed once, and a client that sends the same request twice.  In
   each run the other component rests in its initial state. *)
EXTENDS Uploads, WebRequests, TLC

CONSTANTS put1, put2, done1, p1, p2, ua, ik

PutParts == put1 :> 1 @@ put2 :> 2
PutContents == put1 :> "good" @@ put2 :> "good"

Senders == p1 :> ua @@ p2 :> ua
Headers == p1 :> Nobody @@ p2 :> Nobody
PostKeys == p1 :> ik @@ p2 :> ik
Digests == p1 :> 1 @@ p2 :> 1

Init == UploadInit /\ ObjectsInit /\ WebInit

LostSpec ==
  Init /\ [][UploadNext /\ UNCHANGED <<objectVars, webVars>>]_<<uploadVars, objectVars, webVars>>

ReplaySpec ==
  Init /\ [][WebNext /\ UNCHANGED <<uploadVars, objectVars>>]_<<uploadVars, objectVars, webVars>>
=============================================================================
