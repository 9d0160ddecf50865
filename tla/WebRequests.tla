---------------------------- MODULE WebRequests -----------------------------
(* Write requests on their way through the middlewares of an application
   (infra/web): the request context, authentication and the idempotency
   keys, over the in-memory store or over Redis.

   A step ends where a request waits: for the token store, for the
   idempotency store, for the handler.  A post is sent once; a client that
   tries again is another post with the same user, key and digest. *)
EXTENDS Naturals

CONSTANTS Posts,        \* requests with a write method
          WebUsers,
          Sender,       \* the user in the token of a post
          Claims,       \* the user its X-User-Id header names
          IdemKeys, IdemKeyOf,  \* its Idempotency-Key, or NoKey
          Digest,       \* digest of method, path, query and body
          NoKey, Nobody,
          IdemStores    \* which stores: "memory", "redis"

ASSUME WebAssumption ==
  /\ Sender \in [Posts -> WebUsers] /\ Claims \in [Posts -> WebUsers \cup {Nobody}]
  /\ IdemKeyOf \in [Posts -> IdemKeys \cup {NoKey}] /\ NoKey \notin IdemKeys
  /\ Nobody \notin WebUsers \cup Posts /\ IdemStores \subseteq {"memory", "redis"}

VARIABLES idemStore, \* the store the application was built with
          at,        \* where each post is
          identity,  \* RequestContext: the user of each post, or Nobody
          replay,    \* whose result the post was answered with, or Nobody
          occupied,  \* keys that are occupied
          result,    \* the post whose result a key holds, or Nobody
          executed   \* ghost: posts the handler answered while the store
                     \* should remember it, by user and key

webVars == <<idemStore, at, identity, replay, occupied, result, executed>>
storeVars == <<occupied, result, executed, idemStore>>

StoreKeys == WebUsers \X IdemKeys
StoreKey(p) == <<identity[p], IdemKeyOf[p]>>
HasKey(p) == IdemKeyOf[p] # NoKey
Handling == {"handling", "answering", "recorded"}
ForKey(p, k) == HasKey(p) /\ StoreKey(p) = k
PostsAt(k, places) == {p \in Posts : at[p] \in places /\ ForKey(p, k)}
Moves(p, from, to) == at[p] = from /\ at' = [at EXCEPT ![p] = to]

WebInit ==
  /\ idemStore \in IdemStores
  /\ at = [p \in Posts |-> "new"]
  /\ identity = [p \in Posts |-> Nobody] /\ replay = [p \in Posts |-> Nobody]
  /\ occupied = {} /\ result = [k \in StoreKeys |-> Nobody]
  /\ executed = [k \in StoreKeys |-> {}]

----------------------------------------
(* Context and authentication. *)

(* RequestContextMiddleware: the user of the header, if there is one. *)
EnterContext(p) ==
  /\ Moves(p, "new", "entered")
  /\ identity' = [identity EXCEPT ![p] = Claims[p]]
  /\ UNCHANGED <<replay, storeVars>>

(* AuthMiddleware, for paths that are not white-listed: a token that is
   good puts its user in the place of the header's; anything else is
   answered with 401. *)
Authenticate(p) ==
  /\ \/ /\ Moves(p, "entered", "admitted")
        /\ identity' = [identity EXCEPT ![p] = Sender[p]]
     \/ Moves(p, "entered", "ended") /\ identity' = [identity EXCEPT ![p] = Nobody]
  /\ UNCHANGED <<replay, storeVars>>

----------------------------------------
(* The idempotency store. *)

Remembered(k) == result[k] # Nobody

(* A mutant: what is done is not looked at. *)
FreeWhenDone(k) == k \notin occupied

(* try_occupy succeeds: with Redis it is SET NX of the occupy key alone. *)
Free(k) == k \notin occupied /\ (idemStore = "redis" \/ ~Remembered(k))

(* No middleware for a post without a key; otherwise the key is occupied,
   or somebody else has it. *)
Occupy(p) ==
  /\ at[p] = "admitted"
  /\ IF ~HasKey(p) THEN Moves(p, "admitted", "handling") /\ UNCHANGED occupied
     ELSE IF Free(StoreKey(p))
     THEN Moves(p, "admitted", "handling") /\ occupied' = occupied \cup {StoreKey(p)}
     ELSE Moves(p, "admitted", "refused") /\ UNCHANGED occupied
  /\ UNCHANGED <<identity, replay, result, executed, idemStore>>

(* 200 with the result of the first, 409 if it answered other content, 202
   if there is none: it may have gone since the key was found occupied. *)
Replay(p) ==
  /\ Moves(p, "refused", "ended")
  /\ replay' = IF Remembered(StoreKey(p)) /\ Digest[result[StoreKey(p)]] = Digest[p]
               THEN [replay EXCEPT ![p] = result[StoreKey(p)]] ELSE replay
  /\ UNCHANGED <<identity, storeVars>>

Executes(p) == IF HasKey(p)
               THEN [executed EXCEPT ![StoreKey(p)] = @ \cup {p}] ELSE executed

(* The handler answers: errors that are turned into responses as well. *)
Handles(p) ==
  /\ Moves(p, "handling", IF HasKey(p) THEN "answering" ELSE "ended")
  /\ executed' = Executes(p)
  /\ UNCHANGED <<identity, replay, occupied, result, idemStore>>

(* An exception that reaches the middleware: the key is released. *)
HandlerRaises(p) ==
  /\ Moves(p, "handling", "ended")
  /\ occupied' = occupied \ {StoreKey(p)}
  /\ UNCHANGED <<identity, replay, result, executed, idemStore>>

(* A cancelled request leaves the key occupied, and so does one whose body
   or result cannot be written. *)
Breaks(p) ==
  /\ at[p] \in Handling
  /\ at' = [at EXCEPT ![p] = "ended"]
  /\ UNCHANGED <<identity, replay, storeVars>>

(* set_result in memory: one step under the lock. *)
SetResult(p) ==
  /\ idemStore = "memory" /\ Moves(p, "answering", "ended")
  /\ occupied' = occupied \ {StoreKey(p)}
  /\ result' = [result EXCEPT ![StoreKey(p)] = p]
  /\ UNCHANGED <<identity, replay, executed, idemStore>>

(* set_result on Redis: the result first, then the occupy key goes. *)
SetRedisResult(p) ==
  /\ idemStore = "redis" /\ Moves(p, "answering", "recorded")
  /\ result' = [result EXCEPT ![StoreKey(p)] = p]
  /\ UNCHANGED <<identity, replay, occupied, executed, idemStore>>
DeleteOccupied(p) ==
  /\ Moves(p, "recorded", "ended")
  /\ occupied' = occupied \ {StoreKey(p)}
  /\ UNCHANGED <<identity, replay, result, executed, idemStore>>

(* ttl_seconds (24 hours unless configured) are over.  No request takes
   that long: the key of a request that is handled does not run out. *)
ForgetKey(k) ==
  /\ PostsAt(k, Handling) = {} /\ (k \in occupied \/ Remembered(k))
  /\ occupied' = occupied \ {k}
  /\ result' = [result EXCEPT ![k] = Nobody]
  /\ executed' = [executed EXCEPT ![k] = {}]
  /\ UNCHANGED <<at, identity, replay, idemStore>>

WebNext ==
  \/ \E p \in Posts :
       \/ EnterContext(p) \/ Authenticate(p) \/ Occupy(p) \/ Replay(p) \/ Handles(p)
       \/ HandlerRaises(p) \/ Breaks(p) \/ SetResult(p) \/ SetRedisResult(p)
       \/ DeleteOccupied(p)
  \/ \E k \in StoreKeys : ForgetKey(k)

WebSpec == WebInit /\ [][WebNext]_webVars

WebTypeOK ==
  /\ idemStore \in IdemStores
  /\ at \in [Posts -> {"new", "entered", "admitted", "refused", "handling",
                       "answering", "recorded", "ended"}]
  /\ identity \in [Posts -> WebUsers \cup {Nobody}]
  /\ replay \in [Posts -> Posts \cup {Nobody}]
  /\ occupied \subseteq StoreKeys /\ result \in [StoreKeys -> Posts \cup {Nobody}]
  /\ executed \in [StoreKeys -> SUBSET Posts]

AtMostOne(S) == \A p, q \in S : p = q

(* For one user and one key, until the time of the key is over: once the
   handler has answered a request it is not entered again, whatever became
   of that answer, and no two requests are handled at a time. *)
ExecutedOnce ==
  \A k \in StoreKeys : AtMostOne(executed[k] \cup PostsAt(k, {"handling"}))

(* With either store one request at a time has a key, from occupying it to
   the end of set_result; with the one in memory a key is executed once;
   and the result a request is answered with is that of a request with the
   same user, key and content. *)
Idempotent ==
  /\ \A k \in StoreKeys : AtMostOne(PostsAt(k, Handling))
  /\ idemStore = "memory" => ExecutedOnce
  /\ \A p \in Posts : replay[p] # Nobody =>
       /\ Sender[replay[p]] = Sender[p] /\ IdemKeyOf[replay[p]] = IdemKeyOf[p]
       /\ Digest[replay[p]] = Digest[p]
=============================================================================
