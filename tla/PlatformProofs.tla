--------------------------- MODULE PlatformProofs ---------------------------
(***************************************************************************)
(* Proofs about WebRequests, WechatPay, Uploads and Application: for any   *)
(* posts, users, keys and contents, and either store; for any calls and    *)
(* processes; for any parts, callers and texts, on disk and on MinIO; for  *)
(* any extensions and what they require.                                   *)
(***************************************************************************)
EXTENDS WebRequests, WechatPay, Uploads, Application, SequenceTheorems, FunctionTheorems,
        FiniteSetTheorems, WellFoundedInduction, TLAPS

----------------------------------------
(* The inductive invariant of WebRequests. *)

Known == {"admitted", "refused", "handling", "answering", "recorded"}

(* A post that was let in is known by the user of its token, and one that
   was refused by the store, or is to be stored, has a key. *)
Authenticated ==
  \A p \in Posts :
    /\ at[p] \in Known => identity[p] = Sender[p]
    /\ at[p] \in {"refused", "answering", "recorded"} => HasKey(p)

(* A post that is handled has its key occupied, and nobody else has it. *)
HoldsKey ==
  /\ \A p \in Posts : at[p] \in Handling /\ HasKey(p) => StoreKey(p) \in occupied
  /\ \A p, q \in Posts :
     /\ at[p] \in Handling /\ HasKey(p)
     /\ at[q] \in Handling /\ HasKey(q)
     /\ StoreKey(p) = StoreKey(q)
     => p = q

(* A result is stored under the key of the post it belongs to. *)
OwnResult ==
  \A k \in StoreKeys : Remembered(k) =>
    /\ HasKey(result[k]) /\ k = <<Sender[result[k]], IdemKeyOf[result[k]]>>

OwnReplay ==
  \A p \in Posts : replay[p] # Nobody =>
    /\ Sender[replay[p]] = Sender[p] /\ IdemKeyOf[replay[p]] = IdemKeyOf[p]
    /\ Digest[replay[p]] = Digest[p]

(* The store in memory: a key that was executed is occupied or has its
   result, never both, so nobody is handled under it again. *)
MemoryRemembers ==
  idemStore = "memory" =>
    /\ \A k \in StoreKeys : executed[k] # {} => k \in occupied \/ Remembered(k)
    /\ \A k \in StoreKeys : ~(k \in occupied /\ Remembered(k))
    /\ \A k \in StoreKeys : AtMostOne(executed[k])
    /\ \A p \in Posts : at[p] = "handling" /\ HasKey(p) => executed[StoreKey(p)] = {}
    /\ \A p \in Posts : at[p] # "recorded"

IInv ==
  WebTypeOK /\ Authenticated /\ HoldsKey /\ OwnResult /\ OwnReplay /\ MemoryRemembers

----------------------------------------

(* A post that was let in with a key has one of the keys of the store. *)
LEMMA KeyIsStoreKey ==
  ASSUME WebTypeOK, Authenticated, NEW p \in Posts, at[p] \in Known, HasKey(p)
  PROVE  StoreKey(p) \in StoreKeys
BY WebAssumption DEF WebTypeOK, Authenticated, HasKey, StoreKey, StoreKeys

LEMMA InitIInv == WebInit => IInv
BY WebAssumption
   DEF WebInit, IInv, WebTypeOK, Authenticated, HoldsKey, OwnResult, OwnReplay,
       MemoryRemembers, AtMostOne, Handling, Known, Remembered, HasKey

LEMMA TypeStep ==
  ASSUME WebTypeOK, Authenticated, [WebNext]_webVars PROVE WebTypeOK'
<1> USE WebAssumption DEF WebTypeOK, Authenticated, storeVars
<1>1. CASE UNCHANGED webVars BY <1>1 DEF webVars
<1>2. ASSUME NEW p \in Posts, EnterContext(p) PROVE WebTypeOK' BY <1>2 DEF EnterContext, Moves
<1>3. ASSUME NEW p \in Posts, Authenticate(p) PROVE WebTypeOK' BY <1>3 DEF Authenticate, Moves
<1>4. ASSUME NEW p \in Posts, Occupy(p) PROVE WebTypeOK'
  <2>1. HasKey(p) => StoreKey(p) \in StoreKeys
    BY <1>4, KeyIsStoreKey DEF Occupy, Moves, Known, Handling
  <2> QED BY <1>4, <2>1 DEF Occupy, Moves
<1>5. ASSUME NEW p \in Posts, Replay(p) PROVE WebTypeOK'
  <2>1. HasKey(p) => StoreKey(p) \in StoreKeys
    BY <1>5, KeyIsStoreKey DEF Replay, Moves, Remembered, Known, Handling
  <2> QED BY <1>5, <2>1 DEF Replay, Moves, Remembered
<1>6. ASSUME NEW p \in Posts, Handles(p) PROVE WebTypeOK'
  <2>1. HasKey(p) => StoreKey(p) \in StoreKeys
    BY <1>6, KeyIsStoreKey DEF Handles, Moves, Executes, Known, Handling
  <2> QED BY <1>6, <2>1 DEF Handles, Moves, Executes
<1>7. ASSUME NEW p \in Posts, HandlerRaises(p) PROVE WebTypeOK'
  <2>1. HasKey(p) => StoreKey(p) \in StoreKeys
    BY <1>7, KeyIsStoreKey DEF HandlerRaises, Moves, Known, Handling
  <2> QED BY <1>7, <2>1 DEF HandlerRaises, Moves
<1>8. ASSUME NEW p \in Posts, Breaks(p) PROVE WebTypeOK'
  <2>1. HasKey(p) => StoreKey(p) \in StoreKeys BY <1>8, KeyIsStoreKey DEF Breaks, Known, Handling
  <2> QED BY <1>8, <2>1 DEF Breaks
<1>9. ASSUME NEW p \in Posts, SetResult(p) PROVE WebTypeOK'
  <2>1. HasKey(p) => StoreKey(p) \in StoreKeys
    BY <1>9, KeyIsStoreKey DEF SetResult, Moves, Known, Handling
  <2> QED BY <1>9, <2>1 DEF SetResult, Moves
<1>10. ASSUME NEW p \in Posts, SetRedisResult(p) PROVE WebTypeOK'
  <2>1. HasKey(p) => StoreKey(p) \in StoreKeys
    BY <1>10, KeyIsStoreKey DEF SetRedisResult, Moves, Known, Handling
  <2> QED BY <1>10, <2>1 DEF SetRedisResult, Moves
<1>11. ASSUME NEW p \in Posts, DeleteOccupied(p) PROVE WebTypeOK'
  <2>1. HasKey(p) => StoreKey(p) \in StoreKeys
    BY <1>11, KeyIsStoreKey DEF DeleteOccupied, Moves, Known, Handling
  <2> QED BY <1>11, <2>1 DEF DeleteOccupied, Moves
<1>12. ASSUME NEW k \in StoreKeys, ForgetKey(k) PROVE WebTypeOK' BY <1>12 DEF ForgetKey
<1> QED BY <1>1, <1>2, <1>3, <1>4, <1>5, <1>6, <1>7, <1>8, <1>9, <1>10, <1>11, <1>12 DEF WebNext

LEMMA AuthenticatedStep ==
  ASSUME WebTypeOK, Authenticated, [WebNext]_webVars PROVE Authenticated'
<1> USE WebAssumption DEF WebTypeOK, Authenticated, Known, HasKey, Handling, storeVars
<1>1. CASE UNCHANGED webVars BY <1>1 DEF webVars
<1>2. ASSUME NEW p \in Posts, EnterContext(p) PROVE Authenticated' BY <1>2 DEF EnterContext, Moves
<1>3. ASSUME NEW p \in Posts, Authenticate(p) PROVE Authenticated' BY <1>3 DEF Authenticate, Moves
<1>4. ASSUME NEW p \in Posts, Occupy(p) PROVE Authenticated'
  <2>1. HasKey(p) => StoreKey(p) \in StoreKeys
    BY <1>4, KeyIsStoreKey DEF Occupy, Moves, Known, Handling
  <2> QED BY <1>4, <2>1 DEF Occupy, Moves
<1>5. ASSUME NEW p \in Posts, Replay(p) PROVE Authenticated'
  <2>1. HasKey(p) => StoreKey(p) \in StoreKeys
    BY <1>5, KeyIsStoreKey DEF Replay, Moves, Remembered, Known, Handling
  <2> QED BY <1>5, <2>1 DEF Replay, Moves, Remembered
<1>6. ASSUME NEW p \in Posts, Handles(p) PROVE Authenticated'
  <2>1. HasKey(p) => StoreKey(p) \in StoreKeys
    BY <1>6, KeyIsStoreKey DEF Handles, Moves, Executes, Known, Handling
  <2> QED BY <1>6, <2>1 DEF Handles, Moves, Executes
<1>7. ASSUME NEW p \in Posts, HandlerRaises(p) PROVE Authenticated'
  <2>1. HasKey(p) => StoreKey(p) \in StoreKeys
    BY <1>7, KeyIsStoreKey DEF HandlerRaises, Moves, Known, Handling
  <2> QED BY <1>7, <2>1 DEF HandlerRaises, Moves
<1>8. ASSUME NEW p \in Posts, Breaks(p) PROVE Authenticated'
  <2>1. HasKey(p) => StoreKey(p) \in StoreKeys BY <1>8, KeyIsStoreKey DEF Breaks, Known, Handling
  <2> QED BY <1>8, <2>1 DEF Breaks
<1>9. ASSUME NEW p \in Posts, SetResult(p) PROVE Authenticated'
  <2>1. HasKey(p) => StoreKey(p) \in StoreKeys
    BY <1>9, KeyIsStoreKey DEF SetResult, Moves, Known, Handling
  <2> QED BY <1>9, <2>1 DEF SetResult, Moves
<1>10. ASSUME NEW p \in Posts, SetRedisResult(p) PROVE Authenticated'
  <2>1. HasKey(p) => StoreKey(p) \in StoreKeys
    BY <1>10, KeyIsStoreKey DEF SetRedisResult, Moves, Known, Handling
  <2> QED BY <1>10, <2>1 DEF SetRedisResult, Moves
<1>11. ASSUME NEW p \in Posts, DeleteOccupied(p) PROVE Authenticated'
  <2>1. HasKey(p) => StoreKey(p) \in StoreKeys
    BY <1>11, KeyIsStoreKey DEF DeleteOccupied, Moves, Known, Handling
  <2> QED BY <1>11, <2>1 DEF DeleteOccupied, Moves
<1>12. ASSUME NEW k \in StoreKeys, ForgetKey(k) PROVE Authenticated' BY <1>12 DEF ForgetKey
<1> QED BY <1>1, <1>2, <1>3, <1>4, <1>5, <1>6, <1>7, <1>8, <1>9, <1>10, <1>11, <1>12 DEF WebNext

LEMMA HoldsKeyStep ==
  ASSUME WebTypeOK, Authenticated, HoldsKey, [WebNext]_webVars PROVE HoldsKey'
<1> USE WebAssumption DEF WebTypeOK, Authenticated, HoldsKey, Known, HasKey, Handling, StoreKey, storeVars
<1>1. CASE UNCHANGED webVars BY <1>1 DEF webVars
<1>2. ASSUME NEW p \in Posts, EnterContext(p) PROVE HoldsKey' BY <1>2 DEF EnterContext, Moves
<1>3. ASSUME NEW p \in Posts, Authenticate(p) PROVE HoldsKey' BY <1>3 DEF Authenticate, Moves
<1>4. ASSUME NEW p \in Posts, Occupy(p) PROVE HoldsKey'
  <2>1. HasKey(p) => StoreKey(p) \in StoreKeys
    BY <1>4, KeyIsStoreKey DEF Occupy, Moves, Free, Known, Handling
  <2> QED BY <1>4, <2>1 DEF Occupy, Moves, Free
<1>5. ASSUME NEW p \in Posts, Replay(p) PROVE HoldsKey'
  <2>1. HasKey(p) => StoreKey(p) \in StoreKeys
    BY <1>5, KeyIsStoreKey DEF Replay, Moves, Known, Handling
  <2> QED BY <1>5, <2>1 DEF Replay, Moves
<1>6. ASSUME NEW p \in Posts, Handles(p) PROVE HoldsKey'
  <2>1. HasKey(p) => StoreKey(p) \in StoreKeys
    BY <1>6, KeyIsStoreKey DEF Handles, Moves, Executes, Known, Handling
  <2> QED BY <1>6, <2>1 DEF Handles, Moves, Executes
<1>7. ASSUME NEW p \in Posts, HandlerRaises(p) PROVE HoldsKey'
  <2>1. HasKey(p) => StoreKey(p) \in StoreKeys
    BY <1>7, KeyIsStoreKey DEF HandlerRaises, Moves, Known, Handling
  <2> QED BY <1>7, <2>1 DEF HandlerRaises, Moves
<1>8. ASSUME NEW p \in Posts, Breaks(p) PROVE HoldsKey'
  <2>1. HasKey(p) => StoreKey(p) \in StoreKeys BY <1>8, KeyIsStoreKey DEF Breaks, Known, Handling
  <2> QED BY <1>8, <2>1 DEF Breaks
<1>9. ASSUME NEW p \in Posts, SetResult(p) PROVE HoldsKey'
  <2>1. HasKey(p) => StoreKey(p) \in StoreKeys
    BY <1>9, KeyIsStoreKey DEF SetResult, Moves, Known, Handling
  <2> QED BY <1>9, <2>1 DEF SetResult, Moves
<1>10. ASSUME NEW p \in Posts, SetRedisResult(p) PROVE HoldsKey'
  <2>1. HasKey(p) => StoreKey(p) \in StoreKeys
    BY <1>10, KeyIsStoreKey DEF SetRedisResult, Moves, Known, Handling
  <2> QED BY <1>10, <2>1 DEF SetRedisResult, Moves
<1>11. ASSUME NEW p \in Posts, DeleteOccupied(p) PROVE HoldsKey'
  <2>1. HasKey(p) => StoreKey(p) \in StoreKeys
    BY <1>11, KeyIsStoreKey DEF DeleteOccupied, Moves, Known, Handling
  <2> QED BY <1>11, <2>1 DEF DeleteOccupied, Moves
<1>12. ASSUME NEW k \in StoreKeys, ForgetKey(k) PROVE HoldsKey'
  BY <1>12 DEF ForgetKey, PostsAt, ForKey
<1> QED BY <1>1, <1>2, <1>3, <1>4, <1>5, <1>6, <1>7, <1>8, <1>9, <1>10, <1>11, <1>12 DEF WebNext

LEMMA OwnResultStep ==
  ASSUME WebTypeOK, Authenticated, OwnResult, [WebNext]_webVars PROVE OwnResult'
<1> USE WebAssumption DEF WebTypeOK, Authenticated, OwnResult, Known, HasKey, Handling, StoreKey, Remembered, storeVars
<1>1. CASE UNCHANGED webVars BY <1>1 DEF webVars
<1>2. ASSUME NEW p \in Posts, EnterContext(p) PROVE OwnResult' BY <1>2 DEF EnterContext, Moves
<1>3. ASSUME NEW p \in Posts, Authenticate(p) PROVE OwnResult' BY <1>3 DEF Authenticate, Moves
<1>4. ASSUME NEW p \in Posts, Occupy(p) PROVE OwnResult'
  <2>1. HasKey(p) => StoreKey(p) \in StoreKeys
    BY <1>4, KeyIsStoreKey DEF Occupy, Moves, Free, Known, Handling
  <2> QED BY <1>4, <2>1 DEF Occupy, Moves, Free
<1>5. ASSUME NEW p \in Posts, Replay(p) PROVE OwnResult'
  <2>1. HasKey(p) => StoreKey(p) \in StoreKeys
    BY <1>5, KeyIsStoreKey DEF Replay, Moves, Known, Handling
  <2> QED BY <1>5, <2>1 DEF Replay, Moves
<1>6. ASSUME NEW p \in Posts, Handles(p) PROVE OwnResult'
  <2>1. HasKey(p) => StoreKey(p) \in StoreKeys
    BY <1>6, KeyIsStoreKey DEF Handles, Moves, Executes, Known, Handling
  <2> QED BY <1>6, <2>1 DEF Handles, Moves, Executes
<1>7. ASSUME NEW p \in Posts, HandlerRaises(p) PROVE OwnResult'
  <2>1. HasKey(p) => StoreKey(p) \in StoreKeys
    BY <1>7, KeyIsStoreKey DEF HandlerRaises, Moves, Known, Handling
  <2> QED BY <1>7, <2>1 DEF HandlerRaises, Moves
<1>8. ASSUME NEW p \in Posts, Breaks(p) PROVE OwnResult'
  <2>1. HasKey(p) => StoreKey(p) \in StoreKeys BY <1>8, KeyIsStoreKey DEF Breaks, Known, Handling
  <2> QED BY <1>8, <2>1 DEF Breaks
<1>9. ASSUME NEW p \in Posts, SetResult(p) PROVE OwnResult'
  <2>1. HasKey(p) => StoreKey(p) \in StoreKeys
    BY <1>9, KeyIsStoreKey DEF SetResult, Moves, Known, Handling
  <2> QED BY <1>9, <2>1 DEF SetResult, Moves
<1>10. ASSUME NEW p \in Posts, SetRedisResult(p) PROVE OwnResult'
  <2>1. HasKey(p) => StoreKey(p) \in StoreKeys
    BY <1>10, KeyIsStoreKey DEF SetRedisResult, Moves, Known, Handling
  <2> QED BY <1>10, <2>1 DEF SetRedisResult, Moves
<1>11. ASSUME NEW p \in Posts, DeleteOccupied(p) PROVE OwnResult'
  <2>1. HasKey(p) => StoreKey(p) \in StoreKeys
    BY <1>11, KeyIsStoreKey DEF DeleteOccupied, Moves, Known, Handling
  <2> QED BY <1>11, <2>1 DEF DeleteOccupied, Moves
<1>12. ASSUME NEW k \in StoreKeys, ForgetKey(k) PROVE OwnResult' BY <1>12 DEF ForgetKey
<1> QED BY <1>1, <1>2, <1>3, <1>4, <1>5, <1>6, <1>7, <1>8, <1>9, <1>10, <1>11, <1>12 DEF WebNext

LEMMA OwnReplayStep ==
  ASSUME WebTypeOK, Authenticated, OwnResult, OwnReplay, [WebNext]_webVars PROVE OwnReplay'
<1> USE WebAssumption DEF WebTypeOK, Authenticated, OwnResult, OwnReplay, Known, HasKey, Handling, StoreKey, Remembered, storeVars
<1>1. CASE UNCHANGED webVars BY <1>1 DEF webVars
<1>2. ASSUME NEW p \in Posts, EnterContext(p) PROVE OwnReplay' BY <1>2 DEF EnterContext, Moves
<1>3. ASSUME NEW p \in Posts, Authenticate(p) PROVE OwnReplay' BY <1>3 DEF Authenticate, Moves
<1>4. ASSUME NEW p \in Posts, Occupy(p) PROVE OwnReplay'
  <2>1. HasKey(p) => StoreKey(p) \in StoreKeys
    BY <1>4, KeyIsStoreKey DEF Occupy, Moves, Free, Known, Handling
  <2> QED BY <1>4, <2>1 DEF Occupy, Moves, Free
<1>5. ASSUME NEW p \in Posts, Replay(p) PROVE OwnReplay'
  <2>1. HasKey(p) => StoreKey(p) \in StoreKeys
    BY <1>5, KeyIsStoreKey DEF Replay, Moves, Known, Handling
  <2> QED BY <1>5, <2>1 DEF Replay, Moves
<1>6. ASSUME NEW p \in Posts, Handles(p) PROVE OwnReplay'
  <2>1. HasKey(p) => StoreKey(p) \in StoreKeys
    BY <1>6, KeyIsStoreKey DEF Handles, Moves, Executes, Known, Handling
  <2> QED BY <1>6, <2>1 DEF Handles, Moves, Executes
<1>7. ASSUME NEW p \in Posts, HandlerRaises(p) PROVE OwnReplay'
  <2>1. HasKey(p) => StoreKey(p) \in StoreKeys
    BY <1>7, KeyIsStoreKey DEF HandlerRaises, Moves, Known, Handling
  <2> QED BY <1>7, <2>1 DEF HandlerRaises, Moves
<1>8. ASSUME NEW p \in Posts, Breaks(p) PROVE OwnReplay'
  <2>1. HasKey(p) => StoreKey(p) \in StoreKeys BY <1>8, KeyIsStoreKey DEF Breaks, Known, Handling
  <2> QED BY <1>8, <2>1 DEF Breaks
<1>9. ASSUME NEW p \in Posts, SetResult(p) PROVE OwnReplay'
  <2>1. HasKey(p) => StoreKey(p) \in StoreKeys
    BY <1>9, KeyIsStoreKey DEF SetResult, Moves, Known, Handling
  <2> QED BY <1>9, <2>1 DEF SetResult, Moves
<1>10. ASSUME NEW p \in Posts, SetRedisResult(p) PROVE OwnReplay'
  <2>1. HasKey(p) => StoreKey(p) \in StoreKeys
    BY <1>10, KeyIsStoreKey DEF SetRedisResult, Moves, Known, Handling
  <2> QED BY <1>10, <2>1 DEF SetRedisResult, Moves
<1>11. ASSUME NEW p \in Posts, DeleteOccupied(p) PROVE OwnReplay'
  <2>1. HasKey(p) => StoreKey(p) \in StoreKeys
    BY <1>11, KeyIsStoreKey DEF DeleteOccupied, Moves, Known, Handling
  <2> QED BY <1>11, <2>1 DEF DeleteOccupied, Moves
<1>12. ASSUME NEW k \in StoreKeys, ForgetKey(k) PROVE OwnReplay' BY <1>12 DEF ForgetKey
<1> QED BY <1>1, <1>2, <1>3, <1>4, <1>5, <1>6, <1>7, <1>8, <1>9, <1>10, <1>11, <1>12 DEF WebNext

LEMMA MemoryStep ==
  ASSUME WebTypeOK, Authenticated, HoldsKey, MemoryRemembers, [WebNext]_webVars
  PROVE  MemoryRemembers'
<1> USE WebAssumption DEF WebTypeOK, Authenticated, HoldsKey, MemoryRemembers, Known, HasKey, Handling, StoreKey, Remembered, AtMostOne, storeVars
<1>1. CASE UNCHANGED webVars BY <1>1 DEF webVars
<1>2. ASSUME NEW p \in Posts, EnterContext(p) PROVE MemoryRemembers' BY <1>2 DEF EnterContext, Moves
<1>3. ASSUME NEW p \in Posts, Authenticate(p) PROVE MemoryRemembers' BY <1>3 DEF Authenticate, Moves
<1>4. ASSUME NEW p \in Posts, Occupy(p) PROVE MemoryRemembers'
  <2>1. HasKey(p) => StoreKey(p) \in StoreKeys
    BY <1>4, KeyIsStoreKey DEF Occupy, Moves, Free, Known, Handling
  <2> QED BY <1>4, <2>1 DEF Occupy, Moves, Free
<1>5. ASSUME NEW p \in Posts, Replay(p) PROVE MemoryRemembers'
  <2>1. HasKey(p) => StoreKey(p) \in StoreKeys
    BY <1>5, KeyIsStoreKey DEF Replay, Moves, Known, Handling
  <2> QED BY <1>5, <2>1 DEF Replay, Moves
<1>6. ASSUME NEW p \in Posts, Handles(p) PROVE MemoryRemembers'
  <2>1. HasKey(p) => StoreKey(p) \in StoreKeys
    BY <1>6, KeyIsStoreKey DEF Handles, Moves, Executes, Known, Handling
  <2> QED BY <1>6, <2>1 DEF Handles, Moves, Executes
<1>7. ASSUME NEW p \in Posts, HandlerRaises(p) PROVE MemoryRemembers'
  <2>1. HasKey(p) => StoreKey(p) \in StoreKeys
    BY <1>7, KeyIsStoreKey DEF HandlerRaises, Moves, Known, Handling
  <2>2. \A k \in StoreKeys : executed[k] # {} /\ idemStore = "memory" => k # StoreKey(p)
    <3> SUFFICES ASSUME idemStore = "memory", StoreKey(p) \in StoreKeys
                 PROVE  executed[StoreKey(p)] = {}
      OBVIOUS
    <3>1. HasKey(p) BY DEF StoreKeys
    <3> QED BY <1>7, <3>1 DEF HandlerRaises, Moves
  <2> QED BY <1>7, <2>1, <2>2 DEF HandlerRaises, Moves
<1>8. ASSUME NEW p \in Posts, Breaks(p) PROVE MemoryRemembers'
  <2>1. HasKey(p) => StoreKey(p) \in StoreKeys BY <1>8, KeyIsStoreKey DEF Breaks, Known, Handling
  <2> QED BY <1>8, <2>1 DEF Breaks
<1>9. ASSUME NEW p \in Posts, SetResult(p) PROVE MemoryRemembers'
  <2>1. HasKey(p) => StoreKey(p) \in StoreKeys
    BY <1>9, KeyIsStoreKey DEF SetResult, Moves, Known, Handling
  <2>2. /\ HasKey(p) /\ StoreKey(p) \in StoreKeys
        /\ \A q \in Posts : at[q] = "handling" /\ HasKey(q) => StoreKey(q) # StoreKey(p)
    BY <1>9, <2>1 DEF SetResult, Moves
  <2>3. /\ \A q \in Posts : at'[q] = "handling" => at[q] = "handling"
        /\ executed' = executed /\ identity' = identity
    BY <1>9 DEF SetResult, Moves
  <2>4. \A k \in StoreKeys \ {StoreKey(p)} : result'[k] = result[k]
    BY <1>9, <2>2 DEF SetResult, Moves
  <2>8. /\ occupied' = occupied \ {StoreKey(p)}
        /\ result'[StoreKey(p)] = p
    BY <1>9, <2>2 DEF SetResult, Moves
  <2>5. p # Nobody OBVIOUS
  <2>7. idemStore' = idemStore BY <1>9 DEF SetResult
  <2>a. /\ \A k \in StoreKeys : executed'[k] # {} => k \in occupied' \/ result'[k] # Nobody
        /\ \A k \in StoreKeys : ~(k \in occupied' /\ result'[k] # Nobody)
        /\ \A k \in StoreKeys : AtMostOne(executed'[k])
    BY <1>9, <2>3, <2>4, <2>5, <2>8 DEF SetResult
  <2>b. \A q \in Posts : at'[q] = "handling" /\ HasKey(q) => executed'[StoreKey(q)'] = {}
    BY <1>9, <2>3 DEF SetResult
  <2>c. \A q \in Posts : at'[q] # "recorded" BY <1>9 DEF SetResult, Moves
  <2> QED BY <2>7, <2>a, <2>b, <2>c
<1>10. ASSUME NEW p \in Posts, SetRedisResult(p) PROVE MemoryRemembers'
  <2>1. HasKey(p) => StoreKey(p) \in StoreKeys
    BY <1>10, KeyIsStoreKey DEF SetRedisResult, Moves, Known, Handling
  <2> QED BY <1>10, <2>1 DEF SetRedisResult, Moves
<1>11. ASSUME NEW p \in Posts, DeleteOccupied(p) PROVE MemoryRemembers'
  <2>1. HasKey(p) => StoreKey(p) \in StoreKeys
    BY <1>11, KeyIsStoreKey DEF DeleteOccupied, Moves, Known, Handling
  <2> QED BY <1>11, <2>1 DEF DeleteOccupied, Moves
<1>12. ASSUME NEW k \in StoreKeys, ForgetKey(k) PROVE MemoryRemembers' BY <1>12 DEF ForgetKey
<1> QED BY <1>1, <1>2, <1>3, <1>4, <1>5, <1>6, <1>7, <1>8, <1>9, <1>10, <1>11, <1>12 DEF WebNext

----------------------------------------

LEMMA Invariance == WebSpec => []IInv
<1>1. IInv /\ [WebNext]_webVars => IInv'
  BY TypeStep, AuthenticatedStep, HoldsKeyStep, OwnResultStep, OwnReplayStep, MemoryStep DEF IInv
<1> QED BY InitIInv, <1>1, PTL DEF WebSpec

LEMMA InvariantIdempotent == IInv => Idempotent
<1> SUFFICES ASSUME IInv PROVE Idempotent OBVIOUS
<1> USE DEF IInv
<1>1. \A k \in StoreKeys : AtMostOne(PostsAt(k, Handling))
  BY DEF HoldsKey, AtMostOne, PostsAt, ForKey
<1>2. ASSUME idemStore = "memory" PROVE ExecutedOnce
  <2> SUFFICES ASSUME NEW k \in StoreKeys PROVE AtMostOne(executed[k] \cup PostsAt(k, {"handling"}))
    BY DEF ExecutedOnce
  <2>1. PostsAt(k, {"handling"}) # {} => executed[k] = {}
    BY <1>2 DEF MemoryRemembers, PostsAt, ForKey
  <2>2. AtMostOne(executed[k]) BY <1>2 DEF MemoryRemembers
  <2>3. AtMostOne(PostsAt(k, {"handling"})) BY <1>1 DEF AtMostOne, PostsAt, Handling
  <2> QED BY <2>1, <2>2, <2>3 DEF AtMostOne
<1> QED BY <1>1, <1>2 DEF Idempotent, OwnReplay

(* For any posts and either store: one request at a time holds a key, the
   store in memory executes a key once, and a replayed result is that of
   the same user, key and content (IdempotencyMiddleware with its stores). *)
THEOREM IdempotentHolds == WebSpec => []Idempotent
BY Invariance, InvariantIdempotent, PTL

(* The types of the state. *)
THEOREM WebTypeOKHolds == WebSpec => []WebTypeOK
<1>1. IInv => WebTypeOK BY DEF IInv
<1> QED BY Invariance, <1>1, PTL

----------------------------------------
(* The inductive invariant of WechatPay. *)

CallPlaces == {"new", "sent", "waiting", "asking", "fetching", "writing", "listing", "removing",
               "loading", "done", "nokey", "missing", "unsigned", "failed"}
CallRecords == [at : CallPlaces, tries : Nat, serial : Nat, genuine : BOOLEAN,
                list : SUBSET Nat, left : SUBSET Nat, robbed : BOOLEAN]

WechatShape ==
  /\ valid \subseteq Nat /\ certs \subseteq Nat
  /\ call \in [Calls -> CallRecords] /\ sent \in [Calls -> Nat]
  /\ kept \in BOOLEAN /\ misread \in BOOLEAN

(* The tries of a request are what was sent of it, until it has ended; who
   waits to try again may do so. *)
TriesFit(x, n, kind) ==
  /\ x.at = "new" => n = 0 /\ x.tries = 0
  /\ x.at \in {"sent", "waiting"} => n = x.tries
  /\ x.at = "waiting" => kind # "prepay" /\ x.tries <= Retries
  /\ x.at \in {"sent", "waiting", "missing", "unsigned"} => kind # "callback"
  /\ n <= IF kind = "prepay" THEN 1 ELSE Retries + 1

(* Of the list that was downloaded, the files that were written are there,
   unless another process removed one. *)
InPlace(x, serials) == \A s \in serials : s \in certs \/ x.robbed
FilesFit(x) ==
  /\ x.at = "done" => x.genuine
  /\ x.at = "writing" => InPlace(x, x.list \ x.left)
  /\ x.at \in {"listing", "removing", "loading"} => InPlace(x, x.list)
  /\ x.at = "removing" => x.left \cap x.list = {}
  /\ x.at = "nokey" => x.serial \notin x.list \/ x.robbed

(* One call of a process at a time stores certificates. *)
OneStores ==
  \A c, d \in Calls :
    /\ CallProcess[c] = CallProcess[d]
    /\ call[c].at \in Synchronous /\ call[d].at \in Synchronous
    => c = d

(* Who found a bill corrupt read it while it was being written. *)
BillFits == /\ billFile \in {"none", "part", "whole"}
            /\ loading = "corrupt" => misread
            /\ BillKept

WechatInv ==
  /\ WechatShape
  /\ \A c \in Calls : TriesFit(call[c], sent[c], CallKind[c]) /\ FilesFit(call[c])
  /\ OneStores /\ BillFits

LEMMA InitWechat == WechatInit => WechatInv
<1> SUFFICES ASSUME WechatInit PROVE WechatInv OBVIOUS
<1>1. NewCall \in CallRecords /\ NewCall.at = "new" /\ NewCall.tries = 0
  BY DEF NewCall, CallRecords, CallPlaces
<1>2. \A c \in Calls : call[c] = NewCall /\ sent[c] = 0 BY DEF WechatInit
<1>3. WechatShape
  <2>1. valid \subseteq Nat /\ certs \subseteq Nat BY DEF WechatInit
  <2>2. call \in [Calls -> CallRecords] /\ sent \in [Calls -> Nat] BY <1>1 DEF WechatInit
  <2> QED BY <2>1, <2>2 DEF WechatInit, WechatShape
<1>4. \A c \in Calls : TriesFit(call[c], sent[c], CallKind[c])
  BY <1>1, <1>2, WechatAssumption DEF TriesFit
<1>5. (\A c \in Calls : FilesFit(call[c])) /\ OneStores
  BY <1>1, <1>2 DEF FilesFit, OneStores, Synchronous
<1>6. BillFits BY DEF WechatInit, BillFits, BillKept
<1> QED BY <1>3, <1>4, <1>5, <1>6 DEF WechatInv

(* One call goes on; the directory is as it was. *)
LEMMA CallGoesOn ==
  ASSUME WechatInv, NEW c \in Calls, NEW x \in CallRecords, NEW n \in Nat, Becomes(c, x),
         sent' = [sent EXCEPT ![c] = n], UNCHANGED <<valid, certs, billVars>>,
         TriesFit(x, n, CallKind[c]), FilesFit(x),
         x.at \in Synchronous => MayRun(c) \/ call[c].at \in Synchronous
  PROVE  WechatInv'
<1>0. /\ call' = [call EXCEPT ![c] = x] /\ certs' = certs
      /\ UNCHANGED <<loading, misread, kept, billFile, billed>>
  BY DEF Becomes, billVars
<1>1. WechatShape' BY <1>0 DEF WechatInv, WechatShape, billVars
<1>2. ASSUME NEW d \in Calls PROVE TriesFit(call'[d], sent'[d], CallKind[d]) /\ FilesFit(call[d])'
  <2>1. CASE d = c BY <1>0, <2>1 DEF WechatInv, WechatShape, FilesFit, InPlace
  <2>2. CASE d # c BY <1>0, <2>2 DEF WechatInv, WechatShape, FilesFit, InPlace
  <2> QED BY <2>1, <2>2
<1>3. OneStores' BY <1>0 DEF WechatInv, WechatShape, OneStores, MayRun, Synchronous
<1>4. BillFits' BY <1>0 DEF WechatInv, BillFits, BillKept
<1> QED BY <1>1, <1>2, <1>3, <1>4 DEF WechatInv, TriesFit

(* The same when nothing is sent. *)
LEMMA CallStays ==
  ASSUME WechatInv, NEW c \in Calls, NEW x \in CallRecords, Becomes(c, x),
         UNCHANGED <<valid, certs, sent, billVars>>,
         TriesFit(x, sent[c], CallKind[c]), FilesFit(x),
         x.at \in Synchronous => MayRun(c) \/ call[c].at \in Synchronous
  PROVE  WechatInv'
<1>1. sent' = [sent EXCEPT ![c] = sent[c]] /\ sent[c] \in Nat BY DEF WechatInv, WechatShape
<1> QED BY <1>1, CallGoesOn

(* A call that has ended asks for nothing more. *)
LEMMA CallEnds ==
  ASSUME WechatInv, NEW c \in Calls, NEW place \in {"failed", "missing", "unsigned"},
         Ends(c, place), place = "failed" \/ CallKind[c] # "callback", UNCHANGED <<valid, certs, sent, billVars>>
  PROVE  WechatInv'
<1> DEFINE x == [NewCall EXCEPT !.at = place]
<1>1. x \in CallRecords /\ x.at = place /\ FilesFit(x)
  BY DEF NewCall, CallRecords, CallPlaces, FilesFit
<1>2. TriesFit(x, sent[c], CallKind[c]) /\ x.at \notin Synchronous
  BY <1>1 DEF WechatInv, TriesFit, Synchronous
<1>3. Becomes(c, x) BY DEF Ends
<1> QED BY <1>1, <1>2, <1>3, CallStays

(* A signature that was checked with a certificate that is there; what is
   left without one needs FilesFit. *)
LEMMA CallVerified ==
  ASSUME WechatInv, NEW c \in Calls, NEW r \in CallRecords, NEW without \in {"asking", "nokey"},
         Verified(c, r, without), UNCHANGED <<valid, certs, sent, billVars>>,
         without = "nokey" => r.serial \in certs \/ r.serial \notin r.list \/ r.robbed
  PROVE  WechatInv'
<1>1. CASE r.serial \notin certs
  <2> DEFINE x == [r EXCEPT !.at = without]
  <2>1. x \in CallRecords /\ x.at = without BY DEF CallRecords, CallPlaces
  <2>2. FilesFit(x) BY <1>1 DEF FilesFit, CallRecords
  <2>3. TriesFit(x, sent[c], CallKind[c]) /\ x.at \notin Synchronous
    BY <2>1 DEF WechatInv, TriesFit, Synchronous
  <2>4. Becomes(c, x) BY <1>1 DEF Verified
  <2> QED BY <2>1, <2>2, <2>3, <2>4, CallStays
<1>2. CASE r.serial \in certs /\ r.genuine
  <2> DEFINE x == [NewCall EXCEPT !.at = "done", !.genuine = TRUE]
  <2>1. x \in CallRecords /\ x.at = "done" /\ FilesFit(x)
    BY DEF NewCall, CallRecords, CallPlaces, FilesFit
  <2>2. TriesFit(x, sent[c], CallKind[c]) /\ x.at \notin Synchronous
    BY <2>1 DEF WechatInv, TriesFit, Synchronous
  <2>3. Becomes(c, x) BY <1>2 DEF Verified
  <2> QED BY <2>1, <2>2, <2>3, CallStays
<1>3. CASE r.serial \in certs /\ ~r.genuine BY <1>3, CallEnds DEF Verified
<1> QED BY <1>1, <1>2, <1>3

LEMMA ReceivedCall ==
  ASSUME WechatInv, NEW c \in Calls, Receives(c), UNCHANGED <<valid, certs, sent, billVars>>
  PROVE  WechatInv'
<1>1. PICK s \in valid, g \in BOOLEAN :
        Verified(c, [call[c] EXCEPT !.serial = s, !.genuine = g], "asking")
  BY DEF Receives
<1>2. [call[c] EXCEPT !.serial = s, !.genuine = g] \in CallRecords
  BY DEF WechatInv, WechatShape, CallRecords
<1> QED BY <1>1, <1>2, CallVerified

----------------------------------------
(* Every step of a request or a callback. *)

LEMMA SendKeeps ==
  ASSUME WechatInv, NEW c \in Calls, Send(c) PROVE WechatInv'
<1> DEFINE x == [call[c] EXCEPT !.at = "sent", !.tries = @ + 1]
<1>0. call[c] \in CallRecords /\ sent[c] \in Nat /\ CallKind[c] # "callback"
  BY DEF WechatInv, WechatShape, Send
<1>a. call[c].tries \in Nat /\ call[c].tries + 1 \in Nat BY <1>0 DEF CallRecords
<1>1. x \in CallRecords /\ x.at = "sent" /\ x.tries = call[c].tries + 1
  <2> DEFINE n == call[c].tries + 1
  <2>1. x = [call[c] EXCEPT !.at = "sent", !.tries = n] OBVIOUS
  <2>2. n \in Nat BY <1>a
  <2> HIDE DEF n
  <2>3. x \in CallRecords /\ x.at = "sent" /\ x.tries = n
    BY <1>0, <2>1, <2>2 DEF CallRecords, CallPlaces
  <2> QED BY <2>3 DEF n
<1>2. sent[c] = call[c].tries BY DEF WechatInv, TriesFit, Send
<1>3. TriesFit(x, sent[c] + 1, CallKind[c])
  BY <1>0, <1>1, <1>2, WechatAssumption DEF WechatInv, TriesFit, Send
<1>4. FilesFit(x) /\ x.at \notin Synchronous BY <1>1 DEF FilesFit, Synchronous
<1>5. Becomes(c, x) /\ sent' = [sent EXCEPT ![c] = sent[c] + 1] /\ sent[c] + 1 \in Nat
  BY <1>0 DEF Send
<1> QED BY <1>1, <1>3, <1>4, <1>5, CallGoesOn DEF Send

LEMMA AnswerWithoutKeeps ==
  ASSUME WechatInv, NEW c \in Calls, AnswerWithout(c) PROVE WechatInv'
<1>1. CASE GoesTo(c, AfterFailure(c))
  <2> DEFINE x == [call[c] EXCEPT !.at = AfterFailure(c)]
  <2>0. call[c] \in CallRecords /\ call[c].at = "sent" BY DEF WechatInv, WechatShape, AnswerWithout
  <2>1. x \in CallRecords /\ x.at = AfterFailure(c) /\ x.tries = call[c].tries
    BY <2>0 DEF CallRecords, CallPlaces, AfterFailure
  <2>2. TriesFit(x, sent[c], CallKind[c])
    BY <2>0, <2>1 DEF WechatInv, TriesFit, AfterFailure, Retryable
  <2>3. FilesFit(x) /\ x.at \notin Synchronous BY <2>1 DEF FilesFit, Synchronous, AfterFailure
  <2>4. Becomes(c, x) BY <1>1 DEF GoesTo
  <2> QED BY <2>1, <2>2, <2>3, <2>4, CallStays DEF AnswerWithout
<1>0. CallKind[c] # "callback" BY DEF AnswerWithout, WechatInv, TriesFit
<1>2. CASE Ends(c, "failed") BY <1>2, CallEnds DEF AnswerWithout
<1>3. CASE Ends(c, "missing") BY <1>0, <1>3, CallEnds DEF AnswerWithout
<1>4. CASE Ends(c, "unsigned") BY <1>0, <1>4, CallEnds DEF AnswerWithout
<1> QED BY <1>1, <1>2, <1>3, <1>4 DEF AnswerWithout

LEMMA FetchKeeps ==
  ASSUME WechatInv, NEW c \in Calls, Fetch(c) PROVE WechatInv'
<1> DEFINE x == [call[c] EXCEPT !.at = "fetching"]
<1>1. x \in CallRecords /\ x.at = "fetching" BY DEF WechatInv, WechatShape, CallRecords, CallPlaces
<1>2. TriesFit(x, sent[c], CallKind[c]) /\ FilesFit(x) /\ x.at \notin Synchronous
  BY <1>1 DEF WechatInv, TriesFit, FilesFit, Synchronous
<1>3. Becomes(c, x) BY DEF Fetch, GoesTo
<1> QED BY <1>1, <1>2, <1>3, CallStays DEF Fetch

LEMMA FetchedKeeps ==
  ASSUME WechatInv, NEW c \in Calls, Fetched(c) PROVE WechatInv'
<1>1. PICK l \in {valid, {}} : Becomes(c, [call[c] EXCEPT !.list = l, !.left = l,
                                   !.at = IF l = {} THEN "loading" ELSE "writing"])
  BY DEF Fetched
<1> DEFINE x == [call[c] EXCEPT !.list = l, !.left = l,
                                !.at = IF l = {} THEN "loading" ELSE "writing"]
<1>2. call[c] \in CallRecords /\ l \in SUBSET Nat BY DEF WechatInv, WechatShape
<1>3. /\ x \in CallRecords /\ x.list = l /\ x.left = l
      /\ x.at = IF l = {} THEN "loading" ELSE "writing"
  BY <1>2 DEF CallRecords, CallPlaces
<1>4. TriesFit(x, sent[c], CallKind[c]) /\ FilesFit(x)
  BY <1>3 DEF WechatInv, TriesFit, FilesFit, InPlace
<1> QED BY <1>1, <1>3, <1>4, CallStays DEF Fetched

(* What is written and what is removed of the directory. *)
LEMMA PersistKeeps ==
  ASSUME WechatInv, NEW c \in Calls, Persist(c) PROVE WechatInv'
<1>0. call[c] \in CallRecords /\ call[c].at = "writing" /\ call[c].at \in Synchronous
  BY DEF WechatInv, WechatShape, Persist, Synchronous
<1>1. CASE call[c].left = {}
  <2> DEFINE x == [call[c] EXCEPT !.at = "listing"]
  <2>1. /\ x \in CallRecords /\ x.at = "listing" /\ x.list = call[c].list
        /\ x.robbed = call[c].robbed
    BY <1>0 DEF CallRecords, CallPlaces
  <2>2. TriesFit(x, sent[c], CallKind[c]) /\ FilesFit(x)
    BY <1>0, <1>1, <2>1 DEF WechatInv, TriesFit, FilesFit, InPlace
  <2>3. Becomes(c, x) /\ certs' = certs BY <1>1 DEF Persist, GoesTo
  <2> QED BY <1>0, <2>1, <2>2, <2>3, CallStays DEF Persist
<1>2. CASE call[c].left # {}
  <2>1. PICK s \in call[c].left :
    /\ certs' = certs \cup {s}
    /\ Becomes(c, [call[c] EXCEPT !.left = @ \ {s}])
    BY <1>2 DEF Persist
  <2> DEFINE x == [call[c] EXCEPT !.left = @ \ {s}]
  <2>2. /\ x \in CallRecords /\ x.at = "writing" /\ x.list = call[c].list
        /\ x.left = call[c].left \ {s} /\ x.robbed = call[c].robbed
    BY <1>0 DEF CallRecords
  <2>3. /\ call' = [call EXCEPT ![c] = x] /\ sent' = sent /\ valid' = valid
        /\ UNCHANGED <<loading, misread, kept, billFile, billed>>
    BY <2>1 DEF Becomes, Persist, billVars
  <2>4. WechatShape'
    <3>1. s \in Nat BY <1>0, <2>1 DEF CallRecords
    <3> QED BY <2>1, <2>2, <2>3, <3>1 DEF WechatInv, WechatShape
  <2>5. ASSUME NEW d \in Calls PROVE TriesFit(call'[d], sent'[d], CallKind[d]) /\ FilesFit(call[d])'
    <3>1. CASE d = c
      BY <1>0, <2>1, <2>2, <2>3, <3>1 DEF WechatInv, WechatShape, TriesFit, FilesFit, InPlace
    <3>2. CASE d # c BY <2>1, <2>3, <3>2 DEF WechatInv, WechatShape, FilesFit, InPlace
    <3> QED BY <3>1, <3>2
  <2>6. OneStores' /\ BillFits'
    BY <1>0, <2>2, <2>3 DEF WechatInv, WechatShape, OneStores, BillFits, BillKept
  <2> QED BY <2>4, <2>5, <2>6 DEF WechatInv, TriesFit
<1> QED BY <1>1, <1>2

LEMMA ListStaleKeeps ==
  ASSUME WechatInv, NEW c \in Calls, ListStale(c) PROVE WechatInv'
<1> DEFINE x == [call[c] EXCEPT !.at = "removing", !.left = StaleFiles(c)]
<1>0. call[c] \in CallRecords /\ call[c].at = "listing" /\ call[c].at \in Synchronous
  BY DEF WechatInv, WechatShape, ListStale, Synchronous
<1>1. /\ x \in CallRecords /\ x.at = "removing" /\ x.list = call[c].list
      /\ x.left = certs \ call[c].list /\ x.robbed = call[c].robbed
  BY <1>0 DEF WechatInv, WechatShape, CallRecords, CallPlaces, StaleFiles
<1>2. TriesFit(x, sent[c], CallKind[c]) /\ FilesFit(x)
  BY <1>0, <1>1 DEF WechatInv, TriesFit, FilesFit, InPlace
<1>3. Becomes(c, x) BY DEF ListStale
<1> QED BY <1>0, <1>1, <1>2, <1>3, CallStays DEF ListStale

(* A file is removed: of the calls that have it on their list, those of
   other processes are told, and the others are past it. *)
LEMMA RemovalKeeps ==
  ASSUME WechatInv, NEW c \in Calls, call[c].at = "removing", NEW s \in call[c].left,
         certs' = certs \ {s}, UNCHANGED <<valid, sent, billVars>>,
         call' = [o \in Calls |-> IF o = c THEN [call[c] EXCEPT !.left = @ \ {s}]
                   ELSE IF s \in call[o].list /\ CallProcess[o] # CallProcess[c]
                   THEN [call[o] EXCEPT !.robbed = TRUE] ELSE call[o]]
  PROVE  WechatInv'
<1>0. /\ \A d \in Calls : call[d] \in CallRecords
      /\ UNCHANGED <<loading, misread, kept, billFile, billed, sent, valid>>
  BY DEF WechatInv, WechatShape, billVars
<1>1. /\ call'[c] \in CallRecords /\ call'[c].at = "removing" /\ call'[c].list = call[c].list
      /\ call'[c].left = call[c].left \ {s} /\ call'[c].robbed = call[c].robbed
      /\ call'[c].tries = call[c].tries
  BY <1>0 DEF CallRecords
<1>2. ASSUME NEW d \in Calls, d # c
      PROVE  /\ call'[d] \in CallRecords /\ call'[d].at = call[d].at
             /\ call'[d].list = call[d].list /\ call'[d].left = call[d].left
             /\ call'[d].tries = call[d].tries /\ call'[d].genuine = call[d].genuine
             /\ call'[d].serial = call[d].serial
             /\ call[d].robbed => call'[d].robbed
             /\ s \in call[d].list /\ CallProcess[d] # CallProcess[c] => call'[d].robbed
  <2>1. CASE s \in call[d].list /\ CallProcess[d] # CallProcess[c]
    <3>1. call'[d] = [call[d] EXCEPT !.robbed = TRUE] BY <1>2, <2>1
    <3> QED BY <1>0, <3>1 DEF CallRecords
  <2>2. CASE ~(s \in call[d].list /\ CallProcess[d] # CallProcess[c])
    <3>1. call'[d] = call[d] BY <1>2, <2>2
    <3> QED BY <1>0, <2>2, <3>1
  <2> QED BY <2>1, <2>2
<1>3. WechatShape'
  <2>1. call' \in [Calls -> CallRecords] BY <1>1, <1>2
  <2> QED BY <1>0, <2>1 DEF WechatInv, WechatShape
<1>4. ASSUME NEW d \in Calls PROVE TriesFit(call'[d], sent'[d], CallKind[d]) /\ FilesFit(call[d])'
  <2>1. CASE d = c
    <3>1. s \notin call[c].list BY DEF WechatInv, FilesFit
    <3>2. InPlace(call[c], call[c].list) /\ call[c].left \cap call[c].list = {}
      BY DEF WechatInv, FilesFit
    <3>3. FilesFit(call[c])' BY <1>1, <3>1, <3>2 DEF FilesFit, InPlace
    <3>4. TriesFit(call'[c], sent'[c], CallKind[c]) BY <1>0, <1>1 DEF WechatInv, TriesFit
    <3> QED BY <2>1, <3>3, <3>4
  <2>2. CASE d # c
    <3>1. FilesFit(call[d]) /\ TriesFit(call[d], sent[d], CallKind[d]) BY DEF WechatInv
    <3>2. CallProcess[d] = CallProcess[c] =>
            call[d].at \notin {"writing", "listing", "removing", "loading"}
      BY <2>2 DEF WechatInv, OneStores, Synchronous
    <3>3. FilesFit(call[d])' BY <1>2, <2>2, <3>1, <3>2 DEF FilesFit, InPlace
    <3>4. TriesFit(call'[d], sent'[d], CallKind[d]) BY <1>0, <1>2, <2>2, <3>1 DEF TriesFit
    <3> QED BY <3>3, <3>4
  <2> QED BY <2>1, <2>2
<1>5. OneStores'
  <2>1. \A d \in Calls : call'[d].at = call[d].at BY <1>1, <1>2
  <2> QED BY <2>1 DEF WechatInv, OneStores
<1>6. BillFits' BY <1>0 DEF WechatInv, BillFits, BillKept
<1> QED BY <1>3, <1>4, <1>5, <1>6 DEF WechatInv, TriesFit

LEMMA RemoveStaleKeeps ==
  ASSUME WechatInv, NEW c \in Calls, RemoveStale(c) PROVE WechatInv'
<1>0. call[c] \in CallRecords /\ call[c].at = "removing" /\ call[c].at \in Synchronous
  BY DEF WechatInv, WechatShape, RemoveStale, Synchronous
<1>1. CASE GoesTo(c, "loading") /\ UNCHANGED certs
  <2> DEFINE x == [call[c] EXCEPT !.at = "loading"]
  <2>1. /\ x \in CallRecords /\ x.at = "loading" /\ x.list = call[c].list
        /\ x.robbed = call[c].robbed
    BY <1>0 DEF CallRecords, CallPlaces
  <2>2. TriesFit(x, sent[c], CallKind[c]) /\ FilesFit(x)
    BY <1>0, <2>1 DEF WechatInv, TriesFit, FilesFit, InPlace
  <2>3. Becomes(c, x) BY <1>1 DEF GoesTo
  <2> QED BY <1>0, <1>1, <2>1, <2>2, <2>3, CallStays DEF RemoveStale
<1>2. CASE ~(GoesTo(c, "loading") /\ UNCHANGED certs)
  <2>1. PICK s \in call[c].left :
          /\ certs' = certs \ {s}
          /\ call' = [o \in Calls |-> IF o = c THEN [call[c] EXCEPT !.left = @ \ {s}]
                       ELSE IF s \in call[o].list /\ CallProcess[o] # CallProcess[c]
                       THEN [call[o] EXCEPT !.robbed = TRUE] ELSE call[o]]
    BY <1>2 DEF RemoveStale
  <2> QED BY <1>0, <2>1, RemovalKeeps DEF RemoveStale
<1> QED BY <1>1, <1>2

LEMMA LoadAgainKeeps ==
  ASSUME WechatInv, NEW c \in Calls, LoadAgain(c) PROVE WechatInv'
<1> DEFINE r == [call[c] EXCEPT !.left = {}]
<1>0. call[c] \in CallRecords /\ call[c].at = "loading" BY DEF WechatInv, WechatShape, LoadAgain
<1>1. /\ r \in CallRecords /\ r.list = call[c].list /\ r.serial = call[c].serial
      /\ r.robbed = call[c].robbed
  BY <1>0 DEF CallRecords
<1>2. r.serial \in certs \/ r.serial \notin r.list \/ r.robbed
  BY <1>0, <1>1 DEF WechatInv, FilesFit, InPlace
<1>3. Verified(c, r, "nokey") /\ UNCHANGED <<valid, certs, sent, billVars>> BY DEF LoadAgain
<1> QED BY <1>1, <1>2, <1>3, CallVerified

(* WeChat's certificates change without the calls, and bills likewise. *)
LEMMA CallsAside ==
  ASSUME WechatInv, UNCHANGED <<certs, call, sent>>, valid' \subseteq Nat,
         kept' \in BOOLEAN, misread' \in BOOLEAN, BillFits'
  PROVE  WechatInv'
BY DEF WechatInv, WechatShape, TriesFit, FilesFit, InPlace, OneStores, Synchronous

LEMMA RotateKeeps == ASSUME WechatInv, Rotate PROVE WechatInv'
<1>1. valid' \subseteq Nat
  <2>1. Serials \subseteq Nat /\ valid \subseteq Nat
    BY WechatAssumption DEF WechatInv, WechatShape, Serials
  <2> QED BY <2>1 DEF Rotate
<1>2. kept' \in BOOLEAN /\ misread' \in BOOLEAN /\ BillFits'
  BY DEF WechatInv, WechatShape, Rotate, billVars, BillFits, BillKept
<1> QED BY <1>1, <1>2, CallsAside DEF Rotate

LEMMA BillKeeps == ASSUME WechatInv, BillNext PROVE WechatInv'
<1>0. /\ kept \in BOOLEAN /\ misread \in BOOLEAN /\ valid \subseteq Nat
      /\ loading = "corrupt" => misread
      /\ billFile \in {"none", "part", "whole"}
      /\ kept => billFile = "whole" \/ misread
      /\ misread => billed
  BY DEF WechatInv, WechatShape, BillFits, BillKept
<1>1. kept' \in BOOLEAN /\ misread' \in BOOLEAN
  BY <1>0 DEF BillNext, SaveOpens, SaveWrites, LoadReads, LoadEnds, Cleanup, CleanupEnds
<1>2. BillFits'
  <2>1. CASE SaveOpens BY <1>0, <2>1 DEF SaveOpens, BillFits, BillKept
  <2>2. CASE SaveWrites
    <3>1. loading' = loading /\ misread' = misread /\ billed' = billed BY <2>2 DEF SaveWrites
    <3>2. kept' => billFile' = "whole" \/ misread BY <2>2 DEF SaveWrites
    <3>3. billFile' \in {"none", "part", "whole"} BY <1>0, <2>2 DEF SaveWrites
    <3> QED BY <1>0, <3>1, <3>2, <3>3 DEF BillFits, BillKept
  <2>3. CASE LoadReads
    <3>1. kept' = kept /\ billFile' = billFile BY <2>3 DEF LoadReads
    <3>2. (misread => misread') /\ (misread' => billed') BY <1>0, <2>3 DEF LoadReads
    <3>3. loading' = "corrupt" => misread'
      <4>1. CASE billFile = "part" /\ billed BY <2>3, <4>1 DEF LoadReads
      <4>2. CASE ~(billFile = "part" /\ billed) BY <1>0, <2>3, <4>2 DEF LoadReads
      <4> QED BY <4>1, <4>2
    <3> QED BY <1>0, <3>1, <3>2, <3>3 DEF BillFits, BillKept
  <2>4. CASE LoadEnds BY <1>0, <2>4 DEF LoadEnds, BillFits, BillKept
  <2>5. CASE Cleanup \/ CleanupEnds BY <1>0, <2>5 DEF Cleanup, CleanupEnds, BillFits, BillKept
  <2> QED BY <2>1, <2>2, <2>3, <2>4, <2>5 DEF BillNext
<1>3. UNCHANGED wechatVars
  BY DEF BillNext, SaveOpens, SaveWrites, LoadReads, LoadEnds, Cleanup, CleanupEnds
<1> QED BY <1>0, <1>1, <1>2, <1>3, CallsAside DEF wechatVars

(* Requests, callbacks and bills beside each other. *)
ChannelSpec == WechatInit /\ [][WechatNext \/ BillNext]_<<wechatVars, billVars>>

LEMMA WechatInductive ==
  ASSUME WechatInv, [WechatNext \/ BillNext]_<<wechatVars, billVars>> PROVE WechatInv'
<1>1. CASE UNCHANGED <<wechatVars, billVars>>
  <2>1. BillFits' /\ kept' \in BOOLEAN /\ misread' \in BOOLEAN /\ valid' \subseteq Nat
    BY <1>1 DEF WechatInv, WechatShape, BillFits, BillKept, wechatVars, billVars
  <2> QED BY <1>1, <2>1, CallsAside DEF wechatVars
<1>2. ASSUME NEW c \in Calls, CallbackComes(c) PROVE WechatInv'
  BY <1>2, CallEnds, ReceivedCall DEF CallbackComes
<1>3. ASSUME NEW c \in Calls, AnswerSigned(c) PROVE WechatInv'
  BY <1>3, ReceivedCall DEF AnswerSigned
<1>4. CASE WechatNext
  BY <1>2, <1>3, <1>4, RotateKeeps, SendKeeps, AnswerWithoutKeeps, FetchKeeps, FetchedKeeps,
     PersistKeeps, ListStaleKeeps, RemoveStaleKeeps, LoadAgainKeeps DEF WechatNext
<1> QED BY <1>1, <1>4, BillKeeps

(* The channel to WeChat, for any number of calls and processes: a prepay
   is sent once and nothing oftener than the retries allow; what passes as
   verified was signed by WeChat, and only answers to requests pass
   unverified; a message it signed fails for want of a certificate only if
   the download lacked it or another process took it away; and a saved
   bill is lost to cleanup or to a checking load beside the save only
   (WeChatPayClient.request, _verify_response, persist_certificates,
   BillFileManager). *)
THEOREM ChannelHolds == ChannelSpec => []ChannelTrusted
<1>1. WechatInv => ChannelTrusted
  BY DEF WechatInv, ChannelTrusted, SentInBounds, TrustExplained, TriesFit, FilesFit, BillFits
<1> QED BY <1>1, InitWechat, WechatInductive, PTL DEF ChannelSpec

----------------------------------------
(* The inductive invariant of Uploads: the parts. *)

(* What is marked, or about to be, is there until the parts are removed. *)
PartsKept ==
  /\ ~emptied => /\ marked \subseteq Present
                 /\ \A w \in Puts : put[w] \in {"write", "mark"} => PutPart[w] \in Present
  /\ \A w \in Puts : put[w] = "lost" => emptied

(* Who removes parts knows what comes after it; a cancel does nothing else. *)
Removing == {"remove", "removing"}
CallersFit ==
  \A c \in Callers :
    /\ caller[c].at \in Removing =>
         emptied /\ caller[c].then \in {"measure", "forget", "returned", "failed"}
    /\ c \in Cancels =>
         /\ caller[c].at \in {"new", "failed", "remove", "removing", "forget", "returned"}
         /\ caller[c].at \in Removing => caller[c].then = "forget"

OneCompletes ==
  raced \/ \A c, d \in Completes : Working(c) /\ Working(d) => c = d

(* The only complete on MinIO measures the object that is there, and when
   it is recorded nobody composes another. *)
Measuring(c) ==
  \/ caller[c].at = "measure"
  \/ caller[c].at \in Removing /\ caller[c].then = "measure"
MinioKept ==
  storage = "minio" /\ ~raced =>
    /\ task = "COMPLETED" =>
         /\ Whole(object)
         /\ \A c \in Completes :
              Working(c) => caller[c].at \in Removing /\ caller[c].then = "returned"
    /\ \A c \in Completes : Measuring(c) => caller[c].got = object

UploadInv ==
  UploadTypeOK /\ PartsKept /\ CallersFit /\ OneCompletes /\ MinioKept

----------------------------------------
(* The inductive invariant of Uploads: objects. *)

Letters == UNION {{t[i] : i \in DOMAIN t} : t \in ObjectTexts}
Texts == Seq(Letters)
AccessPlaces == {"new", "writing", "reading", "removing", "returned", "absent", "failed"}
AccessRecords == [at : AccessPlaces, op : {"none", "put", "get", "delete"}, file : Nat,
                  data : Texts, alone : BOOLEAN]

ObjectsShape ==
  /\ storage \in Storages /\ files \in Seq(Texts) /\ named \in 0..Len(files)
  /\ access \in [ObjectCalls -> AccessRecords]
  /\ latest \in Texts /\ mixed \in BOOLEAN

AccessFits(x) ==
  /\ x.at \in {"writing", "reading", "removing"} => storage = "local"
  /\ x.at = "writing" => x.op = "put" /\ x.file \in 1..Len(files) /\ x.data \in ObjectTexts
  /\ x.at = "reading" => x.op = "get"
  /\ x.at = "removing" => x.op = "delete"
  /\ x.at = "failed" => storage = "local" /\ ~x.alone
  /\ storage = "minio" => x.data \in ObjectTexts \cup {NoText}

(* Who is alone finds the name, and the file, as when he came. *)
AloneFits(c) ==
  InWork(c) /\ access[c].alone =>
    /\ Changing \subseteq {c}
    /\ access[c].at = "writing" => access[c].file = named /\ files[named] = NoText
    /\ access[c].at \in {"reading", "removing"} => named # 0

LatestFits ==
  ~mixed /\ Changing = {} => latest = IF named = 0 THEN NoText ELSE files[named]

ObjectsInv ==
  /\ ObjectsShape /\ LatestFits
  /\ \A c \in ObjectCalls : AccessFits(access[c]) /\ AloneFits(c)
  /\ storage = "minio" => \A i \in 1..Len(files) : files[i] \in ObjectTexts

----------------------------------------
(* Uploads: who goes on, and what he leaves as it is. *)

CallerRecords ==
  [at : {"new", "digest", "reading", "list", "merge", "remove", "removing", "measure", "forget",
         "returned", "failed"},
   got : [Parts -> Contents], left : SUBSET Parts,
   then : {"none", "measure", "forget", "returned", "failed"}]

Ended == {"new", "returned", "failed"}

(* A caller that is at x has a reason to be there. *)
CallerFits(c, x, e) ==
  /\ x.at \in Removing => e /\ x.then \in {"measure", "forget", "returned", "failed"}
  /\ c \in Cancels =>
       /\ x.at \in {"new", "failed", "remove", "removing", "forget", "returned"}
       /\ x.at \in Removing => x.then = "forget"

(* What x has to be while nobody overlapped on MinIO. *)
MinioFits(x) ==
  storage = "minio" /\ ~raced =>
    /\ task = "COMPLETED" /\ x.at \notin Ended => x.at \in Removing /\ x.then = "returned"
    /\ x.at = "measure" \/ (x.at \in Removing /\ x.then = "measure") => x.got = object

LEMMA UploadParts ==
  ASSUME UploadInv
  PROVE  /\ storage \in Storages /\ task \in {"absent", "INITIALIZED", "COMPLETED"}
         /\ marked \subseteq Parts /\ old \in BOOLEAN /\ raced \in BOOLEAN /\ emptied \in BOOLEAN
         /\ parts \in [Parts -> Contents \ {"listed"}]
         /\ object \in [Parts -> Contents \ {"listed"}]
         /\ put \in [Puts -> {"new", "save", "write", "lost", "mark", "done", "refused"}]
         /\ caller \in [Callers -> CallerRecords]
         /\ \A c \in Callers : CallerFits(c, caller[c], emptied)
         /\ \A c \in Completes : c \in Callers /\ c \notin Cancels /\ MinioFits(caller[c])
         /\ \A c \in Callers : c \in Completes \/ c \in Cancels
         /\ \A c \in Callers : Working(c) <=> caller[c].at \notin Ended
BY UploadsAssumption
   DEF UploadInv, UploadTypeOK, CallerRecords, CallersFit, CallerFits, MinioKept, MinioFits, Measuring,
       Working, Ended, Callers

(* One caller goes on. *)
LEMMA CallerGoes ==
  ASSUME UploadInv, NEW c \in Callers, NEW x \in CallerRecords, caller' = [caller EXCEPT ![c] = x],
         emptied' \in BOOLEAN, raced' \in BOOLEAN, emptied => emptied', raced => raced',
         CallerFits(c, x, emptied'),
         c \in Completes /\ x.at \notin Ended => Working(c) \/ raced' \/ ~CompletesBeside(c)
  PROVE  caller' \in [Callers -> CallerRecords] /\ CallersFit' /\ OneCompletes'
<1>1. caller' \in [Callers -> CallerRecords] BY UploadParts
<1>2. CallersFit' BY UploadParts DEF CallersFit, CallerFits
<1>3. OneCompletes'
  <2> SUFFICES ASSUME ~raced', NEW d \in Completes, NEW e \in Completes, Working(d)', Working(e)'
               PROVE  d = e
    BY DEF OneCompletes
  <2>1. /\ d \in Callers /\ e \in Callers
        /\ d # c => Working(d)
        /\ e # c => Working(e)
    BY UploadParts DEF Working
  <2>2. \A a, b \in Completes : Working(a) /\ Working(b) => a = b BY DEF UploadInv, OneCompletes
  <2>3. CASE c \in Completes
    <3>1. Working(c)' => x.at \notin Ended BY UploadParts DEF Working, Ended
    <3>2. Working(c)' => Working(c) \/ \A f \in Completes \ {c} : ~Working(f)
      BY <2>3, <3>1 DEF CompletesBeside
    <3> QED BY <2>1, <2>2, <2>3, <3>2
  <2>4. CASE c \notin Completes BY <2>1, <2>2, <2>4
  <2> QED BY <2>3, <2>4
<1> QED BY <1>1, <1>2, <1>3

(* The object and the task are as they were. *)
LEMMA MinioStays ==
  ASSUME UploadInv, NEW c \in Callers, NEW x \in CallerRecords, caller' = [caller EXCEPT ![c] = x],
         UNCHANGED <<storage, task, object>>, raced => raced', raced' \in BOOLEAN,
         c \in Completes => MinioFits(x)
  PROVE  MinioKept'
<1> SUFFICES ASSUME storage = "minio", ~raced'
             PROVE  /\ task = "COMPLETED" =>
                         /\ Whole(object)
                         /\ \A d \in Completes : caller'[d].at \notin Ended =>
                              caller'[d].at \in Removing /\ caller'[d].then = "returned"
                    /\ \A d \in Completes :
                         \/ caller'[d].at = "measure"
                         \/ caller'[d].at \in Removing /\ caller'[d].then = "measure"
                         => caller'[d].got = object
  BY UploadParts DEF MinioKept, Working, Whole, Measuring, Ended
<1>1. ~raced BY UploadParts
<1>2. task = "COMPLETED" => Whole(object) BY <1>1 DEF UploadInv, MinioKept
<1>3. ASSUME NEW d \in Completes
      PROVE  /\ task = "COMPLETED" /\ caller'[d].at \notin Ended =>
                  caller'[d].at \in Removing /\ caller'[d].then = "returned"
             /\ \/ caller'[d].at = "measure"
                \/ caller'[d].at \in Removing /\ caller'[d].then = "measure"
                => caller'[d].got = object
  <2>1. CASE d = c BY <1>1, <2>1, UploadParts DEF MinioFits
  <2>2. CASE d # c BY <1>1, <2>2, UploadParts DEF MinioFits
  <2> QED BY <2>1, <2>2
<1> QED BY <1>2, <1>3

(* A caller goes on and touches nothing. *)
LEMMA CallerAlone ==
  ASSUME UploadInv, NEW c \in Callers, NEW x \in CallerRecords, caller' = [caller EXCEPT ![c] = x],
         UNCHANGED <<storage, task, marked, old, parts, object, put>>,
         emptied' \in BOOLEAN, raced' \in BOOLEAN, emptied => emptied', raced => raced',
         CallerFits(c, x, emptied'),
         c \in Completes /\ x.at \notin Ended => Working(c) \/ raced' \/ ~CompletesBeside(c),
         c \in Completes => MinioFits(x)
  PROVE  UploadInv'
<1>1. caller' \in [Callers -> CallerRecords] /\ CallersFit' /\ OneCompletes' BY CallerGoes
<1>2. MinioKept' BY MinioStays
<1>3. PartsKept' BY DEF UploadInv, PartsKept, Present
<1>4. UploadTypeOK' BY <1>1, UploadParts DEF UploadTypeOK, CallerRecords
<1> QED BY <1>1, <1>2, <1>3, <1>4 DEF UploadInv

----------------------------------------
(* Uploads: every step. *)

LEMMA InitUpload == UploadInit => UploadInv
<1> SUFFICES ASSUME UploadInit PROVE UploadInv OBVIOUS
<1>1. NoParts \in [Parts -> Contents \ {"listed"}] /\ NoObject \in [Parts -> Contents \ {"listed"}]
  BY DEF NoParts, NoObject, Contents, Gone
<1>2. Idle \in CallerRecords /\ Idle.at = "new" BY DEF Idle, CallerRecords, NoParts, Contents, Gone
<1>3. UploadTypeOK BY <1>1, <1>2 DEF UploadInit, UploadTypeOK, CallerRecords
<1>4. PartsKept BY DEF UploadInit, PartsKept
<1>5. \A c \in Callers : caller[c].at = "new" BY <1>2 DEF UploadInit
<1>6. CallersFit /\ OneCompletes BY <1>5 DEF CallersFit, OneCompletes, Removing, Working, Callers
<1>7. MinioKept BY <1>5 DEF UploadInit, MinioKept, Measuring, Removing, Callers
<1> QED BY <1>3, <1>4, <1>6, <1>7 DEF UploadInv

(* Steps of upload_part, and of time: the callers wait. *)
LEMMA CallersWait ==
  ASSUME UploadInv, UNCHANGED <<storage, object, caller, raced>>,
         task' = task \/ task' = "absent", emptied => emptied', emptied' \in BOOLEAN,
         marked' \subseteq Parts, old' \in BOOLEAN,
         parts' \in [Parts -> Contents \ {"listed"}],
         put' \in [Puts -> {"new", "save", "write", "lost", "mark", "done", "refused"}],
         PartsKept'
  PROVE  UploadInv'
<1>1. UploadTypeOK' BY UploadParts DEF UploadTypeOK, CallerRecords
<1>2. CallersFit' BY UploadParts DEF UploadInv, CallersFit
<1>3. OneCompletes' BY DEF UploadInv, OneCompletes, Working
<1>4. MinioKept' BY DEF UploadInv, MinioKept, Measuring, Working, Whole
<1> QED BY <1>1, <1>2, <1>3, <1>4 DEF UploadInv

LEMMA PutParts ==
  ASSUME UploadInv, NEW u \in Puts PROVE PutPart[u] \in Parts /\ PutData[u] \in {"good", "other"}
BY UploadsAssumption DEF Parts

LEMMA CheckPutKeeps == ASSUME UploadInv, NEW u \in Puts, CheckPut(u) PROVE UploadInv'
<1>1. PartsKept' BY UploadParts DEF CheckPut, UploadInv, PartsKept, Present
<1> QED BY <1>1, CallersWait, UploadParts DEF CheckPut

LEMMA SavePartKeeps == ASSUME UploadInv, NEW u \in Puts, SavePart(u) PROVE UploadInv'
<1>1. PartsKept' BY UploadParts, PutParts DEF SavePart, UploadInv, PartsKept, Present, Gone
<1>2. parts' \in [Parts -> Contents \ {"listed"}]
  BY UploadParts, PutParts DEF SavePart, Contents, Gone
<1> QED BY <1>1, <1>2, CallersWait, UploadParts DEF SavePart

LEMMA OpenPartKeeps == ASSUME UploadInv, NEW u \in Puts, OpenPart(u) PROVE UploadInv'
<1>1. PartsKept' BY UploadParts, PutParts DEF OpenPart, UploadInv, PartsKept, Present, Gone
<1>2. parts' \in [Parts -> Contents \ {"listed"}]
  BY UploadParts, PutParts DEF OpenPart, Contents, Gone
<1> QED BY <1>1, <1>2, CallersWait, UploadParts DEF OpenPart

LEMMA WritePartKeeps == ASSUME UploadInv, NEW u \in Puts, WritePart(u) PROVE UploadInv'
<1>0. PutPart[u] \in Parts /\ PutData[u] # Gone /\ PutData[u] \in Contents \ {"listed"}
  BY PutParts DEF Contents, Gone
<1>1. PartsKept'
  <2>1. CASE put[u] = "lost" BY <2>1, UploadParts DEF WritePart, UploadInv, PartsKept, Present
  <2>2. CASE put[u] # "lost" BY <1>0, <2>2, UploadParts DEF WritePart, UploadInv, PartsKept, Present
  <2> QED BY <2>1, <2>2
<1>2. parts' \in [Parts -> Contents \ {"listed"}] BY <1>0, UploadParts DEF WritePart
<1> QED BY <1>1, <1>2, CallersWait, UploadParts DEF WritePart

LEMMA MarkPartKeeps == ASSUME UploadInv, NEW u \in Puts, MarkPart(u) PROVE UploadInv'
<1>1. PartsKept' BY UploadParts, PutParts DEF MarkPart, UploadInv, PartsKept, Present
<1>2. marked' \subseteq Parts BY UploadParts, PutParts DEF MarkPart
<1> QED BY <1>1, <1>2, CallersWait, UploadParts DEF MarkPart

LEMMA TimeKeeps == ASSUME UploadInv, Ages \/ CleanupStale PROVE UploadInv'
<1>1. CASE Ages
  <2>1. PartsKept' BY <1>1 DEF Ages, UploadInv, PartsKept, Present
  <2> QED BY <1>1, <2>1, CallersWait, UploadParts DEF Ages
<1>2. CASE CleanupStale /\ UNCHANGED <<parts, put, emptied>>
  <2>1. PartsKept' BY <1>2 DEF CleanupStale, UploadInv, PartsKept, Present
  <2> QED BY <1>2, <2>1, CallersWait, UploadParts DEF CleanupStale
<1>3. CASE CleanupStale /\ RemoveDirectory /\ emptied' = TRUE
  <2>1. PartsKept' BY <1>3 DEF PartsKept
  <2>2. /\ parts' \in [Parts -> Contents \ {"listed"}]
        /\ put' \in [Puts -> {"new", "save", "write", "lost", "mark", "done", "refused"}]
    BY <1>3, UploadParts DEF RemoveDirectory, NoParts, Contents, Gone
  <2> QED BY <1>3, <2>1, <2>2, CallersWait, UploadParts DEF CleanupStale
<1> QED BY <1>1, <1>2, <1>3 DEF CleanupStale, CleanupExpired

(* Steps of complete and cancel. *)

LEMMA CheckCompleteKeeps == ASSUME UploadInv, NEW c \in Callers, CheckComplete(c) PROVE UploadInv'
<1>0. caller[c] \in CallerRecords /\ caller[c].at = "new" /\ c \in Completes /\ c \notin Cancels
  BY UploadParts DEF CheckComplete
<1>1. ASSUME NEW place \in {"returned", "failed"}, To(c, place), UNCHANGED raced PROVE UploadInv'
  <2> DEFINE x == [caller[c] EXCEPT !.at = place]
  <2>1. x \in CallerRecords /\ x.at = place BY <1>0 DEF CallerRecords
  <2>2. CallerFits(c, x, emptied') /\ MinioFits(x) /\ x.at \in Ended
    BY <1>0, <2>1 DEF CallerFits, MinioFits, Removing, Ended
  <2>3. caller' = [caller EXCEPT ![c] = x] BY <1>1 DEF To
  <2> HIDE DEF x
  <2> QED BY <1>1, <2>1, <2>2, <2>3, CallerAlone, UploadParts DEF CheckComplete
<1>2. ASSUME NEW place \in {"digest", "list"}, Begin(c, place, "none"), task # "COMPLETED"
      PROVE  UploadInv'
  <2> DEFINE x == [caller[c] EXCEPT !.at = place, !.then = "none"]
  <2>1. x \in CallerRecords /\ x.at = place BY <1>0 DEF CallerRecords
  <2>2. CallerFits(c, x, emptied') /\ MinioFits(x)
    BY <1>0, <1>2, <2>1 DEF CallerFits, MinioFits, Removing, Ended
  <2>3. caller' = [caller EXCEPT ![c] = x] /\ raced' = (raced \/ CompletesBeside(c))
    BY <1>2 DEF Begin
  <2> HIDE DEF x
  <2>4. raced' \in BOOLEAN /\ (raced => raced') /\ (raced' \/ ~CompletesBeside(c)) BY <2>3
  <2> QED BY <2>1, <2>2, <2>3, <2>4, CallerAlone, UploadParts DEF CheckComplete
<1>3. CASE task = "COMPLETED" BY <1>1, <1>3 DEF CheckComplete
<1>4. CASE task = "absent" \/ (task # "COMPLETED" /\ marked # Parts) BY <1>1, <1>4 DEF CheckComplete
<1>5. CASE ~(task = "COMPLETED") /\ ~(task = "absent" \/ (task # "COMPLETED" /\ marked # Parts))
  <2>1. CASE c \in WithDigest BY <1>2, <1>5, <2>1 DEF CheckComplete
  <2>2. CASE c \notin WithDigest BY <1>2, <1>5, <2>2 DEF CheckComplete
  <2> QED BY <2>1, <2>2
<1> QED BY <1>3, <1>4, <1>5

(* One who is not at an end, and goes on to anything but a removal. *)
LEMMA GoesOn ==
  ASSUME UploadInv, NEW c \in Completes, NEW x \in CallerRecords,
         caller' = [caller EXCEPT ![c] = x],
         caller[c].at \notin Ended \cup Removing,
         x.at \in {"digest", "reading", "list", "merge", "failed"},
         UNCHANGED <<storage, task, marked, old, parts, object, put, raced, emptied>>
  PROVE  UploadInv'
<1>1. c \in Callers /\ c \notin Cancels /\ Working(c) BY UploadParts
<1>2. CallerFits(c, x, emptied') BY <1>1 DEF CallerFits, Removing
<1>3. MinioFits(x) BY UploadParts DEF MinioFits, Removing, Ended
<1> QED BY <1>1, <1>2, <1>3, CallerAlone, UploadParts

(* Only a complete is at these places. *)
LEMMA AtWorkCompletes ==
  ASSUME UploadInv, NEW c \in Callers,
         caller[c].at \in {"digest", "reading", "list", "merge", "measure"}
  PROVE  c \in Completes /\ caller[c] \in CallerRecords /\ caller[c].at \notin Ended \cup Removing
BY UploadParts DEF CallerFits, Removing, Ended

LEMMA ToFailed ==
  ASSUME UploadInv, NEW c \in Callers, To(c, "failed"),
         caller[c].at \in {"digest", "reading", "list", "merge", "measure"},
         UNCHANGED <<storage, task, marked, old, parts, object, put, raced, emptied>>
  PROVE  UploadInv'
<1> DEFINE x == [caller[c] EXCEPT !.at = "failed"]
<1>1. x \in CallerRecords /\ x.at = "failed" /\ caller' = [caller EXCEPT ![c] = x]
  BY AtWorkCompletes DEF To, CallerRecords
<1> HIDE DEF x
<1> QED BY <1>1, AtWorkCompletes, GoesOn

LEMMA ListForDigestKeeps == ASSUME UploadInv, NEW c \in Callers, ListForDigest(c) PROVE UploadInv'
<1> DEFINE x == [caller[c] EXCEPT !.at = "reading", !.left = Present]
<1>1. Present \subseteq Parts BY DEF Present
<1>2. caller' = [caller EXCEPT ![c] = x] BY DEF ListForDigest
<1>3. x \in CallerRecords /\ x.at = "reading"
  BY <1>1, AtWorkCompletes DEF ListForDigest, CallerRecords
<1> HIDE DEF x
<1> QED BY <1>2, <1>3, AtWorkCompletes, GoesOn DEF ListForDigest

LEMMA ReadPartKeeps == ASSUME UploadInv, NEW c \in Callers, ReadPart(c) PROVE UploadInv'
<1> DEFINE n == CHOOSE m \in caller[c].left : \A k \in caller[c].left : m <= k
<1>0. caller[c] \in CallerRecords /\ caller[c].at = "reading" BY AtWorkCompletes DEF ReadPart
<1>1. CASE parts[n] = Gone BY <1>1, ToFailed DEF ReadPart
<1>2. CASE parts[n] # Gone
  <2> DEFINE g == [caller[c].got EXCEPT ![n] = parts[n]]
             x == [caller[c] EXCEPT !.got = g, !.left = @ \ {n}]
  <2>1. caller' = [caller EXCEPT ![c] = x] BY <1>2 DEF ReadPart
  <2> HIDE DEF n
  <2>2. g \in [Parts -> Contents]
    <3>1. caller[c].got \in [Parts -> Contents] /\ (n \in Parts => parts[n] \in Contents)
      BY <1>0, UploadParts DEF CallerRecords
    <3> QED BY <3>1
  <2> HIDE DEF g
  <2>3. x \in CallerRecords /\ x.at = "reading" BY <1>0, <2>2 DEF CallerRecords
  <2> HIDE DEF x
  <2> QED BY <1>0, <2>1, <2>3, AtWorkCompletes, GoesOn DEF ReadPart
<1> QED BY <1>1, <1>2

LEMMA EndDigestKeeps == ASSUME UploadInv, NEW c \in Callers, EndDigest(c) PROVE UploadInv'
<1>0. c \in Completes /\ caller[c] \in CallerRecords /\ caller[c].at = "reading" /\ Working(c)
  BY AtWorkCompletes, UploadParts DEF EndDigest
<1>1. CASE To(c, "list") /\ UNCHANGED emptied
  <2> DEFINE x == [caller[c] EXCEPT !.at = "list"]
  <2>1. x \in CallerRecords /\ x.at = "list" /\ caller' = [caller EXCEPT ![c] = x]
    BY <1>0, <1>1 DEF To, CallerRecords
  <2> HIDE DEF x
  <2> QED BY <1>0, <1>1, <2>1, AtWorkCompletes, GoesOn DEF EndDigest
<1>2. CASE Remove(c, "failed")
  <2> DEFINE x == [caller[c] EXCEPT !.at = "remove", !.then = "failed"]
  <2>1. caller' = [caller EXCEPT ![c] = x] /\ emptied' = TRUE BY <1>2 DEF Remove
  <2>2. x \in CallerRecords /\ x.at = "remove" /\ x.then = "failed" BY <1>0 DEF CallerRecords
  <2>3. CallerFits(c, x, emptied') BY <1>0, <2>1, <2>2, UploadParts DEF CallerFits
  <2>4. MinioFits(x) BY <1>0, <2>2, UploadParts DEF MinioFits, Removing, Ended
  <2> HIDE DEF x
  <2> QED BY <1>0, <2>1, <2>2, <2>3, <2>4, CallerAlone, UploadParts DEF EndDigest
<1> QED BY <1>1, <1>2 DEF EndDigest

(* A complete at work where it may compose an object: nothing is recorded,
   and on MinIO without overlaps nobody else measures. *)
LEMMA Composes ==
  ASSUME UploadInv, NEW c \in Completes, NEW x \in CallerRecords,
         caller' = [caller EXCEPT ![c] = x], caller[c].at = "merge" \/ caller[c].at = "list",
         x.at \in {"merge", "failed"},
         object' \in [Parts -> Contents \ {"listed"}],
         UNCHANGED <<storage, task, marked, old, parts, put, raced, emptied>>
  PROVE  UploadInv'
<1>0. c \in Callers /\ c \notin Cancels /\ Working(c) BY UploadParts DEF Ended
<1>1. CallerFits(c, x, emptied') BY <1>0 DEF CallerFits, Removing
<1>2. caller' \in [Callers -> CallerRecords] /\ CallersFit' /\ OneCompletes'
  BY <1>0, <1>1, CallerGoes, UploadParts
<1>3. PartsKept' BY DEF UploadInv, PartsKept, Present
<1>4. UploadTypeOK' BY <1>2, UploadParts DEF UploadTypeOK, CallerRecords
<1>5. MinioKept'
  <2> SUFFICES ASSUME storage = "minio", ~raced PROVE MinioKept' BY DEF MinioKept
  <2>1. task # "COMPLETED" BY <1>0, UploadParts DEF MinioFits, Removing, Ended
  <2>2. ASSUME NEW d \in Completes PROVE ~Measuring(d)'
    <3>1. CASE d = c BY <1>0, <3>1, UploadParts DEF Measuring, Removing
    <3>2. CASE d # c
      <4>1. ~Working(d) BY <1>0, <3>2 DEF UploadInv, OneCompletes
      <4> QED BY <3>2, <4>1, <1>0, UploadParts DEF Measuring, Removing, Ended
    <3> QED BY <3>1, <3>2
  <2> QED BY <2>1, <2>2 DEF MinioKept
<1> QED BY <1>2, <1>3, <1>4, <1>5 DEF UploadInv

LEMMA ListPartsKeeps == ASSUME UploadInv, NEW c \in Callers, ListParts(c) PROVE UploadInv'
<1>0. c \in Completes /\ caller[c] \in CallerRecords /\ caller[c].at = "list"
  BY AtWorkCompletes DEF ListParts
<1>1. CASE Present = {} BY <1>1, ToFailed DEF ListParts
<1>2. CASE Present # {}
  <2> DEFINE g == [n \in Parts |-> IF n \in Present THEN "listed" ELSE Gone]
             x == [caller[c] EXCEPT !.at = "merge", !.got = g]
  <2>1. caller' = [caller EXCEPT ![c] = x] BY <1>2 DEF ListParts
  <2>2. g \in [Parts -> Contents] BY DEF Contents
  <2> HIDE DEF g
  <2>3. x \in CallerRecords /\ x.at = "merge" BY <1>0, <2>2 DEF CallerRecords
  <2>4. object' \in [Parts -> Contents \ {"listed"}]
    BY <1>2, UploadParts DEF ListParts, NoObject, NoParts, Contents, Gone
  <2> HIDE DEF x
  <2> QED BY <1>0, <2>1, <2>3, <2>4, Composes DEF ListParts
<1> QED BY <1>1, <1>2

LEMMA AppendPartKeeps == ASSUME UploadInv, NEW c \in Callers, AppendPart(c) PROVE UploadInv'
<1> DEFINE n == CHOOSE m \in Listed(c) : \A k \in Listed(c) : m <= k
<1>0. c \in Completes /\ caller[c] \in CallerRecords /\ caller[c].at = "merge"
  BY AtWorkCompletes DEF AppendPart
<1>1. CASE parts[n] = Gone BY <1>1, ToFailed DEF AppendPart
<1>2. CASE parts[n] # Gone
  <2> DEFINE g == [caller[c].got EXCEPT ![n] = parts[n]]
             x == [caller[c] EXCEPT !.got = g]
  <2>1. caller' = [caller EXCEPT ![c] = x] /\ object' = [object EXCEPT ![n] = parts[n]]
    BY <1>2 DEF AppendPart
  <2> HIDE DEF n
  <2>2. g \in [Parts -> Contents] /\ object' \in [Parts -> Contents \ {"listed"}]
    <3>1. /\ caller[c].got \in [Parts -> Contents]
          /\ n \in Parts => parts[n] \in Contents \ {"listed"}
      BY <1>0, UploadParts DEF CallerRecords
    <3> QED BY <2>1, <3>1, UploadParts
  <2> HIDE DEF g
  <2>3. x \in CallerRecords /\ x.at = "merge" BY <1>0, <2>2 DEF CallerRecords
  <2> HIDE DEF x
  <2> QED BY <1>0, <2>1, <2>2, <2>3, Composes DEF AppendPart
<1> QED BY <1>1, <1>2

LEMMA ComposeKeeps == ASSUME UploadInv, NEW c \in Callers, Compose(c) PROVE UploadInv'
<1>0. c \in Completes /\ caller[c] \in CallerRecords /\ caller[c].at = "merge"
  BY AtWorkCompletes DEF Compose
<1>1. CASE ~(Listed(c) \subseteq Present) BY <1>1, ToFailed DEF Compose
<1>2. CASE Listed(c) \subseteq Present
  <2> DEFINE o == [n \in Parts |-> IF n \in Listed(c) THEN parts[n] ELSE Gone]
             x == [caller[c] EXCEPT !.got = o]
  <2>1. object' = o /\ caller' = [caller EXCEPT ![c] = x] BY <1>2 DEF Compose
  <2>2. o \in [Parts -> Contents \ {"listed"}] BY UploadParts DEF Contents, Gone
  <2> HIDE DEF o
  <2>3. x \in CallerRecords /\ x.at = "merge" BY <1>0, <2>2 DEF CallerRecords
  <2> HIDE DEF x
  <2> QED BY <1>0, <2>1, <2>2, <2>3, Composes DEF Compose
<1> QED BY <1>1, <1>2

LEMMA EndMergeKeeps == ASSUME UploadInv, NEW c \in Callers, EndMerge(c) PROVE UploadInv'
<1>0. c \in Completes /\ caller[c] \in CallerRecords /\ caller[c].at = "merge" /\ Working(c)
  BY AtWorkCompletes, UploadParts DEF EndMerge
<1> DEFINE g == IF storage = "minio" THEN object ELSE caller[c].got
           x == [caller[c] EXCEPT !.at = "remove", !.then = "measure", !.got = g]
<1>1. caller' = [caller EXCEPT ![c] = x] /\ emptied' = TRUE BY DEF EndMerge
<1>2. g \in [Parts -> Contents] /\ (storage = "minio" => g = object)
  BY <1>0, UploadParts DEF CallerRecords
<1> HIDE DEF g
<1>3. x \in CallerRecords /\ x.at = "remove" /\ x.then = "measure" /\ x.got = g
  BY <1>0, <1>2 DEF CallerRecords
<1>4. CallerFits(c, x, emptied') BY <1>0, <1>1, <1>3, UploadParts DEF CallerFits
<1>5. MinioFits(x) BY <1>0, <1>2, <1>3, UploadParts DEF MinioFits, Removing, Ended
<1> HIDE DEF x
<1> QED BY <1>0, <1>1, <1>3, <1>4, <1>5, CallerAlone, UploadParts DEF EndMerge

(* One who removes parts goes on to what comes after. *)
LEMMA Removes ==
  ASSUME UploadInv, NEW c \in Callers, NEW x \in CallerRecords,
         caller' = [caller EXCEPT ![c] = x], caller[c].at \in Removing,
         x.at \in {"removing", caller[c].then}, x.then = caller[c].then, x.got = caller[c].got,
         parts' \in [Parts -> Contents \ {"listed"}],
         put' \in [Puts -> {"new", "save", "write", "lost", "mark", "done", "refused"}],
         UNCHANGED <<storage, task, marked, old, raced, emptied>>,
         storage = "minio" => object' = object,
         object' \in [Parts -> Contents \ {"listed"}]
  PROVE  UploadInv'
<1>0. /\ caller[c].then \in {"measure", "forget", "returned", "failed"} /\ emptied
      /\ Working(c) /\ caller[c] \in CallerRecords
  BY UploadParts DEF CallerFits, Removing, Ended
<1>1. CallerFits(c, x, emptied') BY <1>0, UploadParts DEF CallerFits, Removing
<1>2. caller' \in [Callers -> CallerRecords] /\ CallersFit' /\ OneCompletes'
  BY <1>0, <1>1, CallerGoes, UploadParts
<1>3. PartsKept' BY <1>0 DEF PartsKept
<1>4. UploadTypeOK' BY <1>2, UploadParts DEF UploadTypeOK, CallerRecords
<1>5. MinioKept'
  <2>1. CASE storage = "minio"
    <3>1. ASSUME c \in Completes PROVE MinioFits(x)
      BY <1>0, <3>1, UploadParts DEF MinioFits, Removing, Ended
    <3> QED BY <2>1, <3>1, MinioStays, UploadParts
  <2>2. CASE storage # "minio" BY <2>2 DEF MinioKept
  <2> QED BY <2>1, <2>2
<1> QED BY <1>2, <1>3, <1>4, <1>5 DEF UploadInv

LEMMA ListForRemovalKeeps ==
  ASSUME UploadInv, NEW c \in Callers, ListForRemoval(c) PROVE UploadInv'
<1>0. /\ caller[c] \in CallerRecords /\ caller[c].at \in Removing
      /\ caller[c].then \in {"measure", "forget", "returned", "failed"}
  BY UploadParts DEF ListForRemoval, Removing, CallerFits
<1>1. CASE storage = "local"
  <2> DEFINE x == [caller[c] EXCEPT !.at = caller[c].then]
  <2>1. caller' = [caller EXCEPT ![c] = x] BY <1>1 DEF ListForRemoval, To
  <2>2. /\ x \in CallerRecords /\ x.at = caller[c].then /\ x.then = caller[c].then
        /\ x.got = caller[c].got
    BY <1>0 DEF CallerRecords
  <2>3. /\ parts' \in [Parts -> Contents \ {"listed"}]
        /\ put' \in [Puts -> {"new", "save", "write", "lost", "mark", "done", "refused"}]
    BY <1>1, UploadParts DEF ListForRemoval, RemoveDirectory, NoParts, Contents, Gone
  <2>4. object' \in [Parts -> Contents \ {"listed"}]
    BY <1>1, UploadParts DEF ListForRemoval, NoObject, NoParts, Contents, Gone
  <2> HIDE DEF x
  <2> QED BY <1>0, <1>1, <2>1, <2>2, <2>3, <2>4, Removes DEF ListForRemoval
<1>2. CASE storage # "local"
  <2> DEFINE x == [caller[c] EXCEPT !.at = "removing", !.left = Present]
  <2>1. caller' = [caller EXCEPT ![c] = x] BY <1>2 DEF ListForRemoval
  <2>2. Present \subseteq Parts BY DEF Present
  <2>3. /\ x \in CallerRecords /\ x.at = "removing" /\ x.then = caller[c].then
        /\ x.got = caller[c].got
    BY <1>0, <2>2 DEF CallerRecords
  <2> HIDE DEF x
  <2> QED BY <1>0, <1>2, <2>1, <2>3, Removes, UploadParts DEF ListForRemoval
<1> QED BY <1>1, <1>2

LEMMA RemovePartKeeps == ASSUME UploadInv, NEW c \in Callers, RemovePart(c) PROVE UploadInv'
<1>0. /\ caller[c] \in CallerRecords /\ caller[c].at = "removing" /\ caller[c].at \in Removing
      /\ caller[c].then \in {"measure", "forget", "returned", "failed"}
  BY UploadParts DEF RemovePart, Removing, CallerFits
<1>1. CASE caller[c].left = {}
  <2> DEFINE x == [caller[c] EXCEPT !.at = caller[c].then]
  <2>1. caller' = [caller EXCEPT ![c] = x] BY <1>1 DEF RemovePart, To
  <2>2. /\ x \in CallerRecords /\ x.at = caller[c].then /\ x.then = caller[c].then
        /\ x.got = caller[c].got
    BY <1>0 DEF CallerRecords
  <2> HIDE DEF x
  <2> QED BY <1>0, <1>1, <2>1, <2>2, Removes, UploadParts DEF RemovePart
<1>2. CASE caller[c].left # {}
  <2>1. PICK n \in caller[c].left :
    /\ parts' = [parts EXCEPT ![n] = Gone]
    /\ caller' = [caller EXCEPT ![c].left = @ \ {n}]
    BY <1>2 DEF RemovePart
  <2> DEFINE x == [caller[c] EXCEPT !.left = @ \ {n}]
  <2>2. caller' = [caller EXCEPT ![c] = x] BY <2>1
  <2>3. /\ x \in CallerRecords /\ x.at = "removing" /\ x.then = caller[c].then
        /\ x.got = caller[c].got
    BY <1>0 DEF CallerRecords
  <2>4. parts' \in [Parts -> Contents \ {"listed"}] BY <2>1, UploadParts DEF Contents, Gone
  <2> HIDE DEF x
  <2> QED BY <1>0, <2>2, <2>3, <2>4, Removes, UploadParts DEF RemovePart
<1> QED BY <1>1, <1>2

LEMMA MeasureKeeps == ASSUME UploadInv, NEW c \in Callers, Measure(c) PROVE UploadInv'
<1>0. /\ c \in Completes /\ c \notin Cancels /\ caller[c] \in CallerRecords
      /\ caller[c].at = "measure" /\ Working(c)
  BY AtWorkCompletes, UploadParts DEF Measure
<1>1. CASE Remove(c, "failed") /\ UNCHANGED task
  <2> DEFINE x == [caller[c] EXCEPT !.at = "remove", !.then = "failed"]
  <2>1. caller' = [caller EXCEPT ![c] = x] /\ emptied' = TRUE BY <1>1 DEF Remove
  <2>2. x \in CallerRecords /\ x.at = "remove" /\ x.then = "failed" BY <1>0 DEF CallerRecords
  <2>3. CallerFits(c, x, emptied') BY <1>0, <2>1, <2>2 DEF CallerFits
  <2>4. MinioFits(x) BY <1>0, <2>2, UploadParts DEF MinioFits, Removing, Ended
  <2> HIDE DEF x
  <2> QED BY <1>0, <1>1, <2>1, <2>2, <2>3, <2>4, CallerAlone, UploadParts DEF Measure
<1>2. CASE /\ Whole(caller[c].got) /\ Remove(c, "returned")
           /\ task' = IF task = "absent" THEN task ELSE "COMPLETED"
  <2> DEFINE x == [caller[c] EXCEPT !.at = "remove", !.then = "returned"]
  <2>1. caller' = [caller EXCEPT ![c] = x] /\ emptied' = TRUE BY <1>2 DEF Remove
  <2>2. x \in CallerRecords /\ x.at = "remove" /\ x.then = "returned" BY <1>0 DEF CallerRecords
  <2>3. CallerFits(c, x, emptied') BY <1>0, <2>1, <2>2 DEF CallerFits
  <2> HIDE DEF x
  <2>4. caller' \in [Callers -> CallerRecords] /\ CallersFit' /\ OneCompletes'
    BY <1>0, <2>1, <2>2, <2>3, CallerGoes, UploadParts DEF Measure
  <2>5. PartsKept' BY <2>1, UploadParts DEF UploadInv, PartsKept, Measure
  <2>6. UploadTypeOK' BY <1>2, <2>1, <2>4, UploadParts DEF UploadTypeOK, CallerRecords, Measure
  <2>7. MinioKept'
    <3> SUFFICES ASSUME storage = "minio", ~raced PROVE MinioKept' BY DEF MinioKept, Measure
    <3>1. caller[c].got = object /\ object' = object BY <1>0, UploadParts DEF MinioFits, Measure
    <3>2. Whole(object)' BY <1>2, <3>1 DEF Whole
    <3>3. \A d \in Completes \ {c} : caller'[d].at \in Ended
      BY <1>0, <2>1, UploadParts DEF UploadInv, OneCompletes
    <3>4. caller'[c].at = "remove" /\ caller'[c].then = "returned" BY <2>1, <2>2, UploadParts
    <3> QED BY <3>2, <3>3, <3>4 DEF MinioKept, Working, Ended, Measuring, Removing
  <2> QED BY <2>4, <2>5, <2>6, <2>7 DEF UploadInv
<1> QED BY <1>1, <1>2 DEF Measure

LEMMA CheckCancelKeeps == ASSUME UploadInv, NEW c \in Callers, CheckCancel(c) PROVE UploadInv'
<1>0. caller[c] \in CallerRecords /\ c \in Cancels /\ c \notin Completes /\ caller[c].at = "new"
  BY UploadParts DEF CheckCancel
<1>1. CASE To(c, "failed") /\ UNCHANGED <<raced, emptied>>
  <2> DEFINE x == [caller[c] EXCEPT !.at = "failed"]
  <2>1. x \in CallerRecords /\ x.at = "failed" /\ caller' = [caller EXCEPT ![c] = x]
    BY <1>0, <1>1 DEF CallerRecords, To
  <2>2. CallerFits(c, x, emptied') BY <2>1 DEF CallerFits, Removing
  <2> HIDE DEF x
  <2> QED BY <1>0, <1>1, <2>1, <2>2, CallerAlone, UploadParts DEF CheckCancel
<1>2. CASE Begin(c, "remove", "forget") /\ emptied' = TRUE
  <2> DEFINE x == [caller[c] EXCEPT !.at = "remove", !.then = "forget"]
  <2>1. caller' = [caller EXCEPT ![c] = x] /\ raced' = raced
    BY <1>0, <1>2, UploadParts DEF Begin, CompletesBeside
  <2>2. x \in CallerRecords /\ x.at = "remove" /\ x.then = "forget" BY <1>0 DEF CallerRecords
  <2>3. CallerFits(c, x, emptied') BY <1>2, <2>2 DEF CallerFits
  <2> HIDE DEF x
  <2> QED BY <1>0, <1>2, <2>1, <2>2, <2>3, CallerAlone, UploadParts DEF CheckCancel
<1> QED BY <1>1, <1>2 DEF CheckCancel

LEMMA ForgetKeeps == ASSUME UploadInv, NEW c \in Callers, Forget(c) PROVE UploadInv'
<1> DEFINE x == [caller[c] EXCEPT !.at = "returned"]
<1>0. caller[c] \in CallerRecords /\ caller[c].at = "forget" /\ Working(c)
  BY UploadParts DEF Forget, Ended
<1>1. x \in CallerRecords /\ x.at = "returned" /\ caller' = [caller EXCEPT ![c] = x]
  BY <1>0 DEF CallerRecords, Forget, To
<1>2. CallerFits(c, x, emptied') BY <1>1 DEF CallerFits, Removing
<1> HIDE DEF x
<1>3. caller' \in [Callers -> CallerRecords] /\ CallersFit' /\ OneCompletes'
  BY <1>0, <1>1, <1>2, CallerGoes, UploadParts DEF Forget
<1>4. PartsKept' BY DEF UploadInv, PartsKept, Forget, Present
<1>5. UploadTypeOK' BY <1>3, UploadParts DEF UploadTypeOK, CallerRecords, Forget
<1>6. MinioKept'
  <2> SUFFICES ASSUME storage = "minio", ~raced, NEW d \in Completes, Measuring(d)'
               PROVE  caller'[d].got = object
    BY DEF MinioKept, Forget
  <2>1. d # c BY <1>1, UploadParts DEF Measuring, Removing
  <2>2. caller'[d] = caller[d] BY <1>1, <2>1, UploadParts
  <2> QED BY <2>2, UploadParts DEF MinioFits, Measuring
<1> QED BY <1>3, <1>4, <1>5, <1>6 DEF UploadInv

LEMMA UploadInductive == ASSUME UploadInv, [UploadNext]_uploadVars PROVE UploadInv'
<1>1. CASE UNCHANGED uploadVars
  <2>1. PartsKept' BY <1>1 DEF uploadVars, UploadInv, PartsKept, Present
  <2> QED BY <1>1, <2>1, CallersWait, UploadParts DEF uploadVars
<1>2. ASSUME NEW u \in Puts,
             CheckPut(u) \/ SavePart(u) \/ OpenPart(u) \/ WritePart(u) \/ MarkPart(u)
      PROVE  UploadInv'
  BY <1>2, CheckPutKeeps, SavePartKeeps, OpenPartKeeps, WritePartKeeps, MarkPartKeeps
<1>3. ASSUME NEW c \in Callers,
             \/ CheckComplete(c) \/ ListForDigest(c) \/ ReadPart(c) \/ EndDigest(c) \/ ListParts(c)
             \/ AppendPart(c)
      PROVE  UploadInv'
  BY <1>3, CheckCompleteKeeps, ListForDigestKeeps, ReadPartKeeps, EndDigestKeeps, ListPartsKeeps,
     AppendPartKeeps
<1>4. ASSUME NEW c \in Callers,
             \/ Compose(c) \/ EndMerge(c) \/ ListForRemoval(c) \/ RemovePart(c)
             \/ Measure(c) \/ CheckCancel(c) \/ Forget(c)
      PROVE  UploadInv'
  BY <1>4, ComposeKeeps, EndMergeKeeps, ListForRemovalKeeps, RemovePartKeeps, MeasureKeeps,
     CheckCancelKeeps, ForgetKeeps
<1>5. CASE Ages \/ CleanupStale BY <1>5, TimeKeeps
<1> QED BY <1>1, <1>2, <1>3, <1>4, <1>5 DEF UploadNext

----------------------------------------
(* Objects: who comes and who ends, and what the others see of it. *)

LEMMA TextsAreTexts == ObjectTexts \subseteq Texts /\ NoText \in Texts
<1>1. ASSUME NEW t \in ObjectTexts PROVE t \in Texts
  <2> DEFINE S == {t[i] : i \in DOMAIN t}
  <2>1. t \in Seq(S) /\ S \subseteq Letters BY UploadsAssumption DEF Letters
  <2> HIDE DEF S
  <2>2. t \in Seq(Letters) BY <2>1
  <2> QED BY <2>2 DEF Texts
<1> QED BY <1>1 DEF NoText, Texts

LEMMA ObjectParts ==
  ASSUME ObjectsInv
  PROVE  /\ storage \in {"local", "minio"} /\ files \in Seq(Texts) /\ Len(files) \in Nat
         /\ named \in 0..Len(files)
         /\ \A i \in 1..Len(files) : files[i] \in Texts
         /\ latest \in Texts /\ mixed \in BOOLEAN
         /\ access \in [ObjectCalls -> AccessRecords]
         /\ \A c \in ObjectCalls : access[c] \in AccessRecords /\ AccessFits(access[c]) /\ AloneFits(c)
         /\ Changing \subseteq ObjectCalls
BY UploadsAssumption, LenProperties, ElementOfSeq DEF ObjectsInv, ObjectsShape, Changing

(* A call comes: those it may disturb are alone no more. *)
LEMMA OneComes ==
  ASSUME ObjectsInv, NEW c \in ObjectCalls, NEW to \in AccessRecords, Comes(c, to)
  PROVE  /\ access' \in [ObjectCalls -> AccessRecords] /\ c \notin Changing
         /\ access'[c].at = to.at /\ access'[c].op = to.op /\ access'[c].file = to.file
         /\ access'[c].data = to.data /\ access'[c].alone = (Changing = {})
         /\ \A d \in ObjectCalls \ {c} :
              /\ access'[d].at = access[d].at /\ access'[d].op = access[d].op
              /\ access'[d].file = access[d].file /\ access'[d].data = access[d].data
              /\ access'[d].alone => access[d].alone
              /\ ~InWork(d) => access'[d].alone = access[d].alone
              /\ InWork(d) /\ to.op \in {"put", "delete"} => ~access'[d].alone
<1> DEFINE b == Changing = {}
           r == [to EXCEPT !.alone = b]
<1>0. b \in BOOLEAN OBVIOUS
<1> HIDE DEF b
<1>1. /\ r \in AccessRecords /\ r.at = to.at /\ r.op = to.op /\ r.file = to.file
      /\ r.data = to.data /\ r.alone = b
  BY <1>0 DEF AccessRecords
<1>2. \A d \in ObjectCalls : [access[d] EXCEPT !.alone = FALSE] \in AccessRecords
  BY ObjectParts DEF AccessRecords
<1>3. access' = [d \in ObjectCalls |-> IF d = c THEN r
       ELSE IF InWork(d) /\ to.op \in {"put", "delete"} THEN [access[d] EXCEPT !.alone = FALSE]
       ELSE access[d]]
  BY DEF Comes, b
<1>4. c \notin Changing BY DEF Comes, Changing, InWork
<1> HIDE DEF r
<1>5. access' \in [ObjectCalls -> AccessRecords] BY <1>1, <1>2, <1>3, ObjectParts
<1>6. ASSUME NEW d \in ObjectCalls \ {c}
      PROVE  /\ access'[d].at = access[d].at /\ access'[d].op = access[d].op
             /\ access'[d].file = access[d].file /\ access'[d].data = access[d].data
             /\ access'[d].alone => access[d].alone
             /\ ~InWork(d) => access'[d].alone = access[d].alone
             /\ InWork(d) /\ to.op \in {"put", "delete"} => ~access'[d].alone
  <2>0. access[d] \in AccessRecords BY ObjectParts
  <2>1. CASE InWork(d) /\ to.op \in {"put", "delete"}
    <3>1. access'[d] = [access[d] EXCEPT !.alone = FALSE] BY <1>3, <2>1
    <3> QED BY <2>0, <2>1, <3>1 DEF AccessRecords
  <2>2. CASE ~(InWork(d) /\ to.op \in {"put", "delete"})
    <3>1. access'[d] = access[d] BY <1>3, <2>2
    <3> QED BY <2>2, <3>1
  <2> QED BY <2>1, <2>2
<1>7. access'[c] = r BY <1>3
<1>8. b = (Changing = {}) BY DEF b
<1> QED BY <1>1, <1>4, <1>5, <1>6, <1>7, <1>8

(* Who changes the object is one more, or as before. *)
LEMMA ChangingComes ==
  ASSUME ObjectsInv, NEW c \in ObjectCalls, NEW to \in AccessRecords, Comes(c, to)
  PROVE  Changing' = IF
    /\ to.at \notin {"new", "returned", "absent", "failed"}
    /\ to.op \in {"put", "delete"}
                     THEN Changing \cup {c} ELSE Changing
<1>1. access'[c].at = to.at /\ access'[c].op = to.op BY OneComes
<1>2. ASSUME NEW d \in ObjectCalls \ {c} PROVE d \in Changing' <=> d \in Changing
  <2>1. access'[d].at = access[d].at /\ access'[d].op = access[d].op BY OneComes
  <2> QED BY <2>1 DEF Changing, InWork
<1>3. c \in Changing' <=>
  /\ to.at \notin {"new", "returned", "absent", "failed"}
  /\ to.op \in {"put", "delete"}
  BY <1>1 DEF Changing, InWork
<1>4. c \notin Changing /\ Changing \subseteq ObjectCalls /\ Changing' \subseteq ObjectCalls
  BY OneComes DEF Changing
<1> QED BY <1>2, <1>3, <1>4

(* A call that comes leaves the others fit, if files only grow and a call
   that does not change the object leaves it. *)
LEMMA ComingKeeps ==
  ASSUME ObjectsInv, NEW c \in ObjectCalls, NEW to \in AccessRecords, Comes(c, to), storage' = storage,
         files' \in Seq(Texts), named' \in 0..Len(files'), Len(files) <= Len(files'),
         latest' \in Texts, mixed' \in BOOLEAN,
         to.op \notin {"put", "delete"} => UNCHANGED <<files, named>>,
         AccessFits(access[c])', AloneFits(c)', LatestFits',
         storage = "minio" => \A i \in 1..Len(files') : files'[i] \in ObjectTexts
  PROVE  ObjectsInv'
<1>1. ObjectsShape' BY OneComes DEF ObjectsInv, ObjectsShape
<1>2. ASSUME NEW d \in ObjectCalls \ {c} PROVE AccessFits(access[d])' /\ AloneFits(d)'
  <2>0. /\ access[d] \in AccessRecords /\ AccessFits(access[d]) /\ AloneFits(d)
        /\ Len(files) \in Nat /\ Len(files') \in Nat
    BY ObjectParts, LenProperties
  <2>1. AccessFits(access[d])'
    <3>1. /\ access'[d].at = access[d].at /\ access'[d].op = access[d].op
          /\ access'[d].file = access[d].file /\ access'[d].data = access[d].data
          /\ access'[d].alone => access[d].alone
      BY OneComes
    <3> QED BY <2>0, <3>1 DEF AccessFits, AccessRecords
  <2>2. AloneFits(d)'
    <3> SUFFICES ASSUME InWork(d)', access'[d].alone PROVE AloneFits(d)' BY DEF AloneFits
    <3>1. InWork(d) /\ access[d].alone /\ to.op \notin {"put", "delete"} BY OneComes DEF InWork
    <3>2. Changing' = Changing /\ UNCHANGED <<files, named>> BY <3>1, ChangingComes
    <3>3. /\ Changing \subseteq {d}
          /\ access[d].at = "writing" => access[d].file = named /\ files[named] = NoText
          /\ access[d].at \in {"reading", "removing"} => named # 0
      BY <2>0, <3>1 DEF AloneFits
    <3> QED BY <3>2, <3>3, OneComes DEF AloneFits
  <2> QED BY <2>1, <2>2
<1> QED BY <1>1, <1>2 DEF ObjectsInv

(* A call ends, or comes again: the others are as they were. *)
LEMMA EndingKeeps ==
  ASSUME ObjectsInv, NEW c \in ObjectCalls, NEW x \in AccessRecords,
         access' = [access EXCEPT ![c] = x], storage' = storage,
         x.at \in {"new", "returned", "absent", "failed"}, AccessFits(x),
         files' \in Seq(Texts), named' \in 0..Len(files'), Len(files') = Len(files),
         latest' \in Texts, mixed' \in BOOLEAN,
         c \notin Changing => UNCHANGED <<files, named>>,
         LatestFits',
         storage = "minio" => UNCHANGED files
  PROVE  ObjectsInv'
<1>0. access'[c] = x /\ \A d \in ObjectCalls \ {c} : access'[d] = access[d] BY ObjectParts
<1>1. ObjectsShape' BY ObjectParts DEF ObjectsInv, ObjectsShape
<1>2. AccessFits(access[c])' /\ AloneFits(c)' BY <1>0 DEF AccessFits, AloneFits, InWork
<1>3. Changing' = Changing \ {c} BY <1>0 DEF Changing, InWork
<1>4. ASSUME NEW d \in ObjectCalls \ {c} PROVE AccessFits(access[d])' /\ AloneFits(d)'
  <2>0. access'[d] = access[d] /\ AccessFits(access[d]) /\ AloneFits(d) BY <1>0, ObjectParts
  <2>1. AccessFits(access[d])' BY <2>0 DEF AccessFits
  <2>2. AloneFits(d)' BY <1>3, <2>0 DEF AloneFits, InWork
  <2> QED BY <2>1, <2>2
<1>5. storage = "minio" => \A i \in 1..Len(files') : files'[i] \in ObjectTexts BY DEF ObjectsInv
<1> QED BY <1>1, <1>2, <1>4, <1>5 DEF ObjectsInv

----------------------------------------
(* Objects: every step. *)

LEMMA InitObjects == ObjectsInit => ObjectsInv
<1> SUFFICES ASSUME ObjectsInit PROVE ObjectsInv OBVIOUS
<1>1. NoText \in Texts /\ NoAccess \in AccessRecords
  BY TextsAreTexts DEF NoAccess, AccessRecords, AccessPlaces
<1>2. \A c \in ObjectCalls : access[c] = NoAccess /\ access[c].at = "new" /\ access[c].data = NoText
  BY DEF ObjectsInit, NoAccess
<1>3. ObjectsShape
  <2>1. files \in Seq(Texts) /\ Len(files) = 0 BY EmptySeq DEF ObjectsInit
  <2>2. access \in [ObjectCalls -> AccessRecords] BY <1>1 DEF ObjectsInit
  <2>3. latest \in Texts /\ mixed \in BOOLEAN /\ storage \in Storages /\ named = 0
    BY <1>1 DEF ObjectsInit
  <2>4. named \in 0..Len(files) BY <2>1, <2>3
  <2> QED BY <2>1, <2>2, <2>3, <2>4 DEF ObjectsShape
<1>4. \A c \in ObjectCalls : AccessFits(access[c]) /\ AloneFits(c)
  BY <1>2 DEF AccessFits, AloneFits, InWork
<1>5. LatestFits /\ Len(files) = 0 BY EmptySeq DEF LatestFits, ObjectsInit
<1> QED BY <1>3, <1>4, <1>5 DEF ObjectsInv

(* The file of the object is made, or emptied. *)
LEMMA PutOpensKeeps ==
  ASSUME ObjectsInv, storage' = storage, NEW c \in ObjectCalls, NEW text \in ObjectTexts,
         PutOpens(c, text)
  PROVE  ObjectsInv'
<1> DEFINE n == IF named # 0 THEN named ELSE Len(files) + 1
           to == [NoAccess EXCEPT !.at = "writing", !.op = "put", !.data = text, !.file = n]
<1>0. /\ files \in Seq(Texts) /\ Len(files) \in Nat /\ named \in 0..Len(files)
      /\ NoText \in Texts /\ text \in Texts /\ storage = "local"
  BY ObjectParts, TextsAreTexts DEF PutOpens
<1>1. n \in Nat \ {0} BY <1>0
<1>2. Comes(c, to) /\ latest' = latest /\ mixed' = mixed BY DEF PutOpens
<1>3. /\ files' \in Seq(Texts) /\ Len(files) <= Len(files') /\ named' = n /\ n \in 1..Len(files')
      /\ files'[n] = NoText
  <2>1. CASE named # 0
    <3>1. files' = [files EXCEPT ![named] = NoText] /\ named' = named /\ named \in 1..Len(files)
      BY <1>0, <2>1 DEF PutOpens, OpenedForPut, NoText
    <3> QED BY <1>0, <2>1, <3>1, ExceptSeq
  <2>2. CASE named = 0
    <3>1. files' = Append(files, NoText) /\ named' = Len(files') BY <2>2 DEF PutOpens, NoText
    <3> QED BY <1>0, <2>2, <3>1, AppendProperties
  <2> QED BY <2>1, <2>2
<1> HIDE DEF n
<1>4. /\ to \in AccessRecords /\ to.at = "writing" /\ to.op = "put" /\ to.data = text
      /\ to.file = n
  BY <1>0, <1>1 DEF NoAccess, AccessRecords, AccessPlaces
<1> HIDE DEF to
<1>5. /\ access'[c].at = "writing" /\ access'[c].op = "put" /\ access'[c].data = text
      /\ access'[c].file = n /\ access'[c].alone = (Changing = {})
      /\ Changing' = Changing \cup {c}
  BY <1>2, <1>4, OneComes, ChangingComes
<1>6. AccessFits(access[c])' /\ AloneFits(c)' BY <1>0, <1>3, <1>5 DEF AccessFits, AloneFits
<1>7. LatestFits' BY <1>5 DEF LatestFits
<1>8. latest' \in Texts /\ mixed' \in BOOLEAN /\ named' \in 0..Len(files')
  <2>1. Len(files') \in Nat BY <1>3, LenProperties
  <2> QED BY <1>2, <1>3, <2>1, ObjectParts
<1> QED BY <1>0, <1>2, <1>3, <1>4, <1>6, <1>7, <1>8, ComingKeeps

(* What an ended call is. *)
LEMMA EndedAccess ==
  ASSUME ObjectsInv, NEW c \in ObjectCalls, NEW place \in {"returned", "failed"}, NEW data \in Texts,
         EndsAccess(c, place, data), place = "failed" => storage = "local" /\ ~access[c].alone,
         storage = "minio" => data \in ObjectTexts \cup {NoText}
  PROVE  \E x \in AccessRecords : access' = [access EXCEPT ![c] = x] /\ x.at = place /\ AccessFits(x)
<1> DEFINE b == place # "failed" \/ access[c].alone
           x == [NoAccess EXCEPT !.at = place, !.data = data, !.alone = b]
<1>1. access' = [access EXCEPT ![c] = x] BY DEF EndsAccess
<1>2. b \in BOOLEAN /\ (place = "failed" => ~b) BY ObjectParts DEF AccessRecords
<1> HIDE DEF b
<1>3. x \in AccessRecords /\ x.at = place /\ x.data = data /\ x.alone = b
  BY <1>2 DEF NoAccess, AccessRecords, AccessPlaces
<1> HIDE DEF x
<1>4. AccessFits(x) BY <1>2, <1>3 DEF AccessFits
<1> QED BY <1>1, <1>3, <1>4

(* What a put leaves is its text, if nobody wrote into the file beside it. *)
LEMMA PutWritesKeeps ==
  ASSUME ObjectsInv, storage' = storage, NEW c \in ObjectCalls, PutWrites(c) PROVE ObjectsInv'
<1> DEFINE text == access[c].data
           f == access[c].file
           rest == SubSeq(files[f], Len(text) + 1, Len(files[f]))
<1>1. /\ access[c].at = "writing" /\ access[c].op = "put" /\ storage = "local"
      /\ f \in 1..Len(files) /\ text \in Texts /\ files[f] \in Texts
      /\ NoText \in Texts /\ files \in Seq(Texts) /\ c \in Changing
  BY ObjectParts, TextsAreTexts DEF PutWrites, AccessFits, Changing, InWork
<1>2. /\ files' = [files EXCEPT ![f] = text \o rest] /\ EndsAccess(c, "returned", NoText)
      /\ latest' = text /\ mixed' = ~access[c].alone /\ named' = named
  BY DEF PutWrites
<1>3. rest \in Texts
  <2>1. text \in Seq(Letters) /\ files[f] \in Seq(Letters) BY <1>1 DEF Texts
  <2> DEFINE g == files[f]
             m == Len(text) + 1
  <2>2. g \in Seq(Letters) /\ m \in Nat \ {0} /\ Len(g) \in Nat BY <2>1, LenProperties
  <2>3. rest = SubSeq(g, m, Len(g)) OBVIOUS
  <2> HIDE DEF g, m, rest
  <2>4. \A i \in m..Len(g) : g[i] \in Letters BY <2>2, ElementOfSeq
  <2> QED BY <2>2, <2>3, <2>4, SubSeqProperties DEF Texts
<1>4. text \o rest \in Texts BY <1>1, <1>3, ConcatProperties DEF Texts
<1>5. access[c].alone => f = named /\ rest = <<>> /\ text \o rest = text
  <2> SUFFICES ASSUME access[c].alone PROVE f = named /\ rest = <<>> /\ text \o rest = text OBVIOUS
  <2>1. f = named /\ files[f] = <<>> BY <1>1, ObjectParts DEF AloneFits, InWork, NoText
  <2>2. Len(text) \in Nat /\ text \in Seq(Letters) BY <1>1, LenProperties DEF Texts
  <2>3. Len(files[f]) = 0 BY <2>1, EmptySeq
  <2>4. rest = <<>> BY <2>2, <2>3, SubSeqEmpty
  <2> QED BY <2>1, <2>2, <2>4, ConcatEmptySeq
<1> DEFINE e == text \o rest
<1>6. e \in Texts /\ (access[c].alone => f = named /\ e = text) BY <1>4, <1>5
<1>7. files' = [files EXCEPT ![f] = e] BY <1>2
<1> HIDE DEF rest, e
<1>8. files' \in Seq(Texts) /\ Len(files') = Len(files) /\ files'[f] = e
  BY <1>1, <1>6, <1>7, ExceptSeq
<1>9. LatestFits'
  <2>1. CASE access[c].alone
    <3>1. named' = f /\ e = text BY <1>2, <1>6, <2>1
    <3>2. f # 0 BY <1>1, ObjectParts
    <3>3. named' # 0 /\ files'[named'] = text BY <1>8, <3>1, <3>2
    <3> QED BY <1>2, <3>3 DEF LatestFits
  <2>2. CASE ~access[c].alone BY <1>2, <2>2 DEF LatestFits
  <2> QED BY <2>1, <2>2
<1>10. mixed' \in BOOLEAN /\ latest' \in Texts /\ named' \in 0..Len(files')
  BY <1>1, <1>2, <1>8, ObjectParts
<1>11. PICK x \in AccessRecords :
  /\ access' = [access EXCEPT ![c] = x] /\ x.at = "returned"
  /\ AccessFits(x)
  BY <1>1, <1>2, EndedAccess
<1> QED BY <1>1, <1>8, <1>9, <1>10, <1>11, EndingKeeps

(* A call that does not change the object comes. *)
LEMMA LookKeeps ==
  ASSUME ObjectsInv, storage' = storage, NEW c \in ObjectCalls, NEW to \in AccessRecords,
         Comes(c, to), UNCHANGED <<files, named, latest, mixed>>,
         to.at # "failed", to.at # "writing",
         to.at = "reading" => to.op = "get" /\ storage = "local" /\ named # 0,
         to.at = "removing" => to.op = "delete" /\ storage = "local" /\ named # 0,
         to.at \in {"reading", "removing", "absent", "returned"},
         storage = "minio" => to.data \in ObjectTexts \cup {NoText}
  PROVE  ObjectsInv'
<1>0. /\ files \in Seq(Texts) /\ Len(files) \in Nat /\ named \in 0..Len(files)
      /\ latest \in Texts /\ mixed \in BOOLEAN /\ LatestFits
  BY ObjectParts DEF ObjectsInv
<1>1. /\ access'[c].at = to.at /\ access'[c].op = to.op /\ access'[c].data = to.data
      /\ access'[c].alone = (Changing = {})
      /\ Changing' = IF /\ to.at \notin {"new", "returned", "absent", "failed"}
                        /\ to.op \in {"put", "delete"}
                     THEN Changing \cup {c} ELSE Changing
  BY OneComes, ChangingComes
<1>2. AccessFits(access[c])' BY <1>1 DEF AccessFits
<1>3. AloneFits(c)' BY <1>1 DEF AloneFits
<1>4. LatestFits' BY <1>0, <1>1 DEF LatestFits
<1>5. storage = "minio" => \A i \in 1..Len(files') : files'[i] \in ObjectTexts BY DEF ObjectsInv
<1> QED BY <1>0, <1>2, <1>3, <1>4, <1>5, ComingKeeps

LEMMA GetLooksKeeps ==
  ASSUME ObjectsInv, storage' = storage, NEW c \in ObjectCalls, GetLooks(c) PROVE ObjectsInv'
<1> DEFINE place == IF named = 0 THEN "absent" ELSE "reading"
           to == [NoAccess EXCEPT !.at = place, !.op = "get"]
<1>1. Comes(c, to) /\ storage = "local" BY DEF GetLooks
<1>2. place \in {"absent", "reading"} /\ (place = "reading" => named # 0) OBVIOUS
<1> HIDE DEF place
<1>3. to \in AccessRecords /\ to.at = place /\ to.op = "get" /\ to.data = NoText
  BY <1>2, TextsAreTexts DEF NoAccess, AccessRecords, AccessPlaces
<1> HIDE DEF to
<1> QED BY <1>1, <1>2, <1>3, LookKeeps DEF GetLooks

LEMMA DeleteLooksKeeps ==
  ASSUME ObjectsInv, storage' = storage, NEW c \in ObjectCalls, DeleteLooks(c) PROVE ObjectsInv'
<1> DEFINE place == IF named = 0 THEN "absent" ELSE "removing"
           to == [NoAccess EXCEPT !.at = place, !.op = "delete"]
<1>1. Comes(c, to) /\ storage = "local" BY DEF DeleteLooks
<1>2. place \in {"absent", "removing"} /\ (place = "removing" => named # 0) OBVIOUS
<1> HIDE DEF place
<1>3. to \in AccessRecords /\ to.at = place /\ to.op = "delete" /\ to.data = NoText
  BY <1>2, TextsAreTexts DEF NoAccess, AccessRecords, AccessPlaces
<1> HIDE DEF to
<1> QED BY <1>1, <1>2, <1>3, LookKeeps DEF DeleteLooks

LEMMA MinioGetsKeeps ==
  ASSUME ObjectsInv, storage' = storage, NEW c \in ObjectCalls, NEW fails \in BOOLEAN,
         MinioGets(c, fails)
  PROVE  ObjectsInv'
<1> DEFINE place == IF named = 0 \/ fails THEN "absent" ELSE "returned"
           data == IF named = 0 \/ fails THEN NoText ELSE files[named]
           to == [NoAccess EXCEPT !.at = place, !.op = "get", !.data = data]
<1>1. Comes(c, to) /\ storage = "minio" BY DEF MinioGets
<1>2. place \in {"absent", "returned"} OBVIOUS
<1>3. data \in ObjectTexts \cup {NoText}
  <2>1. named # 0 => files[named] \in ObjectTexts BY <1>1, ObjectParts DEF ObjectsInv
  <2> QED BY <2>1
<1> HIDE DEF place, data
<1>4. to \in AccessRecords /\ to.at = place /\ to.op = "get" /\ to.data = data
  BY <1>2, <1>3, TextsAreTexts DEF NoAccess, AccessRecords, AccessPlaces
<1> HIDE DEF to
<1> QED BY <1>1, <1>2, <1>3, <1>4, LookKeeps DEF MinioGets

(* A get that was alone finds the name it saw. *)
LEMMA GetReadsKeeps ==
  ASSUME ObjectsInv, storage' = storage, NEW c \in ObjectCalls, GetReads(c) PROVE ObjectsInv'
<1>1. /\ access[c].at = "reading" /\ access[c].op = "get" /\ storage = "local" /\ c \notin Changing
      /\ access[c].alone => named # 0
      /\ NoText \in Texts /\ (named # 0 => files[named] \in Texts)
  BY ObjectParts, TextsAreTexts DEF GetReads, AccessFits, AloneFits, InWork, Changing
<1>2. \E x \in AccessRecords :
  /\ access' = [access EXCEPT ![c] = x]
  /\ x.at \in {"returned", "failed"} /\ AccessFits(x)
  <2>1. CASE named = 0
    <3>1. EndsAccess(c, "failed", NoText) BY <2>1 DEF GetReads
    <3> QED BY <1>1, <2>1, <3>1, EndedAccess
  <2>2. CASE named # 0
    <3> DEFINE data == files[named]
    <3>1. EndsAccess(c, "returned", data) /\ data \in Texts BY <1>1, <2>2 DEF GetReads
    <3> HIDE DEF data
    <3> QED BY <1>1, <3>1, EndedAccess
  <2> QED BY <2>1, <2>2
<1>3. PICK x \in AccessRecords :
  /\ access' = [access EXCEPT ![c] = x]
  /\ x.at \in {"returned", "failed"} /\ AccessFits(x)
  BY <1>2
<1>4. Changing' = Changing BY <1>1, <1>3, ObjectParts DEF Changing, InWork
<1>5. LatestFits' BY <1>4 DEF LatestFits, ObjectsInv, GetReads
<1> QED BY <1>1, <1>3, <1>5, ObjectParts, EndingKeeps DEF GetReads

(* A delete that was alone finds the name it saw. *)
LEMMA DeleteRemovesKeeps ==
  ASSUME ObjectsInv, storage' = storage, NEW c \in ObjectCalls, DeleteRemoves(c) PROVE ObjectsInv'
<1> DEFINE place == IF named = 0 THEN "failed" ELSE "returned"
<1>1. /\ access[c].at = "removing" /\ access[c].op = "delete" /\ storage = "local" /\ c \in Changing
      /\ access[c].alone => named # 0
      /\ NoText \in Texts
  BY ObjectParts, TextsAreTexts DEF DeleteRemoves, AccessFits, AloneFits, InWork, Changing
<1>2. EndsAccess(c, place, NoText) /\ place \in {"failed", "returned"} /\ (place = "failed" => named = 0)
  BY DEF DeleteRemoves
<1> HIDE DEF place
<1>3. PICK x \in AccessRecords : /\ access' = [access EXCEPT ![c] = x] /\ x.at = place /\ AccessFits(x)
  BY <1>1, <1>2, EndedAccess
<1>4. LatestFits' BY DEF LatestFits, DeleteRemoves
<1>5. latest' \in Texts /\ mixed' \in BOOLEAN /\ named' \in 0..Len(files') /\ files' = files
  BY <1>1, ObjectParts DEF DeleteRemoves
<1> QED BY <1>1, <1>2, <1>3, <1>4, <1>5, ObjectParts, EndingKeeps

LEMMA MinioPutsKeeps ==
  ASSUME ObjectsInv, storage' = storage, NEW c \in ObjectCalls, NEW text \in ObjectTexts,
         MinioPuts(c, text)
  PROVE  ObjectsInv'
<1> DEFINE to == [NoAccess EXCEPT !.at = "returned", !.op = "put"]
<1>0. /\ files \in Seq(Texts) /\ Len(files) \in Nat /\ text \in Texts /\ storage = "minio"
      /\ \A i \in 1..Len(files) : files[i] \in ObjectTexts
  BY ObjectParts, TextsAreTexts DEF MinioPuts, ObjectsInv
<1>1. /\ Comes(c, to) /\ files' = Append(files, text) /\ named' = Len(files') /\ latest' = text
      /\ mixed' = FALSE
  BY DEF MinioPuts
<1>2. /\ to \in AccessRecords /\ to.at = "returned" /\ to.op = "put" /\ to.data = NoText
  BY TextsAreTexts DEF NoAccess, AccessRecords, AccessPlaces
<1> HIDE DEF to
<1>3. /\ files' \in Seq(Texts) /\ Len(files') = Len(files) + 1 /\ files'[named'] = text
      /\ \A i \in 1..Len(files') : files'[i] \in ObjectTexts
  BY <1>0, <1>1, AppendProperties
<1>4. access'[c].at = "returned" /\ access'[c].data = NoText BY <1>1, <1>2, OneComes
<1>5. AccessFits(access[c])' /\ AloneFits(c)' BY <1>0, <1>4 DEF AccessFits, AloneFits, InWork
<1>6. LatestFits' BY <1>0, <1>1, <1>3 DEF LatestFits
<1>7. latest' \in Texts /\ mixed' \in BOOLEAN BY <1>0, <1>1
<1>8. named' \in 0..Len(files') /\ Len(files) <= Len(files') BY <1>0, <1>1, <1>3
<1> QED BY <1>0, <1>1, <1>2, <1>3, <1>5, <1>6, <1>7, <1>8, ComingKeeps

LEMMA MinioDeletesKeeps ==
  ASSUME ObjectsInv, storage' = storage, NEW c \in ObjectCalls, MinioDeletes(c) PROVE ObjectsInv'
<1> DEFINE to == [NoAccess EXCEPT !.at = "returned", !.op = "delete"]
<1>0. /\ files \in Seq(Texts) /\ Len(files) \in Nat /\ NoText \in Texts /\ storage = "minio"
      /\ \A i \in 1..Len(files) : files[i] \in ObjectTexts
  BY ObjectParts, TextsAreTexts DEF MinioDeletes, ObjectsInv
<1>1. Comes(c, to) /\ named' = 0 /\ latest' = NoText /\ mixed' = FALSE /\ files' = files
  BY DEF MinioDeletes
<1>2. /\ to \in AccessRecords /\ to.at = "returned" /\ to.op = "delete" /\ to.data = NoText
  BY TextsAreTexts DEF NoAccess, AccessRecords, AccessPlaces
<1> HIDE DEF to
<1>4. access'[c].at = "returned" /\ access'[c].data = NoText BY <1>1, <1>2, OneComes
<1>5. AccessFits(access[c])' /\ AloneFits(c)' BY <1>0, <1>4 DEF AccessFits, AloneFits, InWork
<1>6. LatestFits' BY <1>1 DEF LatestFits
<1>7. latest' \in Texts /\ mixed' \in BOOLEAN BY <1>0, <1>1
<1>8. named' \in 0..Len(files') /\ Len(files) <= Len(files') BY <1>0, <1>1
<1> QED BY <1>0, <1>1, <1>2, <1>5, <1>6, <1>7, <1>8, ComingKeeps

LEMMA ComesAgainKeeps ==
  ASSUME ObjectsInv, storage' = storage, NEW c \in ObjectCalls, ComesAgain(c) PROVE ObjectsInv'
<1>1. NoAccess \in AccessRecords /\ NoAccess.at = "new" /\ NoAccess.data = NoText
  BY TextsAreTexts DEF NoAccess, AccessRecords, AccessPlaces
<1>2. AccessFits(NoAccess) BY <1>1 DEF AccessFits
<1>3. Changing' = Changing
  <2>1. c \notin Changing /\ c \notin Changing'
    BY <1>1, ObjectParts DEF ComesAgain, Changing, InWork
  <2>2. ASSUME NEW d \in ObjectCalls \ {c} PROVE access'[d] = access[d]
    BY ObjectParts DEF ComesAgain
  <2> QED BY <2>1, <2>2 DEF Changing, InWork
<1>4. LatestFits' BY <1>3 DEF LatestFits, ObjectsInv, ComesAgain
<1> QED BY <1>1, <1>2, <1>4, ObjectParts, EndingKeeps DEF ComesAgain

LEMMA ObjectsInductive ==
  ASSUME ObjectsInv, storage' = storage, [ObjectsNext]_objectVars PROVE ObjectsInv'
<1>1. CASE UNCHANGED objectVars
  <2>1. Changing' = Changing BY <1>1 DEF objectVars, Changing, InWork
  <2>2. \A c \in ObjectCalls : AccessFits(access[c])' /\ AloneFits(c)'
    BY <1>1, <2>1, ObjectParts DEF objectVars, AccessFits, AloneFits, InWork
  <2> QED BY <1>1, <2>1, <2>2 DEF objectVars, ObjectsInv, ObjectsShape, LatestFits
<1>2. ASSUME NEW c \in ObjectCalls, NEW text \in ObjectTexts, PutOpens(c, text) \/ MinioPuts(c, text)
      PROVE  ObjectsInv'
  BY <1>2, PutOpensKeeps, MinioPutsKeeps
<1>3. ASSUME NEW c \in ObjectCalls,
             \/ PutWrites(c) \/ GetLooks(c) \/ GetReads(c) \/ DeleteLooks(c) \/ DeleteRemoves(c)
             \/ MinioDeletes(c) \/ ComesAgain(c)
      PROVE  ObjectsInv'
  BY <1>3, PutWritesKeeps, GetLooksKeeps, GetReadsKeeps, DeleteLooksKeeps, DeleteRemovesKeeps,
     MinioDeletesKeeps, ComesAgainKeeps
<1>4. ASSUME NEW c \in ObjectCalls, NEW fails \in BOOLEAN, MinioGets(c, fails) PROVE ObjectsInv'
  BY <1>4, MinioGetsKeeps
<1> QED BY <1>1, <1>2, <1>3, <1>4 DEF ObjectsNext

(* Uploads and objects beside each other, over one storage. *)
UploadsSpec ==
  /\ UploadInit /\ ObjectsInit
  /\ [][\/ UploadNext /\ UNCHANGED objectVars
        \/ ObjectsNext /\ UNCHANGED uploadVars]_<<uploadVars, objectVars>>

LEMMA UploadsInductive ==
  ASSUME UploadInv, ObjectsInv,
         [\/ UploadNext /\ UNCHANGED objectVars
          \/ ObjectsNext /\ UNCHANGED uploadVars]_<<uploadVars, objectVars>>
  PROVE  UploadInv' /\ ObjectsInv'
<1>1. UploadInv'
  <2>1. [UploadNext]_uploadVars OBVIOUS
  <2> QED BY <2>1, UploadInductive
<1>2. ObjectsInv'
  <2>1. storage' = storage
    <3>1. UploadNext => storage' = storage
      <4>1. \A u \in Puts : CheckPut(u) \/ SavePart(u) \/ OpenPart(u) \/ WritePart(u) \/ MarkPart(u)
                            => storage' = storage
        BY DEF CheckPut, SavePart, OpenPart, WritePart, MarkPart
      <4>2. \A c \in Callers :
              \/ CheckComplete(c) \/ ListForDigest(c) \/ ReadPart(c) \/ EndDigest(c) \/ ListParts(c)
              \/ AppendPart(c)
              => storage' = storage
        BY DEF CheckComplete, ListForDigest, ReadPart, EndDigest, ListParts, AppendPart
      <4>3. \A c \in Callers :
              \/ Compose(c) \/ EndMerge(c) \/ ListForRemoval(c) \/ RemovePart(c)
              \/ Measure(c) \/ CheckCancel(c) \/ Forget(c)
              => storage' = storage
        BY DEF Compose, EndMerge, ListForRemoval, RemovePart, Measure, CheckCancel, Forget
      <4>4. Ages \/ CleanupStale => storage' = storage BY DEF Ages, CleanupStale
      <4> QED BY <4>1, <4>2, <4>3, <4>4 DEF UploadNext
    <3> QED BY <3>1 DEF uploadVars
  <2> QED BY <2>1, ObjectsInductive DEF objectVars
<1> QED BY <1>1, <1>2

(* Uploads and objects, for any number of calls, parts and texts: what is
   marked is there until somebody removes the parts, a completed upload on
   MinIO is whole unless two calls of complete overlapped, and what was
   put alone is what a get reads (MultipartUploadService.upload_part,
   complete, cancel, cleanup_stale, LocalObjectStorage and
   MinioObjectStorage: put, get, delete). *)
THEOREM UploadsHold == UploadsSpec => []UploadsSound
<1>1. UploadInv => UploadTypeOK /\ UploadKept
  BY DEF UploadInv, UploadKept, PartsKept, MinioKept, CompletedHasObject
<1>2. ObjectsInv => ObjectsKept BY DEF ObjectsInv, ObjectsKept, LatestFits, AccessFits
<1>3. UploadInv /\ ObjectsInv => UploadsSound BY <1>1, <1>2 DEF UploadsSound
<1> QED BY <1>3, InitUpload, InitObjects, UploadsInductive, PTL DEF UploadsSpec

----------------------------------------
(* The inductive invariant of Application: the chain. *)

ChainTo(k) == {chain[i] : i \in 1..k}
Chain == ChainTo(Len(chain))

(* Who is in the chain is there once, and nobody who is visited is there. *)
OnceEach ==
  /\ \A i, j \in 1..Len(chain) : chain[i] = chain[j] => i = j
  /\ \A i, j \in 1..Len(visiting) : visiting[i].name = visiting[j].name => i = j
  /\ \A i \in 1..Len(visiting) : visiting[i].name \notin Chain

(* The recursion goes from a name to one it requires. *)
RecursionFits ==
  /\ \A i \in 1..Len(visiting) : visiting[i].left \subseteq requires[visiting[i].name]
  /\ \A i \in 1..Len(visiting) - 1 : visiting[i + 1].name \in requires[visiting[i].name]

(* Only what is needed is looked at, and what was found wrong is wrong. *)
FoundIsSo ==
  /\ Chain \subseteq Needed /\ \A i \in 1..Len(visiting) : visiting[i].name \in Needed
  /\ unknown => ~(Needed \subseteq Extensions)
  /\ circular => Cyclic(Needed \cap Extensions)

(* While nothing was wrong, who was looked at is in the chain behind all
   it requires, or is visited with what has been looked at of it. *)
NothingSkipped ==
  ~unknown /\ ~circular =>
    /\ \A n \in enabled \ unseen : n \in Chain \/ (visiting # <<>> /\ n = visiting[1].name)
    /\ \A i \in 1..Len(chain) : requires[chain[i]] \subseteq ChainTo(i - 1)
    /\ \A i \in 1..Len(visiting) : \A n \in requires[visiting[i].name] \ visiting[i].left :
         n \in Chain \/ (i < Len(visiting) /\ n = visiting[i + 1].name)

(* How far the application is, and what is up and what is closed then. *)
Built == {"starting", "serving", "stopping", "closing", "ended"}
LifeFits ==
  /\ phase # "resolving" => visiting = <<>> /\ unseen = {}
  /\ phase = "refused" => unknown \/ circular
  /\ phase \in Built => ~unknown /\ ~circular
  /\ \E k \in 0..Len(chain) : up = ChainTo(k)
  /\ failed => phase = "ended"
  /\ phase \in {"resolving", "refused"} => up = {} /\ ~sampler /\ shut = {} /\ turn <= 1
  /\ phase = "starting" =>
     /\ turn \in 1..Len(chain) + 1 /\ up = ChainTo(turn - 1)
     /\ ~sampler /\ shut = {}
  /\ phase = "serving" => turn = Len(chain) + 1 /\ up = Chain /\ shut = {}
  /\ phase = "stopping" => turn \in 0..Len(chain) /\ up = ChainTo(turn) /\ ~sampler /\ shut = {}
  /\ phase = "closing" => turn \in 1..Components + 1 /\ up = {} /\ ~sampler /\ shut = 1..turn - 1
  /\ phase = "ended" =>
     /\ turn <= Len(chain) + 1 \/ turn <= Components + 1
     /\ shut # {} => up = {} /\ ~sampler
     /\ ~failed => up = {} /\ shut = 1..Components

AppShape ==
  /\ requires \in [Extensions -> SUBSET Names] /\ enabled \subseteq Names
  /\ phase \in {"resolving", "refused"} \cup Built
  /\ unseen \subseteq enabled /\ chain \in Seq(Extensions)
  /\ visiting \in Seq([name : Extensions, left : SUBSET Names])
  /\ unknown \in BOOLEAN /\ circular \in BOOLEAN /\ sampler \in BOOLEAN /\ failed \in BOOLEAN
  /\ turn \in Nat /\ up \subseteq Extensions /\ shut \subseteq 1..Components

AppInv == AppShape /\ OnceEach /\ RecursionFits /\ FoundIsSo /\ NothingSkipped /\ LifeFits

----------------------------------------
(* Application: what is needed, and what is visited. *)

Frames == [name : Extensions, left : SUBSET Names]

LEMMA AppParts ==
  ASSUME AppInv
  PROVE  /\ requires \in [Extensions -> SUBSET Names] /\ enabled \subseteq Names
         /\ unseen \subseteq enabled /\ chain \in Seq(Extensions) /\ visiting \in Seq(Frames)
         /\ Len(chain) \in Nat /\ Len(visiting) \in Nat
         /\ \A i \in 1..Len(chain) : chain[i] \in Extensions
         /\ \A i \in 1..Len(visiting) :
              visiting[i].name \in Extensions /\ visiting[i].left \subseteq Names
         /\ Extensions \subseteq Names /\ Names \ Extensions \subseteq Strangers
         /\ Extensions \cap Strangers = {} /\ Components \in Nat \ {0}
         /\ visiting = <<>> <=> Len(visiting) = 0
         /\ unknown \in BOOLEAN /\ circular \in BOOLEAN /\ sampler \in BOOLEAN /\ failed \in BOOLEAN
         /\ turn \in Nat /\ up \subseteq Extensions /\ shut \subseteq 1..Components
<1>1. /\ visiting \in Seq(Frames) /\ chain \in Seq(Extensions)
      /\ requires \in [Extensions -> SUBSET Names] /\ enabled \subseteq Names
      /\ unseen \subseteq enabled
      /\ unknown \in BOOLEAN /\ circular \in BOOLEAN /\ sampler \in BOOLEAN /\ failed \in BOOLEAN
      /\ turn \in Nat /\ up \subseteq Extensions /\ shut \subseteq 1..Components
  BY DEF AppInv, AppShape, Frames
<1>2. /\ Len(chain) \in Nat /\ Len(visiting) \in Nat
      /\ \A i \in 1..Len(chain) : chain[i] \in Extensions
      /\ \A i \in 1..Len(visiting) : visiting[i] \in Frames
  BY <1>1, LenProperties, ElementOfSeq
<1>3. \A i \in 1..Len(visiting) :
        visiting[i].name \in Extensions /\ visiting[i].left \subseteq Names
  BY <1>2 DEF Frames
<1>4. visiting = <<>> <=> Len(visiting) = 0 BY <1>1, <1>2, EmptySeq
<1>5. /\ Extensions \subseteq Names /\ Names \ Extensions \subseteq Strangers
      /\ Extensions \cap Strangers = {} /\ Components \in Nat \ {0}
  BY ApplicationAssumption DEF Names
<1> QED BY <1>1, <1>2, <1>3, <1>4, <1>5

(* What is needed: it is closed, and the least such set. *)
LEMMA NeededIsLeast ==
  ASSUME AppInv
  PROVE  /\ enabled \subseteq Needed /\ Needed \subseteq Names
         /\ \A e \in Needed \cap Extensions : requires[e] \subseteq Needed
         /\ \A S \in SUBSET Names : enabled \subseteq S /\ Closed(S) => Needed \subseteq S
<1>1. Needed \subseteq Names /\ enabled \subseteq Needed BY AppParts DEF Needed
<1>2. ASSUME NEW e \in Needed \cap Extensions, NEW n \in requires[e] PROVE n \in Needed
  <2>1. n \in Names BY AppParts
  <2>2. ASSUME NEW S \in SUBSET Names, enabled \subseteq S, Closed(S) PROVE n \in S
    <3>1. e \in S BY <2>2 DEF Needed
    <3> QED BY <2>2, <3>1 DEF Closed
  <2> QED BY <2>1, <2>2 DEF Needed
<1>3. ASSUME NEW S \in SUBSET Names, enabled \subseteq S, Closed(S) PROVE Needed \subseteq S
  BY <1>3 DEF Needed
<1> QED BY <1>1, <1>2, <1>3

LEMMA NeededStays ==
  ASSUME UNCHANGED <<requires, enabled>>
  PROVE  Needed' = Needed /\ Cyclic(Needed \cap Extensions)' = Cyclic(Needed \cap Extensions)
<1>1. Needed' = Needed BY DEF Needed, Closed
<1> QED BY <1>1 DEF Cyclic

(* Who is visited again needs itself. *)
LEMMA CircleFound ==
  ASSUME AppInv, visiting # <<>>, NEW n \in requires[visiting[Len(visiting)].name], Visited(n)
  PROVE  Cyclic(Needed \cap Extensions)
<1>1. PICK p \in 1..Len(visiting) : visiting[p].name = n BY AppParts, LenProperties DEF Visited
<1> DEFINE C == {visiting[i].name : i \in p..Len(visiting)}
<1>2. C \subseteq Needed \cap Extensions BY AppParts DEF AppInv, FoundIsSo
<1>3. n \in C BY <1>1, AppParts
<1>4. ASSUME NEW i \in p..Len(visiting) PROVE requires[visiting[i].name] \cap C # {}
  <2>1. CASE i = Len(visiting) BY <1>3, <2>1
  <2>2. CASE i # Len(visiting)
    <3>1. i \in 1..Len(visiting) - 1 /\ i + 1 \in p..Len(visiting) BY <2>2, AppParts
    <3>2. visiting[i + 1].name \in requires[visiting[i].name] /\ visiting[i + 1].name \in C
      BY <3>1 DEF AppInv, RecursionFits
    <3> QED BY <3>2
  <2> QED BY <2>1, <2>2
<1>5. \A e \in C : requires[e] \cap C # {} BY <1>4
<1> QED BY <1>2, <1>3, <1>5 DEF Cyclic

----------------------------------------
(* Application: the steps of the resolution. *)

LEMMA InitApp == AppInit => AppInv
<1> SUFFICES ASSUME AppInit PROVE AppInv OBVIOUS
<1>0. /\ requires \in [Extensions -> SUBSET Names] /\ enabled \subseteq Names /\ phase = "resolving"
      /\ unseen = enabled /\ unknown = FALSE /\ circular = FALSE /\ up = {} /\ sampler = FALSE
      /\ shut = {} /\ failed = FALSE /\ turn = 0
  BY DEF AppInit
<1>1. /\ chain \in Seq(Extensions) /\ Len(chain) = 0
      /\ visiting \in Seq(Frames) /\ Len(visiting) = 0 /\ visiting = <<>>
  BY EmptySeq DEF AppInit
<1>2. AppShape BY <1>0, <1>1 DEF AppShape, Frames
<1>3. ChainTo(0) = {} /\ Chain = {} BY <1>1 DEF Chain, ChainTo
<1>4. OnceEach /\ RecursionFits BY <1>1 DEF OnceEach, RecursionFits
<1>5. FoundIsSo /\ NothingSkipped BY <1>0, <1>1, <1>3 DEF FoundIsSo, NothingSkipped
<1>6. LifeFits
  <2>1. \E k \in 0..Len(chain) : up = ChainTo(k) BY <1>0, <1>1, <1>3
  <2> QED BY <1>0, <2>1 DEF LifeFits, Built
<1> QED BY <1>2, <1>4, <1>5, <1>6 DEF AppInv

LEMMA LifeWaits ==
  ASSUME AppInv, phase = "resolving", UNCHANGED <<phase, lifeVars>>, chain' \in Seq(Extensions)
  PROVE  LifeFits'
<1>1. up = {} /\ ~sampler /\ shut = {} /\ turn <= 1 /\ ~failed BY DEF AppInv, LifeFits
<1>2. ChainTo(0)' = {} /\ 0 \in 0..Len(chain') BY LenProperties DEF ChainTo
<1>3. \E k \in 0..Len(chain') : up' = ChainTo(k)' BY <1>1, <1>2 DEF lifeVars
<1> QED BY <1>1, <1>3 DEF LifeFits, Built, lifeVars

(* The frames of the recursion, n taken off the last one. *)
StackWithout(stack, n) ==
  /\ stack \in Seq(Frames) /\ Len(stack) = Len(visiting)
  /\ \A i \in 1..Len(visiting) :
       /\ stack[i].name = visiting[i].name /\ stack[i].left \subseteq visiting[i].left
       /\ \A m \in visiting[i].left \ stack[i].left : m = n /\ i = Len(visiting)

(* A name is looked at that is to be looked at: of an extension that is
   visited, or else of those that are enabled. *)
Looked(n, stack) ==
  /\ n \in Names /\ StackWithout(stack, n) /\ Visit(n, stack)
  /\ visiting # <<>> => n \in requires[visiting[Len(visiting)].name] /\ unseen' = unseen
  /\ visiting = <<>> => n \in enabled /\ unseen' = unseen \ {n}
  /\ phase = "resolving" /\ UNCHANGED <<graphVars, phase, lifeVars>>

LEMMA LookedFinds ==
  ASSUME AppInv, NEW n, NEW stack, Looked(n, stack)
  PROVE  /\ n \in Needed
         /\ unknown' => ~(Needed \subseteq Extensions)
         /\ circular' => Cyclic(Needed \cap Extensions)
         /\ (unknown => unknown') /\ (circular => circular')
         /\ unknown' \in BOOLEAN /\ circular' \in BOOLEAN
         /\ unseen' \subseteq enabled /\ enabled \ unseen' \subseteq (enabled \ unseen) \cup {n}
         /\ n \in enabled \ unseen' => n \in enabled \ unseen \/ visiting = <<>>
<1>1. n \in Needed
  <2>1. CASE visiting = <<>> BY <2>1, NeededIsLeast DEF Looked
  <2>2. CASE visiting # <<>>
    <3>1. visiting[Len(visiting)].name \in Needed \cap Extensions
      BY <2>2, AppParts DEF AppInv, FoundIsSo
    <3> QED BY <2>2, <3>1, NeededIsLeast DEF Looked
  <2> QED BY <2>1, <2>2
<1>2. Visited(n) => Cyclic(Needed \cap Extensions)
  <2>1. visiting = <<>> => ~Visited(n) BY AppParts, LenProperties DEF Visited
  <2> QED BY <2>1, CircleFound DEF Looked
<1>3. n \in Strangers => ~(Needed \subseteq Extensions) BY <1>1, AppParts
<1>4. unknown' = IF n \in Strangers THEN TRUE ELSE unknown BY DEF Looked, Visit
<1>5. circular' = (circular \/ Visited(n)) BY DEF Looked, Visit
<1>6. /\ unknown => ~(Needed \subseteq Extensions)
      /\ circular => Cyclic(Needed \cap Extensions)
  BY DEF AppInv, FoundIsSo
<1>7. /\ unseen' \subseteq enabled /\ enabled \ unseen' \subseteq (enabled \ unseen) \cup {n}
      /\ n \in enabled \ unseen' => n \in enabled \ unseen \/ visiting = <<>>
  BY AppParts DEF Looked
<1>8. /\ unknown' => ~(Needed \subseteq Extensions)
      /\ unknown => unknown'
      /\ unknown' \in BOOLEAN
  BY <1>3, <1>4, <1>6, AppParts
<1>9. /\ circular' => Cyclic(Needed \cap Extensions)
      /\ circular => circular'
      /\ circular' \in BOOLEAN
  BY <1>2, <1>5, <1>6, AppParts
<1> QED BY <1>1, <1>7, <1>8, <1>9

LEMMA ChainStays ==
  ASSUME chain' = chain PROVE Chain' = Chain /\ \A k \in Nat : ChainTo(k)' = ChainTo(k)
BY DEF Chain, ChainTo

(* It is in the chain already, or something is wrong. *)
LEMMA LookedDone ==
  ASSUME AppInv, NEW n, NEW stack, Looked(n, stack), visiting' = stack,
         unknown' \/ circular' \/ n \in Chain
  PROVE  AppInv'
<1>0. /\ chain' = chain /\ requires' = requires /\ enabled' = enabled /\ phase' = phase
      /\ phase = "resolving" /\ UNCHANGED lifeVars /\ StackWithout(stack, n)
  BY DEF Looked, Visit, graphVars
<1>1. AppShape' BY <1>0, LookedFinds, AppParts DEF AppShape, StackWithout, Frames, lifeVars, Built
<1>2. /\ Chain' = Chain /\ Needed' = Needed
      /\ Cyclic(Needed \cap Extensions)' = Cyclic(Needed \cap Extensions)
  BY <1>0, ChainStays, NeededStays
<1>3. /\ Len(visiting') = Len(visiting) /\ Len(visiting) \in Nat
      /\ \A i \in 1..Len(visiting) :
           /\ visiting'[i].name = visiting[i].name /\ visiting'[i].left \subseteq visiting[i].left
           /\ \A m \in visiting[i].left \ visiting'[i].left : m = n /\ i = Len(visiting)
  BY <1>0, AppParts DEF StackWithout
<1>4. OnceEach' BY <1>0, <1>2, <1>3 DEF AppInv, OnceEach
<1>5. RecursionFits'
  <2>1. \A i \in 1..Len(visiting) : visiting[i].left \subseteq requires[visiting[i].name]
    BY DEF AppInv, RecursionFits
  <2>2. ASSUME NEW i \in 1..Len(visiting) - 1
        PROVE  visiting'[i + 1].name \in requires[visiting'[i].name]
    <3>1. i \in 1..Len(visiting) /\ i + 1 \in 1..Len(visiting) BY <1>3
    <3>2. visiting[i + 1].name \in requires[visiting[i].name] BY DEF AppInv, RecursionFits
    <3> QED BY <1>3, <3>1, <3>2
  <2> QED BY <1>0, <1>3, <2>1, <2>2 DEF RecursionFits
<1>6. FoundIsSo' BY <1>2, <1>3, LookedFinds DEF AppInv, FoundIsSo
<1>7. NothingSkipped'
  <2> SUFFICES ASSUME ~unknown', ~circular' PROVE NothingSkipped' BY DEF NothingSkipped
  <2>1. ~unknown /\ ~circular /\ n \in Chain BY LookedFinds
  <2>2. \A m \in enabled \ unseen' : m \in Chain \/ (visiting' # <<>> /\ m = visiting'[1].name)
    <3>1. visiting' = <<>> <=> visiting = <<>> BY <1>0, <1>3, AppParts, EmptySeq DEF StackWithout
    <3>2. visiting # <<>> => visiting'[1].name = visiting[1].name BY <1>3, AppParts
    <3>3. \A m \in enabled \ unseen : m \in Chain \/ (visiting # <<>> /\ m = visiting[1].name)
      BY <2>1 DEF AppInv, NothingSkipped
    <3> QED BY <2>1, <3>1, <3>2, <3>3, LookedFinds
  <2>3. \A i \in 1..Len(chain) : requires[chain[i]] \subseteq ChainTo(i - 1)
    BY <2>1 DEF AppInv, NothingSkipped
  <2>4. \A i \in 1..Len(chain) : ChainTo(i - 1)' = ChainTo(i - 1) BY <1>0 DEF ChainTo
  <2>5. ASSUME NEW i \in 1..Len(visiting), NEW m \in requires[visiting[i].name] \ visiting'[i].left
        PROVE  m \in Chain \/ (i < Len(visiting) /\ m = visiting'[i + 1].name)
    <3>1. CASE m \in visiting[i].left BY <1>3, <2>1, <3>1
    <3>2. CASE m \notin visiting[i].left
      <4>1. m \in Chain \/ (i < Len(visiting) /\ m = visiting[i + 1].name)
        BY <2>1, <3>2 DEF AppInv, NothingSkipped
      <4>2. i < Len(visiting) => i + 1 \in 1..Len(visiting) BY <1>3
      <4> QED BY <1>3, <4>1, <4>2
    <3> QED BY <3>1, <3>2
  <2> QED BY <1>0, <1>2, <1>3, <2>2, <2>3, <2>4, <2>5 DEF NothingSkipped
<1>8. LifeFits' BY <1>0, LifeWaits, AppParts
<1> QED BY <1>1, <1>4, <1>5, <1>6, <1>7, <1>8 DEF AppInv

(* It is visited. *)
LEMMA LookedPushed ==
  ASSUME AppInv, NEW n \in Extensions, NEW stack, Looked(n, stack),
         visiting' = Append(stack, [name |-> n, left |-> requires[n]]),
         n \notin Chain, ~Visited(n)
  PROVE  AppInv'
<1> DEFINE L == Len(visiting)
           f == [name |-> n, left |-> requires[n]]
<1>0. /\ chain' = chain /\ requires' = requires /\ enabled' = enabled /\ phase' = phase
      /\ phase = "resolving" /\ UNCHANGED lifeVars /\ StackWithout(stack, n)
      /\ L \in Nat /\ stack \in Seq(Frames) /\ Len(stack) = L
  BY AppParts DEF Looked, Visit, graphVars, StackWithout
<1>a. f \in Frames /\ f.name = n /\ f.left = requires[n] BY AppParts DEF Frames
<1>b. visiting' = Append(stack, f) OBVIOUS
<1> HIDE DEF f
<1>c. /\ visiting' \in Seq(Frames) /\ Len(visiting') = L + 1 /\ visiting'[L + 1] = f
      /\ \A i \in 1..L : visiting'[i] = stack[i]
      /\ visiting' # <<>>
  BY <1>0, <1>a, <1>b, AppendProperties
<1>1. AppShape' BY <1>0, <1>c, LookedFinds, AppParts DEF AppShape, Frames, lifeVars, Built
<1>2. /\ Chain' = Chain /\ Needed' = Needed
      /\ Cyclic(Needed \cap Extensions)' = Cyclic(Needed \cap Extensions)
  BY <1>0, ChainStays, NeededStays
<1>3. \A i \in 1..L :
        /\ visiting'[i].name = visiting[i].name /\ visiting'[i].left \subseteq visiting[i].left
        /\ \A m \in visiting[i].left \ visiting'[i].left : m = n /\ i = L
  BY <1>0, <1>c DEF StackWithout
<1>4. visiting'[L + 1].name = n /\ visiting'[L + 1].left = requires[n] BY <1>a, <1>c
<1>5. \A i \in 1..L : visiting[i].name # n BY AppParts, LenProperties DEF Visited
<1>6. OnceEach'
  <2>1. ASSUME NEW i \in 1..L + 1, NEW j \in 1..L + 1, visiting'[i].name = visiting'[j].name
        PROVE  i = j
    <3>1. CASE i \in 1..L /\ j \in 1..L BY <1>3, <2>1, <3>1 DEF AppInv, OnceEach
    <3>2. CASE i = L + 1 \/ j = L + 1
      <4>1. i \in 1..L \/ i = L + 1 BY <1>0
      <4>2. j \in 1..L \/ j = L + 1 BY <1>0
      <4> QED BY <1>3, <1>4, <1>5, <2>1, <3>2, <4>1, <4>2
    <3> QED BY <1>0, <3>1, <3>2
  <2>2. ASSUME NEW i \in 1..L + 1 PROVE visiting'[i].name \notin Chain
    <3>1. CASE i \in 1..L BY <1>3, <3>1 DEF AppInv, OnceEach
    <3>2. CASE i = L + 1 BY <1>4, <3>2
    <3> QED BY <1>0, <3>1, <3>2
  <2>3. \A i, j \in 1..Len(chain) : chain[i] = chain[j] => i = j BY DEF AppInv, OnceEach
  <2> QED BY <1>0, <1>2, <1>c, <2>1, <2>2, <2>3 DEF OnceEach
<1>7. RecursionFits'
  <2>1. ASSUME NEW i \in 1..L + 1 PROVE visiting'[i].left \subseteq requires[visiting'[i].name]
    <3>1. CASE i \in 1..L BY <1>3, <3>1 DEF AppInv, RecursionFits
    <3>2. CASE i = L + 1 BY <1>4, <3>2
    <3> QED BY <1>0, <3>1, <3>2
  <2>2. ASSUME NEW i \in 1..L PROVE visiting'[i + 1].name \in requires[visiting'[i].name]
    <3>1. CASE i = L
      <4>1. visiting # <<>> BY <1>0, AppParts
      <4>2. n \in requires[visiting[L].name] BY <4>1 DEF Looked
      <4> QED BY <1>3, <1>4, <3>1, <4>2
    <3>2. CASE i # L
      <4>1. i \in 1..L - 1 /\ i + 1 \in 1..L BY <1>0, <3>2
      <4>2. visiting[i + 1].name \in requires[visiting[i].name] BY <4>1 DEF AppInv, RecursionFits
      <4> QED BY <1>3, <4>1, <4>2
    <3> QED BY <3>1, <3>2
  <2>3. 1..Len(visiting') = 1..L + 1 /\ 1..Len(visiting') - 1 = 1..L BY <1>0, <1>c
  <2> QED BY <1>0, <2>1, <2>2, <2>3 DEF RecursionFits
<1>8. FoundIsSo'
  <2>1. ASSUME NEW i \in 1..L + 1 PROVE visiting'[i].name \in Needed
    <3>1. CASE i \in 1..L BY <1>3, <3>1 DEF AppInv, FoundIsSo
    <3>2. CASE i = L + 1 BY <1>4, <3>2, LookedFinds
    <3> QED BY <1>0, <3>1, <3>2
  <2> QED BY <1>2, <1>c, <2>1, LookedFinds DEF AppInv, FoundIsSo
<1>9. NothingSkipped'
  <2> SUFFICES ASSUME ~unknown', ~circular' PROVE NothingSkipped' BY DEF NothingSkipped
  <2>1. ~unknown /\ ~circular BY LookedFinds
  <2>2. ASSUME NEW m \in enabled \ unseen' PROVE m \in Chain \/ m = visiting'[1].name
    <3>1. CASE visiting = <<>>
      <4>1. L = 0 /\ \A k \in enabled \ unseen : k \in Chain
        BY <2>1, <3>1, AppParts DEF AppInv, NothingSkipped
      <4> QED BY <1>4, <4>1, LookedFinds
    <3>2. CASE visiting # <<>>
      <4>1. m \in enabled \ unseen /\ 1 \in 1..L BY <1>0, <3>2, AppParts DEF Looked
      <4>2. m \in Chain \/ m = visiting[1].name BY <2>1, <4>1 DEF AppInv, NothingSkipped
      <4> QED BY <1>3, <4>1, <4>2
    <3> QED BY <3>1, <3>2
  <2>3. \A i \in 1..Len(chain) : requires[chain[i]] \subseteq ChainTo(i - 1)
    BY <2>1 DEF AppInv, NothingSkipped
  <2>4. \A i \in 1..Len(chain) : ChainTo(i - 1)' = ChainTo(i - 1) BY <1>0 DEF ChainTo
  <2>5. ASSUME NEW i \in 1..L + 1, NEW m \in requires[visiting'[i].name] \ visiting'[i].left
        PROVE  m \in Chain \/ (i < L + 1 /\ m = visiting'[i + 1].name)
    <3>1. CASE i = L + 1 BY <1>4, <3>1
    <3>2. CASE i # L + 1
      <4>1. i \in 1..L /\ i < L + 1 BY <1>0, <3>2
      <4>2. CASE m \in visiting[i].left BY <1>3, <1>4, <4>1, <4>2
      <4>3. CASE m \notin visiting[i].left
        <5>1. m \in requires[visiting[i].name] \ visiting[i].left BY <1>3, <4>1, <4>3
        <5>2. m \in Chain \/ (i < L /\ m = visiting[i + 1].name)
          BY <2>1, <4>1, <5>1 DEF AppInv, NothingSkipped
        <5>3. i < L => i + 1 \in 1..L BY <1>0, <4>1
        <5> QED BY <1>3, <4>1, <5>2, <5>3
      <4> QED BY <4>2, <4>3
    <3> QED BY <3>1, <3>2
  <2>6. \A i \in 1..Len(visiting') : \A m \in requires[visiting'[i].name] \ visiting'[i].left :
          m \in Chain \/ (i < Len(visiting') /\ m = visiting'[i + 1].name)
    BY <1>c, <2>5
  <2>7. \A m \in enabled \ unseen' : m \in Chain \/ (visiting' # <<>> /\ m = visiting'[1].name)
    BY <1>c, <2>2
  <2>8. \A i \in 1..Len(chain) : requires[chain[i]] \subseteq ChainTo(i - 1)' BY <2>3, <2>4
  <2> HIDE DEF L
  <2> QED BY <1>0, <1>2, <2>6, <2>7, <2>8 DEF NothingSkipped
<1>10. LifeFits' BY <1>0, LifeWaits, AppParts
<1> QED BY <1>1, <1>6, <1>7, <1>8, <1>9, <1>10 DEF AppInv

LEMMA LookedKeeps ==
  ASSUME AppInv, NEW n, NEW stack, Looked(n, stack) PROVE AppInv'
<1>1. InChain(n) <=> n \in Chain BY AppParts, LenProperties DEF InChain, Chain, ChainTo
<1>2. CASE n \in Chain \/ n \in Strangers \/ Visited(n)
  <2>1. visiting' = stack BY <1>1, <1>2 DEF Looked, Visit
  <2>2. unknown' \/ circular' \/ n \in Chain BY <1>2 DEF Looked, Visit
  <2> QED BY <2>1, <2>2, LookedDone
<1>3. CASE ~(n \in Chain \/ n \in Strangers \/ Visited(n))
  <2>1. n \in Extensions BY <1>3, AppParts DEF Looked
  <2>2. visiting' = Append(stack, [name |-> n, left |-> requires[n]])
    BY <1>1, <1>3 DEF Looked, Visit
  <2> QED BY <1>3, <2>1, <2>2, LookedPushed
<1> QED BY <1>2, <1>3

LEMMA LooksAtKeeps == ASSUME AppInv, LooksAt PROVE AppInv'
<1>1. PICK n \in unseen : unseen' = unseen \ {n} /\ Visit(n, <<>>) BY DEF LooksAt
<1>2. /\ phase = "resolving" /\ visiting = <<>> /\ UNCHANGED <<graphVars, phase, lifeVars>>
      /\ n \in enabled /\ n \in Names
  BY AppParts DEF LooksAt
<1>3. StackWithout(<<>>, n) BY <1>2, AppParts, EmptySeq DEF StackWithout
<1>4. Looked(n, <<>>) BY <1>1, <1>2, <1>3 DEF Looked
<1> QED BY <1>4, LookedKeeps

LEMMA DescendsKeeps == ASSUME AppInv, Descends PROVE AppInv'
<1>1. PICK n \in Top.left : Visit(n, WithTop(visiting, n)) BY DEF Descends
<1> DEFINE L == Len(visiting)
           l == visiting[L].left \ {n}
           f == [visiting[L] EXCEPT !.left = l]
           stack == [visiting EXCEPT ![L] = f]
<1>2. /\ phase = "resolving" /\ visiting # <<>> /\ unseen' = unseen
      /\ UNCHANGED <<graphVars, phase, lifeVars>>
      /\ L \in 1..L /\ visiting[L] \in Frames /\ visiting \in Seq(Frames)
      /\ n \in visiting[L].left
  BY <1>1, AppParts, ElementOfSeq DEF Descends, Top
<1>3. n \in requires[visiting[L].name] /\ n \in Names BY <1>2, AppParts DEF AppInv, RecursionFits
<1>4. WithTop(visiting, n) = stack BY DEF WithTop
<1>5. f \in Frames /\ f.name = visiting[L].name /\ f.left = visiting[L].left \ {n}
  BY <1>2 DEF Frames
<1> HIDE DEF f
<1>6. StackWithout(stack, n)
  <2>1. /\ stack \in Seq(Frames) /\ Len(stack) = L
        /\ \A i \in 1..L : stack[i] = IF i = L THEN f ELSE visiting[i]
    BY <1>2, <1>5, ExceptSeq
  <2> HIDE DEF stack
  <2> QED BY <1>5, <2>1 DEF StackWithout
<1>7. Looked(n, stack) BY <1>1, <1>2, <1>3, <1>4, <1>6 DEF Looked
<1> QED BY <1>7, LookedKeeps

(* All it requires is in the chain: it comes next. *)
LEMMA ReturnsKeeps == ASSUME AppInv, Returns PROVE AppInv'
<1> DEFINE L == Len(visiting)
           K == Len(chain)
           e == visiting[L].name
<1>0. /\ chain' = Append(chain, e) /\ visiting' = SubSeq(visiting, 1, L - 1)
      /\ requires' = requires /\ enabled' = enabled /\ phase' = phase /\ unseen' = unseen
      /\ unknown' = unknown /\ circular' = circular
      /\ phase = "resolving" /\ UNCHANGED lifeVars
      /\ visiting # <<>> /\ visiting[L].left = {}
  BY DEF Returns, Top, graphVars
<1>1. /\ L \in 1..L /\ L \in Nat \ {0} /\ K \in Nat /\ e \in Extensions
      /\ chain \in Seq(Extensions) /\ visiting \in Seq(Frames)
  BY <1>0, AppParts
<1>2. /\ chain' \in Seq(Extensions) /\ Len(chain') = K + 1 /\ chain'[K + 1] = e
      /\ \A i \in 1..K : chain'[i] = chain[i]
  BY <1>0, <1>1, AppendProperties
<1>3. /\ visiting' \in Seq(Frames) /\ Len(visiting') = L - 1
      /\ \A i \in 1..L - 1 : visiting'[i] = visiting[i]
      /\ visiting' = <<>> <=> L = 1
  <2>1. \A i \in 1..L - 1 : visiting[i] \in Frames BY <1>1, ElementOfSeq
  <2>2. /\ visiting' \in Seq(Frames)
        /\ Len(visiting') = IF 1 <= L - 1 THEN L - 1 - 1 + 1 ELSE 0
        /\ \A i \in 1..L - 1 - 1 + 1 : visiting'[i] = visiting[1 + i - 1]
    BY <1>0, <1>1, <2>1, SubSeqProperties
  <2> HIDE DEF L
  <2>3. Len(visiting') = L - 1
    <3>1. CASE L = 1 BY <2>2, <3>1
    <3>2. CASE L # 1 BY <1>1, <2>2, <3>2
    <3> QED BY <3>1, <3>2
  <2>4. ASSUME NEW i \in 1..L - 1 PROVE visiting'[i] = visiting[i]
    <3>1. i \in 1..L - 1 - 1 + 1 /\ 1 + i - 1 = i BY <1>1
    <3>2. visiting'[i] = visiting[1 + i - 1] BY <2>2, <3>1
    <3> QED BY <3>1, <3>2
  <2>5. visiting' = <<>> <=> Len(visiting') = 0 BY <2>2, EmptySeq
  <2>6. Len(visiting') = 0 <=> L = 1 BY <1>1, <2>3
  <2> QED BY <2>2, <2>3, <2>4, <2>5, <2>6
<1>4. /\ Needed' = Needed /\ Cyclic(Needed \cap Extensions)' = Cyclic(Needed \cap Extensions)
  BY <1>0, NeededStays
<1>k. PICK k \in Nat : k = K BY <1>1
<1>5. /\ Chain' = Chain \cup {e} /\ \A i \in 1..K : ChainTo(i - 1)' = ChainTo(i - 1)
      /\ ChainTo(k)' = Chain
  <2>1. ASSUME NEW j \in 0..K PROVE ChainTo(j)' = ChainTo(j)
    <3>1. \A i \in 1..j : i \in 1..K BY <1>1
    <3>2. \A i \in 1..j : chain'[i] = chain[i] BY <1>2, <3>1
    <3> QED BY <3>2 DEF ChainTo
  <2>2. Chain' = Chain \cup {e} BY <1>1, <1>2 DEF Chain, ChainTo
  <2>3. ChainTo(k)' = Chain
    <3>1. k \in 0..K /\ ChainTo(k) = Chain BY <1>1, <1>k DEF Chain
    <3> QED BY <2>1, <3>1
  <2>4. \A i \in 1..K : i - 1 \in 0..K BY <1>1
  <2> QED BY <2>1, <2>2, <2>3, <2>4
<1>6. e \notin Chain /\ e \in Needed BY <1>1 DEF AppInv, OnceEach, FoundIsSo
<1>7. AppShape' BY <1>0, <1>2, <1>3, AppParts DEF AppShape, Frames, lifeVars, Built
<1> HIDE DEF L, K, e
<1>8. OnceEach'
  <2>1. ASSUME NEW i \in 1..K + 1, NEW j \in 1..K + 1, chain'[i] = chain'[j] PROVE i = j
    <3>0. \A m \in 1..K : chain[m] \in Chain BY DEF Chain, ChainTo, K
    <3>1. CASE i \in 1..K /\ j \in 1..K BY <1>2, <2>1, <3>1 DEF AppInv, OnceEach, K
    <3>2. CASE i \in 1..K /\ j = K + 1 BY <1>2, <1>6, <2>1, <3>0, <3>2
    <3>3. CASE i = K + 1 /\ j \in 1..K BY <1>2, <1>6, <2>1, <3>0, <3>3
    <3> QED BY <1>1, <3>1, <3>2, <3>3
  <2>2. \A i \in 1..L - 1 : \A j \in 1..L - 1 : visiting'[i].name = visiting'[j].name => i = j
    BY <1>1, <1>3 DEF AppInv, OnceEach, L
  <2>3. ASSUME NEW i \in 1..L - 1 PROVE visiting'[i].name \notin Chain \cup {e}
    <3>1. i \in 1..L /\ L \in 1..L /\ i # L BY <1>1
    <3>2. visiting[i].name # visiting[L].name BY <3>1 DEF AppInv, OnceEach, L
    <3>3. visiting[i].name \notin Chain BY <3>1 DEF AppInv, OnceEach, L
    <3> QED BY <1>3, <3>2, <3>3 DEF e
  <2> QED BY <1>2, <1>3, <1>5, <2>1, <2>2, <2>3 DEF OnceEach
<1>9. RecursionFits'
  <2>1. ASSUME NEW i \in 1..L - 1 PROVE visiting'[i].left \subseteq requires[visiting'[i].name]
    <3>1. i \in 1..L BY <1>1
    <3> QED BY <1>3, <3>1 DEF AppInv, RecursionFits, L
  <2>2. ASSUME NEW i \in 1..L - 1 - 1 PROVE visiting'[i + 1].name \in requires[visiting'[i].name]
    <3>1. i \in 1..L - 1 /\ i + 1 \in 1..L - 1 BY <1>1
    <3>2. visiting[i + 1].name \in requires[visiting[i].name] BY <3>1 DEF AppInv, RecursionFits, L
    <3> QED BY <1>3, <3>1, <3>2
  <2> QED BY <1>0, <1>3, <2>1, <2>2 DEF RecursionFits
<1>10. FoundIsSo'
  <2>1. \A i \in 1..L - 1 : visiting'[i].name \in Needed BY <1>1, <1>3 DEF AppInv, FoundIsSo, L
  <2> QED BY <1>0, <1>3, <1>4, <1>5, <1>6, <2>1 DEF AppInv, FoundIsSo
<1>11. NothingSkipped'
  <2> SUFFICES ASSUME ~unknown, ~circular PROVE NothingSkipped' BY <1>0 DEF NothingSkipped
  <2>1. ASSUME NEW m \in enabled \ unseen
        PROVE  m \in Chain \cup {e} \/ (visiting' # <<>> /\ m = visiting'[1].name)
    <3>1. m \in Chain \/ m = visiting[1].name BY DEF AppInv, NothingSkipped
    <3>2. CASE L = 1 BY <3>1, <3>2 DEF e
    <3>3. CASE L # 1
      <4>1. 1 \in 1..L - 1 BY <1>1, <3>3
      <4> QED BY <1>3, <3>1, <3>3, <4>1
    <3> QED BY <3>2, <3>3
  <2>2. ASSUME NEW i \in 1..K + 1 PROVE requires[chain'[i]] \subseteq ChainTo(i - 1)'
    <3>1. CASE i \in 1..K BY <1>2, <1>5, <3>1 DEF AppInv, NothingSkipped, K
    <3>2. CASE i = K + 1
      <4>1. \A j \in 1..L : \A n \in requires[visiting[j].name] \ visiting[j].left :
              n \in Chain \/ (j < L /\ n = visiting[j + 1].name)
        BY DEF AppInv, NothingSkipped, L
      <4>2. L \in 1..L /\ ~(L < L) /\ visiting[L].left = {} /\ e = visiting[L].name
        BY <1>0, <1>1 DEF L, e
      <4>3. requires[e] \subseteq Chain BY <4>1, <4>2
      <4>4. i - 1 = k /\ chain'[i] = e BY <1>1, <1>2, <1>k, <3>2
      <4>5. ChainTo(i - 1)' = Chain BY <1>5, <4>4
      <4> QED BY <4>3, <4>4, <4>5
    <3> QED BY <1>1, <3>1, <3>2
  <2>3. ASSUME NEW i \in 1..L - 1, NEW m \in requires[visiting'[i].name] \ visiting'[i].left
        PROVE  m \in Chain \cup {e} \/ (i < L - 1 /\ m = visiting'[i + 1].name)
    <3>1. i \in 1..L /\ visiting'[i] = visiting[i] BY <1>1, <1>3
    <3>2. m \in Chain \/ (i < L /\ m = visiting[i + 1].name) BY <3>1 DEF AppInv, NothingSkipped, L
    <3>3. CASE i = L - 1
      <4>1. i + 1 = L BY <1>1, <3>3
      <4> QED BY <3>2, <4>1 DEF e
    <3>4. CASE i # L - 1
      <4>1. i + 1 \in 1..L - 1 /\ i < L - 1 BY <1>1, <3>4
      <4> QED BY <1>3, <3>2, <4>1
    <3> QED BY <3>3, <3>4
  <2>4. \A i \in 1..Len(visiting') : \A m \in requires[visiting'[i].name] \ visiting'[i].left :
          m \in Chain' \/ (i < Len(visiting') /\ m = visiting'[i + 1].name)
    BY <1>3, <1>5, <2>3
  <2>5. \A m \in enabled \ unseen : m \in Chain' \/ (visiting' # <<>> /\ m = visiting'[1].name)
    BY <1>5, <2>1
  <2>6. \A i \in 1..Len(chain') : requires[chain'[i]] \subseteq ChainTo(i - 1)' BY <1>2, <2>2
  <2> QED BY <1>0, <2>4, <2>5, <2>6 DEF NothingSkipped
<1>12. LifeFits' BY <1>0, <1>2, LifeWaits
<1> QED BY <1>7, <1>8, <1>9, <1>10, <1>11, <1>12 DEF AppInv

----------------------------------------
(* Application: the steps of the lifespan, over a chain that stays. *)

LEMMA ResolvedStays ==
  ASSUME AppInv, UNCHANGED <<graphVars, resolveVars>>, phase' \in {"refused"} \cup Built,
         sampler' \in BOOLEAN, failed' \in BOOLEAN, turn' \in Nat, up' \subseteq Extensions,
         shut' \subseteq 1..Components, LifeFits'
  PROVE  AppInv'
<1>0. /\ requires' = requires /\ enabled' = enabled /\ unseen' = unseen /\ visiting' = visiting
      /\ chain' = chain /\ unknown' = unknown /\ circular' = circular
  BY DEF graphVars, resolveVars
<1>1. AppShape' BY <1>0 DEF AppInv, AppShape
<1>2. Chain' = Chain /\ Needed' = Needed
      /\ Cyclic(Needed \cap Extensions)' = Cyclic(Needed \cap Extensions)
  BY <1>0, ChainStays, NeededStays
<1>3. OnceEach' /\ RecursionFits' BY <1>0, <1>2 DEF AppInv, OnceEach, RecursionFits
<1>4. FoundIsSo' BY <1>0, <1>2 DEF AppInv, FoundIsSo
<1>5. NothingSkipped' BY <1>0 DEF AppInv, NothingSkipped, Chain, ChainTo
<1> QED BY <1>1, <1>3, <1>4, <1>5 DEF AppInv

LEMMA ResolvesKeeps == ASSUME AppInv, Resolves PROVE AppInv'
<1>0. /\ phase = "resolving" /\ visiting = <<>> /\ unseen = {}
      /\ phase' = IF unknown \/ circular THEN "refused" ELSE "starting"
      /\ turn' = 1 /\ UNCHANGED <<graphVars, resolveVars, up, sampler, shut, failed>>
  BY DEF Resolves
<1>1. up = {} /\ ~sampler /\ shut = {} /\ ~failed BY <1>0 DEF AppInv, LifeFits
<1>2. /\ chain' = chain /\ visiting' = visiting /\ unseen' = unseen /\ unknown' = unknown
      /\ circular' = circular
  BY <1>0 DEF resolveVars
<1>3. ChainTo(0)' = {} /\ 0 \in 0..Len(chain') /\ 1 \in 1..Len(chain') + 1
  BY <1>2, AppParts DEF ChainTo
<1>4. \E k \in 0..Len(chain') : up' = ChainTo(k)' BY <1>0, <1>1, <1>3
<1>5. ChainTo(turn - 1)' = {} BY <1>0 DEF ChainTo
<1>6. LifeFits'
  <2>1. CASE unknown \/ circular
    <3>1. phase' = "refused" BY <1>0, <2>1
    <3> QED BY <1>0, <1>1, <1>2, <1>4, <2>1, <3>1 DEF LifeFits, Built
  <2>2. CASE ~(unknown \/ circular)
    <3>1. phase' = "starting" BY <1>0, <2>2
    <3> QED BY <1>0, <1>1, <1>2, <1>3, <1>4, <1>5, <2>2, <3>1 DEF LifeFits, Built
  <2> QED BY <2>1, <2>2
<1> QED BY <1>0, <1>6, ResolvedStays, AppParts DEF Built

(* What a step of the lifespan does not touch. *)
LEMMA ChainIsThere ==
  ASSUME AppInv, phase \in Built, UNCHANGED <<graphVars, resolveVars>>
  PROVE  /\ visiting' = <<>> /\ unseen' = {} /\ ~unknown' /\ ~circular' /\ chain' = chain
         /\ \A k \in Nat : ChainTo(k)' = ChainTo(k)
         /\ \A k \in 0..Len(chain) : ChainTo(k) \subseteq Extensions
         /\ Len(chain) \in Nat
<1>1. visiting = <<>> /\ unseen = {} /\ ~unknown /\ ~circular BY DEF AppInv, LifeFits, Built
<1>2. \A k \in 0..Len(chain) : ChainTo(k) \subseteq Extensions BY AppParts DEF ChainTo
<1> QED BY <1>1, <1>2, ChainStays, AppParts DEF resolveVars

LEMMA StartsKeeps == ASSUME AppInv, Starts PROVE AppInv'
<1>0. /\ phase = "starting" /\ phase \in Built /\ turn <= Len(chain) /\ phase' = phase
      /\ up' = up \cup {chain[turn]} /\ turn' = turn + 1
      /\ UNCHANGED <<graphVars, resolveVars, sampler, shut, failed>>
  BY DEF Starts, Built
<1>1. turn \in 1..Len(chain) + 1 /\ up = ChainTo(turn - 1) /\ ~sampler /\ shut = {} /\ ~failed
  BY <1>0 DEF AppInv, LifeFits
<1>2. turn \in 1..Len(chain) /\ Len(chain) \in Nat BY <1>0, <1>1, AppParts
<1>3. PICK k \in Nat : k = turn BY <1>2
<1>4. /\ k \in 0..Len(chain) /\ turn' - 1 = k /\ turn' \in 1..Len(chain) + 1 /\ turn' \in Nat
  BY <1>0, <1>2, <1>3
<1>5. up' = ChainTo(k) /\ ChainTo(k) = ChainTo(k)' /\ up' \subseteq Extensions
  <2>1. up' = ChainTo(k) BY <1>0, <1>1, <1>2, <1>3 DEF ChainTo
  <2> QED BY <1>0, <1>4, <2>1, ChainIsThere
<1>6. chain' = chain /\ ChainTo(turn - 1)' = ChainTo(k)' BY <1>0, <1>4, ChainIsThere DEF ChainTo
<1>7. (\E m \in 0..Len(chain') : up' = ChainTo(m)') /\ up' = ChainTo(turn - 1)' BY <1>4, <1>5, <1>6
<1>8. LifeFits' BY <1>0, <1>1, <1>4, <1>6, <1>7, ChainIsThere DEF LifeFits, Built
<1> QED BY <1>0, <1>4, <1>5, <1>8, ResolvedStays, AppParts

LEMMA StartsSamplerKeeps == ASSUME AppInv, StartsSampler PROVE AppInv'
<1>0. /\ phase = "starting" /\ phase \in Built /\ turn > Len(chain) /\ phase' = "serving"
      /\ sampler' = TRUE /\ UNCHANGED <<graphVars, resolveVars, turn, up, shut, failed>>
  BY DEF StartsSampler, Built
<1>1. turn \in 1..Len(chain) + 1 /\ up = ChainTo(turn - 1) /\ shut = {} /\ ~failed
  BY <1>0 DEF AppInv, LifeFits
<1>2. turn = Len(chain) + 1 /\ turn - 1 = Len(chain) /\ Len(chain) \in 0..Len(chain)
  BY <1>0, <1>1, AppParts
<1>3. up' = ChainTo(Len(chain))' /\ up' = Chain' BY <1>0, <1>1, <1>2, ChainIsThere DEF Chain
<1>4. \E k \in 0..Len(chain') : up' = ChainTo(k)' BY <1>0, <1>2, <1>3, ChainIsThere
<1>5. LifeFits' BY <1>0, <1>1, <1>2, <1>3, <1>4, ChainIsThere DEF LifeFits, Built
<1> QED BY <1>0, <1>5, ResolvedStays, AppParts DEF Built

LEMMA StopsSamplerKeeps == ASSUME AppInv, StopsSampler PROVE AppInv'
<1>0. /\ phase = "serving" /\ phase \in Built /\ phase' = "stopping" /\ sampler' = FALSE
      /\ turn' = Len(chain) /\ UNCHANGED <<graphVars, resolveVars, up, shut, failed>>
  BY DEF StopsSampler, Built
<1>1. shut = {} /\ ~failed /\ up = ChainTo(Len(chain)) /\ Len(chain) \in 0..Len(chain)
  BY <1>0, AppParts DEF AppInv, LifeFits, Chain
<1>2. up' = ChainTo(Len(chain))' /\ up' = ChainTo(turn)' BY <1>0, <1>1, ChainIsThere DEF ChainTo
<1>3. \E k \in 0..Len(chain') : up' = ChainTo(k)' BY <1>0, <1>1, <1>2, ChainIsThere
<1>4. LifeFits' BY <1>0, <1>1, <1>2, <1>3, ChainIsThere DEF LifeFits, Built
<1> QED BY <1>0, <1>1, <1>4, ResolvedStays, AppParts DEF Built

(* The last that started is shut down first. *)
LEMMA ShutsDownKeeps == ASSUME AppInv, ShutsDown PROVE AppInv'
<1>0. /\ phase = "stopping" /\ phase \in Built
      /\ UNCHANGED <<graphVars, resolveVars, sampler, shut, failed>>
  BY DEF ShutsDown, Built
<1>1. /\ shut = {} /\ ~failed /\ ~sampler /\ up = ChainTo(turn) /\ turn \in 0..Len(chain)
      /\ Len(chain) \in Nat /\ turn \in Nat
  BY <1>0, AppParts DEF AppInv, LifeFits
<1>2. CASE turn > 0
  <2>0. up' = up \ {chain[turn]} /\ turn' = turn - 1 /\ phase' = phase BY <1>2 DEF ShutsDown, InTurn
  <2>1. turn' \in 0..Len(chain) /\ turn' \in Nat /\ turn \in 1..Len(chain) BY <1>1, <1>2, <2>0
  <2>2. PICK k \in Nat : k = turn - 1 BY <1>1, <1>2
  <2>3. up' = ChainTo(k)
    <3>1. \A i \in 1..k : chain[i] # chain[turn] BY <1>1, <2>1, <2>2 DEF AppInv, OnceEach
    <3>2. ChainTo(turn) = ChainTo(k) \cup {chain[turn]} BY <1>1, <2>1, <2>2 DEF ChainTo
    <3>3. chain[turn] \notin ChainTo(k) BY <3>1 DEF ChainTo
    <3> QED BY <1>1, <2>0, <3>2, <3>3
  <2>4. k \in 0..Len(chain) /\ turn' = k BY <1>1, <2>0, <2>1, <2>2
  <2>5. up' = ChainTo(k)' /\ up' \subseteq Extensions /\ chain' = chain
    BY <1>0, <2>3, <2>4, ChainIsThere
  <2>6. ChainTo(turn)' = ChainTo(k)' BY <2>4 DEF ChainTo
  <2>7. (\E m \in 0..Len(chain') : up' = ChainTo(m)') /\ up' = ChainTo(turn)' BY <2>4, <2>5, <2>6
  <2>8. LifeFits' BY <1>0, <1>1, <2>0, <2>1, <2>5, <2>7, ChainIsThere DEF LifeFits, Built
  <2> QED BY <1>0, <1>1, <2>0, <2>1, <2>5, <2>8, ResolvedStays, AppParts
<1>3. CASE ~(turn > 0)
  <2>0. phase' = "closing" /\ turn' = 1 /\ up' = up /\ turn = 0 BY <1>1, <1>3 DEF ShutsDown
  <2>1. up' = {} /\ ChainTo(0)' = {} /\ 0 \in 0..Len(chain')
    BY <1>0, <1>1, <2>0, ChainIsThere DEF ChainTo
  <2>2. \E k \in 0..Len(chain') : up' = ChainTo(k)' BY <2>1
  <2>3. 1 \in 1..Components + 1 /\ 1..1 - 1 = {} BY AppParts
  <2>4. LifeFits' BY <1>0, <1>1, <2>0, <2>1, <2>2, <2>3, ChainIsThere DEF LifeFits, Built
  <2> QED BY <1>0, <2>0, <2>4, ResolvedStays, AppParts DEF Built
<1> QED BY <1>2, <1>3

LEMMA ClosesKeeps == ASSUME AppInv, Closes PROVE AppInv'
<1>0. /\ phase = "closing" /\ phase \in Built
      /\ UNCHANGED <<graphVars, resolveVars, up, sampler, failed>>
  BY DEF Closes, Built
<1>1. /\ turn \in 1..Components + 1 /\ up = {} /\ ~sampler /\ shut = 1..turn - 1 /\ ~failed
      /\ Components \in Nat /\ turn \in Nat
  BY <1>0, AppParts DEF AppInv, LifeFits
<1>2. \E k \in 0..Len(chain') : up' = ChainTo(k)'
  <2>1. ChainTo(0)' = {} /\ 0 \in 0..Len(chain') BY <1>0, ChainIsThere DEF ChainTo
  <2> QED BY <1>0, <1>1, <2>1
<1>3. CASE turn <= Components
  <2>0. shut' = shut \cup {turn} /\ turn' = turn + 1 /\ phase' = phase BY <1>3 DEF Closes
  <2>1. turn' \in 1..Components + 1 /\ turn' \in Nat BY <1>1, <1>3, <2>0
  <2>2. shut' = 1..turn' - 1 /\ shut' \subseteq 1..Components BY <1>1, <1>3, <2>0
  <2>3. LifeFits' BY <1>0, <1>1, <1>2, <2>0, <2>1, <2>2, ChainIsThere DEF LifeFits, Built
  <2> QED BY <1>0, <2>0, <2>1, <2>2, <2>3, ResolvedStays, AppParts
<1>4. CASE ~(turn <= Components)
  <2>0. phase' = "ended" /\ shut' = shut /\ turn' = turn BY <1>4 DEF Closes
  <2>1. turn = Components + 1 /\ shut = 1..Components BY <1>1, <1>4
  <2>2. LifeFits' BY <1>0, <1>1, <1>2, <2>0, <2>1, ChainIsThere DEF LifeFits, Built
  <2> QED BY <1>0, <2>0, <2>2, ResolvedStays, AppParts DEF Built
<1> QED BY <1>3, <1>4

LEMMA HookRaisesKeeps == ASSUME AppInv, HookRaises PROVE AppInv'
<1>0. /\ phase \in {"starting", "stopping", "closing"} /\ phase \in Built
      /\ phase' = "ended" /\ failed' = TRUE
      /\ UNCHANGED <<graphVars, resolveVars, turn, up, sampler, shut>>
  BY DEF HookRaises, Built
<1>1. \E k \in 0..Len(chain') : up' = ChainTo(k)'
  <2>1. PICK k \in 0..Len(chain) : up = ChainTo(k) BY DEF AppInv, LifeFits
  <2>2. up' = ChainTo(k)' /\ k \in 0..Len(chain') BY <1>0, <2>1, ChainIsThere
  <2> QED BY <2>2
<1>2. shut # {} => up = {} /\ ~sampler BY <1>0 DEF AppInv, LifeFits
<1>3. turn <= Len(chain) + 1 \/ turn <= Components + 1 BY <1>0, AppParts DEF AppInv, LifeFits
<1>4. LifeFits' BY <1>0, <1>1, <1>2, <1>3, ChainIsThere DEF LifeFits, Built
<1> QED BY <1>0, <1>4, ResolvedStays, AppParts DEF Built

LEMMA AppInductive == ASSUME AppInv, [AppNext]_appVars PROVE AppInv'
<1>1. CASE UNCHANGED appVars
  <2>0. /\ requires' = requires /\ enabled' = enabled /\ phase' = phase
        /\ UNCHANGED <<unseen, visiting, chain, unknown, circular>>
        /\ UNCHANGED <<turn, up, sampler, shut, failed>>
    BY <1>1 DEF appVars, graphVars, resolveVars, lifeVars
  <2>1. Chain' = Chain /\ Needed' = Needed
        /\ Cyclic(Needed \cap Extensions)' = Cyclic(Needed \cap Extensions)
    BY <2>0, ChainStays, NeededStays
  <2>2. AppShape' /\ OnceEach' /\ RecursionFits'
    BY <2>0, <2>1 DEF AppInv, AppShape, OnceEach, RecursionFits
  <2>3. FoundIsSo' BY <2>0, <2>1 DEF AppInv, FoundIsSo
  <2>4. NothingSkipped' BY <2>0 DEF AppInv, NothingSkipped, Chain, ChainTo
  <2>5. LifeFits'
    <3>1. PICK k \in 0..Len(chain) : up = ChainTo(k) BY DEF AppInv, LifeFits
    <3>2. \E m \in 0..Len(chain') : up' = ChainTo(m)' BY <2>0, <3>1 DEF ChainTo
    <3>3. ChainTo(turn)' = ChainTo(turn) /\ ChainTo(turn - 1)' = ChainTo(turn - 1)
      BY <2>0 DEF ChainTo
    <3> QED BY <2>0, <2>1, <3>2, <3>3 DEF AppInv, LifeFits
  <2> QED BY <2>2, <2>3, <2>4, <2>5 DEF AppInv
<1>2. CASE AppNext
  BY <1>2, LooksAtKeeps, DescendsKeeps, ReturnsKeeps, ResolvesKeeps, StartsKeeps, StartsSamplerKeeps,
     StopsSamplerKeeps, ShutsDownKeeps, ClosesKeeps, HookRaisesKeeps DEF AppNext
<1> QED BY <1>1, <1>2

----------------------------------------
(* Application: what the chain is. *)

LEMMA ChainCounts ==
  ASSUME AppInv
  PROVE  Cardinality(Chain) = Len(chain) /\ Len(chain) <= Cardinality(Extensions)
         /\ Cardinality(Extensions) \in Nat
<1> DEFINE f == [i \in 1..Len(chain) |-> chain[i]]
<1>1. f \in [1..Len(chain) -> Chain] /\ Chain \subseteq Extensions /\ Len(chain) \in Nat
  BY AppParts DEF Chain, ChainTo
<1>2. \A i, j \in 1..Len(chain) : f[i] = f[j] => i = j BY DEF AppInv, OnceEach
<1>3. \A e \in Chain : \E i \in 1..Len(chain) : f[i] = e BY DEF Chain, ChainTo
<1> HIDE DEF f
<1>4. f \in Bijection(1..Len(chain), Chain) BY <1>1, <1>2, <1>3, Fun_IsBij
<1>5. ExistsBijection(1..Len(chain), Chain) BY <1>4 DEF ExistsBijection
<1>6. Cardinality(Chain) = Len(chain) BY <1>1, <1>5, FS_CountingElements
<1>7. /\ Cardinality(Chain) <= Cardinality(Extensions)
      /\ Cardinality(Extensions) \in Nat
  BY <1>1, ApplicationAssumption, FS_Subset, FS_CardinalityType
<1> QED BY <1>6, <1>7

(* A chain that is whole is all that is needed: it is closed. *)
LEMMA ChainIsNeeded ==
  ASSUME AppInv, ~unknown, ~circular, visiting = <<>>, unseen = {} PROVE Chain = Needed
<1>1. \A n \in enabled \ unseen : n \in Chain BY DEF AppInv, NothingSkipped
<1>2. \A i \in 1..Len(chain) : requires[chain[i]] \subseteq ChainTo(i - 1)
  BY DEF AppInv, NothingSkipped
<1>3. \A i \in 1..Len(chain) : ChainTo(i - 1) \subseteq Chain BY AppParts DEF Chain, ChainTo
<1>4. Closed(Chain) BY <1>2, <1>3 DEF Closed, Chain, ChainTo
<1>5. Chain \in SUBSET Names /\ enabled \subseteq Chain BY <1>1, AppParts DEF Chain, ChainTo
<1>6. Needed \subseteq Chain BY <1>4, <1>5, NeededIsLeast
<1>7. Chain \subseteq Needed BY DEF AppInv, FoundIsSo
<1> QED BY <1>6, <1>7

(* Nothing in a chain needs itself: of those that did, the one that comes
   first would need one that comes before it. *)
LEMMA ChainHasNoCircle ==
  ASSUME AppInv, ~unknown, ~circular PROVE ~Cyclic(Chain)
<1> SUFFICES ASSUME NEW C \in (SUBSET Chain) \ {{}}, \A e \in C : requires[e] \cap C # {}
             PROVE  FALSE
  BY DEF Cyclic
<1> DEFINE T == {i \in 1..Len(chain) : chain[i] \in C}
<1>1. T \subseteq Nat /\ T # {}
  <2>1. PICK e \in C : TRUE OBVIOUS
  <2>2. PICK i \in 1..Len(chain) : chain[i] = e BY <2>1 DEF Chain, ChainTo
  <2>3. i \in T BY <2>1, <2>2
  <2> QED BY <2>3
<1>2. PICK i \in T : \A j \in T : ~(<<j, i>> \in OpToRel(<, Nat))
  <2> HIDE DEF T
  <2> QED BY <1>1, WFMin, NatLessThanWellFounded
<1>3. \A j \in T : ~(j < i) BY <1>1, <1>2 DEF OpToRel
<1>4. PICK n \in C : n \in requires[chain[i]] BY <1>2
<1>5. requires[chain[i]] \subseteq ChainTo(i - 1) BY <1>2 DEF AppInv, NothingSkipped
<1>6. PICK j \in 1..i - 1 : chain[j] = n BY <1>4, <1>5 DEF ChainTo
<1>7. j \in T /\ j < i
  <2>1. i \in 1..Len(chain) /\ Len(chain) \in Nat BY <1>2, AppParts
  <2>2. j \in 1..Len(chain) /\ j < i BY <1>6, <2>1
  <2> QED BY <1>4, <1>6, <2>2
<1> QED BY <1>3, <1>7

LEMMA ChainIsSoundThen == ASSUME AppInv PROVE ChainIsSound
<1> SUFFICES ASSUME phase # "resolving" PROVE ChainIsSound BY DEF ChainIsSound
<1>1. visiting = <<>> /\ unseen = {} BY DEF AppInv, LifeFits
<1>2. {chain[i] : i \in DOMAIN chain} = Chain BY AppParts, LenProperties DEF Chain, ChainTo
<1>3. CASE phase = "refused"
  <2>1. unknown \/ circular BY <1>3 DEF AppInv, LifeFits
  <2>2. ~(Needed \subseteq Extensions) \/ Cyclic(Needed \cap Extensions)
    BY <2>1 DEF AppInv, FoundIsSo
  <2> QED BY <1>3, <2>2 DEF ChainIsSound
<1>4. CASE phase # "refused"
  <2>1. phase \in Built BY <1>4 DEF AppInv, AppShape
  <2>2. ~unknown /\ ~circular BY <2>1 DEF AppInv, LifeFits
  <2>3. Chain = Needed /\ Chain \subseteq Extensions
    BY <1>1, <2>2, ChainIsNeeded, AppParts DEF Chain, ChainTo
  <2>4. Needed \subseteq Extensions /\ ~Cyclic(Needed \cap Extensions)
    <3>1. Needed \cap Extensions = Chain BY <2>3
    <3> QED BY <2>2, <2>3, <3>1, ChainHasNoCircle
  <2>5. Len(chain) = Cardinality(Needed) BY <2>3, ChainCounts
  <2> QED BY <1>2, <1>4, <2>3, <2>4, <2>5 DEF ChainIsSound
<1> QED BY <1>3, <1>4

LEMMA StartedAreStoppedThen == ASSUME AppInv PROVE StartedAreStopped
<1>1. ASSUME NEW e \in up PROVE requires[e] \subseteq up
  <2>1. PICK k \in 0..Len(chain) : up = ChainTo(k) BY DEF AppInv, LifeFits
  <2>2. ~unknown /\ ~circular
    <3>1. up # {} OBVIOUS
    <3>2. phase \in Built BY <3>1 DEF AppInv, LifeFits, AppShape
    <3> QED BY <3>2 DEF AppInv, LifeFits
  <2>3. PICK i \in 1..k : chain[i] = e BY <2>1 DEF ChainTo
  <2>4. i \in 1..Len(chain) BY <2>1, <2>3, AppParts
  <2>5. requires[e] \subseteq ChainTo(i - 1) BY <2>2, <2>3, <2>4 DEF AppInv, NothingSkipped
  <2>6. ChainTo(i - 1) \subseteq ChainTo(k) BY <2>1, <2>3, AppParts DEF ChainTo
  <2> QED BY <2>1, <2>5, <2>6
<1>2. shut # {} => up = {} /\ ~sampler BY DEF AppInv, LifeFits, AppShape, Built
<1>3. phase = "ended" /\ ~failed => up = {} /\ shut = 1..Components BY DEF AppInv, LifeFits
<1> QED BY <1>1, <1>2, <1>3 DEF StartedAreStopped

LEMMA AppTypeThen == ASSUME AppInv PROVE AppTypeOK
<1>1. /\ Len(chain) \in Nat /\ Len(chain) <= Cardinality(Extensions)
      /\ Cardinality(Extensions) \in Nat /\ Components \in Nat \ {0} /\ turn \in Nat
  BY AppParts, ChainCounts
<1>2. turn <= Len(chain) + 1 \/ turn <= Components + 1 BY <1>1 DEF AppInv, LifeFits, AppShape, Built
<1>3. turn \in 0..(Components + Cardinality(Extensions) + 1) BY <1>1, <1>2
<1>4. {unknown, circular, sampler, failed} \subseteq BOOLEAN BY AppParts
<1> QED BY <1>3, <1>4 DEF AppTypeOK, AppInv, AppShape, Built

(* An application is refused for what its extensions lack and for nothing
   else, they start after what they need and stop before it, and all are
   stopped before the components are closed, however many there are and
   whatever they require (ExtensionRegistry, Application.lifespan). *)
THEOREM AssembledHolds == AppSpec => []AssembledInOrder
<1>1. AppInv => AssembledInOrder
  BY AppTypeThen, ChainIsSoundThen, StartedAreStoppedThen DEF AssembledInOrder
<1> QED BY <1>1, InitApp, AppInductive, PTL DEF AppSpec
=============================================================================
