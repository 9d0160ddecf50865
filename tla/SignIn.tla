------------------------------- MODULE SignIn -------------------------------
(* Who is signed in (capabilities/security: social, oauth2, JWTUtil, and
   infra/web/auth_middleware): accounts of a platform bound to users, the
   tokens that are issued, and the requests that show them.

   Steps are what happens between two awaits.  A token store is taken as
   one object here; its commands are those of Credentials.  All tokens
   come without a device, so that a user has one at most in a store. *)
EXTENDS Naturals, FiniteSets

CONSTANTS Openids,       \* accounts of a registered platform
          SignInUsers, NoUser,
          Visits, VisitUser, \* calls of bind, unbind and login, and their user
          Shows,         \* requests with a token
          MaxIssued,     \* bound: tokens
          BindingStores  \* kinds of stores: "memory", "database"

ASSUME SignInAssumption ==
  /\ NoUser \notin SignInUsers /\ VisitUser \in [Visits -> SignInUsers]
  /\ MaxIssued \in Nat /\ BindingStores \subseteq {"memory", "database"}

VARIABLES bindStore, bindings, visit,
          told,      \* history: users told that the account is theirs, since it was free
          wronged,   \* history: [owner, by] of the bindings that were removed
          issued,    \* [user, use, age] of the tokens by their number
          jwtStore,  \* JWTUtil._token_store: "none", "memory" or "redis"
          jwtConfig, \* is there a _redis_config?
          alive,     \* the tokens each store knows
          out,       \* history: tokens whose logout was confirmed
          shown      \* [at, token, barred] of each request

signInVars == <<bindStore, bindings, visit, told, wronged, issued, jwtStore,
                jwtConfig, alive, out, shown>>
bindVars == <<bindStore, bindings, told, wronged>>
tokenVarsOf == <<issued, jwtStore, jwtConfig, alive, out>>

TokenNo == 1..Cardinality(DOMAIN issued)
Resting == [at |-> "new", openid |-> NoUser]
NotShown == [at |-> "new", token |-> 0, barred |-> {}]

SignInInit ==
  /\ bindStore \in BindingStores /\ bindings = [o \in Openids |-> NoUser]
  /\ visit = [v \in Visits |-> Resting]
  /\ told = [o \in Openids |-> {}] /\ wronged = {}
  /\ issued = [n \in {} |-> 0] /\ jwtStore = "none" /\ jwtConfig = FALSE
  /\ alive = [s \in {"memory", "redis"} |-> {}]
  /\ out = {} /\ shown = [r \in Shows |-> NotShown]

----------------------------------------
(* JWTUtil. *)

(* _get_token_store: the first use decides, and a configuration that comes
   later is not looked at. *)
StoreInUse == IF jwtStore # "none" THEN jwtStore
              ELSE IF jwtConfig THEN "redis" ELSE "memory"

(* set_redis_config: without one, a store in Redis is given up. *)
SetRedisConfig ==
  /\ jwtConfig' = ~jwtConfig
  /\ jwtStore' = IF jwtConfig /\ jwtStore = "redis" THEN "none" ELSE jwtStore
  /\ alive' = IF jwtConfig /\ jwtStore = "redis" THEN [alive EXCEPT !.memory = {}]
              ELSE alive
  /\ UNCHANGED <<bindVars, visit, issued, out, shown>>

OwnedBy(user) == {n \in TokenNo : issued[n].user = user}

(* save: the one token of the user and its device takes the place of all
   before it. *)
SaveToken(user, n) ==
  /\ jwtStore' = StoreInUse
  /\ alive' = [alive EXCEPT ![StoreInUse] = (@ \ OwnedBy(user)) \cup {n}]

GenerateToken(user) ==
  LET n == Cardinality(TokenNo) + 1
  IN  /\ n <= MaxIssued
      /\ issued' = [k \in 1..n |-> IF k = n THEN [user |-> user, use |-> "access",
                                                  age |-> "fresh"] ELSE issued[k]]
      /\ SaveToken(user, n)

(* create_refresh_token: no store knows it. *)
CreateRefreshToken(user) ==
  LET n == Cardinality(TokenNo) + 1
  IN  /\ n <= MaxIssued
      /\ issued' = [k \in 1..n |-> IF k = n THEN [user |-> user, use |-> "refresh",
                                                  age |-> "fresh"] ELSE issued[k]]
      /\ UNCHANGED <<bindVars, visit, jwtStore, jwtConfig, alive, out, shown>>

(* verify_refresh_token, and a new access token for it. *)
Refresh(n) ==
  /\ issued[n].use = "refresh" /\ issued[n].age # "over"
  /\ GenerateToken(issued[n].user)
  /\ UNCHANGED <<bindVars, visit, jwtConfig, out, shown>>

(* Time passes: a token comes within REFRESH_THRESHOLD_SECONDS of its end,
   and ends; a store keeps it no longer. *)
GrowOld(n) ==
  /\ issued[n].age # "over"
  /\ issued' = [issued EXCEPT ![n].age = IF @ = "fresh" THEN "closing" ELSE "over"]
  /\ alive' = IF issued[n].age = "closing" THEN [s \in DOMAIN alive |-> alive[s] \ {n}]
              ELSE alive
  /\ UNCHANGED <<bindVars, visit, jwtStore, jwtConfig, out, shown>>

(* A mutant: the answer is given, and the state stays. *)
InvalidateTokenOnly(n) ==
  /\ issued[n].use = "access" /\ issued[n].age # "over"
  /\ jwtStore' = StoreInUse
  /\ out' = IF n \in alive[StoreInUse] THEN out \cup {n} ELSE out
  /\ UNCHANGED <<bindVars, visit, issued, jwtConfig, alive, shown>>

(* invalidate_token answers whether the store in use knew it. *)
InvalidateToken(n) ==
  /\ issued[n].use = "access" /\ issued[n].age # "over"
  /\ jwtStore' = StoreInUse
  /\ out' = IF n \in alive[StoreInUse] THEN out \cup {n} ELSE out
  /\ alive' = [alive EXCEPT ![StoreInUse] = @ \ {n}]
  /\ UNCHANGED <<bindVars, visit, issued, jwtConfig, shown>>

(* OAuth2TokenService.issue_client_token, or a login of the application. *)
IssueClientToken(user) ==
  /\ GenerateToken(user)
  /\ UNCHANGED <<bindVars, visit, jwtConfig, out, shown>>

----------------------------------------
(* AuthMiddleware with JWTUtil.verify_token, or OAuth2TokenService's. *)

MoveShow(r, stage) == shown' = [shown EXCEPT ![r].at = stage]

(* The signature, the use and the end of the token are looked at first;
   what was logged out before must not be let in. *)
Show(r, n) ==
  /\ shown[r].at = "new"
  /\ shown' = [shown EXCEPT ![r] =
       [at |-> IF issued[n].use = "access" /\ issued[n].age # "over"
               THEN "decoded" ELSE "refused",
        token |-> n, barred |-> out]]
  /\ UNCHANGED <<bindVars, visit, tokenVarsOf>>

AskStore(r) ==
  /\ shown[r].at = "decoded" /\ jwtStore' = StoreInUse
  /\ MoveShow(r, IF shown[r].token \in alive[StoreInUse] THEN "accepted" ELSE "refused")
  /\ UNCHANGED <<bindVars, visit, issued, jwtConfig, alive, out>>

----------------------------------------
(* SocialLoginService. *)

MoveVisit(v, stage, o) == visit' = [visit EXCEPT ![v] = [at |-> stage, openid |-> o]]
Tell(o, u) == told' = [told EXCEPT ![o] = @ \cup {u}]

(* bind, up to what find_by_platform answers; the store in memory does not
   give way to others before its own bind. *)
BindLooks(v, o) ==
  /\ visit[v].at = "new"
  /\ IF bindings[o] = NoUser THEN MoveVisit(v, "binding", o) /\ UNCHANGED told
     ELSE /\ MoveVisit(v, "ended", NoUser)
          /\ IF bindings[o] = VisitUser[v] THEN Tell(o, VisitUser[v]) ELSE UNCHANGED told
  /\ UNCHANGED <<bindStore, bindings, wronged, tokenVarsOf, shown>>

(* InMemorySocialBindingStore.bind: the key is unique. *)
BindWrites(v) ==
  LET o == visit[v].openid
  IN  /\ visit[v].at = "binding"
      /\ IF bindings[o] = NoUser
         THEN /\ bindings' = [bindings EXCEPT ![o] = VisitUser[v]]
              /\ Tell(o, VisitUser[v]) /\ MoveVisit(v, "ended", NoUser)
         ELSE MoveVisit(v, "raced", o) /\ UNCHANGED <<bindings, told>>
      /\ UNCHANGED <<bindStore, wronged, tokenVarsOf, shown>>

(* COMMON_CONFLICT: who was first may have been the same user. *)
BindLooksAgain(v) ==
  LET o == visit[v].openid
  IN  /\ visit[v].at = "raced" /\ MoveVisit(v, "ended", NoUser)
      /\ IF bindings[o] = VisitUser[v] THEN Tell(o, VisitUser[v]) ELSE UNCHANGED told
      /\ UNCHANGED <<bindStore, bindings, wronged, tokenVarsOf, shown>>

Removed(v, o) ==
  /\ bindings' = [bindings EXCEPT ![o] = NoUser] /\ told' = [told EXCEPT ![o] = {}]
  /\ wronged' = IF bindings[o] \in {NoUser, VisitUser[v]} THEN wronged
                ELSE wronged \cup {[owner |-> bindings[o], by |-> VisitUser[v]]}

(* A mutant: whose binding it is is not asked. *)
UnbindLooksNot(v, o) ==
  /\ visit[v].at = "new" /\ bindings[o] # NoUser
  /\ Removed(v, o) /\ MoveVisit(v, "ended", NoUser)
  /\ UNCHANGED <<bindStore, tokenVarsOf, shown>>

(* unbind: the owner is checked; with the store in memory the binding goes
   in the same step. *)
UnbindLooks(v, o) ==
  /\ visit[v].at = "new" /\ bindings[o] # NoUser
  /\ IF bindings[o] # VisitUser[v]
     THEN MoveVisit(v, "ended", NoUser) /\ UNCHANGED <<bindings, told, wronged>>
     ELSE IF bindStore = "memory"
     THEN Removed(v, o) /\ MoveVisit(v, "ended", NoUser)
     ELSE MoveVisit(v, "removing", o) /\ UNCHANGED <<bindings, told, wronged>>
  /\ UNCHANGED <<bindStore, tokenVarsOf, shown>>

UnbindWrites(v) ==
  /\ visit[v].at = "removing" /\ Removed(v, visit[v].openid)
  /\ MoveVisit(v, "ended", NoUser)
  /\ UNCHANGED <<bindStore, tokenVarsOf, shown>>

(* login: the token is for the user who owns the account now. *)
Login(v, o) ==
  /\ visit[v].at = "new" /\ bindings[o] # NoUser
  /\ GenerateToken(bindings[o]) /\ MoveVisit(v, "ended", NoUser)
  /\ UNCHANGED <<bindVars, jwtConfig, out, shown>>

(* A caller comes again. *)
Returns(v) ==
  /\ visit[v].at = "ended" /\ visit' = [visit EXCEPT ![v] = Resting]
  /\ UNCHANGED <<bindVars, tokenVarsOf, shown>>

BindingNext ==
  \E v \in Visits :
    \/ BindWrites(v) \/ BindLooksAgain(v) \/ UnbindWrites(v) \/ Returns(v)
    \/ \E o \in Openids : BindLooks(v, o) \/ UnbindLooks(v, o) \/ Login(v, o)

TokensNext ==
  \/ SetRedisConfig
  \/ \E u \in SignInUsers : CreateRefreshToken(u) \/ IssueClientToken(u)
  \/ \E n \in TokenNo : Refresh(n) \/ GrowOld(n) \/ InvalidateToken(n)
  \/ \E r \in Shows : AskStore(r) \/ \E n \in TokenNo : Show(r, n)

SignInSpec == SignInInit /\ [][BindingNext \/ TokensNext]_signInVars

----------------------------------------
(* Properties. *)

(* An account has one owner: whoever was told that it is theirs owns it
   until it is freed (SocialLoginService.bind), and only its owner frees
   it, unless the store lets others in between the check of unbind and the
   removal, as one in a database does (SocialLoginService.unbind). *)
AccountsOwned ==
  /\ \A o \in Openids : told[o] \subseteq {bindings[o]}
  /\ wronged # {} => bindStore = "database"

(* A token that is let in is an access token, and its logout had not been
   confirmed when the request came, whichever stores JWTUtil was given in
   the meantime (JWTUtil.verify_token, invalidate_token, set_redis_config). *)
LoggedOutStaysOut ==
  \A r \in Shows : shown[r].at = "accepted" =>
    /\ issued[shown[r].token].use = "access"
    /\ shown[r].token \notin shown[r].barred

(* Accounts have the owner who was told so, and a confirmed logout lasts
   (SocialLoginService, JWTUtil). *)
SignInSound == AccountsOwned /\ LoggedOutStaysOut
=============================================================================
