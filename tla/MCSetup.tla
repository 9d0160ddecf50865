------------------------------ MODULE MCSetup -------------------------------
(* Instances, for TLC, of what a process does before and beside requests:
   settings and profiles, the assembly of applications, and who is signed
   in.  They share no state and are explored side by side; `part` says
   which one moves. *)
EXTENDS Configuration, Assembly, SignIn, WechatPay, TLC

CONSTANTS h, u, m, first, second, ua, ub, v1, v2, v3, wa, wb, wc, pa, pb

(* A host whose placeholder may name its variable, a user, and app.env. *)
Says(x, y, z) == h :> x @@ u :> y @@ m :> z
Declared ==
  {[code |-> c, flat |-> f, dotenv |-> d, project |-> p, default |-> Says(x, "lit", "lit")] :
     c \in {Says("none", "none", "none"), Says("lit", "none", "none"),
            Says("none", "none", "lit")},
     f \in BOOLEAN,
     d \in {Says(y, "none", z) : y \in {"none", "lit"}, z \in {"none", "lit"}},
     p \in {Says(v, y, z) : v \in {"none", "null", "lit", "ref"}, y \in {"none", "lit"},
                            z \in {"none", "bad", "lit"}},
     x \in {"lit", "ref"}}
Simple == [code |-> Says("none", "none", "none"), flat |-> FALSE,
           dotenv |-> Says("none", "none", "none"),
           project |-> Says("none", "none", "none"),
           default |-> Says("lit", "lit", "lit")]

(* Two properties, the first of which may refer to the second. *)
Two(x, y) == first :> x @@ second :> y
Refers == first :> second @@ second :> second
Texts == {Two(x, y) : x \in {"none", "null", "lit", "ref"}, y \in {"none", "null", "lit"}}
AskedFor == {[argument |-> "none", variable |-> "none", file |-> "none"],
             [argument |-> "none", variable |-> "stage", file |-> "dev"]}
Made ==
  {[base |-> x, files |-> "dev" :> Two("none", "none") @@ "stage" :> y,
    env |-> e, remote |-> r, asked |-> q, nacos |-> n] :
     x \in Texts, y \in Texts, e \in {Two(v, w) : v, w \in {"none", "lit"}},
     r \in {Two(v, w) : v \in {"none", "null"}, w \in {"none", "lit"}},
     n \in {"none", "loaded"}, q \in AskedFor}

(* Types of components that an application may be given. *)
Offered ==
  "logging" :> {"both", "unknown"} @@ "cache" :> {"memory", "redis"} @@
  "db" :> {"mysql", "sqlite"} @@ "storage" :> {"local", "unknown"} @@
  "mq" :> {"memory"} @@ "registry" :> {"memory"} @@
  "ai" :> {"off", "yml", "db", "unknown"} @@ "mongo" :> {"off", "unknown"} @@
  "web" :> {"memory", "redis", "unknown"} @@ "tenant" :> {"off"} @@ "capacity" :> {"off"}

(* Two workers of one user, and another user. *)
Whose == v1 :> ua @@ v2 :> ua @@ v3 :> ub

(* A query and a prepay of one process, and a callback that another gets. *)
Kinds == wa :> "query" @@ wb :> "callback" @@ wc :> "prepay"
Runner == wa :> pa @@ wb :> pb @@ wc :> pa

VARIABLE part

SetupInit ==
  /\ part \in {"settings", "profiles", "assembly", "bindings", "tokens", "wechat", "bills"}
  /\ declared \in (IF part = "settings" THEN Declared ELSE {Simple})
  /\ SettingsInit /\ AsmInit
  /\ bindStore \in (IF part = "bindings" THEN BindingStores ELSE {"memory"})
  /\ SignInInit
  /\ billed \in (IF part = "bills" THEN BillChecks ELSE {TRUE}) /\ WechatInit

SetupNext ==
  /\ UNCHANGED part
  /\ part \in {"settings", "profiles"} \/ UNCHANGED settingVars
  /\ part = "assembly" \/ UNCHANGED asmVars
  /\ part \in {"bindings", "tokens"} \/ UNCHANGED signInVars
  /\ part \in {"wechat", "bills"} \/ UNCHANGED <<wechatVars, billVars>>
  /\ \/ part = "settings" /\ SettingsNext
     \/ part = "profiles" /\ ProfilesNext
     \/ part = "assembly" /\ AsmNext
     \/ part = "bindings" /\ BindingNext
     \/ part = "tokens" /\ TokensNext
     \/ part = "wechat" /\ WechatNext
     \/ part = "bills" /\ BillNext

SetupSpec ==
  SetupInit /\ [][SetupNext]_<<settingVars, asmVars, signInVars, wechatVars, billVars, part>>
=============================================================================
