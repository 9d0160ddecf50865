---------------------------- MODULE MCOperations -----------------------------
(* Instances, for TLC, of what an operator and a developer rely on: what is
   measured, what is found and generated, what is connected to, and the
   scripts of a release.  They share no state and are explored side by
   side; `part` says which one moves. *)
EXTENDS Capacity, Retrieval, Utilities, Monitoring, VersionFiles, Registries, Providers,
        Connections, Discovery, Conversations, TLC

CONSTANTS docker, cgnat, public, cloud, office, ta, tb, ia, ib, pa, ua, ub, uc, ud, oa, ob, oc, ca, cb

(* One setup: four workers at most, a pool of two, a limit of one. *)
Deployed == {[web |-> 4, pools |-> {2}, cpu |-> 3, limit |-> 1]}
Answered == [t \in Targets |-> IF t = Self THEN 1 ELSE 2]

(* How often each body has each term. *)
Frequencies == {ta :> 0 @@ tb :> 1, ta :> 2 @@ tb :> 1}

(* Two threads of one process; two users of one lock object, two others. *)
Runs == ia :> pa @@ ib :> pa
Numbered == pa :> 1
Owned == ua :> oa @@ ub :> oa @@ uc :> ob @@ ud :> oc

InOrder == <<ca, cb>>
Latencies == <<1, 3>>
OfFramework == [pool |-> {"a"}, cache |-> {"c"}]
Shares == {<<0, 1>>, <<1, 2>>, <<1, 10>>}

Inputs == {-2, -1, 0, 1, 3, 7, 9, 13, 16, 21, 31}

Written == <<"badge", "table">>

(* Extensions that need each other, in any way, and those of the code. *)
Named == {"a", "b", "c"}
Needs == {g \in [Named -> SUBSET Named] : \A n \in Named : n \notin g[n]}
Asked == {[known |-> g, asked |-> r] : g \in Needs, r \in {{"a", "b"}, {"a", "x"}}}
           \cup {[known |-> Builtin, asked |-> r] : r \in {{"pay"}, {"authz", "ai"}}}
Redefined == [name : {"a", "c"}, requires : {{"b"}, {}}]

(* Templates of up to three pieces, and values that show placeholders. *)
Pieces == {Piece(k, n) : k \in {"text", "slot", "double"}, n \in {"a", "b"}}
            \cup {Piece("text", "t")}
Prompts == {<<>>} \cup {<<p>> : p \in Pieces} \cup {<<p, q>> : p, q \in Pieces}
             \cup {<<Piece("slot", "a"), p, q>> : p, q \in Pieces}
ShownTexts == {<<>>, <<Piece("text", "t")>>, <<Piece("text", "b")>>,
          <<Piece("slot", "a"), Piece("slot", "b")>>}
Filling == {"a" :> x @@ "b" :> y : x, y \in ShownTexts} \cup {"a" :> x : x \in ShownTexts}
Holes == <<"a", "b">>
NoDialogue == [kind |-> "estimate", limit |-> 1, wording |-> "other", length |-> 0,
               sent |-> <<>>, budget |-> -1, at |-> "building"]
NoPrompt == [template |-> <<>>, values |-> <<>>, result |-> <<>>, at |-> "new"]

UrlParameters == [key : [name : {"useSSL", "charset", "characterEncoding"}, form : {"lower", "other"}],
             value : {"true", "utf8"}]

(* What is said to models: in messages whose roles or borders differ. *)
Says(r, c) == [role |-> r, content |-> c]
Dialogue == {<<Says("system", <<"a">>), Says("user", <<"b">>)>>, <<Says("user", <<"a", "nl", "b">>)>>,
             <<Says("user", <<"a", "b">>)>>, <<Says("user", <<"c">>)>>}
Chatters == [tenant : {"", "t1"}, user : {""}] \cup {[tenant |-> "", user |-> "t1"]}
Completions == {<<"a">>, <<"a", "b">>, <<"a", "nl", "b">>}
Forbidden == {<<"a", "b">>}
Configured == {<<"m1">>, <<"m1", "m1">>, <<"m1", "m2">>}

(* Statements about one model, about its rows aside, and about two. *)
From(m, as) == [model |-> m, form |-> as]
AskedOf == {<<From(m, "listed")>> : m \in {"direct", "nested", "registered"}}
             \cup {<<From("direct", "aside")>>,
                   <<From("direct", "listed"), From("direct", "alias")>>,
                   <<From("registered", "listed"), From("direct", "listed")>>}

(* Names of tenants and indexes, which may have underscores. *)
EsTenantNames == {<<>>, <<"a">>, <<"a", "b">>}
EsIndexNames == {<<"b", "c">>, <<"c">>, <<"vector">>}

(* Tokenizers: two tokens a character, and texts denser at one end. *)
Tokenized == [dense |-> [n \in 0..MaxText |-> 2 * n],
              front |-> [n \in 0..MaxText |-> IF n <= 5 THEN 3 * n ELSE n + 10],
              back |-> [n \in 0..MaxText |-> IF n <= 10 THEN (n + 1) \div 2 ELSE 2 * n - 15]]

(* Ways from a client: by proxies inside, by one of a cloud, by both. *)
Ways == {<<>>, <<docker>>, <<cloud>>, <<cgnat, docker>>, <<cloud, docker>>, <<docker, cloud>>}
Brought == {Nobody, Garbage, [of |-> office, form |-> "plain"], [of |-> docker, form |-> "plain"]}

VARIABLE part

Parts == {"capacity", "index", "vectors", "chunks", "ids", "locks", "requests", "probes",
          "alerts", "budget", "red", "groups", "numbers", "files", "hooks", "trial", "dependencies", "machines",
          "calls", "pool", "usage", "prompt", "tenants", "redis", "mongo", "watch", "url",
          "naming", "machine", "choice", "askers", "answers", "stream", "context", "tokenizers",
          "registrar", "elastic", "clients", "sampler", "push", "rocket", "units", "factories"}

OperationsInit ==
  /\ part \in Parts
  /\ CapacityInit /\ SamplerInit /\ (part = "sampler" \/ platform = "none")
  /\ IndexInit /\ VectorsInit /\ (part = "vectors" \/ vectors.kind = "memory")
  /\ ElasticInit /\ (part = "elastic" \/ keyword)
  /\ ChunksInit /\ (part = "chunks" \/ text.lines = <<>>)
  /\ IdsInit /\ LocksInit /\ RequestsInit /\ ProbesInit /\ AlertsInit
  /\ BudgetInit /\ (part = "budget" \/ budget.allowed = <<0, 1>>)
  /\ RedInit /\ GroupsInit
  /\ NumbersInit /\ (part = "numbers" \/ limit = 0)
  /\ ClientsInit
  /\ (part = "clients" \/ (proxyEnv = {} /\ guarded = [enabled |-> TRUE, production |-> TRUE]))
  /\ FilesInit /\ HooksInit /\ TrialInit
  /\ DependenciesInit /\ (part = "dependencies" \/ walk.roots = {"pay"})
  /\ MachinesInit /\ (part = "dependencies" \/ kind = "extension")
  /\ FactoriesInit /\ (part = "factories" \/ make = LogSinks)
  /\ CallsInit /\ PoolInit /\ UsageInit
  /\ IF part = "prompt" THEN PromptInit ELSE prompt = NoPrompt
  /\ TenantsInit /\ (part = "tenants" \/ strict)
  /\ RedisInit /\ MongoInit /\ WatchInit /\ UrlInit
  /\ PublisherInit /\ (part = "rocket" \/ producer.api = "new")
  /\ NamingInit /\ AskersInit
  /\ MachineInit /\ (part = "machine" \/ machine = [told |-> {}, kind |-> "other", routed |-> FALSE])
  /\ ChoiceInit /\ (part = "choice" \/ policy = "turn")
  /\ UnitsInit /\ AnswersInit /\ StreamInit /\ TokenizersInit /\ RegistrarInit /\ PushInit
  /\ IF part = "context" THEN ContextInit ELSE dialogue = NoDialogue

OperationsNext ==
  /\ UNCHANGED part
  /\ part # "capacity" => UNCHANGED capacityVars
  /\ part # "sampler" => UNCHANGED samplerVars
  /\ part # "index" => UNCHANGED indexVars
  /\ part # "vectors" => UNCHANGED vectorVars
  /\ part # "chunks" => UNCHANGED chunkVars
  /\ part # "elastic" => UNCHANGED elasticVars
  /\ part # "ids" => UNCHANGED idVars
  /\ part # "locks" => UNCHANGED lockVars
  /\ part # "clients" => UNCHANGED clientVars
  /\ part # "requests" => UNCHANGED requestVars
  /\ part # "probes" => UNCHANGED probeVars
  /\ part # "alerts" => UNCHANGED alertVars
  /\ part # "budget" => UNCHANGED budgetVars
  /\ part # "red" => UNCHANGED redVars
  /\ part # "groups" => UNCHANGED groupVars
  /\ part # "numbers" => UNCHANGED numberVars
  /\ part # "files" => UNCHANGED fileVars
  /\ part # "hooks" => UNCHANGED hookVars
  /\ part # "trial" => UNCHANGED trialVars
  /\ part # "dependencies" => UNCHANGED walkVars
  /\ part # "machines" => UNCHANGED machineVars
  /\ part # "calls" => UNCHANGED callVars
  /\ part # "pool" => UNCHANGED poolVars
  /\ part # "usage" => UNCHANGED usageVars
  /\ part # "prompt" => UNCHANGED promptVars
  /\ part # "tenants" => UNCHANGED tenantVars
  /\ part # "redis" => UNCHANGED redisVars
  /\ part # "mongo" => UNCHANGED mongoVars
  /\ part # "watch" => UNCHANGED watchVars
  /\ part # "url" => UNCHANGED urlVars
  /\ part # "rocket" => UNCHANGED rocketVars
  /\ part # "naming" => UNCHANGED namingVars
  /\ part # "choice" => UNCHANGED choiceVars
  /\ part # "askers" => UNCHANGED askerVars
  /\ part # "answers" => UNCHANGED answerVars
  /\ part # "stream" => UNCHANGED streamVars
  /\ part # "context" => UNCHANGED contextVars
  /\ part # "tokenizers" => UNCHANGED tokenizerVars
  /\ part # "registrar" => UNCHANGED registrarVars
  /\ part # "push" => UNCHANGED pushVars
  /\ part # "units" => UNCHANGED unitVars
  /\ part # "factories" => UNCHANGED factoryVars
  /\ UNCHANGED addressVars
  /\ \/ part = "capacity" /\ CapacityNext
     \/ part = "sampler" /\ SamplerNext
     \/ part = "index" /\ IndexNext
     \/ part = "vectors" /\ VectorsNext
     \/ part = "chunks" /\ ChunksNext
     \/ part = "elastic" /\ ElasticNext
     \/ part = "ids" /\ IdsNext
     \/ part = "locks" /\ LocksNext
     \/ part = "clients" /\ ClientsNext
     \/ part = "requests" /\ RequestsNext
     \/ part = "probes" /\ ProbesNext
     \/ part = "alerts" /\ AlertsNext
     \/ part = "budget" /\ BudgetNext
     \/ part = "red" /\ RedNext
     \/ part = "groups" /\ GroupsNext
     \/ part = "numbers" /\ NumbersNext
     \/ part = "files" /\ FilesNext
     \/ part = "hooks" /\ HooksNext
     \/ part = "trial" /\ TrialNext
     \/ part = "dependencies" /\ DependenciesNext
     \/ part = "machines" /\ MachinesNext
     \/ part = "calls" /\ CallsNext
     \/ part = "pool" /\ PoolNext
     \/ part = "usage" /\ UsageNext
     \/ part = "prompt" /\ PromptNext
     \/ part = "tenants" /\ TenantsNext
     \/ part = "redis" /\ RedisNext
     \/ part = "mongo" /\ MongoNext
     \/ part = "watch" /\ WatchNext
     \/ part = "url" /\ UrlNext
     \/ part = "rocket" /\ RocketNext
     \/ part = "naming" /\ NamingNext
     \/ part = "choice" /\ ChoiceNext
     \/ part = "askers" /\ AskersNext
     \/ part = "answers" /\ AnswersNext
     \/ part = "stream" /\ StreamNext
     \/ part = "context" /\ ContextNext
     \/ part = "tokenizers" /\ TokenizersNext
     \/ part = "registrar" /\ RegistrarNext
     \/ part = "push" /\ PushNext
     \/ part = "units" /\ UnitsNext
     \/ part = "factories" /\ FactoriesNext

OperationsSpec ==
  OperationsInit /\ [][OperationsNext]_<<part, capacityVars, samplerVars, indexVars, vectorVars, chunkVars, elasticVars,
    idVars, lockVars, clientVars, requestVars, probeVars, alertVars, budgetVars, numberVars, fileVars,
    hookVars, trialVars, walkVars, machineVars, callVars, poolVars, usageVars, promptVars,
    tenantVars, redisVars, mongoVars, watchVars, urlVars, rocketVars,
    redVars, groupVars, namingVars, addressVars, choiceVars, askerVars,
    answerVars, streamVars, contextVars, tokenizerVars, registrarVars, pushVars, unitVars,
    factoryVars>>

----------------------------------------
(* Properties, those of the modules taken together; each is looked at
   while a part of its module moves. *)

(* What an operator reads: capacity reports, probes, alerts and budgets,
   the page of metrics, and the arithmetic they rest on are what was
   measured, and where they are not - a sample whose reading broke off, the
   processor on Linux, a page that raises - the part says what is read in
   its place (capabilities/capacity, infra/monitoring,
   infra/utils/math_util.py). *)
Measured ==
  /\ part \in {"capacity", "sampler"} => CapacitySound
  /\ part \in {"requests", "probes", "alerts", "budget"} => MonitoringSound
  /\ part \in {"red", "groups"} => DashboardsSound
  /\ part = "numbers" => NumbersRight

(* What is found was stored, what a model is asked and answers is what was
   meant and is accounted, and instances get their shares of calls.  What
   the parts name as lost in the code is not claimed: the lines of a block
   that is never closed, the connections of refused and dropped streams,
   and the answer that ends with a heartbeat (ai/retrieval, search,
   ai/provider, ai/prompt, infra/web/sse.py, loadbalance). *)
FoundAndTold ==
  /\ part \in {"index", "vectors", "chunks", "elastic"} => RetrievalSound
  /\ part \in {"calls", "pool", "usage", "prompt"} => ProvidersSound
  /\ part \in {"answers", "stream", "context", "tokenizers", "registrar", "push"} => ConversationsSound
  /\ part = "choice" => SharesKept

(* Identifiers, locks, clients, sessions and instances of services are
   kept apart and kept track of, in so far as the parts say: ids repeat when
   two threads make the first generator, tenants meet in what a statement
   has no condition for and in objects that are changed, and threads that
   share a lock do not exclude each other (infra/utils,
   infra/web/client_ip.py, capabilities/db, mq, registry, http). *)
KeptApart ==
  /\ part \in {"ids", "locks", "clients"} => UtilitiesSound
  /\ part \in {"tenants", "redis", "mongo", "watch", "url", "rocket", "units"} => ConnectionsSound
  /\ part \in {"naming", "machine", "askers"} => DiscoverySound

(* Registries and release scripts build what was asked for (core,
   state_machine, scripts). *)
BuiltAsAsked ==
  /\ part \in {"dependencies", "machines", "factories"} => RegistriesSound
  /\ part \in {"files", "hooks", "trial"} => ScriptsSound
=============================================================================
