------------------------------ MODULE Assembly ------------------------------
(* Applications of one process from build() to the end (core/application,
   the registries of the components).  build reads a setting when it comes
   to the component; the settings are chosen here when they are read.

   The registry of model providers and the Redis configuration of JWTUtil
   belong to classes: all applications of the process share them.  What
   the registries hold is what the framework registers; the chain of the
   capabilities and extensions is Application's. *)
EXTENDS Naturals, Sequences, FiniteSets

CONSTANTS Apps,   \* applications built in one process, one after the other
          NoApp,
          Models, \* codes in app.ai.models and in ai_model_config
          Types   \* of a component: the settings of it that are looked at

ASSUME AssemblyAssumption == NoApp \notin Apps

VARIABLES app,       \* of each: [at, chosen, parts, registrar]
          providers, \* ModelProviderRegistry._providers: the application a provider is of
          opened,    \* applications whose registrar holds open providers
          jwtRedis   \* JWTUtil's Redis configuration: the application it is of

asmVars == <<app, providers, opened, jwtRedis>>

(* The steps of build that read a type, in their order. *)
BuildSteps == <<"logging", "cache", "db", "storage", "mq", "registry", "ai", "mongo",
                "web", "tenant", "capacity">>

At(i) == IF i \in DOMAIN BuildSteps THEN BuildSteps[i] ELSE "built"

NewApp == [at |-> "new", step |-> 1, chosen |-> [s \in {} |-> ""], parts |-> <<>>]

AsmInit ==
  /\ app = [a \in Apps |-> NewApp]
  /\ providers = [m \in Models |-> NoApp]
  /\ opened = {} /\ jwtRedis = NoApp

Chosen(a, s) == app[a].chosen[s]

(* What is asked for again after its own step. *)
AskedAgain == {"cache", "db", "ai", "web"}
Choose(x, s, t) ==
  [k \in (DOMAIN x.chosen \cup {s}) \cap AskedAgain |->
     IF k = s THEN t ELSE x.chosen[k]]

----------------------------------------
(* build. *)

(* What the framework registers. *)
Registered(s) ==
  CASE s = "logging" -> {"both", "console"}
    [] s = "cache" -> {"memory", "redis"}
    [] s = "db" -> {"mysql", "sqlite", "several"}
    [] s = "storage" -> {"local", "minio"}
    [] s = "mq" -> {"memory", "rocketmq"}
    [] s = "registry" -> {"memory", "nacos"}
    [] s = "ai" -> {"off", "yml", "db", "custom"}
    [] s = "mongo" -> {"off", "beanie"}
    [] s = "web" -> {"memory", "redis"}
    [] OTHER -> {"off", "on"}

(* MySQLConfig.session_factory is None until the first session; sqlite has
   no asynchronous one, but its file is known. *)
SessionFactory(a) == Chosen(a, "db") = "sqlite"

(* _build_ai_model_store wants a session factory, and the idempotency
   store in Redis a Redis client. *)
ModelStoreFound(a, t) == t = "db" => SessionFactory(a)
IdempotencyFound(a, t) == t = "redis" => Chosen(a, "cache") = "redis"

(* A type that is not registered, and a want of another component, end in
   ConfigError. *)
Satisfied(a, s, t) ==
  /\ t \in Registered(s)
  /\ s = "ai" => ModelStoreFound(a, t)
  /\ s = "web" => IdempotencyFound(a, t)

(* A mutant: a registrar is kept only beside a store of models. *)
AiPartsOfStore(t) == IF t = "off" \/ t = "yml" THEN <<"ai">>
                     ELSE <<"ai_model_config_store", "ai_registrar", "ai">>

(* _build_ai: a store of models is closed after the registrar. *)
AiParts(t) ==
  CASE t = "off" -> <<"ai">>
    [] t = "yml" -> <<"ai_registrar", "ai">>
    [] OTHER -> <<"ai_model_config_store", "ai_registrar", "ai">>

(* The components a step adds to _components, in their order. *)
Adds(s, t) ==
  CASE s = "ai" -> AiParts(t)
    [] s = "mongo" -> IF t = "off" THEN <<>> ELSE <<"mongo">>
    [] s \in {"cache", "db", "storage", "mq", "registry"} -> <<s>>
    [] OTHER -> <<>>

(* _redis_cache_factory tells JWTUtil. *)
CacheMade(a, s, t) == jwtRedis' = IF s = "cache" /\ t = "redis" THEN a ELSE jwtRedis

(* register_configs: a model that is registered again is replaced. *)
RegisterConfigs(a) ==
  /\ providers' = [m \in Models |-> a]
  /\ opened' = opened \cup {a}

(* build does not give way to anybody. *)
Building == {a \in Apps : app[a].at = "building"}

Begin(a) ==
  /\ app[a].at = "new" /\ Building = {}
  /\ app' = [app EXCEPT ![a].at = "building"]
  /\ UNCHANGED <<providers, opened, jwtRedis>>

BuildStep(a, t) ==
  LET s == At(app[a].step)
      x == app[a]
  IN  /\ x.at = "building" /\ t \in Types[s]
      /\ IF Satisfied(a, s, t)
         THEN /\ app' = [app EXCEPT ![a] =
                    [at |-> IF At(x.step + 1) = "built" THEN "built" ELSE "building",
                     step |-> x.step + 1,
                     chosen |-> Choose(x, s, t),
                     parts |-> x.parts \o Adds(s, t)]]
              /\ CacheMade(a, s, t)
              /\ IF s = "ai" /\ t = "yml" THEN RegisterConfigs(a)
                 ELSE UNCHANGED <<providers, opened>>
         ELSE /\ app' = [app EXCEPT ![a].at = "failed", ![a].parts = <<>>,
                                    ![a].chosen = Choose(x, s, t)]
              /\ UNCHANGED <<providers, opened, jwtRedis>>

----------------------------------------
(* The lifespan. *)

(* _register_ai_models_from_store: what goes wrong is logged. *)
Startup(a) ==
  /\ app[a].at = "built" /\ Building = {}
  /\ app' = [app EXCEPT ![a].at = "running"]
  /\ \/ Chosen(a, "ai") \in {"db", "custom"} /\ RegisterConfigs(a)
     \/ UNCHANGED <<providers, opened>>
  /\ UNCHANGED jwtRedis

(* ModelAutoRegistrar.close closes what it made and leaves it registered. *)
CloseComponent(a, c) ==
  /\ opened' = IF c = "ai_registrar" THEN opened \ {a} ELSE opened
  /\ UNCHANGED providers

(* _shutdown, one component after the other. *)
Shutdown(a) ==
  /\ app[a].at = "running" /\ Building = {}
  /\ app' = [app EXCEPT ![a].at = IF Len(app[a].parts) = 1 THEN "ended" ELSE "running",
                        ![a].parts = Tail(@)]
  /\ CloseComponent(a, Head(app[a].parts))
  /\ UNCHANGED jwtRedis

AsmNext ==
  \E a \in Apps :
    \/ Begin(a) \/ Startup(a) \/ Shutdown(a)
    \/ \E t \in UNION {Types[s] : s \in DOMAIN Types} : BuildStep(a, t)

AsmTypeOK ==
  /\ \A a \in Apps : app[a].at \in {"new", "building", "built", "running", "ended", "failed"}
  /\ providers \in [Models -> Apps \cup {NoApp}]
  /\ opened \subseteq Apps /\ jwtRedis \in Apps \cup {NoApp}

----------------------------------------
(* Properties. *)

(* The registrar of an application was closed by its shutdown. *)
RegistrarClosed(a) ==
  /\ app[a].at \in {"running", "ended"}
  /\ \A i \in DOMAIN app[a].parts : app[a].parts[i] # "ai_registrar"

(* What builds and ends of several applications leave in the state they
   share.  An application that has ended has closed the providers it
   opened; one whose build failed after its models were registered leaves
   them open, nobody closes them.  While a registrar is open every model
   is registered, and by one that is open too, with one exception: the
   application that registered the model last was shut down since, and
   then the model answers with a closed provider although this one runs
   (ModelAutoRegistrar.close leaves what it closed in the registry of the
   class).  An application with a Redis cache finds a Redis configuration
   in JWTUtil, and one with idempotency keys in Redis has such a cache. *)
WiredAsDeclared ==
  \A a \in Apps :
    /\ app[a].at = "ended" => a \notin opened
    /\ a \in opened =>
         \A m \in Models :
           /\ providers[m] # NoApp
           /\ providers[m] \notin opened => RegistrarClosed(providers[m])
    /\ app[a].at \in {"built", "running"} =>
         /\ Chosen(a, "web") = "redis" => Chosen(a, "cache") = "redis"
         /\ Chosen(a, "cache") = "redis" => jwtRedis # NoApp

(* _build_ai_model_store and docs/04-架构与设计/01-系统架构.md: a database
   that is registered is enough for models in a database. *)
KnownTypesBuild ==
  \A a \in Apps :
    app[a].at = "failed" /\ At(app[a].step) = "ai" => Chosen(a, "ai") = "unknown"
=============================================================================
