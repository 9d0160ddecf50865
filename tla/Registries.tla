------------------------------ MODULE Registries ------------------------------
(* Registries that belong to a class, and so to the whole process: what a
   capability or an extension requires, expanded while others register
   (core/capability, core/extension), and the engines of state machines,
   built at first use (capabilities/state_machine), and the factories of
   what an application is made of.  Registering takes a lock; the
   expansion takes none. *)
EXTENDS Naturals, FiniteSets, Sequences
LOCAL INSTANCE SequencesExt

CONSTANTS Plans,      \* [known, asked]: what is registered, with what each
                      \* requires, and the names whose expansion is asked for
          Changes,    \* bound: [name, requires]: registered meanwhile
          MaxChanges,
          Getters,    \* threads that want the engine of one key
          Factories,  \* factories of engines
          Makers,     \* who wants a component of a kind
          MaxPlaced   \* bound: what an application registers and takes away

ASSUME RegistriesAssumption ==
  /\ MaxChanges \in Nat /\ MaxPlaced \in Nat
  /\ \A p \in Plans : IsFiniteSet(p.asked) /\ IsFiniteSet(DOMAIN p.known)
  /\ Factories \cap {"none", "router", "instance"} = {} /\ "none" \notin Makers

VARIABLES known,   \* _capabilities, _extensions: what each name requires
          kind,    \* "capability" or "extension"
          changes, \* how often it changed meanwhile
          walk,    \* [roots, stack, chain, circular, unknown, at]
          router,  \* _router_classes: "none", "good" or "bad"
          factory, \* _engine_factories: one, or "none"
          engine,  \* _engines: what it was built from, and its number
          built,   \* how many engines were built
          getter,  \* of each thread: [at, engine]
          make,    \* a registry of factories: [make, own, does]
          shelf,   \* _factories
          placed,  \* how often an application has changed it
          maker,   \* who wants a component: [at, name, factory]
          tokensFollow, \* JWTUtil._redis_config: the maker that set it
          meant,   \* history: the last that was done to a name
          seen     \* history: of each maker, what was meant while it looked

walkVars == <<known, kind, changes, walk>>
machineVars == <<router, factory, engine, built, getter>>
factoryVars == <<make, shelf, placed, maker, tokensFollow, meant, seen>>

----------------------------------------
(* The framework's own capabilities (BUILTIN_CAPABILITIES). *)
Builtin ==
  [c \in {"user", "authn", "authz", "pay", "ai", "mq", "storage", "registry", "config",
          "db", "cache", "search"} |->
     CASE c = "authn" -> {"user"} [] c = "authz" -> {"authn"} [] c = "pay" -> {"authz"}
       [] OTHER -> {}]

(* _topological_closure, and its function dfs: what is being visited is
   the stack. *)
DependenciesInit ==
  \E p \in Plans :
    /\ known = p.known /\ kind \in {"capability", "extension"} /\ changes = 0
    /\ walk = [roots |-> p.asked, stack |-> <<>>, chain |-> <<>>, circular |-> {},
               unknown |-> {}, at |-> "running"]

Visiting(w) == [i \in DOMAIN w.stack |-> w.stack[i].name]
Chained(w) == {w.chain[i].name : i \in DOMAIN w.chain}

(* A mutant: a name that is being visited has been seen. *)
EnterOnce(w, name) ==
  IF name \in Chained(w) \cup ToSet(Visiting(w)) THEN w
  ELSE IF name \notin DOMAIN known THEN [w EXCEPT !.unknown = @ \cup {name}]
  ELSE [w EXCEPT !.stack = Append(@, [name |-> name, requires |-> known[name],
                                      left |-> known[name]])]

(* A name that was seen; one that is not registered; one that is being
   visited, which is a cycle; or one to go into. *)
Enter(w, name) ==
  LET at == CHOOSE i \in DOMAIN w.stack : w.stack[i].name = name
  IN  IF name \in Chained(w) THEN w
      ELSE IF name \notin DOMAIN known THEN [w EXCEPT !.unknown = @ \cup {name}]
      ELSE IF name \in ToSet(Visiting(w))
      THEN [w EXCEPT !.circular = @ \cup {SubSeq(Visiting(w), at, Len(w.stack))}]
      ELSE [w EXCEPT !.stack = Append(@, [name |-> name, requires |-> known[name],
                                          left |-> known[name]])]

AskedName(name) ==
  /\ walk.stack = <<>> /\ name \in walk.roots
  /\ walk' = Enter([walk EXCEPT !.roots = @ \ {name}], name)
  /\ UNCHANGED <<known, kind, changes>>

Required(name) ==
  LET top == Len(walk.stack)
  IN  /\ top > 0 /\ name \in walk.stack[top].left
      /\ walk' = Enter([walk EXCEPT !.stack[top].left = @ \ {name}], name)
      /\ UNCHANGED <<known, kind, changes>>

LeaveName ==
  LET top == Len(walk.stack)
  IN  /\ top > 0 /\ walk.stack[top].left = {}
      /\ walk' = [walk EXCEPT
           !.stack = SubSeq(@, 1, top - 1),
           !.chain = Append(@, [name |-> walk.stack[top].name,
                                requires |-> walk.stack[top].requires])]
      /\ UNCHANGED <<known, kind, changes>>

(* resolve, validate: an error when there is a cycle, or one is unknown. *)
ExpansionEnds ==
  /\ walk.at = "running" /\ walk.stack = <<>> /\ walk.roots = {}
  /\ walk' = [walk EXCEPT !.at = IF walk.unknown # {} \/ walk.circular # {} THEN "error"
                                 ELSE "ok"]
  /\ UNCHANGED <<known, kind, changes>>

(* register: of a capability that is there, over it; of an extension only
   when it says so. *)
RegisterCapability(c) ==
  /\ kind = "capability" /\ changes < MaxChanges /\ c.name \notin c.requires
  /\ known' = [n \in DOMAIN known \cup {c.name} |-> IF n = c.name THEN c.requires ELSE known[n]]
  /\ changes' = changes + 1 /\ UNCHANGED <<kind, walk>>

RegisterExtension(c, overwrite) ==
  /\ kind = "extension" /\ changes < MaxChanges /\ c.name \notin c.requires
  /\ c.name \notin DOMAIN known \/ overwrite
  /\ known' = [n \in DOMAIN known \cup {c.name} |-> IF n = c.name THEN c.requires ELSE known[n]]
  /\ changes' = changes + 1 /\ UNCHANGED <<kind, walk>>

UnregisterExtension(name) ==
  /\ kind = "extension" /\ changes < MaxChanges /\ name \in DOMAIN known
  /\ known' = [n \in DOMAIN known \ {name} |-> known[n]]
  /\ changes' = changes + 1 /\ UNCHANGED <<kind, walk>>

DependenciesNext ==
  /\ walk.at = "running"
  /\ \/ \E name \in walk.roots : AskedName(name)
     \/ walk.stack # <<>> /\ \E name \in walk.stack[Len(walk.stack)].left : Required(name)
     \/ LeaveName \/ ExpansionEnds
     \/ \E c \in Changes : RegisterCapability(c)
                           \/ \E overwrite \in BOOLEAN : RegisterExtension(c, overwrite)
     \/ \E name \in DOMAIN known : UnregisterExtension(name)

----------------------------------------
(* StateMachineRegistry, of one key. *)

NoEngine == [from |-> "none", number |-> 0]

MachinesInit ==
  /\ router = "none" /\ factory = "none" /\ engine = NoEngine /\ built = 0
  /\ getter = [t \in Getters |-> [at |-> "idle", engine |-> NoEngine]]

(* register: what is wrong with a router shows when it is first used. *)
RegisterRouter(quality) ==
  /\ router = "none" /\ engine = NoEngine /\ router' = quality
  /\ UNCHANGED <<factory, engine, built, getter>>

BuiltFrom(what) == engine' = [from |-> what, number |-> built + 1] /\ built' = built + 1

(* register_instance: refused beside a registered class, or when bad. *)
RegisterInstance ==
  /\ router = "none" /\ engine = NoEngine /\ BuiltFrom("instance")
  /\ UNCHANGED <<router, factory, getter>>

RegisterEngineFactory(f) ==
  /\ engine = NoEngine /\ factory # f /\ factory' = f
  /\ UNCHANGED <<router, engine, built, getter>>

At(t, at, e) == getter' = [getter EXCEPT ![t] = [at |-> at, engine |-> e]]

(* get looks without the lock, *)
LookForEngine(t) ==
  /\ getter[t].at \in {"idle", "none"}
  /\ IF engine = NoEngine THEN At(t, "locking", NoEngine) ELSE At(t, "got", engine)
  /\ UNCHANGED <<router, factory, engine, built>>

(* A mutant: it does not look again with the lock. *)
BuildEngineAgain(t) ==
  /\ getter[t].at = "locking" /\ UNCHANGED <<router, factory>>
  /\ \/ /\ factory # "none" /\ BuiltFrom(factory) /\ At(t, "got", engine')
     \/ /\ factory = "none" /\ router = "good" /\ BuiltFrom("router") /\ At(t, "got", engine')
     \/ /\ factory = "none" /\ router # "good" /\ At(t, "none", NoEngine)
        /\ UNCHANGED <<engine, built>>

(* and again with it, and builds: from the factory, which may raise, if
   there is one. *)
BuildEngine(t) ==
  /\ getter[t].at = "locking" /\ UNCHANGED <<router, factory>>
  /\ \/ /\ engine # NoEngine /\ At(t, "got", engine) /\ UNCHANGED <<engine, built>>
     \/ /\ engine = NoEngine /\ factory # "none" /\ BuiltFrom(factory) /\ At(t, "got", engine')
     \/ /\ engine = NoEngine /\ factory = "none" /\ router = "good"
        /\ BuiltFrom("router") /\ At(t, "got", engine')
     \/ /\ engine = NoEngine /\ (factory # "none" \/ router # "good")
        /\ At(t, "none", NoEngine) /\ UNCHANGED <<engine, built>>

MachinesNext ==
  \/ \E q \in {"good", "bad"} : RegisterRouter(q)
  \/ RegisterInstance
  \/ \E f \in Factories : RegisterEngineFactory(f)
  \/ \E t \in Getters : LookForEngine(t) \/ BuildEngine(t)

----------------------------------------
(* Registries of factories, one make each: what is made of them serves
   from then on, whatever is registered later. *)

(* The framework's own are there once the module is imported; "take" are
   those that a name can be taken from, "fallback" those that make
   something else of a name that is not there. *)
CacheBackends == [make |-> "cache", own |-> {"memory", "redis"}, does |-> {"take"}]
DatabaseFactories == [make |-> "database", own |-> {"mysql", "sqlite"}, does |-> {"take"}]
MongoFactories == [make |-> "mongo", own |-> {"beanie"}, does |-> {"take"}]
ObjectStores == [make |-> "storage", own |-> {"local", "minio"}, does |-> {"take"}]
MessageQueues == [make |-> "queue", own |-> {"memory", "rocketmq"}, does |-> {"take"}]
ServiceDiscoveries == [make |-> "discovery", own |-> {"memory", "nacos"}, does |-> {"take"}]
SearchEngines == [make |-> "search", own |-> {"memory", "elasticsearch"}, does |-> {"take"}]
ModelConfigStores == [make |-> "models", own |-> {"yml"}, does |-> {"take"}]
LogSinks == [make |-> "log", own |-> {"console", "file"}, does |-> {}]
ModelProviders == [make |-> "provider", own |-> {}, does |-> {"fallback"}]

Makes == {CacheBackends, DatabaseFactories, MongoFactories, ObjectStores, MessageQueues,
          ServiceDiscoveries, SearchEngines, ModelConfigStores, LogSinks, ModelProviders}

(* Factories: the framework's own, those registered by an application, and
   what stands for none. *)
Own == <<"own">>
Placed(n) == <<"placed", n>>
Missing == <<"missing">>
FactoryNames == make.own \cup {"custom"}
FactoryAt(table, name) == IF name \in DOMAIN table THEN table[name] ELSE Missing

FactoriesInit ==
  /\ make \in Makes
  /\ shelf = [n \in make.own |-> Own] /\ placed = 0
  /\ meant = [n \in make.own \cup {"custom"} |-> FactoryAt(shelf, n)]
  /\ maker = [t \in Makers |-> [at |-> "idle", name |-> "custom", factory |-> Missing]]
  /\ seen = [t \in Makers |-> {}]
  /\ tokensFollow = "none"

(* History: what is meant by a name, and what was while a maker looked. *)
Meant(name, f) ==
  /\ meant' = [meant EXCEPT ![name] = f]
  /\ seen' = [t \in Makers |->
                IF maker[t].at = "asking" /\ maker[t].name = name THEN seen[t] \cup {f} ELSE seen[t]]

(* A mutant: the first to register a name keeps it. *)
RegisterFactoryOnce(name) ==
  /\ placed < MaxPlaced /\ placed' = placed + 1 /\ Meant(name, Placed(placed + 1))
  /\ shelf' = [n \in DOMAIN shelf \cup {name} |->
                 IF n \in DOMAIN shelf THEN shelf[n] ELSE Placed(placed + 1)]
  /\ UNCHANGED <<make, maker, tokensFollow>>

(* register: who comes last has the name. *)
RegisterFactory(name) ==
  /\ placed < MaxPlaced /\ placed' = placed + 1 /\ Meant(name, Placed(placed + 1))
  /\ shelf' = [n \in DOMAIN shelf \cup {name} |->
                 IF n = name THEN Placed(placed + 1) ELSE shelf[n]]
  /\ UNCHANGED <<make, maker, tokensFollow>>

UnregisterFactory(name) ==
  /\ "take" \in make.does /\ name \in DOMAIN shelf
  /\ placed < MaxPlaced /\ placed' = placed + 1 /\ Meant(name, Missing)
  /\ shelf' = [n \in DOMAIN shelf \ {name} |-> shelf[n]]
  /\ UNCHANGED <<make, maker, tokensFollow>>

AsksFor(t, name) ==
  /\ maker[t].at = "idle"
  /\ maker' = [maker EXCEPT ![t] = [at |-> "asking", name |-> name, factory |-> Missing]]
  /\ seen' = [seen EXCEPT ![t] = {meant[name]}]
  /\ UNCHANGED <<make, shelf, placed, meant, tokensFollow>>

(* get and create, with the lock; create calls the factory after it. *)
LooksUp(t) ==
  LET f == FactoryAt(shelf, maker[t].name)
  IN  /\ maker[t].at = "asking"
      /\ maker' = [maker EXCEPT ![t].factory = f,
                     ![t].at = IF f # Missing \/ "fallback" \in make.does THEN "found" ELSE "refused"]
      /\ UNCHANGED <<make, shelf, placed, meant, seen, tokensFollow>>

(* What a factory makes, or raises, before and after it has told JWTUtil
   where the tokens of all are to be: the one of the Redis cache does. *)
MakesComponent(t, end) ==
  /\ maker[t].at = "found" /\ end \in {"made", "raised"}
  /\ maker' = [maker EXCEPT ![t].at = end]
  /\ \/ /\ make.make = "cache" /\ maker[t].name = "redis" /\ maker[t].factory = Own
        /\ tokensFollow' = t
     \/ /\ end = "raised" \/ make.make # "cache" \/ maker[t].name # "redis" \/ maker[t].factory # Own
        /\ UNCHANGED tokensFollow
  /\ UNCHANGED <<make, shelf, placed, meant, seen>>

FactoriesNext ==
  \/ \E name \in FactoryNames : RegisterFactory(name) \/ UnregisterFactory(name)
  \/ \E t \in Makers :
       \/ \E name \in FactoryNames : AsksFor(t, name)
       \/ LooksUp(t)
       \/ \E end \in {"made", "raised"} : MakesComponent(t, end)

----------------------------------------
(* Properties. *)

Reachable(roots) ==
  LET after[n \in 0..Cardinality(DOMAIN known)] ==
        IF n = 0 THEN roots
        ELSE after[n - 1] \cup UNION {known[m] : m \in after[n - 1] \cap DOMAIN known}
  IN  after[Cardinality(DOMAIN known)]
Cyclic(name) == name \in DOMAIN known /\ name \in Reachable(known[name])

(* What a name requires comes before it in the chain, or is reported,
   whatever is registered meanwhile; and when nothing is, the chain has
   all that is needed and no more, what is reported unknown is what is
   missing, and a cycle is reported when there is one
   (_topological_closure). *)
ChainSound ==
  /\ \A i \in DOMAIN walk.chain :
       /\ \A j \in 1..i - 1 : walk.chain[j].name # walk.chain[i].name
       /\ \A name \in walk.chain[i].requires :
            \/ \E j \in 1..i - 1 : walk.chain[j].name = name
            \/ name \in walk.unknown
            \/ \E cycle \in walk.circular : name \in ToSet(cycle)
  /\ walk.at # "running" /\ changes = 0 =>
       LET needed == Reachable(Chained(walk) \cup walk.unknown)
       IN  /\ Chained(walk) = needed \cap DOMAIN known /\ walk.unknown = needed \ DOMAIN known
           /\ (walk.circular # {}) = (\E name \in needed : Cyclic(name))

(* All who ask for an engine get the same one, and one is built, however
   first uses and registrations meet; a factory that was accepted before
   the first use made it, unless an instance was there (get,
   register_instance, register_engine_factory). *)
OneEngine ==
  /\ built <= 1
  /\ \A t \in Getters : getter[t].at = "got" => getter[t].engine = engine
  /\ engine.from = "router" => router = "good" /\ factory = "none"
  /\ engine.from = "instance" => router = "none"

(* Who asks for a component gets what the name was meant to be at some
   time between asking and finding it: the last that was registered, and
   none only if the name was taken away or never given, whichever registry
   it is; a name of the log or of a model provider is never lost.  The
   tokens follow a cache on the framework's own Redis, whoever made one
   (register, unregister, get, create, set_redis_config). *)
FactoriesKept ==
  /\ \A t \in Makers : maker[t].at \notin {"idle", "asking"} =>
       /\ maker[t].factory \in seen[t]
       /\ maker[t].at = "refused" => maker[t].factory = Missing
       /\ maker[t].factory = Missing => "take" \in make.does \/ maker[t].name \notin make.own
  /\ tokensFollow # "none" =>
       make = CacheBackends /\ maker[tokensFollow].name = "redis" /\ maker[tokensFollow].factory = Own
  /\ make = CacheBackends /\ (\E t \in Makers : maker[t].at = "made" /\ maker[t].name = "redis"
                                                 /\ maker[t].factory = Own) => tokensFollow # "none"

(* What is required is expanded once and whole, a key has one engine, and
   a name stands for what was registered last. *)
RegistriesSound == ChainSound /\ OneEngine /\ FactoriesKept
=============================================================================
