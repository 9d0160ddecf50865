---------------------------- MODULE Connections ----------------------------
(* What lies between the business code and its databases and broker
   (capabilities/db, mq): the filter of tenants over ORM sessions, the
   clients of Redis and MongoDB, what is watched of MySQL connections, the
   parameters of their URLs, and the publisher of RocketMQ.

   SQLAlchemy, redis-py and PyMongo are external: a statement reads and
   changes rows, and a client opens connections when it is used, one that
   was closed (Redis) as well.  A statement that is rolled back counts as
   one that was run. *)
EXTENDS Naturals, Sequences, FiniteSets

CONSTANTS Tenants, Unset,  \* Unset: no tenant, of a context or an object
          OrmSessions, Selects, MaxRows, \* SELECTs, see below; bound: rows
          NewTenants, SetTenants,        \* bounds: tenants that new objects have, and that
                                         \* changes set, Unset if none
          MaxPending,                    \* bound: objects a session is to flush
          RedisCallers, RedisThreads,    \* tasks of the loop, other threads
          MongoCallers, DocModels,
          MaxClients,                    \* bound: clients of each kind
          Links,                         \* connections to MySQL
          SlowAfter, CriticalAfter, LeakAfter, LongAfter,
          MaxClock, MaxStatements,       \* bounds
          UrlParams, MaxParams,          \* bound: parameters of a URL
          RocketSenders, RocketDelays,   \* calls of the publisher, seconds they ask for
          WorkUnits, MaxUnitWrites           \* units of work; bound: what each writes

ASSUME ConnectionsAssumption ==
  /\ Unset \notin Tenants \cup RedisCallers /\ RedisCallers \cap RedisThreads = {}
  /\ "no-tenant" \notin Tenants \cup {Unset}
  /\ NewTenants \cup SetTenants \subseteq Tenants \cup {Unset}
  /\ MaxRows \in Nat /\ MaxPending \in Nat /\ MaxClients \in Nat /\ MaxClock \in Nat
  /\ SlowAfter \in Nat /\ CriticalAfter \in Nat /\ SlowAfter <= CriticalAfter
  /\ LeakAfter \in Nat /\ LongAfter \in Nat /\ MaxParams \in Nat /\ RocketDelays \subseteq Nat
  /\ MaxUnitWrites \in Nat
  /\ \A p \in UrlParams : p.key = [name |-> p.key.name, form |-> p.key.form]

VARIABLES strict,   \* TenantQueryFilter._strict
          context,  \* RequestContext: the tenant of the task of each session
          orm,      \* of each session: [kind, fresh, loaded, besides, seen, dirty, given, doomed, moved]
          rows,     \* [model, tenant, live, given] of each row
          crossed,  \* uses of other tenants' rows by ORM sessions, in the last step
          redis,    \* RedisConfig._redis: a number, or 0
          ponged,   \* RedisConfig._lock: who waits for the ping, or Unset
          redisUser,     \* of each caller: [at, client]
          redisMade, redisShut, open,  \* clients made, closed, and with connections
          late,     \* history: clients used after they were given up
          mongo, mongoCall,   \* the same of MongoDBConfig
          mongoLock,          \* who has its lock, and who waits for it
          mongoMade, mongoShut,
          lost,     \* history: clients that a failed connect left open
          docs, initialised,  \* MongoDatabase: _document_models, _initialized_models
          bound,    \* init_beanie: the client whose database each model uses
          failed,   \* history: models whose registration has failed
          clock, link, timing, taken, noted, truly, \* what is watched, see below
          params,   \* parameters of a URL: [key, value]
          producer, \* RocketMQ: the API of the client, and whether it is started
          sender,   \* of each call: [at, op, seconds, level, awaited]
          delivered, published, \* what the broker has: [of, level]; the metric
          unit,    \* of each unit of work: [kind, at, bound, wrote]
          pending, kept,    \* what was written: in a transaction, for good
          apart,   \* history: what a unit settled itself
          beside   \* history: units of SQLite that were not alone

tenantVars == <<strict, context, orm, rows, crossed>>
redisVars == <<redis, ponged, redisUser, redisMade, redisShut, open, late>>
mongoVars == <<mongo, mongoLock, mongoCall, mongoMade, mongoShut, lost, docs,
               initialised, bound, failed>>
watchVars == <<clock, link, timing, taken, noted, truly>>
urlVars == <<params>>
rocketVars == <<producer, sender, delivered, published>>
unitVars == <<unit, pending, kept, apart, beside>>

----------------------------------------
(* TenantQueryFilter.  Models have a tenant_id; "direct" inherit
   TenantAwareMixin, "nested" an abstract model that does, "registered"
   are registered by register_model.  Sessions: "orm"; "replica", whose
   factory has no filter; and "text", the generic session. *)

TenantModels == {"direct", "nested", "registered"}
IsMixin(m) == m # "registered"
NoTenant == "no-tenant"

NoSession == [kind |-> "none", fresh |-> <<>>, loaded |-> {}, besides |-> {},
              seen |-> [n \in 1..MaxRows |-> NoTenant],
              dirty |-> {}, given |-> {}, doomed |-> {}, moved |-> FALSE]

TenantsInit ==
  /\ strict \in BOOLEAN /\ context = [x \in OrmSessions |-> Unset]
  /\ orm = [x \in OrmSessions |-> NoSession] /\ rows = <<>> /\ crossed = {}

CurrentTenant(x) == IF context[x] = Unset THEN NoTenant ELSE context[x]
Denied(x) == strict /\ context[x] = Unset

SetContext(x, t) ==
  /\ t # context[x] /\ context' = [context EXCEPT ![x] = t]
  /\ orm' = [orm EXCEPT ![x].moved = orm[x].kind # "none"]
  /\ UNCHANGED <<strict, rows>> /\ crossed' = {}

(* create_session asks for a tenant, orm_session does not. *)
OpenOrm(x, kind) ==
  /\ orm[x].kind = "none" /\ (kind = "text" => ~Denied(x))
  /\ orm' = [orm EXCEPT ![x] = [NoSession EXCEPT !.kind = kind]]
  /\ UNCHANGED <<strict, context, rows>> /\ crossed' = {}

(* An exception, and the end: rollback and close. *)
CloseOrm(x) ==
  /\ orm[x].kind # "none" /\ orm' = [orm EXCEPT ![x] = NoSession]
  /\ UNCHANGED <<strict, context, rows>> /\ crossed' = {}

(* What a statement is about: models that are "listed" in its
   column_descriptions as classes, or as an "alias" of one, or that are used
   "aside": joined to, or counted.  One or two of them. *)
Froms == [model : TenantModels, form : {"listed", "alias", "aside"}]
ASSUME SelectsAssumption == Selects \subseteq UNION {[1..n -> Froms] : n \in 1..2}
Updates == [1..1 -> [model : TenantModels, form : {"listed"}]]

(* _column_for_statement: the column of the first that is listed; 0 is
   None. *)
ColumnOf(what) ==
  LET listed == {k \in DOMAIN what : what[k].form = "listed"}
  IN  IF listed = {} THEN 0 ELSE CHOOSE k \in listed : \A j \in listed : k <= j

(* _statement_has_tenant_model asks issubclass; for UPDATE and DELETE
   tables are compared with those of __subclasses__, where the abstract
   model of a nested one has none. *)
HasTenantModel(what) == ColumnOf(what) # 0
TargetsTenantModel(what) == what[1].model # "nested"
Filters(x, how, what) ==
  orm[x].kind = "orm" /\ (IF how = "select" THEN HasTenantModel(what) ELSE TargetsTenantModel(what))

(* A mutant: only models that were registered are looked for. *)
ReachedSome(x, how, what, k) ==
  {n \in DOMAIN rows :
     /\ rows[n].live /\ rows[n].model = what[k].model
     /\ Filters(x, how, what) /\ k = ColumnOf(what) /\ ~IsMixin(what[k].model) =>
          rows[n].tenant = CurrentTenant(x)}

(* The rows of its k-th model: the one column has the condition. *)
Reached(x, how, what, k) ==
  {n \in DOMAIN rows :
     /\ rows[n].live /\ rows[n].model = what[k].model
     /\ Filters(x, how, what) /\ k = ColumnOf(what) => rows[n].tenant = CurrentTenant(x)}

(* All of them, each with its place; there is none where one has none. *)
Selected(x, how, what) ==
  {p \in (DOMAIN what) \X (DOMAIN rows) :
     p[2] \in Reached(x, how, what, p[1]) /\ \A k \in DOMAIN what : Reached(x, how, what, k) # {}}

(* A use of a row of another tenant, and what led to it: the context was
   changed; the row was read, or is used, without a condition on the
   tenant; it was given another tenant since; or the object was, and that
   is not written yet. *)
Use(how, model, why) == [how |-> how, model |-> model, why |-> why]
Why(x, n) == {w \in {"moved", "besides", "given", "assigned"} :
                \/ w = "moved" /\ orm[x].moved
                \/ w = "besides" /\ n \in orm[x].besides
                \/ w = "given" /\ rows[n].given
                \/ w = "assigned" /\ n \in orm[x].given}
OfOthers(x, set) ==
  {n \in set : orm[x].kind = "orm" /\ rows[n].live /\ rows[n].tenant # CurrentTenant(x)}
Uses(x, how, set) == {Use(how, rows[n].model, Why(x, n)) : n \in OfOthers(x, set)}

(* Rows after some were deleted, which have no tenant any more, and others
   given one. *)
Gone(row) == [row EXCEPT !.live = FALSE, !.given = FALSE, !.tenant = Unset]
RowsWritten(dead, told) ==
  [n \in DOMAIN rows |->
     IF n \in dead THEN Gone(rows[n])
     ELSE IF n \in DOMAIN told /\ rows[n].live
     THEN [rows[n] EXCEPT !.given = TRUE, !.tenant = told[n]] ELSE rows[n]]
Assigned(x, told) ==
  {Use("assign", rows[n].model, {}) :
     n \in {k \in DOMAIN told : /\ orm[x].kind = "orm" /\ rows[k].live
                               /\ told[k] # CurrentTenant(x)}}

(* _on_orm_execute.  An UPDATE may set the tenant, to t.  Objects of the
   session follow it, but for what was assigned to them; those of rows that
   are deleted leave the session, here and after a flush. *)
Expunged(o, gone) ==
  [o EXCEPT !.loaded = @ \ gone, !.besides = @ \ gone, !.dirty = @ \ gone,
            !.given = @ \ gone, !.doomed = @ \ gone,
            !.seen = [n \in 1..MaxRows |-> IF n \in gone THEN NoTenant ELSE o.seen[n]]]
Used(o, new, besides, shows) ==
  [o EXCEPT !.loaded = @ \cup new, !.besides = @ \cup besides, !.seen = shows]
Statement(x, how, what, t) ==
  LET refused == Filters(x, how, what) /\ Denied(x)
      which == IF refused THEN {} ELSE Selected(x, how, what)
      reached == {p[2] : p \in which}
      gone == IF how = "delete" THEN reached ELSE {}
      told == [n \in IF t = Unset THEN {} ELSE reached |-> t]
      loads == {p \in which :
        /\ orm[x].kind = "orm" /\ how = "select"
        /\ what[p[1]].form # "aside" /\ p[2] \notin orm[x].loaded}
      new == {p[2] : p \in loads}
      besides == {p[2] : p \in {q \in loads : q[1] # ColumnOf(what)}}
      Seen(n) == IF n \in new THEN rows[n].tenant
                 ELSE IF n \in DOMAIN told \cap (orm[x].loaded \ orm[x].given) THEN t
                 ELSE orm[x].seen[n]
  IN  /\ orm[x].kind # "none" /\ (orm[x].kind = "replica" => how = "select")
      /\ orm' = [orm EXCEPT ![x] =
           IF refused THEN NoSession
           ELSE Expunged(Used(orm[x], new, besides, [n \in 1..MaxRows |-> Seen(n)]), gone)]
      /\ rows' = RowsWritten(gone, told)
      /\ crossed' = Assigned(x, told) \cup
           {Use(how, rows[p[2]].model, IF p[1] = ColumnOf(what) THEN {} ELSE {"besides"}) :
              p \in {q \in which : q[2] \in OfOthers(x, reached)}}
      /\ UNCHANGED <<strict, context>>

(* The business code adds, changes and deletes objects; a change may be of
   the tenant, to t. *)
MayPend(x, n) ==
  Len(orm[x].fresh) + Cardinality((orm[x].dirty \cup orm[x].doomed) \ {n}) < MaxPending
AddObject(x, m, t) ==
  /\ orm[x].kind = "orm" /\ orm[x].fresh = <<>> /\ Len(rows) < MaxRows /\ MayPend(x, 0)
  /\ orm' = [orm EXCEPT ![x].fresh = <<[model |-> m, tenant |-> t]>>]
  /\ UNCHANGED <<strict, context, rows>> /\ crossed' = {}

Changed(o, n, t) ==
  LET asked == IF t = Unset THEN {} ELSE {n}
  IN  [o EXCEPT !.dirty = @ \cup {n}, !.given = @ \cup asked,
                !.seen = [k \in 1..MaxRows |-> IF k \in asked THEN t ELSE o.seen[k]]]
ChangeObject(x, n, t) ==
  /\ orm[x].kind = "orm" /\ n \in orm[x].loaded /\ rows[n].live /\ MayPend(x, n)
  /\ orm' = [orm EXCEPT ![x] = Changed(orm[x], n, t)]
  /\ UNCHANGED <<strict, context, rows>> /\ crossed' = {}

DeleteObject(x, n) ==
  /\ orm[x].kind = "orm" /\ n \in orm[x].loaded /\ rows[n].live /\ MayPend(x, n)
  /\ orm' = [orm EXCEPT ![x].doomed = @ \cup {n}]
  /\ UNCHANGED <<strict, context, rows>> /\ crossed' = {}

MayAdd(x, o) == IsMixin(o.model) => o.tenant \in {Unset, CurrentTenant(x)}

(* A mutant: what is deleted is not looked at. *)
FlushAllowedNew(x) ==
  ~Denied(x) /\ (strict => \A k \in DOMAIN orm[x].fresh : MayAdd(x, orm[x].fresh[k]))

(* _on_before_flush: of what is deleted, the tenant that the object has by
   now is looked at; objects that were changed (session.dirty) are not. *)
FlushAllowed(x) ==
  /\ ~Denied(x)
  /\ strict =>
       /\ \A k \in DOMAIN orm[x].fresh : MayAdd(x, orm[x].fresh[k])
       /\ \A n \in orm[x].doomed : IsMixin(rows[n].model) => orm[x].seen[n] = CurrentTenant(x)

FilledIn(x, o) == IF IsMixin(o.model) /\ o.tenant = Unset THEN CurrentTenant(x) ELSE o.tenant

Flush(x) ==
  LET fresh == orm[x].fresh
      added == [k \in DOMAIN fresh |-> [model |-> fresh[k].model, live |-> TRUE, given |-> FALSE,
                                        tenant |-> FilledIn(x, fresh[k])]]
      doomed == orm[x].doomed
      told == [n \in orm[x].given \ doomed |-> orm[x].seen[n]]
      foreign == {k \in DOMAIN added : added[k].tenant # CurrentTenant(x)}
  IN  /\ orm[x].kind = "orm"
      /\ fresh # <<>> \/ orm[x].dirty # {} \/ doomed # {}
      /\ IF FlushAllowed(x)
         THEN /\ Len(rows) + Len(added) <= MaxRows
              /\ rows' = RowsWritten(doomed, told) \o added
              /\ crossed' = Uses(x, "modify", orm[x].dirty \ doomed)
                              \cup Uses(x, "unlink", doomed) \cup Assigned(x, told)
                              \cup {Use("insert", added[k].model, {}) : k \in foreign}
              /\ orm' = [orm EXCEPT ![x] = Expunged([orm[x] EXCEPT !.fresh = <<>>, !.dirty = {},
                                                        !.given = {}, !.doomed = {}], doomed)]
         ELSE orm' = [orm EXCEPT ![x] = NoSession] /\ UNCHANGED rows /\ crossed' = {}
      /\ UNCHANGED <<strict, context>>

TenantsNext ==
  \E x \in OrmSessions :
    \/ \E t \in Tenants \cup {Unset} : SetContext(x, t)
    \/ \E kind \in {"orm", "replica", "text"} : OpenOrm(x, kind)
    \/ \E what \in Selects : Statement(x, "select", what, Unset)
    \/ \E what \in Updates, t \in SetTenants : Statement(x, "update", what, t)
    \/ \E what \in Updates : Statement(x, "delete", what, Unset)
    \/ \E m \in TenantModels, t \in NewTenants : AddObject(x, m, t)
    \/ \E n \in orm[x].loaded : DeleteObject(x, n) \/ \E t \in SetTenants : ChangeObject(x, n, t)
    \/ Flush(x) \/ CloseOrm(x)

----------------------------------------
(* RedisConfig. *)

Resting == [at |-> "idle", client |-> 0]

RedisInit ==
  /\ redis = 0 /\ ponged = Unset /\ redisUser = [c \in RedisCallers \cup RedisThreads |-> Resting]
  /\ redisMade = 0 /\ redisShut = {} /\ open = {} /\ late = {}

UserIs(c, at, client) == redisUser' = [redisUser EXCEPT ![c] = [at |-> at, client |-> client]]

(* A client that is there, or a new one. *)
OneMade == /\ redisMade < MaxClients /\ redisMade' = redisMade + 1 /\ redis' = redisMade'
NoneMade == UNCHANGED <<redis, redisMade>>

(* connect: whoever comes first pings; a client that is there is not
   pinged, though an earlier ping of it may have failed. *)
ConnectRedis(c) ==
  /\ redisUser[c].at = "idle" /\ ponged = Unset
  /\ IF redis # 0 THEN UserIs(c, "has", redis) /\ NoneMade /\ UNCHANGED ponged
     ELSE OneMade /\ UserIs(c, "pinging", redis') /\ ponged' = c
  /\ UNCHANGED <<redisShut, open, late>>

PingEnds(c, ok) ==
  /\ redisUser[c].at = "pinging" /\ ponged' = Unset
  /\ IF ok THEN UserIs(c, "has", redisUser[c].client) /\ open' = open \cup {redisUser[c].client}
     ELSE UserIs(c, "idle", 0) /\ UNCHANGED open
  /\ UNCHANGED <<redis, redisMade, redisShut, late>>

(* client, in a thread: it looks, makes one under _sync_lock after it has
   looked again, and returns what is there then. *)
ThreadLooks(t) ==
  /\ redisUser[t].at = "idle" /\ UserIs(t, IF redis = 0 THEN "making" ELSE "returning", 0)
  /\ NoneMade /\ UNCHANGED <<ponged, redisShut, open, late>>

(* A mutant: it does not look again. *)
ThreadMakesAgain(t) ==
  /\ redisUser[t].at = "making" /\ UserIs(t, "returning", 0) /\ OneMade
  /\ UNCHANGED <<ponged, redisShut, open, late>>

ThreadMakes(t) ==
  /\ redisUser[t].at = "making" /\ UserIs(t, "returning", 0)
  /\ IF redis = 0 THEN OneMade ELSE NoneMade
  /\ UNCHANGED <<ponged, redisShut, open, late>>

(* Closed meanwhile: an AssertionError, or None. *)
ThreadReturns(t) ==
  /\ redisUser[t].at = "returning" /\ UserIs(t, IF redis = 0 THEN "idle" ELSE "has", redis)
  /\ NoneMade /\ UNCHANGED <<ponged, redisShut, open, late>>

UseRedis(c) ==
  LET k == redisUser[c].client
  IN  /\ redisUser[c].at = "has" /\ UserIs(c, "idle", 0) /\ open' = open \cup {k}
      /\ late' = IF k = redis THEN late ELSE late \cup {k}
      /\ NoneMade /\ UNCHANGED <<ponged, redisShut>>

(* close takes the client under the lock and closes it after that. *)
CloseRedis(c) ==
  /\ redisUser[c].at = "idle" /\ ponged = Unset /\ redis # 0
  /\ UserIs(c, "closing", redis) /\ redis' = 0
  /\ UNCHANGED <<ponged, redisMade, redisShut, open, late>>

CloseRedisEnds(c) ==
  LET k == redisUser[c].client
  IN  /\ redisUser[c].at = "closing" /\ UserIs(c, "idle", 0) /\ redisShut' = redisShut \cup {k}
      /\ open' = open \ {k} /\ NoneMade /\ UNCHANGED <<ponged, late>>

RedisNext ==
  \/ \E c \in RedisCallers :
     \/ ConnectRedis(c) \/ CloseRedis(c) \/ CloseRedisEnds(c)
     \/ \E ok \in BOOLEAN : PingEnds(c, ok)
  \/ \E t \in RedisThreads : ThreadLooks(t) \/ ThreadMakes(t) \/ ThreadReturns(t)
  \/ \E c \in RedisCallers \cup RedisThreads : UseRedis(c)

----------------------------------------
(* MongoDBConfig and MongoDatabase. *)

NoMongoCall == [at |-> "idle", client |-> 0, want |-> {}]

MongoInit ==
  /\ mongo = 0 /\ mongoLock = <<>> /\ mongoCall = [c \in MongoCallers |-> NoMongoCall]
  /\ mongoMade = 0 /\ mongoShut = {} /\ lost = {} /\ docs = {} /\ initialised = {}
  /\ bound = [m \in DocModels |-> 0] /\ failed = {}

CallIs(c, at, client, want) ==
  mongoCall' = [mongoCall EXCEPT ![c] = [at |-> at, client |-> client, want |-> want]]
HasMongoLock(c, at) == mongoCall[c].at \in at /\ mongoLock # <<>> /\ Head(mongoLock) = c

(* _ensure_connected, for create_session, transaction and, with more
   models, register_document_models.  What connect is given is read before
   the lock. *)
EnsureMongo(c, more) ==
  /\ mongoCall[c].at = "idle" /\ docs' = docs \cup more
  /\ IF mongo = 0 \/ (docs' # {} /\ docs' # initialised)
     THEN CallIs(c, "connecting", 0, docs') /\ mongoLock' = Append(mongoLock, c)
     ELSE CallIs(c, "ready", mongo, {}) /\ UNCHANGED mongoLock
  /\ UNCHANGED <<mongo, mongoMade, mongoShut, lost, initialised, bound, failed>>

(* A mutant: it does not look whether there is a client now. *)
ConnectMongoAgain(c) ==
  /\ HasMongoLock(c, {"connecting"}) /\ mongoMade < MaxClients /\ mongoMade' = mongoMade + 1
  /\ CallIs(c, "pinging", mongoMade', mongoCall[c].want)
  /\ UNCHANGED <<mongo, mongoLock, mongoShut, lost, docs, initialised, bound, failed>>

(* connect: there is a client now, or one is made. *)
ConnectMongo(c) ==
  LET want == mongoCall[c].want
  IN  /\ HasMongoLock(c, {"connecting"})
      /\ IF mongo # 0 THEN CallIs(c, "initialising", mongo, want) /\ UNCHANGED mongoMade
         ELSE /\ mongoMade < MaxClients /\ mongoMade' = mongoMade + 1
              /\ CallIs(c, "pinging", mongoMade', want)
      /\ UNCHANGED <<mongo, mongoLock, mongoShut, lost, docs, initialised, bound, failed>>

(* The ping and init_beanie, if there are models; after connect all models
   count as initialised, those that were registered meanwhile as well. *)
Ponged(c) ==
  /\ HasMongoLock(c, {"pinging"})
  /\ CallIs(c, "initialising", mongoCall[c].client, mongoCall[c].want)
  /\ UNCHANGED <<mongo, mongoLock, mongoMade, mongoShut, lost, docs, initialised, bound, failed>>

Initialises(c) ==
  LET k == mongoCall[c].client
  IN  /\ HasMongoLock(c, {"initialising"}) /\ CallIs(c, "ready", k, {})
      /\ bound' = [m \in DocModels |-> IF m \in mongoCall[c].want THEN k ELSE bound[m]]
      /\ mongo' = k /\ mongoLock' = Tail(mongoLock) /\ initialised' = docs
      /\ UNCHANGED <<mongoMade, mongoShut, lost, docs, failed>>

(* ConnectionFailure closes a new client; any other error leaves it. *)
MongoFails(c, network) ==
  LET new == {mongoCall[c].client} \ {mongo}
  IN  /\ HasMongoLock(c, {"pinging", "initialising"}) /\ CallIs(c, "idle", 0, {})
      /\ mongoLock' = Tail(mongoLock) /\ failed' = failed \cup mongoCall[c].want
      /\ mongoShut' = IF network THEN mongoShut \cup new ELSE mongoShut
      /\ lost' = IF network THEN lost ELSE lost \cup new
      /\ UNCHANGED <<mongo, mongoMade, docs, initialised, bound>>

(* Operations of a session, and the end of it. *)
MongoEnds(c) ==
  /\ mongoCall[c].at = "ready" /\ CallIs(c, "idle", 0, {})
  /\ UNCHANGED <<mongo, mongoLock, mongoMade, mongoShut, lost, docs, initialised, bound, failed>>

(* close: the lock, the client, and what it has initialised. *)
CloseMongo(c) ==
  /\ mongoCall[c].at = "idle" /\ CallIs(c, "toClose", 0, {})
  /\ mongoLock' = Append(mongoLock, c)
  /\ UNCHANGED <<mongo, mongoMade, mongoShut, lost, docs, initialised, bound, failed>>

CloseTakes(c) ==
  /\ HasMongoLock(c, {"toClose"}) /\ CallIs(c, "closing", mongo, {})
  /\ mongo' = 0 /\ mongoLock' = Tail(mongoLock)
  /\ UNCHANGED <<mongoMade, mongoShut, lost, docs, initialised, bound, failed>>

CloseMongoEnds(c) ==
  /\ mongoCall[c].at = "closing" /\ CallIs(c, "idle", 0, {}) /\ initialised' = {}
  /\ mongoShut' = mongoShut \cup ({mongoCall[c].client} \ {0})
  /\ UNCHANGED <<mongo, mongoLock, mongoMade, lost, docs, bound, failed>>

MongoNext ==
  \E c \in MongoCallers :
    \/ \E more \in {{}} \cup {{m} : m \in DocModels} : EnsureMongo(c, more)
    \/ \E network \in BOOLEAN : MongoFails(c, network)
    \/ ConnectMongo(c) \/ Ponged(c) \/ Initialises(c) \/ MongoEnds(c)
    \/ CloseMongo(c) \/ CloseTakes(c) \/ CloseMongoEnds(c)

----------------------------------------
(* What MySQLConfig and MySQLDatabase watch.  link: what each connection
   is doing, [at, since, began]; timing and taken: the times that were
   noted, for statements and for connections taken out of the pool; noted:
   what was reported; truly: history, what should have been. *)

Free == [at |-> "pool", since |-> 0, began |-> 0]
Never == MaxClock + 1
NothingNoted == [slow |-> 0, critical |-> 0, leaks |-> 0, long |-> 0]

WatchInit ==
  /\ clock = 0 /\ link = [k \in Links |-> Free] /\ timing = [k \in Links |-> Never]
  /\ taken = [k \in Links |-> Never] /\ noted = NothingNoted /\ truly = NothingNoted

TimePasses == clock < MaxClock /\ clock' = clock + 1
              /\ UNCHANGED <<link, timing, taken, noted, truly>>

(* The pool gives a connection to a session. *)
CheckOut(k) ==
  /\ link[k].at = "pool" /\ link' = [link EXCEPT ![k] = [at |-> "held", since |-> clock,
                                                         began |-> 0]]
  /\ taken' = [taken EXCEPT ![k] = clock] /\ UNCHANGED <<clock, timing, noted, truly>>

(* A mutant: a time that is there is kept. *)
BeforeExecuteKeeps(k) ==
  /\ link[k].at = "held" /\ link' = [link EXCEPT ![k].at = "executing", ![k].began = clock]
  /\ timing' = [timing EXCEPT ![k] = IF @ = Never THEN clock ELSE @]
  /\ UNCHANGED <<clock, taken, noted, truly>>

BeforeExecute(k) ==
  /\ link[k].at = "held" /\ link' = [link EXCEPT ![k].at = "executing", ![k].began = clock]
  /\ timing' = [timing EXCEPT ![k] = clock] /\ UNCHANGED <<clock, taken, noted, truly>>

Severity(elapsed) == IF elapsed >= CriticalAfter THEN "critical"
                     ELSE IF elapsed >= SlowAfter THEN "slow" ELSE "none"
CountIn(counts, what) == IF what = "none" THEN counts ELSE [counts EXCEPT ![what] = @ + 1]
Summed == noted.slow + noted.critical

(* after_cursor_execute; a statement that fails has no such event. *)
AfterExecute(k) ==
  /\ link[k].at = "executing" /\ link' = [link EXCEPT ![k].at = "held"]
  /\ Summed < MaxStatements
  /\ noted' = CountIn(noted, Severity(clock - timing[k]))
  /\ truly' = CountIn(truly, Severity(clock - link[k].began))
  /\ timing' = [timing EXCEPT ![k] = Never] /\ UNCHANGED <<clock, taken>>

StatementFails(k) ==
  /\ link[k].at = "executing" /\ link' = [link EXCEPT ![k].at = "held"]
  /\ UNCHANGED <<clock, timing, taken, noted, truly>>

(* orm_session ends: commit and its time, or rollback; and the connection
   comes back, with its time. *)
CheckIn(k, commits) ==
  LET held == clock - link[k].since
      add(counts, out) == [counts EXCEPT
        !.leaks = @ + (IF out >= LeakAfter THEN 1 ELSE 0),
        !.long = @ + (IF commits /\ held >= LongAfter THEN 1 ELSE 0)]
  IN  /\ link[k].at = "held" /\ link' = [link EXCEPT ![k] = Free]
      /\ noted.leaks + noted.long < MaxStatements
      /\ noted' = add(noted, clock - taken[k]) /\ truly' = add(truly, held)
      /\ taken' = [taken EXCEPT ![k] = Never] /\ UNCHANGED <<clock, timing>>

(* A broken connection is given up: its check-in names no connection. *)
Invalidated(k) ==
  /\ link[k].at = "held" /\ link' = [link EXCEPT ![k] = Free]
  /\ UNCHANGED <<clock, timing, taken, noted, truly>>

WatchNext ==
  \/ TimePasses
  \/ \E k \in Links :
     \/ CheckOut(k) \/ BeforeExecute(k) \/ AfterExecute(k)
     \/ StatementFails(k) \/ Invalidated(k)
     \/ \E commits \in BOOLEAN : CheckIn(k, commits)

----------------------------------------
(* URLs.  A key is [name, form]: forms differ in upper and lower case. *)

UrlInit == params = <<>>
AddParam(p) == Len(params) < MaxParams /\ params' = Append(params, p)
UrlNext == \E p \in UrlParams : AddParam(p)

(* dict(parse_qsl): the place of the first, the value of the last. *)
AsDict(list) ==
  LET lastOf(k) == list[CHOOSE n \in DOMAIN list :
                          /\ list[n].key = k
                          /\ \A m \in DOMAIN list : m > n => list[m].key # k].value
  IN  [n \in {k \in DOMAIN list : \A m \in DOMAIN list : m < k => list[m].key # list[k].key} |->
         [key |-> list[n].key, value |-> lastOf(list[n].key)]]

(* The value of a name in the last of its places, whatever its form. *)
LastNamed(list, names, default) ==
  LET ns == {n \in DOMAIN list : list[n].key.name \in names}
  IN  IF ns = {} THEN default ELSE list[CHOOSE n \in ns : \A m \in ns : m <= n].value

Wide(charset) == IF charset = "utf8" THEN "utf8mb4" ELSE charset

(* MySQLConfig._build_url: useSSL in any form; charset in the form of
   aiomysql, and characterEncoding, which stands for it.  (In other forms
   it is handed on as it is, and is no character set to aiomysql.) *)
BuildUrl(list) ==
  LET d == AsDict(list)
      plain == [n \in {k \in DOMAIN d :
        \/ d[k].key.name = "characterEncoding"
        \/ d[k].key = [name |-> "charset", form |-> "lower"]} |-> d[n]]
  IN  [ssl |-> LastNamed(d, {"useSSL"}, "true") = "true",
       charset |-> Wide(LastNamed(plain, {"charset", "characterEncoding"}, "none"))]

(* MySQLConnectionSettings.from_url. *)
FromUrl(list) ==
  [ssl |-> LastNamed(list, {"useSSL"}, "true") = "true",
   charset |-> Wide(LastNamed(list, {"charset"}, "utf8mb4"))]

----------------------------------------
(* RocketMqPublisher.  Each call builds and sends its message in a thread,
   which goes on when the caller is cancelled.  The partition that is
   selected for a message is logged, and the producer takes its own. *)

DelayLevelSeconds == <<1, 5, 10, 30, 60, 120, 180, 240, 300, 360, 420, 480, 540, 600,
                       1200, 1800, 3600, 7200>>
LongestDelay == DelayLevelSeconds[Len(DelayLevelSeconds)]
NoLevel == 0
NoSending == [at |-> "new", op |-> "none", seconds |-> 0, level |-> NoLevel, awaited |-> TRUE]
InThread(s) == sender[s].at \in {"building", "sending", "older"}

PublisherInit ==
  /\ producer \in [api : {"new", "old"}, started : {TRUE}]
  /\ sender = [s \in RocketSenders |-> NoSending] /\ delivered = <<>> /\ published = 0

(* A mutant: levels counted from 0. *)
LevelFromNought(seconds) ==
  CHOOSE level \in 0..(Len(DelayLevelSeconds) - 1) :
    /\ seconds <= DelayLevelSeconds[level + 1]
    /\ \A lower \in 1..level : DelayLevelSeconds[lower] < seconds

(* The lowest level that waits as long as was asked, of those from 1. *)
DelayLevelFor(seconds) ==
  CHOOSE level \in DOMAIN DelayLevelSeconds :
    /\ seconds <= DelayLevelSeconds[level]
    /\ \A lower \in 1..(level - 1) : DelayLevelSeconds[lower] < seconds

Publish(s) ==
  /\ sender[s].at = "new"
  /\ sender' = [sender EXCEPT ![s].at = "building", ![s].op = "publish"]
  /\ UNCHANGED <<producer, delivered, published>>

SendDelay(s, seconds) ==
  /\ sender[s].at = "new"
  /\ sender' = [sender EXCEPT ![s].at = "building", ![s].op = "delay", ![s].seconds = seconds]
  /\ UNCHANGED <<producer, delivered, published>>

(* The thread begins: the message is built, and its level looked up. *)
BuildMessage(s) ==
  /\ sender[s].at = "building"
  /\ sender' = IF sender[s].op = "publish" THEN [sender EXCEPT ![s].at = "sending"]
               ELSE IF sender[s].seconds > LongestDelay THEN [sender EXCEPT ![s].at = "raised"]
               ELSE [sender EXCEPT ![s].at = "sending",
                                   ![s].level = DelayLevelFor(sender[s].seconds)]
  /\ UNCHANGED <<producer, delivered, published>>

(* send_sync, with the level as an argument.  A client of the old API does
   not know the argument: the level is set in the message, and it is sent
   again without. *)
Accepted(s) ==
  /\ producer.started
  /\ delivered' = Append(delivered, [of |-> s, level |-> sender[s].level])
  /\ sender' = [sender EXCEPT ![s].at = "sent"]
  /\ published' = IF sender[s].awaited THEN published + 1 ELSE published

SendSync(s) ==
  /\ sender[s].at = "sending" /\ UNCHANGED producer
  /\ IF sender[s].op = "delay" /\ producer.api = "old"
     THEN sender' = [sender EXCEPT ![s].at = "older"] /\ UNCHANGED <<delivered, published>>
     ELSE Accepted(s)

SendOlder(s) == sender[s].at = "older" /\ UNCHANGED producer /\ Accepted(s)

(* The network fails, or the producer is shut down; without an answer the
   broker may have taken the message all the same. *)
SendRaises(s) ==
  /\ sender[s].at \in {"sending", "older"}
  /\ sender[s].op = "delay" /\ sender[s].at = "sending" => producer.api = "new"
  /\ sender' = [sender EXCEPT ![s].at = "raised"]
  /\ \/ UNCHANGED delivered
     \/ producer.started /\ delivered' = Append(delivered, [of |-> s, level |-> sender[s].level])
  /\ UNCHANGED <<producer, published>>

SenderCancelled(s) ==
  /\ InThread(s) /\ sender[s].awaited /\ sender' = [sender EXCEPT ![s].awaited = FALSE]
  /\ UNCHANGED <<producer, delivered, published>>

ClosePublisher ==
  /\ producer.started /\ producer' = [producer EXCEPT !.started = FALSE]
  /\ UNCHANGED <<sender, delivered, published>>

RocketNext ==
  \/ ClosePublisher
  \/ \E s \in RocketSenders :
       \/ Publish(s) \/ BuildMessage(s) \/ SendSync(s) \/ SendOlder(s) \/ SendRaises(s)
       \/ SenderCancelled(s)
       \/ \E seconds \in RocketDelays : SendDelay(s, seconds)

----------------------------------------
(* Sessions as contexts, one unit of work each, and what the database
   keeps of what they write.  Those of SQLite share the one connection of
   their factory, and so its transaction; one of MongoDB has a transaction
   only from transaction().  What raises in a unit, a commit that fails as
   well, leaves it by FailsUnit. *)

UnitKinds == {"sqlite", "sql", "document", "transaction"}
NewUnit == [kind |-> "none", at |-> "new", bound |-> FALSE, wrote |-> 0]

UnitsInit ==
  /\ unit = [u \in WorkUnits |-> NewUnit]
  /\ pending = {} /\ kept = {} /\ apart = {} /\ beside = {}

OpenUnits(k) == {u \in WorkUnits : unit[u].at = "open" /\ unit[u].kind = k}
Shared == {w \in pending : unit[w[1]].kind = "sqlite"}
Of(u) == {w \in pending : w[1] = u}

(* The writes of the transaction a unit works in. *)
InTransaction(u) == IF unit[u].kind = "sqlite" THEN Shared ELSE Of(u)

UnitIs(u, at) == unit' = [unit EXCEPT ![u].at = at]

(* create_session, transaction. *)
OpensUnit(u, k) ==
  /\ unit[u].at = "new"
  /\ unit' = [unit EXCEPT ![u] = [kind |-> k, at |-> "open", bound |-> k # "document", wrote |-> 0]]
  /\ beside' = IF k = "sqlite" /\ OpenUnits(k) # {} THEN beside \cup OpenUnits(k) \cup {u} ELSE beside
  /\ UNCHANGED <<pending, kept, apart>>

(* A statement in a transaction, and one outside, which lasts at once. *)
Executes(u) ==
  LET w == <<u, unit[u].wrote + 1>>
  IN  /\ unit[u].at = "open" /\ unit[u].wrote < MaxUnitWrites
      /\ unit[u].kind \in {"sqlite", "sql"}
      /\ unit' = [unit EXCEPT ![u].wrote = @ + 1] /\ pending' = pending \cup {w}
      /\ UNCHANGED <<kept, apart, beside>>

(* The calls of BeanieMongoSession that write carry its session, if it has
   one; after its end, or without it, each is a transaction of its own. *)
WritesDocument(u) ==
  LET w == <<u, unit[u].wrote + 1>>
  IN  /\ unit[u].at = "open" /\ unit[u].wrote < MaxUnitWrites
      /\ unit[u].kind \in {"document", "transaction"}
      /\ unit' = [unit EXCEPT ![u].wrote = @ + 1]
      /\ IF unit[u].bound THEN pending' = pending \cup {w} /\ UNCHANGED <<kept, apart>>
         ELSE kept' = kept \cup {w} /\ apart' = apart \cup {w} /\ UNCHANGED pending
      /\ UNCHANGED beside

(* release_session_connection, commit and an inner transaction(): what was
   written until then lasts. *)
CommitsHere(u) ==
  /\ unit[u].at = "open" /\ unit[u].bound
  /\ kept' = kept \cup InTransaction(u) /\ pending' = pending \ InTransaction(u)
  /\ apart' = apart \cup Of(u)
  /\ unit' = [unit EXCEPT ![u].bound = unit[u].kind # "transaction"]
  /\ UNCHANGED beside

(* rollback, and an inner transaction() that fails and is caught. *)
RollsBackHere(u) ==
  /\ unit[u].at = "open" /\ unit[u].bound
  /\ pending' = pending \ InTransaction(u) /\ apart' = apart \cup Of(u)
  /\ unit' = [unit EXCEPT ![u].bound = unit[u].kind # "transaction"]
  /\ UNCHANGED <<kept, beside>>

(* BeanieMongoSession.close within transaction(), which still commits what
   was written before. *)
LetsGo(u) ==
  /\ unit[u].at = "open" /\ unit[u].kind = "transaction" /\ unit[u].bound
  /\ unit' = [unit EXCEPT ![u].bound = FALSE]
  /\ UNCHANGED <<pending, kept, apart, beside>>

(* The end of the context, without and with an exception. *)
EndsUnit(u) ==
  /\ unit[u].at = "open" /\ UnitIs(u, "committed")
  /\ kept' = kept \cup InTransaction(u) /\ pending' = pending \ InTransaction(u)
  /\ UNCHANGED <<apart, beside>>

(* A mutant: transaction() hands the exception on, and that is all. *)
FailsUnitAsItIs(u) ==
  unit[u].at = "open" /\ UnitIs(u, "failed") /\ UNCHANGED <<pending, kept, apart, beside>>

FailsUnit(u) ==
  /\ unit[u].at = "open" /\ UnitIs(u, "failed")
  /\ pending' = pending \ InTransaction(u) /\ UNCHANGED <<kept, apart, beside>>

(* A cancelled task: CancelledError is no Exception, so neither commit nor
   rollback is called.  Closing a session of MySQL, and leaving the
   transaction of MongoDB, take back what it wrote; SQLite's connection
   stays in the transaction. *)
CancelledUnit(u) ==
  /\ unit[u].at = "open" /\ UnitIs(u, "cancelled")
  /\ pending' = IF unit[u].kind = "sqlite" THEN pending ELSE pending \ Of(u)
  /\ UNCHANGED <<kept, apart, beside>>

(* SqliteSessionFactory.health_check: the connection as a context commits,
   or rolls back if the statement fails. *)
HealthCheck ==
  /\ Shared # {} /\ pending' = pending \ Shared
  /\ kept' \in {kept, kept \cup Shared}
  /\ beside' = beside \cup OpenUnits("sqlite") /\ UNCHANGED <<unit, apart>>

UnitsNext ==
  \/ HealthCheck
  \/ \E u \in WorkUnits :
       \/ \E k \in UnitKinds : OpensUnit(u, k)
       \/ Executes(u) \/ WritesDocument(u) \/ CommitsHere(u) \/ RollsBackHere(u) \/ LetsGo(u)
       \/ EndsUnit(u) \/ FailsUnit(u) \/ CancelledUnit(u)

----------------------------------------
(* Properties. *)

(* What the filter keeps apart, and what it does not.  Statements of ORM
   sessions that list models reach, of the first of them, rows of the tenant
   of the context alone; so do UPDATE and DELETE, but of a model below an
   abstract one.  Every other row that is reached, of a second model, an
   alias, a join or a count, is there without condition.  Objects that are
   changed or deleted are of that tenant, but those read like this, those
   read before the context was changed, and those whose row was given
   another tenant since; when strict, an object of a TenantAwareMixin is
   deleted only if it has the tenant of the context, or was given it.  A
   change may hand any row over to another tenant, as nothing looks at
   session.dirty; an insert does only when not strict, or of a class that is
   no TenantAwareMixin.  No row is written without tenant when strict.  All
   of these exceptions are reached, against the module's "for SELECT, UPDATE
   and DELETE" (tenant_query_filter.py:8): TenantsApart is not checked
   (_on_orm_execute, _column_for_statement, _on_before_flush). *)
TenantsApart == crossed = {}
TenantIsolated ==
  /\ \A e \in crossed :
       \/ e.how = "select" /\ "besides" \in e.why
       \/ e.how \in {"update", "delete"} /\ e.model = "nested"
       \/ e.how = "insert" /\ (e.model = "registered" \/ ~strict)
       \/ e.how = "assign"
       \/ /\ e.how \in {"modify", "unlink"} /\ e.why \cap {"moved", "besides", "given"} # {}
          /\ e.how = "unlink" =>
               e.model = "registered" \/ ~strict \/ e.why \cap {"given", "assigned"} # {}
  /\ strict => \A n \in DOMAIN rows : rows[n].tenant # NoTenant

(* Clients of Redis and MongoDB are the current one, being connected, or
   closed, but for a MongoDB client whose connect has failed otherwise
   than by the network; and a Redis client that was given up has
   connections only through a call that had taken it before.  A model that
   counts as initialised uses the current client once no call connects, if
   no registration of it has failed (client, connect, close,
   _ensure_connected). *)
DatabaseClientsKept ==
  LET busy(calls, at) == {calls[c].client : c \in {d \in DOMAIN calls : calls[d].at \in at}}
  IN  /\ (1..redisMade) \ redisShut \subseteq {redis} \cup busy(redisUser, {"closing"})
      /\ open \subseteq {redis} \cup busy(redisUser, {"closing"}) \cup late
      /\ (1..mongoMade) \ mongoShut
           \subseteq {mongo} \cup lost \cup busy(mongoCall, {"pinging", "initialising", "closing"})
      /\ mongo # 0 /\ mongoLock = <<>> =>
           \A m \in initialised : bound[m] = mongo \/ m \in failed

(* What is reported of slow statements, leaks and long transactions is
   what has happened: times left by statements that failed, or by
   connections that broke, are never measured from
   (_register_sql_timing_events, _register_pool_leak_events, orm_session). *)
WatchTrue == noted = truly

(* The two readers of a URL agree on TLS if useSSL is written in one way,
   and on the character set if it is called charset in small letters;
   neither lets utf8 through (_build_url, from_url). *)
UrlsAgree ==
  LET forms(name) == {params[n].key.form : n \in {m \in DOMAIN params : params[m].key.name = name}}
      named(name) == \E n \in DOMAIN params : params[n].key.name = name
  IN  /\ Cardinality(forms("useSSL")) <= 1 => BuildUrl(params).ssl = FromUrl(params).ssl
      /\ ~named("characterEncoding") /\ forms("charset") = {"lower"} =>
           BuildUrl(params).charset = FromUrl(params).charset
      /\ BuildUrl(params).charset # "utf8" /\ FromUrl(params).charset # "utf8"

(* What a caller was told is sent has been sent once, and what was refused
   at most once, whichever API the client has; the metric counts no more.
   The broker holds a message back at least as long as was asked, and by
   the shortest of its levels that does (publish, send_delay,
   _delay_level_for). *)
SentAsAsked ==
  LET of(s) == {n \in DOMAIN delivered : delivered[n].of = s}
  IN  /\ published <= Len(delivered)
      /\ \A s \in RocketSenders :
           /\ Cardinality(of(s)) <= 1
           /\ sender[s].at = "sent" => of(s) # {}
           /\ InThread(s) => of(s) = {}
           /\ \A n \in of(s) :
                LET level == delivered[n].level
                IN  IF sender[s].op = "publish" THEN level = NoLevel
                    ELSE /\ level \in DOMAIN DelayLevelSeconds
                         /\ DelayLevelSeconds[level] >= sender[s].seconds
                         /\ level = 1 \/ DelayLevelSeconds[level - 1] < sender[s].seconds

(* A unit of work is kept if it ended, and not if it failed: all of what
   it wrote but what it committed, rolled back or wrote outside itself.
   That is not promised to sessions of SQLite that were open together, or
   while the health was checked, which commits and rolls back for all; and
   one that was cancelled there is left to the next, but as a whole.
   Nothing else is left in a transaction (session, transaction,
   release_session_connection). *)
UnitsKept ==
  /\ \A u \in WorkUnits \ beside :
       LET whole == {<<u, i>> : i \in 1..unit[u].wrote} \ apart
       IN  /\ unit[u].at = "committed" => whole \subseteq kept
           /\ unit[u].at = "failed" => whole \cap kept = {}
           /\ unit[u].at = "cancelled" =>
                \/ whole \cap kept = {}
                \/ unit[u].kind = "sqlite" /\ whole \subseteq kept
  /\ \A w \in pending :
     \/ unit[w[1]].at = "open"
     \/ unit[w[1]].at = "cancelled" /\ unit[w[1]].kind = "sqlite"

(* Tenants are kept apart as far as the filter goes, clients and units of work are kept, what is
   watched is true, URLs agree, and messages are sent as asked. *)
ConnectionsSound ==
  /\ TenantIsolated /\ DatabaseClientsKept /\ UnitsKept
  /\ WatchTrue /\ UrlsAgree /\ SentAsAsked
=============================================================================
