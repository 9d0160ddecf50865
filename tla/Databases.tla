----------------------------- MODULE Databases -----------------------------
(* The data sources of an application (capabilities/db): DatabaseManager
   with its router of tenants over MySQLDatabase and MySQLConfig, whose
   engines, one for the primary and one for a replica, are built on first
   use and replaced by connect.  A session belongs to one request; a step
   ends where it waits for a lock, the server or the business code.

   SQLAlchemy is external: disposing an engine closes the idle connections
   of its pool, a connection that is out is closed when it comes back, and
   an engine that is used after that has a new pool. *)
EXTENDS Naturals, Sequences

CONSTANTS DbSources, DefaultSource, DbTenants,
          Mappings,    \* the explicit mappings the router may start with
          NoSource,    \* no explicit mapping of a tenant
          Template,    \* the name the router makes for a tenant
          DbSessions,  \* slots for sessions open at one time
          Admins,      \* slots for connect, unregister_tenant and close
          NoAdmin,
          MaxEngines   \* bound: engines built

ASSUME DatabasesAssumption ==
  /\ DefaultSource \in DbSources /\ NoSource \notin DbSources
  /\ Mappings \subseteq [DbTenants -> DbSources \cup {NoSource}]
  /\ Template \in [DbTenants -> DbSources]
  /\ NoAdmin \notin Admins /\ MaxEngines \in Nat

Roles == {"primary", "replica"}
Engines == 1..MaxEngines

VARIABLES connections, \* DatabaseManager._connections: the names it has
          mapping,     \* TenantDatabaseRouter._mapping
          engine,      \* MySQLConfig.engine and _replica_engines; 0 is None
          built,       \* engines built so far
          pooled,      \* engines whose current pool has connections
          connecting,  \* who holds MySQLConfig._lock over an await
          work,        \* what each session is doing
          job,         \* what each administrative call is doing
          excused      \* history: engines a failure or a late user kept open

dbVars == <<connections, mapping, engine, built, pooled, connecting, work, job,
            excused>>

Absent == [at |-> "idle", source |-> DefaultSource, engine |-> 0]
NoJob == [kind |-> "none", todo |-> {}, engines |-> <<>>, tenant |-> NoSource,
          seen |-> {}]

DbInit ==
  /\ connections = DbSources /\ mapping \in Mappings
  /\ engine = [s \in DbSources |-> [r \in Roles |-> 0]]
  /\ built = 0 /\ pooled = {}
  /\ connecting = [s \in DbSources |-> NoAdmin]
  /\ work = [x \in DbSessions |-> Absent]
  /\ job = [a \in Admins |-> NoJob]
  /\ excused = {}

RouteOf(t) == IF mapping[t] = NoSource THEN Template[t] ELSE mapping[t]
Current == {engine[s][r] : s \in connections, r \in Roles} \ {0}
LockFree(s) == connecting[s] = NoAdmin

----------------------------------------
(* Sessions. *)

(* get or route: the database of a source that is configured. *)
Obtain(x, s) ==
  /\ work[x].at = "idle" /\ s \in connections
  /\ s = DefaultSource \/ \E t \in DbTenants : RouteOf(t) = s
  /\ work' = [work EXCEPT ![x] = [Absent EXCEPT !.at = "routed", !.source = s]]
  /\ UNCHANGED <<connections, mapping, engine, built, pooled, connecting, job, excused>>

(* An engine that is there serves, or a new one from here on. *)
Serves(s, r, e) == engine[s][r] = e /\ e # 0 /\ UNCHANGED <<engine, built>>
Creates(s, r, e) ==
  /\ engine[s][r] = 0 /\ built < MaxEngines
  /\ e = built + 1 /\ built' = e
  /\ engine' = [engine EXCEPT ![s][r] = e]

(* The primary is looked for in the lock. *)
EnsuredPrimary(s, e) ==
  LockFree(s) /\ (Serves(s, "primary", e) \/ Creates(s, "primary", e))

(* A replica is looked for without the lock first. *)
EnsuredReplica(s, e) ==
  \/ Serves(s, "replica", e)
  \/ LockFree(s) /\ Creates(s, "replica", e)

OpenSession(x, r, e) ==
  /\ work[x].at = "routed"
  /\ \/ r = "primary" /\ EnsuredPrimary(work[x].source, e)
     \/ r = "replica" /\ EnsuredReplica(work[x].source, e)
  /\ work' = [work EXCEPT ![x].at = "session", ![x].engine = e]
  /\ excused' = IF work[x].source \in connections THEN excused
                ELSE excused \cup {e}
  /\ UNCHANGED <<connections, mapping, pooled, connecting, job>>

BeingDisposed(e) == \E a \in Admins : \E i \in DOMAIN job[a].engines :
                      job[a].engines[i] = e

(* The first statement takes a connection out of the pool of the engine,
   which may have been given up since the session was opened. *)
Executes(x) ==
  LET e == work[x].engine
  IN  /\ work[x].at = "session"
      /\ work' = [work EXCEPT ![x].at = "working"]
      /\ pooled' = pooled \cup {e}
      /\ excused' = IF e \in Current \/ BeingDisposed(e) THEN excused
                    ELSE excused \cup {e}
      /\ UNCHANGED <<connections, mapping, engine, built, connecting, job>>

(* commit, or rollback after an exception, and in both cases close. *)
CloseSession(x) ==
  /\ work[x].at \in {"session", "working"}
  /\ work' = [work EXCEPT ![x] = Absent]
  /\ UNCHANGED <<connections, mapping, engine, built, pooled, connecting, job,
                 excused>>

----------------------------------------
(* Administrative calls; todo are the sources still to be closed, engines
   those taken out of a source and still to be disposed. *)

RegisterTenant(t, s) ==
  /\ mapping' = [mapping EXCEPT ![t] = s]
  /\ UNCHANGED <<connections, engine, built, pooled, connecting, work, job, excused>>

CallUnregister(a, t) ==
  /\ job[a].kind = "none"
  /\ connections' = connections \ {RouteOf(t)}
  /\ job' = [job EXCEPT ![a] = [NoJob EXCEPT !.kind = "unregister", !.tenant = t,
                                  !.todo = {RouteOf(t)} \cap connections]]
  /\ UNCHANGED <<mapping, engine, built, pooled, connecting, work, excused>>

CallClose(a) ==
  /\ job[a].kind = "none"
  /\ job' = [job EXCEPT ![a] = [NoJob EXCEPT !.kind = "close", !.todo = connections,
                                             !.seen = connections]]
  /\ UNCHANGED <<connections, mapping, engine, built, pooled, connecting, work,
                 excused>>

(* An engine, if there is one. *)
IfBuilt(e) == IF e = 0 THEN <<>> ELSE <<e>>

(* A mutant: the replicas are forgotten. *)
PrimaryOnly(s) == IfBuilt(engine[s].primary)

TakenOut(s) == IfBuilt(engine[s].primary) \o IfBuilt(engine[s].replica)

(* The loop of close finds its dictionary changed. *)
Broken(a) == job[a].kind = "close" /\ job[a].seen # connections

(* MySQLConfig.close, in its lock: the engines are taken out. *)
TakeEngines(a, s) ==
  /\ s \in job[a].todo /\ job[a].engines = <<>> /\ ~Broken(a) /\ LockFree(s)
  /\ engine' = [engine EXCEPT ![s] = [r \in Roles |-> 0]]
  /\ job' = [job EXCEPT ![a].todo = @ \ {s}, ![a].engines = TakenOut(s)]
  /\ UNCHANGED <<connections, mapping, built, pooled, connecting, work, excused>>

(* connect builds the new engine before the old one is disposed, all of it
   in the lock. *)
Connect(a, s) ==
  /\ job[a].kind = "none" /\ s \in connections /\ LockFree(s)
  /\ built < MaxEngines /\ built' = built + 1
  /\ engine' = [engine EXCEPT ![s].primary = built + 1]
  /\ connecting' = [connecting EXCEPT ![s] = a]
  /\ job' = [job EXCEPT ![a] = [NoJob EXCEPT !.kind = "connect",
                                  !.engines = IfBuilt(engine[s].primary)]]
  /\ UNCHANGED <<connections, mapping, pooled, work, excused>>

Released(a) == [s \in DbSources |-> IF connecting[s] = a THEN NoAdmin
                                    ELSE connecting[s]]

DisposeNext(a) ==
  /\ job[a].engines # <<>>
  /\ pooled' = pooled \ {Head(job[a].engines)}
  /\ job' = [job EXCEPT ![a].engines = Tail(@)]
  /\ UNCHANGED <<connections, mapping, engine, built, connecting, work, excused>>

(* An engine that cannot be disposed ends the call, and nobody knows it,
   or those after it, any more. *)
DisposeRaises(a) ==
  /\ job[a].engines # <<>>
  /\ excused' = excused \cup {job[a].engines[i] : i \in DOMAIN job[a].engines}
  /\ job' = [job EXCEPT ![a] = NoJob]
  /\ connecting' = Released(a)
  /\ UNCHANGED <<connections, mapping, engine, built, pooled, work>>

(* connect tries the new engine, and keeps it if that fails. *)
EndConnect(a) ==
  /\ job[a].kind = "connect" /\ job[a].engines = <<>>
  /\ \E s \in DbSources :
       /\ connecting[s] = a
       /\ pooled' \in {pooled, pooled \cup {engine[s].primary}}
  /\ connecting' = Released(a)
  /\ job' = [job EXCEPT ![a] = NoJob]
  /\ UNCHANGED <<connections, mapping, engine, built, work, excused>>

(* unregister_tenant removes the mapping of the tenant after the close. *)
EndUnregister(a) ==
  /\ job[a].kind = "unregister" /\ job[a].todo = {} /\ job[a].engines = <<>>
  /\ mapping' = [mapping EXCEPT ![job[a].tenant] = NoSource]
  /\ job' = [job EXCEPT ![a] = NoJob]
  /\ UNCHANGED <<connections, engine, built, pooled, connecting, work, excused>>

EndClose(a) ==
  /\ job[a].kind = "close" /\ job[a].engines = <<>>
  /\ Broken(a) \/ job[a].todo = {}
  /\ job' = [job EXCEPT ![a] = NoJob]
  /\ UNCHANGED <<connections, mapping, engine, built, pooled, connecting, work,
                 excused>>

DbNext ==
  \/ \E t \in DbTenants, s \in DbSources : RegisterTenant(t, s)
  \/ \E x \in DbSessions :
       \/ \E s \in DbSources : Obtain(x, s)
       \/ \E r \in Roles, e \in Engines : OpenSession(x, r, e)
       \/ Executes(x) \/ CloseSession(x)
  \/ \E a \in Admins :
       \/ \E t \in DbTenants : CallUnregister(a, t)
       \/ \E s \in DbSources : TakeEngines(a, s) \/ Connect(a, s)
       \/ CallClose(a) \/ DisposeNext(a) \/ DisposeRaises(a)
       \/ EndConnect(a) \/ EndUnregister(a) \/ EndClose(a)

DbSpec == DbInit /\ [][DbNext]_dbVars

DbTypeOK ==
  /\ connections \subseteq DbSources
  /\ mapping \in [DbTenants -> DbSources \cup {NoSource}]
  /\ engine \in [DbSources -> [Roles -> 0..MaxEngines]]
  /\ built \in 0..MaxEngines /\ pooled \subseteq Engines
  /\ connecting \in [DbSources -> Admins \cup {NoAdmin}]
  /\ work \in [DbSessions -> [at : {"idle", "routed", "session", "working"},
                              source : DbSources, engine : 0..MaxEngines]]
  /\ excused \subseteq Engines

(* A pool with connections belongs to a source the manager knows, or a
   call is about to close it, unless a disposal failed or a request used
   what it had been given before its source was closed or removed: no
   engine is lost between a request that builds it and connect, close or
   unregister_tenant. *)
PoolsKnown ==
  \A e \in pooled :
    \/ e \in Current \/ BeingDisposed(e) \/ e \in excused
    \/ \E a \in Admins : \E s \in job[a].todo : \E r \in Roles : engine[s][r] = e

(* No pool of connections is lost between those who build engines on
   first use and those who replace or close them (MySQLConfig,
   DatabaseManager). *)
SourcesSound == DbTypeOK /\ PoolsKnown
=============================================================================
