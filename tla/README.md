# Verification of flower-web-infrastructure

TLA+ models, model checking and proofs for the parts of this repository where
the order of events, a failure half way or a boundary decides whether the
program is right: the framework under `src/src/web_infra` (Python, asyncio and
threads) and the release scripts under `src/scripts`. Paths below are relative
to `src/src/web_infra/` unless they begin with `scripts/` or `docs/`.

## 1. The system

`Application` (`core/application.py`) assembles components from settings and
runs them in one asyncio event loop per process; several processes may share a
MySQL database, a Redis, a broker and directories. Three grains of interleaving
follow: two coroutines interleave only where one of them awaits, threads of a
pool interleave at every access of shared data that no lock covers, and two
processes interleave at every command to a store, a broker or the disk. A
component calls another one directly; state is shared through stores (in memory
or a database), the broker, distributed locks and, more than its names suggest,
through attributes of classes that every application of the process has in common.

| Component | State | Operations | Hard behaviours | What makes it correct |
|---|---|---|---|---|
| Outbox `capabilities/mq/outbox` | rows with status, retry_count, next attempt | append, poll and publish, mark sent / failed / DLQ, clean, requeue a dead letter | lost confirmations, crash between broker and database, overlapping rounds | an accepted message is never lost; retries are bounded; duplicates and stuck rows have a cause |
| Queue and consumers `capabilities/mq` | queue, retry counts, delayed and cancelled sets, idempotency keys | publish, delayed send and its cancellation, dispatch, retry, dead letter, start, stop | retries call all subscribers again; stop inside a handler; overlapping timers of one id | nothing disappears, each subscriber works once, a failing message leaves the queue |
| Payment channel `capabilities/payment` | orders, flows, the channel's own view | prepay, refund, close, callback, close-expired task | callbacks beside close and refund, lost replies, no transaction over order and flow | only received money is booked, paid orders stay open, no payment is forgotten |
| WeChat pay, bill files `payment/provider`, `payment/reconciliation` | certificates in memory and on disk, bills on disk | request with retries, verify answers and callbacks, download certificates, save, load and clean bills | processes that share the directories, retries of what was done | a prepay is sent once, what is signed is verified, a bill stays whole |
| Reconciliation `payment/reconciliation` | flows, bills, audit records | compare, auto-book, auto-reverse, record | late callbacks, two rounds on one day, a query that is out of date | unconfirmed money is not touched, reversals are paired, a day on record accounts for its bill |
| Limits `payment/risk`, `infra/web`, `infra/resilience` | counters per window, day and month; token buckets | check a payment, take a token, clean up | checks that interleave at every await, midnight | what passes stays within the limits |
| Scheduler and lock `capabilities/schedule`, `infra/resilience/distributed_lock.py` | registered tasks, last run, failures, paused; one Redis key per lock | run due tasks, run once, pause, resume, acquire, release | manual run beside the loop, a lease that runs out, errors of Redis | a job works once at a time while its lease lasts |
| Task executor `capabilities/task` | task records with version, shared pool with gate | submit, heartbeat, scan dead, end, make and shut the pool | live records shared by threads, cancellation, eviction | outcomes are raced by scans only, the gate does not leak, one pool, every task ends |
| Resilience, HTTP `infra/resilience`, `http`, `registry`, `loadbalance` | breaker state, window, probes in flight; leases of instances; breakers of clients | admit, record, retry, register, choose | late and cancelled results in a half-open phase | probes are bounded and some probe is left to decide |
| Model gateway and providers `capabilities/ai` | semaphores, quota counters, usage, caches, clients, provider registry, tokenizers | chat, stream, embed under guard, quota, retry and backups; read configurations; close | cancellation while waiting, streams dropped half way, counting before checking | no slot leaks, a stream is of one attempt, usage adds up, configurations are fresh or excused |
| Retrieval `capabilities/search`, `ai/retrieval` | postings, vectors, indexes by tenant | index, delete, evict, search, cut documents | two questions to a store that changes, names that collide | what is found is stored, and all that is stored and matches is found |
| Web `infra/web` | occupied keys and results, context, health state, event streams | authenticate, occupy, answer, replay, push events | concurrent repeats, two keys in Redis, waits that time out | one execution per key, answers of the same user |
| Upload and objects `capabilities/storage` | tasks, parts, merged files, objects | upload part, complete, cancel, clean, put, get, delete | complete beside cancel or complete, files written in place | a reported part is there, a whole object stays whole |
| Security `capabilities/security` | tokens per user and device, failure counters, locks, bindings | save, revoke, look up, record failure, bind, unbind, log in, log out | sequences of Redis commands, stores that are changed at run time | one token per device, locks by enough failures, accounts with one owner, logouts that last |
| Databases `capabilities/db` | engines by source and role, routes of tenants, clients | open a session, connect, unregister, close, filter by tenant | engines built on first use beside a close | no pool is lost, no session sees another tenant |
| Registries, lifespan, settings `core`, `state_machine`, `infra/config`, `config` | capabilities, extensions, hooks, layers of values | resolve, build, start, stop, read, merge | hooks that raise, class attributes, files read at different moments | dependencies first, what started is stopped, the highest layer decides |
| Monitoring, capacity `infra/monitoring`, `capabilities/capacity` | counters, windows, alerts, budgets | record, sample, probe, report, show | counters that start anew, overlapping reports | what is shown agrees with what was recorded |
| Utilities `infra/utils` | id generators, lock files, trusted proxies | next id, lock, client address, arithmetic | threads at first use, clocks that go back | ids differ, one holder, addresses are those of trusted hops |
| Scripts `scripts/` | branches, tags, pull requests, version files, hooks | release after a merge, write a version, install hooks, try a package | runs that overlap or break off | a tag is on its release, files agree |
| Rest (adapters, caches, formats, contracts) | mostly none | calls of libraries, formatting | - | unit tests |

`PROJECT.json` lists every part with its files under `components`, and the
hazards of the code, each at its line, under `hazards`. Section 8 says why parts
are left out.

## 2. Modules

In each module an action is the code between two awaits at which something else
can run (or between two commands, where processes or threads share the state);
what one coroutine does without awaiting is one action. `PROJECT.json` (`map`)
names the lines behind every definition. Operators whose comment says "mutant"
are faulty variants of their neighbour; no specification uses them.

| Module | What it is | Code |
|---|---|---|
| `Outbox` | stores, pollers, cleaner, dead letters, broker | `mq/outbox/*` |
| `ReliableDelivery` | the abstract promise of an outbox; `Outbox` implements it (`Reliable`) | - |
| `PaymentChannel` | the table of order states; orders and flows, concurrent calls, an external channel | `payment_state_machine.py`, `payment_channel_template.py`, `payment_close_task.py`, the in-memory stores |
| `Reconciliation` | days, bills, flows, rounds of `run_reconciliation` | `payment/reconciliation/*`, `payment_reversal.py` |
| `MessageQueue` | the queue, its loop, `IdempotentConsumer`, `RetryableConsumer` | `in_memory_message_queue.py` and the consumers |
| `Tasks` | executor, record store with live objects, the shared pool | `capabilities/task/*` |
| `Scheduling` | schedulers of several instances and the Redis lock | `task_scheduler.py`, `distributed_lock.py` |
| `ModelGateway` | `chat`, `stream_chat`, `embed` under guards, quotas and retries | `ai/model_gateway/*`, `ai/concurrency/*`, `ai/quota/*` |
| `ServiceCall` | HTTP client, breaker, retry, in-memory registry | `feign_client.py`, `circuit_breaker.py`, `retry.py` |
| `WebRequests` | context, authentication and idempotency middlewares | `infra/web/*`, both idempotency stores |
| `Credentials` | token stores, failure counters, locks | `jwt_util.py`, `redis_jwt_token_store.py`, `login_fail_lock.py` |
| `Uploads` | one multipart upload, and objects put, read and deleted | `capabilities/storage/*` |
| `Application` | resolution of extensions, hooks, close | `core/application.py`, `core/extension` |
| `Assembly` | several applications over registries of classes | `core/application.py` (the builders), component registries |
| `Configuration` | layers of settings, merged profiles | `infra/config/*`, `capabilities/config/*` |
| `SignIn` | social accounts, tokens issued, shown and revoked | `security/social`, `security/oauth2`, `auth_middleware.py` |
| `WechatPay` | the WeChat client, certificates, bill files | `payment/provider/wechat/*`, `bill_file_manager.py` |
| `Databases` | data sources, engines, sessions, tenants | `mysql_config.py`, `database_manager.py` and routing |
| `Limits` | payment risk counters, token buckets | `payment/risk/*`, `rate_limiter.py` and its middleware |
| `ModelConfigs` | cached configurations of models beside upserts | `model_config_manager.py`, the SQLAlchemy store |
| `Releases` | two runs of the release workflow | `scripts/release_after_merge.py` |
| `VersionFiles` | version files, hooks, trial installs | `scripts/version_bump.py`, `scripts/install_hooks.py`, `scripts/verify_testpypi_install.py` |
| `Capacity` | estimate, sampler, probes | `capabilities/capacity/*` |
| `Retrieval` | search engine, vector stores, retriever, chunker | `capabilities/search/*`, `ai/retrieval/*` |
| `Utilities` | ids, file locks, client addresses, arithmetic | `infra/utils/*`, `infra/web/client_ip.py` |
| `Monitoring` | counts, readiness, alerts, budgets, the page | `infra/monitoring/*`, `infra/web/health*` |
| `Registries` | capabilities and extensions expanded, engines of state machines, factories of components | `core/capability`, `core/extension`, `state_machine`, the registry of each capability |
| `Providers` | OpenAI protocol, client pool, usage, templates | `ai/provider/*`, `ai/usage/*`, `ai/prompt/*` |
| `Connections` | tenant filter, Redis and MongoDB clients, units of work in sessions, watched connections, URLs, RocketMQ | `capabilities/db/*`, `rocketmq_publisher.py` |
| `Discovery` | Nacos client, own address, balancers, breakers at first use | `capabilities/registry/*`, `capabilities/loadbalance/*` |
| `Conversations` | answer cache, guarded streams, contexts, tokenizers, registrar, server-sent events | `ai/*`, `infra/web/sse.py` |
| `MemoryProofs` | proofs about `Outbox`, `PaymentChannel` and `MessageQueue` | - |
| `RecordsProofs` | proofs about `Reconciliation`, `Releases`, `Databases`, `ModelConfigs` and `Limits` | - |
| `BackgroundProofs` | proofs about `Scheduling` and `Tasks` | - |
| `ServingProofs` | proofs about `ServiceCall` and `ModelGateway` | - |
| `SetupProofs` | proofs about `Credentials`, `SignIn` and `Assembly` | - |
| `PlatformProofs` | proofs about `WebRequests`, `WechatPay`, `Uploads` and `Application` | - |
| `PartsProofs` | proofs about the parts of `VersionFiles`, `Registries` and `Connections` | - |
| `OperationsProofs` | proofs about the parts of `Utilities` and `Discovery`, and about all these parts side by side | - |
| `MC*` | instances for TLC: symmetry and constants a .cfg cannot write | - |

The components of an `MC` module with several parts (`MCRecords`, `MCBackground`,
`MCPlatform`, `MCSetup`, `MCOperations`) share no state. A variable `part` chooses in
the initial state which of them moves; the others stay in one fixed initial
state, so that the state space is the sum of the parts and not their product.

**Outbox.** `pc[p]`, `cur[p]` and `todo[p]` are the local state of one
`publish_pending`: where it is, its record, the rest of its batch. `PublishRow`
covers four outcomes: the broker took the message or not, and the publisher
learned so or not (`AckLoss`). `SeenRetries` is the difference between the
stores: MySQL returns a copy, so the poller decides on the retry count of its
poll; the memory store hands out the live record. `Abort` is a crash, or a store
call that fails, at any point of a round; `swallowed` are the rows whose dead letter
was not published and which become DLQ all the same. The broker is external: what it has
confirmed is durable.

**PaymentChannel.** `task[w]` is one call in progress: prepay, callback, close
(called directly or by the close task) or refund. `channel`, `payable`, `notices`
and `refunded` are the channel's side and external. With `StoreYields` the stores
suspend, so calls interleave between any two statements, and `Interrupt` may cut
a call short anywhere but inside a store; without it a call only gives way at
calls of the channel. A prepay may be repeated at any time: its check looks at the
order before the channel is asked (`ended`: it found it ended). `broken` are the
orders whose callback was cut short between status and flow.

**Reconciliation.** `PutLine`, `Pay`, `Callback`, `Refund`, `Close`, `Misbook`
and `NextDay` are the environment in its own words (the calls they stand for are
modelled in full in `PaymentChannel`); rounds start on any past day, compare its
bill with its flows, query the channel for one difference at a time
(`CHANNEL_ONLY` first, as the code does) and act on the answer in a later step.
`Misbook` writes a PAY flow in error, also for an order that may still be paid;
`paidLate` are those paid after such a flow was found unpaid.

**MessageQueue.** `worker` is the position of the dispatch loop: which message,
which subscriber, which attempt of `RetryableConsumer`, and the last exception.
Dead letters go through the same queue and are consumed by `DlqConsumer`.

**Tasks.** Records are objects on `heap`; `load` and `list_all` hand out the stored
object, `update` stores a copy and writes the new version back into the object it
was given. `doing[t]` is the operation a thread is in the middle of. The scan, the
heartbeat and the end of a task are each a read, an assignment and a write. A
second part lets three threads ask for the shared pool while it is shut down.

**Scheduling.** Loops and manual runs of two instances; `late` are the executions
whose lease ran out, and a Redis error may leave a key without an owner (`Orphan`).

**ModelGateway.** `job[r]` walks a request through routing, access, quota, content
check, cache, the queue (`places`) and the slot (`slots`) of a guard, the provider and
its retries, over the models of its route. Any wait may end by timeout or
cancellation; the consumer of a stream may stop asking.

**ServiceCall.** The breaker is a window of results with a half-open phase. The code
keeps no mark of the phase a call began in, so its result counts for whatever phase
it ends in, and the model does the same. Calls a caller guards by hand (a breaker
around retries, synchronous or not) are a second part.

**WebRequests.** A post is at a place of the chain of middlewares; the store in
memory is one step per operation, the one in Redis one step per command.
**Credentials** likewise; `disturbed`, `broken` and `credit` are history variables
that say which logins overlapped or broke off and how many failures were counted.

**Uploads.** `parts` is the local directory or MinIO, `marked` what the task record
says of it. **Databases** numbers engines: `pooled` are those with connections,
`excused` those a failed disposal or a late request kept open. **Releases** keeps
`main` as the sequence of the versions of its commits, and a run may fail between
any two commands and be started again.

The remaining modules consist of small state machines, each with its own `...Init`,
`...Next` and `...Vars`; their header comments say what is external and what is left open.

## 3. Runs

`CHECK_DEADLOCK FALSE` is set in all runs but the two of the payment channel: the
bounds on rows, days, sends, calls and crashes let a behaviour come to its end (all
rows settled, all requests answered), which is no deadlock of the code.

| Run | Question | Bounds |
|---|---|---|
| `outbox_overlap` | Do overlapping rounds lose a message (`NoLoss`) or exceed the budget of retries (`RetryBudget`), and is the outbox a reliable delivery (`Reliable`)? | 2 pollers, 2 rows, batch 2, 2 attempts, 1 abort |
| `outbox_recovery` | After crashes and lost confirmations: is every duplicate and every stuck row explained (`AbortsExplain`), does a settled row stay so (`SettledIsFinal`), is every row settled in the end (`Settles`)? | 1 poller, 3 rows, batch 2, 2 attempts, 2 aborts |
| `memory` | Queue: does a message disappear (`NoSilentLoss`), is work done twice (`EffectOnce`), is every message settled (`GetsSettled`)? Outbox over live records: is a row left FAILED (`NoStuckFailed`)? Payment over stores that do not suspend: is a terminal order final (`TerminalIsFinal`), is a payment booked in the end (`PaidGetsBooked`)? | 2 messages, 2 subscribers (one retrying by itself), 2 retries, 3 sends, 1 stop; 2 pollers, 2 rows; 2 calls, 1 order, 1 refund number |
| `payment_database` | Whatever interleaves and breaks off: is only received money booked (`BookedIsPaid`), no paid order closed (`NoPaidOrderClosed`), no payment forgotten (`PaidNotForgotten`)? | 3 calls at once, 1 order of 2 units, 2 refund numbers |
| `payment_over_refund` (violation) | Do refunds stay within what was paid? | 1 call, 3 refund numbers |
| `records` | Do reconciliation rounds book only paid orders, leave held payments alone and pair reversals, and account for the bill (`BookedIsPaid`, `ReversalsSound`, `AuditedBillAccounted`)? Do limits hold for checks that interleave (`LimitsSound`)? Is a pool of connections lost (`SourcesSound`)? Is a tag on its release (`ReleasesSound`)? Is a cached configuration stale without excuse (`ConfigsSound`)? | 2 rounds, 1 order, 3 days; 4 payments of one user, 6 ticks; 1 source and tenant, 1 session, 2 administrators, 3 engines; 2 runs, 1 rerun; 2 readers, 2 editors, 1 code, 1 cache entry |
| `background` | Does the gate leak, are there two pools, is an outcome overwritten but by a scan that raced it, does a task end (`TasksSound`, `OutcomeRace`, `EndsUp`)? Do two executions of a job work at once while leases last (`SchedulingSound`)? | 2 calls (one on a thread), queue and store of 1, 1 heartbeat; 3 threads, 3 pools; 2 instances with loops, one run by hand, 1 job, lease, backoff, 1 crash |
| `platform` | Do guards keep their slots and streams to one attempt (`GatewaySound`), breakers their probes (`CallsSound`), keys to one execution in memory (`Idempotent`), tokens and locks to their reasons (`CredentialsSound`), uploads and objects to what was put (`UploadsSound`), extensions to their order (`AssembledInOrder`)? | see below |
| `web_redis_replay` (violation) | Over Redis, is a request executed once? | 2 posts of one user and key |
| `upload_lost` (violation) | Is the object of a completed upload there? | 2 parts, 1 complete, local directory |
| `setup` | Does the highest layer decide (`ConfigurationLayered`), is what was built wired (`WiredAsDeclared`), have accounts one owner and do logouts last (`SignInSound`), is what passes as verified signed by WeChat (`ChannelTrusted`)? | 3 settings in 5 layers, 2 properties in 4; 2 applications; 3 visits of 2 users, 2 tokens; 3 calls in 2 processes, 2 certificates |
| `operations` | Is what is measured true (`Measured`), what is searched found, what is told to and by models accounted and what is chosen in its share (`FoundAndTold`), are ids, locks, clients, tenants and instances kept apart (`KeptApart`), do registries and scripts build what was asked (`BuiltAsAsked`)? | 43 small parts with 2 or 3 actors each |

`platform` has any three of four model calls (two chats, a stream, an embedding) over
two models with one slot and two places in the queue each, one retry, one chunk before
the last and one cache key, so that a wait for a place, one for a slot, a backup, a
denied backup, a cache hit and an abandoned stream all occur; three calls of a service beside a window of two
results and two permits, and two calls guarded by hand; five posts of two users with
one key, two of which claim the other user's name, one with other content and one
without a key; three logins on two devices; two failed logins of two accounts from
one address (the address reaches its limit by both, one account by one failure)
beside a check of one account; three uploads of two parts (one of them twice with
different data), two completes of which one gives a digest, one cancel, any five of
these six, over both storages; three calls of objects with a short and a long text; and every graph of
three extensions, with a name nobody registered, two components, any hook raising.

**Joined properties.** `XSound` is the conjunction of the type invariant of a module
with its safety properties, which keep their names and comments in the module;
`Measured`, `FoundAndTold`, `KeptApart` and `BuiltAsAsked` conjoin those of several
modules, each looked at while its part moves. A violation names the joined property;
the mutants of `PROJECT.json` break one conjunct each, by a change of the code that
the conjunct is about. Where a promise has exceptions, the property names them
through history variables (`disturbed`, `excused`, `raced`, `missed`, `late`,
`misread`, `beside`): it says that nothing else breaks the promise.

Why these bounds: the records of the outbox, and the orders, interact through
nothing but the batch, so two (three for the batch to be cut off in the middle)
show every interference; two attempts are the least that separates "try again"
from "give up"; two pollers, rounds or calls are the least that overlap, and the
payment run has three so that a callback, a close and a refund meet. The amount
2 is the least with a partial refund. Three days put the bill before, on and
after the day of a flow. Of an ORM session one change waits to be flushed
(`MaxPending`), and an object gets one other tenant or loses its own (`NewTenants`,
`SetTenants`), the two ways to disagree with a filter; statements (`Selects`) name a
model, two, an alias, a join or a count. Records of usage have three dimensions, two that
are kept and one that is not. The workers of the payment run are alike
(`WorkerSymmetry`). Three sends allow one message to be sent twice with
another one in between; two subscribers, one of them failed, are the least that
make a retry call one that had succeeded. Caches, queues and stores have the size
1 or 2, the least at which the next entry evicts, waits or is refused; three threads
or calls are used where a third may see what two left behind (a pool that was shut
and made anew, a breaker with a late result, a file lock with a lost handle); clocks
run just past the longest limit they are compared with. What depends on larger
numbers is covered by the proofs, for the twenty-four modules that have them.

**Violations.** Three runs show where the code differs from what its comments and
documents say; `findings` quotes the lines. A refund whose answer was lost leaves no
REFUND flow, so that the check of a second one counts nothing as returned, and more is
returned than was paid; an idempotency result in Redis is not looked at by `try_occupy`, so a repeated
request is executed again; with the local directory `complete` deletes the merged
object with the parts. Section 7 lists what has no run.

**Promises that are stated and not checked.** Modules name what a comment or a document
promises and the code does not keep, beside the property that says what is kept:
`DlqIsDeadLettered`, `TerminalIsKept`, `KnownTypesBuild`, `BusyAsDocumented`, `DimensionsAdd`,
`HeartbeatKeepsAlive`, `OthersUntouched`, `TriedLocal`, `TenantsApart`, `IdsDistinct`. Each is
violated if it is put in the cfg of its module's run.

## 4. Fairness

- *Outbox* (`outbox_recovery`): a poller that is inside a round goes on, and polls
  again (`WF(PollerStep)`): `register_outbox_tasks` registers the publisher with the
  scheduler, whose loop runs a task again after an exception. Backoffs elapse
  (`WF(BackoffElapsed)`). Aborts are bounded, broker failures are not assumed to
  end: a row that keeps failing is settled by its dead letter.
- *Payment* (`memory`): a coroutine goes on (`WF(WorkerStep)`); the channel repeats a
  notification until it is answered with success, so its check is taken again and
  again, and not always while the order happens to be in another state
  (`SF(CallbackCheck)`); a callback is not cut short for ever between its two
  writes (`SF(CallbackFlow)`).
- *Queue* (`memory`): the loop is started and, after a stop, started again; handlers
  return or raise; timers elapse. Nothing is assumed of how they end: a handler may
  fail for ever.
- *Tasks* (`background`): threads and coroutines go on, a worker takes queued work,
  time passes. Nothing in `src/` calls `scan_dead_tasks`, and the specification assumes
  no fairness of it. So `EndsUp` says without it that a task that returned or raised does
  not stay RUNNING, and only of an application that does scan (`ScansGoOn`, the mechanism
  of `docs/02-开发者指南/11-定时任务与异步任务.md`) that a hanging or cancelled task is declared dead.
- The other components claim no liveness: whether a request ends depends on servers,
  and the timeouts that bound it are actions of the models that may or may not occur.

## 5. Proofs

TLAPS checks each theorem for every value of the constants that satisfies the
assumption named in its module (`OutboxAssumption` etc.; TLC evaluates them too).

**`MemoryProofs`, the outbox** - `OutboxTypeCorrect`, `NothingLost` (`NoLoss`), `RetriesBounded`
(`RetryBudget`), `OutboxIsReliable` (`OutboxSpec => Reliable`). `NoLoss` alone is not
inductive: a poller about to call `mark_sent` must already have its copy at the
broker. `OutboxIInv` adds that (`Confirmed`), that rows not yet written are blank
(`BlankRows`) and that pollers hold ids of written rows (`KnownRecords`). For the
refinement, `InsertRow` maps to `Accept`, a kept publish to `Deliver`, the cleaner
to `Forget`, and everything else leaves the three mapped variables alone.
`AbortsAccount` (`AbortsExplain`) and `SettledStays` (`SettledIsFinal`) are about one
poller, the configuration of `outbox_recovery`: overlapping ones do settle a row twice.
`AloneInv` says that the poller's batch agrees with the rows (`FreshRecords`), that every
copy is one of a counted attempt, of an abort or of the publish in hand (`CopiesCounted`),
that there are no more rows left FAILED than aborts, and that a DLQ row has a dead letter
or one that was swallowed. `NoneStuckInMemory`
(`NoStuckFailed`) is about the store in memory without aborts, whose live records make
the poller that fails last see the full count.

**`MemoryProofs`, payments** - `PaymentTypeCorrect`, `BookingsAreSound` (`BookedIsPaid`),
`PaidOrdersStayOpen` (`NoPaidOrderClosed`), `PaymentsAreRemembered`
(`PaidNotForgotten`), `RefundsAreFull` (`RefundedIsFull`, which no run checks by
itself), `TerminalStays` (`TerminalIsFinal`). What a call does after it has waited is
sound only because of what it learned before is still so: `TaskOK` says what that is (a
close that goes on after the reply: the channel has closed the order; a callback past its
check: the order is paid, in full), and `Lasting` that no step takes it back (closed stays
closed, paid stays paid, a known payment stays known, a refund stays in its amount). Each
step of the proof uses both. `PaymentsAreRemembered` keeps of every payment without flow that
its notice is still sent and what takes it: the state machine or a callback about to write,
until a callback was cut short and all of it refunded (`broken`). `TerminalStays` holds
where stores do not suspend, with prepays repeated at any time: its invariant adds that what
a callback is about to write is still a legal target of the order's state (`TaskCurrent`);
what takes a terminal order back is a prepay that found it open (`TakenBack`).

**`MemoryProofs`, the queue** - `QueueTypeCorrect`, `EffectsHappenOnce` (`EffectOnce`),
`NoMarkLeftBehind` (`CancelledIsPending`, which no run checks by itself),
`QueueNothingLost` (`NoSilentLoss`). `EffectOnce` needs that work done keeps its key
(`EffectKeepsKey`) and that a subscriber at work has done nothing under its key yet
(`AtWork`). `QueueNothingLost` assumes that no two messages share a business id
(`OwnBizIds`): without that the second message is skipped as a repetition of the
first (section 7). Its invariant says why a key is occupied (`KeysExplained`) and that
the subscribers called so far have nothing left to do (`EarlierDone`).

**`RecordsProofs`** - `OnlyPaidIsBooked` (`BookedIsPaid`), `ReversalsHold`
(`ReversalsSound`), `AuditsAccount` (`AuditedBillAccounted`), for any number of rounds,
orders and days; `ReleasesHold` (`ReleasesSound`), for any number of runs and versions.
A round acts on the answer of an earlier query, so `ReconIInv` says of every difference
in hand what its kind tells of flow and channel (`DiffFits`, `RoundFits`), that a
payment found unpaid is held only if it was made since (`paidLate`, `OrderFits`), and that a round never drops a line of its bill without a flow or a mark
(`LineKept`). Flows and states of the channel only grow (`Later`), which keeps one
round's facts while another works. `ReleaseIInv` says that versions on `main` never go
down (`MainRises`), that a tag is at or after a commit of its version (`TagFits`), and
that a run's version is above its base until it is on `main` behind it (`RunFits`).
`SourcesHold` (`SourcesSound`), for any number of sources, tenants, sessions and calls: an
engine with connections is looked for where it is held, whether its source is known or not
(`PoolsHeld`), and a source that was removed is about to be closed by the call that removed
it, or has no engine but those of requests that were late (`SourcesKept`). `ConfigsHold`
(`ConfigsSound`), for any number of codes, readers and upserts and any capacity of the cache:
what is cached, and what a load is about to cache, is what the table says or its key is known
to be stale (`FreshUnlessMissed`); what a refresh waits for is no older than the row was when
it began (`FloorFits`), because a commit makes no key older (`CommitChanges`).
`LimitsAreKept` (`LimitsSound`), for any number of payments, keys and ticks and any limits and
windows: a call that passed a limit was counted in the counter of its day, month or window, so
what was counted is within the limit and within the counter (`DaysFit`, `MonthsFit`). The
counter of a window may be dropped; with windows of an hour at most that happens only after the
window is over (`Fresh`, `WindowsFit`, `SplitsFit`). What a limiter let pass since any of its
requests, and the tokens it has left, is at most its burst and what came back (`BucketFits`).
A sum of amounts is stated as the number of units asked for, which the theorems on finite sets
can speak of.

**`BackgroundProofs`** - `SchedulingHolds` (`SchedulingSound`), `LateLostTheLock`,
`TasksHold` (`TasksSound`), for any number of instances, tasks, calls, threads and
records. A job is worked on once at a time because whoever works holds the key as long
as its lease lasts (`HoldersHaveTokens`) and a key belongs to somebody at work on that
task (`TokensAreHeld`); `LateLostTheLock` says that the exception is no wider than that
(`LateLostTheirs`), and that a task at its limit of failures is paused (`LimitPauses`: one
execution of each kind may still count a failure, hence the limit plus one). For the
executor, the gate is the number of calls on the way to a worker (`GateHeld`), who is in the
queue waits, once (`QueueWaits`), and references into the store lead to live records
(`HeapShape`); for the pool, a pool that is not shut is the shared one (`PoolIInv`).
`OutcomeChangesOnlyByRace` (`OutcomeRace`) is about every step: whatever is in use of a
record - in the store, in a list of a scan, in the hands of a thread - may still be written,
so `RaceIInv` is about all that records in use say of a task. Before it is set RUNNING they
say nothing but PENDING, until it ends itself they can turn to DEAD alone, and then its outcome
changes only under an operation that had read it before (`RaceFits`). This holds of a task
whose id nobody else uses (`Alone`); audits have ids of their own, as `TasksAssumption` says.

**`ServingProofs`** - `ClientCallsHold` and `GuardedCallsHold` (`CallsSound`, for the two
kinds of users of a breaker), `GatewayHolds` (`GatewaySound`). The permits of a half-open
breaker are counted by the probes that run, of which there is always one (`PermitsCounted`):
that is why a breaker is never half-open for ever while its calls end. A guarded call ends with
one result or as refused, after the tries its last result allows (`GuardShape`). In the
gateway the free and the held places and slots of a model add up to its capacity at every
step (`GuardsBalanced`), whoever is cancelled where, and a stream's chunks are those of its
present attempt until it ends (`StreamFits`).

**`SetupProofs`** - `CredentialsHold` (`CredentialsSound`), `SignInHolds`
(`SignInSound`). A login on Redis is a sequence of commands; `TokenInv` accounts for every
device key by a token that is valid, one that has ended, or one that a login under way is
about to replace (`KeysAccounted`), and says that a device with two valid tokens had
overlapping or broken logins (`Undisturbed`). `LockInv` credits every count to failures
(`CountersFit`), every counter without an expiry to a break or to a record under way
(`Timed`), every lock to enough failures (`LocksEarned`), and knows what a check that asks
key after key may still overlook (`ChecksFit`). `SignInInv` is about bindings and who was
told of them, about tokens that are alive in one store and never where they were revoked, and
about requests between the check of a token and its use.
`AssemblyHolds` (`WiredAsDeclared`): `AsmInv` follows a build. What was chosen at a step that
is passed is there, and what it needs of an earlier step was found (`Wired`); the registrar of
an application is made at the seventh step and once (`OneRegistrar`), so that a shutdown that
closes it leaves none behind; and while a registrar is open, each model is in the hands of one
that is open or whose application was shut down since (`ProvidersFit`).

**`PlatformProofs`** - `WebTypeOKHolds`, `IdempotentHolds` (`Idempotent`), for any number of
posts, users and keys and for either store. The property is about answers; its invariant is
about why they are right: a post past authentication is known by the user of its token and
not by what its header claims (`Authenticated`), a handled post is the only holder of its key
(`HoldsKey`), a result lies under the key of the post it came from (`OwnResult`), and in
memory a key that was executed is occupied or remembered, never both (`MemoryRemembers`). The
clause about memory is the one the Redis store violates. `ChannelHolds` (`ChannelTrusted`):
`WechatInv` ties the tries of a call to what was sent of it (`TriesFit`) and the certificates a
call has written or read to the files that are there, unless another process removed one
(`FilesFit`). `UploadsHold` (`UploadsSound`): parts that are marked, or about to be, are there
until somebody begins to remove them (`PartsKept`); whoever removes parts knows what comes after
(`CallersFit`); without overlapping completes one complete is at work (`OneCompletes`), so that
on MinIO what it measures is the object (`MinioKept`). For objects, who is alone finds the
name and the emptied file as when he came (`AloneFits`), which is why the text he leaves is
his own. The assumption says that texts are sequences that are not empty.
`AssembledHolds` (`AssembledInOrder`): the invariant follows the depth-first search. Names
are in the chain once and not while they are visited (`OnceEach`), each visited one is
required by the one before it (`RecursionFits`), which makes a repeated visit a circle of
names that need themselves (`CircleFound`); and while nothing was found wrong, what a name in
the chain requires stands before it (`NothingSkipped`). A finished chain is therefore closed, so
that it holds the least closed set, and the first of a supposed circle in it would need one
before it. In the lifespan what is up is always a prefix of the chain (`LifeFits`). The
assumption says that finitely many extensions are registered.

**`PartsProofs` and `OperationsProofs`** - `BuildsAreAsAsked` (`BuiltAsAsked`) and
`KeptApartAlways` (`KeptApart`), theorems of the specification that the run `operations`
checks. Each part has an invariant of its own; `BuildIInv` and `KeptIInv` conjoin them, and a
step of the whole is a step of one part and none of the others (`BuildSteps`, `KeptSteps`).

*Built as asked.* A write of the version that has come to its step n leaves the new version
in the places before n and the old one in the others (`HalfWritten`), but for the places that
an earlier write left out (`left`); a script that writes its hook has moved a foreign one aside,
and an empty hook is one under way or torn; an environment made for a trial has no older package than
was published when it began. The walk over what capabilities require is a depth-first search:
its stack is a path of names that need each other, each of which stands in the chain or is under
way (`StackFits`), the chain has every name once and behind what it needs unless a circle or
an unknown name was reported (`ChainFits`), and while nothing was registered meanwhile, what was
seen is what is known (`SeenAsKnown`). That the chain holds all that is reachable, and nothing
else, rests on `Reachable`, a least closed set in numbers of steps: a set of numbers that has 0
and with each number the next is Nat (`AllNumbers`), which follows from the pigeonhole
principle and needs no induction theorem. The engine of a key is the one that was built, and
nothing is registered beside it after (`MachinesIInv`); a name means what stands on the shelf of
its registry, and who asks has seen it there (`FactoriesIInv`).

*Kept apart.* No id is beyond the last time and sequence of its generator, and a process that
neither started again nor made two has one generator (`IdsIInv`). Who shares no FileLock has the
handle of his object, and no other, while trying and holding (`LocksIInv`). A look at the peer
of a request finds the same whenever it is taken, because whom it may ask about is kept from the
first time on (`ClientsIInv`). What an ORM session loaded is of the tenant of its context, or
one of the ways it came past the filter is known (`SessionsFit`); what an insert, a change or a
deletion does beyond that tenant is among the ways `TenantIsolated` lists. Who pings Redis does so for the client that is there
(`RedisIInv`). Those who wait for the MongoDB lock stand in line, each wants at least what those
before it want (`QueueFits`), and a model that counts as initialised and uses no current client
is wanted by one of them or has failed (`ModelsFit`). What an open unit of work wrote is in its
transaction, what was cancelled on SQLite is there or kept as a whole, and two open units on
SQLite are beside each other (`UnitsIInv`). What runs was begun at the time noted for it
(`WatchIInv`). The list and the dictionary that the two readers of a URL use find the same value
of a key that is written in one way (`UrlThen`). A message has one copy at the broker, of a
sender that is through with it (`RocketIInv`). A register under way at Nacos is of a port that
was asked for, and a deregister that counts had no register beside it (`NamingIInv`).

The invariants of a module with parts that share no state are proved for the part on its
own, or for the parts side by side (`ExecutorSpec`, `ReconSpec`, ...); the joint
specifications of the `MC` modules move one part at a time and add nothing.

**What the proofs changed in the models.** A CASE had guards that overlapped (`told` of
`ServiceCall`): TLC takes the first one that holds, TLA+ leaves the choice open. A record is in
use also by a call that has yet to look it up (`Shared` of `Tasks`), which the proof of
`OutcomeRace` asked for. `SharesKept` claimed of a weighted balancer that no instance is ever a turn behind its share,
which is so for three instances at most. Constants got the assumptions that the code justifies:
the places of a version are distinct and no foreign hook is called "ours"
(`VersionFilesAssumption`), an audit has no id of a task (`TasksAssumption`), no tenant or
caller is called like the marks for none (`ConnectionsAssumption`, `AddressesAssumption`), and
a parameter of a URL has the name and the form of its key.

**Only model-checked**: the liveness properties (`Settles`, `PaidGetsBooked`,
`GetsSettled`, `EndsUp`), because fairness and ENABLED are out of the prover's reach;
`ConfigurationLayered`; `Measured` and `FoundAndTold` as a whole: most of their parts are about what loops compute for
every input - sums and quantiles of buckets, scores and sorted hits, chunks of texts, shares of
calls, texts filled and parsed. With a recursive function or a fold this is induction over data,
for which the installed provers have no theorem to use. The modules here use no RECURSIVE
operator.

## 6. Abstractions

Time is left out where no property depends on it: a backoff, a delay or a lease elapses
at any moment. Where limits are compared with it (`Limits`, `Scheduling`, `Monitoring`,
ids, watched connections) it is a clock of small numbers. Amounts, tokens and counters
are small integers. Signatures, amount units, message bodies, metrics and logs are left
out unless a property is about them; the audit trail of payments is a side channel whose
failures are swallowed. A partition of the queue is a number that the single worker
ignores. Idempotency keys of messages do not expire (seven days in the code); those of
requests do. The posts of `WebRequests` go to paths that need a token: on a white-listed path
users are not told apart. Risk checks are in `Limits` and not repeated in `PaymentChannel`. Mapped
lines of `PaymentChannel` and `Reconciliation` refer to the in-memory stores, which are
the only ones in the repository. Texts are sequences of a few words, files of a few lines
of a few kinds, floats whole numbers with so many bits. Libraries and servers (SQLAlchemy,
redis-py, PyMongo, httpx, Nacos, Elasticsearch, MinIO, RocketMQ, GitHub, WeChat) are modelled
from how `src/` uses them, and marked external in `map`.

## 7. Observed without a run of their own

The properties hold with these exceptions, or the models reach them. Lines are of this commit.

*Outbox.* A record becomes DLQ although its dead letter was not published
(`outbox_publisher.py:110`, against `outbox_status.py:20`), and nobody sends it again; a crash after
`mark_failed` leaves a FAILED row that no poll reads and no dead letter reports
(`StuckExplained` bounds how many); a paused scheduler task leaves rows PENDING.

*Payment.* A second prepay in flight overwrites SUCCESS by NOTPAY
(`payment_channel_template.py:102`, against `payment_state_machine.py:7`); order and
flow are written separately, and if all is refunded between them the repeated PAY notice is
refused for ever; a repeated refund number is not recognised, because the
lookup is by refund number and flows are keyed by order; a REFUND flow written PENDING
stays PENDING; callbacks of partial refunds are refused by the check of the amount;
`validate_callback` alone updates the order without a flow.

*Reconciliation.* A refunded order's PAY flow is reversed as if never paid
(`reconciliation_service.py:270`, against `:261`); so is one written in error whose order is
paid just then, and its payment can never be booked, because the REVERSED flow keeps the key
and the append that does nothing counts as booked; the audit record counts its
differences before they are filled in; CLOSE flows, which no bill lists, are reversed,
and when a reversal itself is later found without a bill line `reversal_flow` raises, so
that day never gets on record; `_auto_refund_book` appends where a flow already is and
reports success; two concurrent rounds both record a day.

*Queue.* A second message with the same business id is skipped
(`idempotent_consumer.py:76`, against `docs/02-开发者指南/08-消息队列与Outbox.md:150`); a retry
goes to the end of the queue, so the order of messages is not kept; `_retry_counts`
survives a non-retryable failure; of two delayed sends of one id the first timer takes
the message; `stop()` inside a handler leaves its idempotency key. RocketMQ: the
partition that is chosen is logged and not used (`rocketmq_publisher.py:85`); a
cancelled publish is still sent by its thread.

*WeChat pay, bills.* Waiters of the download lock download again (`wechat_pay_client.py:12`
says otherwise); answers without signature headers are accepted unverified; two processes
that share the directory may remove each other's newer certificates; `load` removes a
bill that another process is writing.

*Limits.* Frequency and split limits with windows over an hour are dropped at once
(`docs/02-开发者指南/19-支付.md:510`); counters of shorter windows, days and months are never
cleaned; a burst below 1 is never satisfiable.

*Tasks.* A scan may overwrite SUCCESS by DEAD (`task_executor.py:119`, against
`docs/02-开发者指南/11-定时任务与异步任务.md:133`); `close` lets queued work run although its
docstring says it is not scheduled any more; `get_shared_thread_pool` may return None or
raise beside `shutdown_shared_pool`; two tasks of one id both run and one outcome is
lost; a record that is saved late may be evicted at once, and its task never runs.

*Breaker, retry, HTTP.* Results of an earlier phase decide a half-open one; a fallback
runs on any exception (`circuit_breaker.py:158`, "仅熔断开启时生效"); `_is_retriable_error`
speaks of 5xx and 429 but nothing raises `HTTPStatusError` (`feign_client.py:155`); the
documents show the retry inside the breaker.

*Model gateway.* A rejected quota keeps the scopes it had counted; the usage of a stream
is charged only when its consumer asks once more after the last chunk, and the OpenAI
provider marks every chunk as last; `embed` consumes no tokens (`model_gateway.py:475`);
after a close providers keep closed clients; the key of the answer cache ignores roles
and borders of messages; a context error's "requested" tokens are taken for the budget,
so the retry is as long as what failed. `ModelConfigManager.refresh` may return and cache
an older row, leaves the row cached under `default`, and over Redis the cache raises on
every `get_config`. Providers: a streamed call that is refused, or that ends before its
first chunk, keeps its connection or raises RuntimeError
(`openai_compatible_provider.py:105`, `:133`); overlapping closes lose a client made in
between; `aggregate(("provider",))` is empty (`usage_accounting.py:121`); `fill` replaces inside `{{name}}`, and
refuses values that show a placeholder. `ModelAutoRegistrar` leaves providers open when
a close raises, and the registry goes on naming closed ones. `TokenCounter` caches failed
loads, and makes two instances at two first uses.

*Retrieval.* The engine in memory keeps the caller's dict, whose later changes leave stale
postings; a rewritten vector keeps its old place and may be evicted at once; with the
identity reranker `min_score` filters nothing and a neighbour may displace the hit it
belongs to; `ids_in_order` of the Elasticsearch store sorts by a field that is never
written; the engine's index "vector" is that of the vector store; a client that does not
know `ignore_status` never creates an index; lines of a code block that is not closed are
dropped.

*Web.* Responses made of business exceptions are stored and replayed although the comment
says the key is released; errors of the body or of `set_result`, and cancellation, leave a
key occupied until its time is over; the middleware declared last is outermost;
`wait_for` cancels the source of events when a heartbeat is due, so that the stream ends
after one heartbeat unless the source takes it (`sse.py:82`, against `:7`); cancelled requests are not
counted by `LoggingMiddleware`; `TRUSTED_PROXY_IPS` is read once.

*Storage.* After a failed check `list_uploaded_parts` reports parts whose data is gone;
`cleanup_stale` removes COMPLETED tasks; FAILED is never set; concurrent completes on
MinIO can write a truncated object over the whole one; `complete` on a COMPLETED task
does not check its digest. A local put is not atomic; MinIO takes any error for "absent".

*Security.* After `revoke`, `current_jti` still names the revoked token; an error of the
loop-bound Redis client inside a running loop is answered with None
(`get_current_device_jti`); two overlapping or broken logins on Redis leave two valid
tokens of a device; tokens without device replace each other; refresh tokens survive a
logout; a Redis that is configured after the first use is not looked at; a counter whose
EXPIRE was lost never runs out; a lock may be set after `clear` by a record under way.

*Databases.* `DatabaseManager.close` stops with RuntimeError when `unregister_tenant` runs
beside it; a disposal that raises leaves later engines open; replicas do not get the
tenant filter, nor does SQLite; a statement gets one condition, so that a second model, an
alias, a join or a count reaches all tenants (`tenant_query_filter.py:129`, against `:8`);
UPDATE and DELETE by table skip models below an abstract tenant model; flush checks new and
deleted objects but not changed ones, which may change tenant; a Redis client
that failed its ping is handed out later; a MongoDB transaction uses the client of the
moment, not the one it began with; leaks are reported when the connection comes back. The sessions of the SQLite client share
one connection: two that overlap commit and roll back each other's writes, `health_check`
commits what it finds, and a session that is cancelled leaves its writes to the next one.

*Lifespan, assembly, settings.* A startup hook that fails means that no shutdown hook runs
and nothing is closed; a shutdown hook or close that fails leaves later components open;
the registry of providers and JWTUtil's Redis configuration are shared by all
applications of a process, and survive a failed build; `type=db` for models fails over
MySQL, whose session factory is made later (`mysql_config.py:123`; the property
`KnownTypesBuild` of `Assembly` states what the document says and does not hold). Sections ignore the environment and
lower layers (`docs/03-运维指南/02-配置管理.md:96`); chains of more than three placeholders
stay; an empty value hides lower layers in one kind of configuration and not in the
other; Nacos inside a running loop is silently not asked.

*Capacity, monitoring.* The sampler takes the steal counter for iowait
(`runtime_sampler.py:97`, against `:55`); psutil's share never exists (against `:58`); a collector that fails leaves a partial total; overlapping reports may apply an
older counter after a newer; a second diff that fails counts as unreachable although the
comment says the opposite. The first bucket's quantile is its upper bound; a histogram
that is no duration, or two metrics of one display name, break the page; `pool_metrics`
asks for attributes that do not exist and shows 0.

*Discovery.* With four or more instances one may lag more than a turn behind the share of its
weight; none is ever a turn ahead (`weighted_round_robin_balancer.py`). Two first uses of the
Nacos client make two services, one of which is never shut down; on a bare Linux machine with a
default route the router's address is registered (`nacos_registration.py:49`); nothing renews
instances in memory.

*Ids, locks, numbers.* Two threads' first use makes two snowflake generators of one worker,
which give the same ids, as does a clock that goes back; one `FileLock` object shared by
threads lets both in; `parse_int` reads texts through floats.

*Registries.* `register_instance` after a factory makes the factory unused; a bad router
refuses every later registration. The factory of the Redis cache sets the Redis
configuration of JWTUtil before it makes the cache, also if it then raises; log sinks cannot be
unregistered.

*Scripts.* Two release runs remove each other's branches, a crash between merge and tag
leaves a version without a tag, and a tag may land on a later commit; `find_pull` takes the
newest pull request to main; check runs "skipped" and "neutral" count as failures.
`write_version` that breaks off cannot be repeated; some rules accept 1.0.3-dev0 for 1.0.3;
an uninstall overwrites a foreign hook that stands beside a backup (against
`install_hooks.py:24`), and an install that breaks off leaves an empty hook, kept like a foreign
one; a local trial may get its package from PyPI (`verify_testpypi_install.py:158`, against
`:186`); an old environment is taken for the new package.

## 8. Not modelled, and the plan

Captchas, passwords, permissions and privacy, OAuth formats and the fields of external
platforms are single calls or formats. Caches by themselves are sequential code under one
lock (the one in memory appears in `ModelConfigs`); the message idempotency store on Redis
is one command. The state machine framework is a table lookup (`Targets` of `PaymentChannel`
is its use). Partly modelled parts say in `components` what is left out: signatures and
claims of tokens, costs, `attach` and dispatcher handlers of payments, partitions, queries
and pages, conversions of settings, the percentiles of capacity reports.

Left of the plan:

1. Compositions: `Scheduling` as the source of the overlapping rounds of `Outbox`, and the
   delivery pipeline end to end (outbox, queue, idempotent consumer) against an abstract
   specification of effects that happen at most once.
2. `Credentials` with the refresh of tokens, and captchas.
