---------------------------- MODULE ModelGateway ----------------------------
(* The model gateway (capabilities/ai): ModelGateway.chat, stream_chat and
   embed over the router, the access policy, the quotas, the content
   guard, the result cache, the connection pools and one ConcurrencyGuard
   per model.

   All of it runs on one event loop.  A step ends where a request really
   waits: for a place in the queue of a guard, for an execution slot, for
   the provider, for a backoff, and in a stream for its consumer, who may
   walk away.  A waiter is granted a free slot in any order: the semaphore
   of Python 3.10, which the project supports, is not first come first
   served. *)
EXTENDS Naturals, Sequences, FiniteSets

CONSTANTS Requests,   \* calls of the gateway
          Entry,      \* chat, stream_chat or embed
          Models,     \* logical names
          RouteOf,    \* primary and backups of the request's scene; <<>>: none
          Denied,     \* <<request, model>> pairs the access policy refuses
          Registered, \* models with a provider in ModelProviderRegistry
          ScopesOf,   \* the quota keys of a request: tenant, user, scene
          Scopes,     \* all quota keys
          KeyOf,      \* the key AICache builds for a request
          Keys,
          MaxConcurrency, QueueCapacity, GatewayRetries,
          MaxCalls,   \* max_calls of the quota
          MaxTokens,  \* max_tokens of the quota
          MaxChunks,  \* bound: chunks of one attempt
          MaxWindows  \* bound: quota windows and cache entries that expire

ASSUME GatewayAssumption ==
  /\ Entry \in [Requests -> {"chat", "stream", "embed"}]
  /\ RouteOf \in [Requests -> Seq(Models)] /\ Registered \subseteq Models
  /\ ScopesOf \in [Requests -> Seq(Scopes)] /\ KeyOf \in [Requests -> Keys]
  /\ MaxConcurrency \in Nat \ {0} /\ QueueCapacity \in Nat \ {0}
  /\ GatewayRetries \in Nat /\ MaxCalls \in Nat /\ MaxTokens \in Nat
  /\ MaxChunks \in Nat /\ MaxWindows \in Nat

VARIABLES job,      \* where each request is
          places,   \* free places of each guard (_queue_slots)
          slots,    \* free execution slots of each guard (_execution_slots)
          used,     \* counters of InMemoryQuotaStore
          results,  \* AICache: keys with an answer
          clients,  \* pool clients a provider holds: none, live, closed
          out,      \* the chunks a stream handed to its consumer
          charged,  \* attempts whose tokens a request was charged
          windows   \* expiries so far

gatewayVars == <<job, places, slots, used, results, clients, out, charged,
                 windows>>
guardVars == <<places, slots>>

Stages == {"new", "attach", "attached", "queueing", "placed", "waiting",
           "calling", "yielded", "charging", "backoff"}
Endings == {"answered", "cached", "refused", "failed", "cancelled"}
Attempt == [model : Nat, attempt : Nat]
Chunk == [model : Nat, attempt : Nat, kind : {"delta", "last", "error"}]

At(r) == job[r].at
Current(r) == RouteOf[r][job[r].model]
Primary(r) == job[r].model = 1
Routed(r) == RouteOf[r] # <<>>
HasAccess(r, m) == <<r, m>> \notin Denied
MayUse(r) == HasAccess(r, Current(r))
IsRegistered(m) == m \in Registered
This(r) == [model |-> job[r].model, attempt |-> job[r].attempt]

(* Requests that hold a place of model m's guard, and those that execute. *)
InStage(m, stages) ==
  {r \in Requests : /\ At(r) \in stages
                    /\ job[r].model \in DOMAIN RouteOf[r] /\ Current(r) = m}
Executing == {"calling", "yielded", "charging"}
InQueue == {"placed", "waiting"} \cup Executing

Begun(stage) == [at |-> stage, model |-> 1, attempt |-> 0]

GatewayInit ==
  /\ job = [r \in Requests |-> Begun("new")]
  /\ places = [m \in Models |-> QueueCapacity]
  /\ slots = [m \in Models |-> MaxConcurrency]
  /\ used = [s \in Scopes |-> [calls |-> 0, tokens |-> 0]]
  /\ results = {}
  /\ clients = [m \in Models |-> "none"]
  /\ out = [r \in Requests |-> <<>>]
  /\ charged = [r \in Requests |-> {}]
  /\ windows = 0

----------------------------------------
(* Admission. *)

Goto(r, stage) ==
  job' = [job EXCEPT ![r] = IF stage \in Endings THEN Begun(stage)
                            ELSE [@ EXCEPT !.at = stage]]
Goes(r, stages) == \E stage \in stages : Goto(r, stage)

(* check_and_consume counts first and compares then; the scopes before the
   one that refuses stay charged. *)
Over(s) == \/ MaxCalls > 0 /\ used[s].calls + 1 > MaxCalls
           \/ MaxTokens > 0 /\ used[s].tokens > MaxTokens
Refusing(r) == {i \in DOMAIN ScopesOf[r] : Over(ScopesOf[r][i])}
Reached(r) == {i \in DOMAIN ScopesOf[r] : \A j \in Refusing(r) : i <= j}
Counted(r) == {ScopesOf[r][i] : i \in Reached(r)}
CountCalls(r) ==
  used' = [s \in Scopes |-> IF s \in Counted(r)
                            THEN [used[s] EXCEPT !.calls = @ + 1] ELSE used[s]]

CacheHit(r) == Entry[r] = "chat" /\ KeyOf[r] \in results

(* route, _check_access, _check_quota, _check_input and _try_cache_hit in
   the order of chat; embed knows neither the content guard nor the cache,
   stream_chat not the cache. *)
Admit(r) ==
  /\ At(r) = "new"
  /\ IF ~Routed(r) \/ ~MayUse(r)
     THEN Goto(r, "refused") /\ UNCHANGED used
     ELSE /\ CountCalls(r)
          /\ IF Refusing(r) # {} THEN Goto(r, "refused")
             ELSE IF Entry[r] = "embed" THEN Goto(r, "attach")
             ELSE IF CacheHit(r)
                  THEN Goes(r, {"refused", "cached"})
                  ELSE Goes(r, {"refused", "attach"})
  /\ UNCHANGED <<guardVars, results, clients, out, charged, windows>>

(* A window ends, or an entry of the cache. *)
Expire ==
  /\ windows < MaxWindows /\ windows' = windows + 1
  /\ \/ \E s \in Scopes :
        /\ used[s].calls > 0
        /\ used' = [used EXCEPT ![s] =
                      [calls |-> 0, tokens |-> 0]]
        /\ UNCHANGED results
     \/ \E k \in results : results' = results \ {k} /\ UNCHANGED used
  /\ UNCHANGED <<job, guardVars, clients, out, charged>>

AttachClients(m) ==
  clients' = IF clients[m] = "none" THEN [clients EXCEPT ![m] = "live"]
             ELSE clients

(* The access policy again for a backup, the provider, and the clients of
   the pools once per model. *)
Attach(r) ==
  /\ At(r) = "attach"
  /\ IF ~Primary(r) /\ ~MayUse(r)
     THEN Goto(r, "refused") /\ UNCHANGED clients
     ELSE IF ~IsRegistered(Current(r))
     THEN Goto(r, "failed") /\ UNCHANGED clients
     ELSE /\ Goto(r, "attached")
          /\ AttachClients(Current(r))
  /\ UNCHANGED <<guardVars, used, results, out, charged, windows>>

(* close() at shutdown: the pools close their clients and forget them, the
   providers keep theirs. *)
CloseGateway ==
  /\ \E m \in Models : clients[m] = "live"
  /\ clients' = [m \in Models |-> IF clients[m] = "live" THEN "closed"
                                  ELSE clients[m]]
  /\ UNCHANGED <<job, guardVars, used, results, out, charged, windows>>

----------------------------------------
(* ConcurrencyGuard: a place in the queue, then an execution slot. *)

Take(sem, m) == /\ sem[m] > 0
                /\ sem' = [sem EXCEPT ![m] = @ - 1]
Give(sem, m) == sem' = [sem EXCEPT ![m] = @ + 1]

TakePlace(r) ==
  /\ At(r) \in {"attached", "queueing"}
  /\ Take(places, Current(r)) /\ Goto(r, "placed")
  /\ UNCHANGED <<slots, used, results, clients, out, charged, windows>>

TakeSlot(r) ==
  /\ At(r) \in {"placed", "waiting"}
  /\ Take(slots, Current(r)) /\ Goto(r, "calling")
  /\ UNCHANGED <<places, used, results, clients, out, charged, windows>>

LineUp(r) ==
  /\ \/ At(r) = "attached" /\ places[Current(r)] = 0 /\ Goto(r, "queueing")
     \/ At(r) = "placed" /\ slots[Current(r)] = 0 /\ Goto(r, "waiting")
  /\ UNCHANGED <<guardVars, used, results, clients, out, charged, windows>>

(* A wait that ends without giving back the place it holds: a mutant. *)
DropLineKeepingPlace(r) == At(r) \in {"queueing", "waiting"}
                           /\ UNCHANGED guardVars

(* Leaving the line by timeout or cancellation. *)
DropLine(r) == /\ IF At(r) = "waiting" THEN Give(places, Current(r))
                  ELSE UNCHANGED places
               /\ UNCHANGED slots

(* __aexit__. *)
Leaves(r) == Give(places, Current(r)) /\ Give(slots, Current(r))

----------------------------------------
(* What follows an attempt that failed. *)

Retry(r) == job[r].attempt < GatewayRetries

(* `started` set when the stream is through: a mutant. *)
StartedWhenDone(r) == \E i \in DOMAIN out[r] : out[r][i].kind = "last"

(* A stream that gave something to its consumer is not tried again. *)
Started(r) == out[r] # <<>>

NextModel(r) ==
  IF job[r].model = Len(RouteOf[r]) THEN Goto(r, "failed")
  ELSE job' = [job EXCEPT ![r] = [at |-> "attach", model |-> @.model + 1,
                                  attempt |-> 0]]

(* RATE_LIMITED of the guard is not retryable, and is caught where the
   errors of the provider are.  In embed nothing is caught. *)
Backup(r) == IF Entry[r] = "embed" THEN Goto(r, "failed") ELSE NextModel(r)

GuardTimeout(r) ==
  /\ At(r) \in {"queueing", "waiting"}
  /\ DropLine(r) /\ Backup(r)
  /\ UNCHANGED <<used, results, clients, out, charged, windows>>

Append1(r, kind) ==
  out' = [out EXCEPT ![r] = Append(@, [model |-> job[r].model,
                                       attempt |-> job[r].attempt,
                                       kind |-> kind])]

(* The provider, or the output check of a stream, raises. *)
Raises(r, error) ==
  /\ At(r) = "calling"
  /\ clients[Current(r)] = "closed" => error = "fatal"
  /\ Leaves(r)
  /\ IF error = "rejected" /\ Entry[r] # "embed"
     THEN Goto(r, "refused") /\ UNCHANGED out
     ELSE IF Entry[r] = "stream" /\ Started(r)
     THEN Goto(r, "answered") /\ Append1(r, "error")
     ELSE /\ IF error = "retryable" /\ Retry(r) /\ Entry[r] # "embed"
             THEN Goto(r, "backoff") ELSE Backup(r)
          /\ UNCHANGED out
  /\ UNCHANGED <<used, results, clients, charged, windows>>

BackoffEnds(r) ==
  /\ At(r) = "backoff"
  /\ job' = [job EXCEPT ![r].at = "attached", ![r].attempt = @ + 1]
  /\ UNCHANGED <<guardVars, used, results, clients, out, charged, windows>>

----------------------------------------
(* What follows one that succeeds. *)

(* consume_usage: tokens beyond the limit refuse the next call, not this
   one, and the count of calls stays. *)
Consumed(counter) == [counter EXCEPT !.tokens = @ + 1]

(* A call that reports tokens uses one unit of them in all its scopes. *)
ConsumeUsage(r) ==
  used' = [s \in Scopes |-> IF \E i \in DOMAIN ScopesOf[r] : ScopesOf[r][i] = s
                            THEN Consumed(used[s]) ELSE used[s]]

(* The cost of this attempt is accounted. *)
RecordCost(r) == charged' = [charged EXCEPT ![r] = @ \cup {This(r)}]

(* Only an answer of the primary model is cached. *)
WriteCache(r) == results' = IF Primary(r) THEN results \cup {KeyOf[r]}
                            ELSE results

AnswerComes(r, entry) ==
  /\ At(r) = "calling" /\ Entry[r] = entry
  /\ clients[Current(r)] # "closed"
  /\ Leaves(r)
  /\ UNCHANGED <<clients, out, windows>>

(* _check_output refuses the answer: no retry, no backup, no charge. *)
OutputBlocked(r) ==
  /\ AnswerComes(r, "chat") /\ Goto(r, "refused")
  /\ UNCHANGED <<used, charged, results>>

(* An answer is accounted with the model that gave it, a backup as well. *)
RecordSuccess(r) == RecordCost(r)

(* chat: the charge, and the cache. *)
Answers(r) ==
  /\ AnswerComes(r, "chat") /\ Goto(r, "answered")
  /\ RecordSuccess(r) /\ ConsumeUsage(r) /\ WriteCache(r)

(* embed returns the answer and charges nothing. *)
Embeds(r) ==
  /\ AnswerComes(r, "embed") /\ Goto(r, "answered")
  /\ UNCHANGED <<used, charged, results>>

(* A chunk passed its check and is handed over; only the last one has
   finish_reason and tokens.  (The OpenAI provider gives every chunk a
   finish_reason and no tokens, which charges nothing.) *)
Yields(r, kind) ==
  /\ At(r) = "calling" /\ Entry[r] = "stream"
  /\ clients[Current(r)] # "closed"
  /\ Cardinality({i \in DOMAIN out[r] : out[r][i].attempt = job[r].attempt
                     /\ out[r][i].model = job[r].model}) < MaxChunks
  /\ \A i \in DOMAIN out[r] : out[r][i].kind # "last"
  /\ kind \in {"delta", "last"} /\ Append1(r, kind)
  /\ Goto(r, IF kind = "last" THEN "charging" ELSE "yielded")
  /\ UNCHANGED <<guardVars, used, results, clients, charged, windows>>

(* The consumer asks for more.  Only now the last chunk is charged. *)
Resumes(r) ==
  /\ At(r) \in {"yielded", "charging"} /\ Goto(r, "calling")
  /\ IF At(r) = "charging" THEN RecordCost(r) /\ ConsumeUsage(r)
     ELSE UNCHANGED <<used, charged>>
  /\ UNCHANGED <<guardVars, results, clients, out, windows>>

StreamEnds(r) ==
  /\ At(r) = "calling" /\ Entry[r] = "stream"
  /\ Leaves(r) /\ Goto(r, "answered")
  /\ UNCHANGED <<used, results, clients, out, charged, windows>>

(* The request is cancelled where it waits, or the consumer of a stream
   drops it and the loop closes the generator. *)
CancelRequest(r) ==
  /\ At(r) \in {"queueing", "waiting", "backoff"} \cup Executing
  /\ Goto(r, "cancelled")
  /\ IF At(r) \in Executing THEN Leaves(r)
     ELSE IF At(r) = "backoff" THEN UNCHANGED guardVars ELSE DropLine(r)
  /\ UNCHANGED <<used, results, clients, out, charged, windows>>

----------------------------------------
GatewayNext ==
  \/ Expire \/ CloseGateway
  \/ \E r \in Requests :
       \/ Admit(r) \/ Attach(r) \/ TakePlace(r) \/ TakeSlot(r) \/ LineUp(r)
       \/ GuardTimeout(r) \/ BackoffEnds(r) \/ Answers(r) \/ OutputBlocked(r)
       \/ Embeds(r) \/ Resumes(r) \/ StreamEnds(r) \/ CancelRequest(r)
       \/ \E e \in {"retryable", "fatal", "rejected"} : Raises(r, e)
       \/ \E k \in {"delta", "last"} : Yields(r, k)

GatewaySpec == GatewayInit /\ [][GatewayNext]_gatewayVars

(* Types. *)
GatewayTypeOK ==
  /\ job \in [Requests -> [at : Stages \cup Endings, model : Nat, attempt : Nat]]
  /\ \A r \in Requests :
     /\ job[r].attempt <= GatewayRetries
     /\ Routed(r) => job[r].model \in DOMAIN RouteOf[r]
  /\ places \in [Models -> 0..QueueCapacity]
  /\ slots \in [Models -> 0..MaxConcurrency]
  /\ used \in [Scopes -> [calls : Nat, tokens : Nat]]
  /\ results \subseteq Keys
  /\ clients \in [Models -> {"none", "live", "closed"}]
  /\ out \in [Requests -> Seq(Chunk)]
  /\ charged \in [Requests -> SUBSET Attempt] /\ windows \in 0..MaxWindows

(* Places and slots are neither lost nor made: whatever times out, is
   cancelled, fails or is dropped by its consumer, what is free and what
   is held add up to the capacity of each guard. *)
SlotsConserved ==
  \A m \in Models :
    /\ places[m] + Cardinality(InStage(m, InQueue)) = QueueCapacity
    /\ slots[m] + Cardinality(InStage(m, Executing)) = MaxConcurrency

(* Whatever is retried or handed to a backup, the consumer of a stream
   sees the chunks of one attempt only, nothing after its error chunk, and
   is charged for at most that attempt. *)
StreamFromOneAttempt ==
  \A r \in Requests :
    /\ \A i, j \in DOMAIN out[r] :
       /\ out[r][i].model = out[r][j].model
       /\ out[r][i].attempt = out[r][j].attempt
    /\ \A i \in DOMAIN out[r] : out[r][i].kind = "error" => i = Len(out[r])
    /\ Entry[r] = "stream" /\ charged[r] # {} =>
         /\ Cardinality(charged[r]) = 1
         /\ \E i \in DOMAIN out[r] :
            /\ out[r][i].kind = "last"
            /\ charged[r] = {[model |-> out[r][i].model,
                 attempt |-> out[r][i].attempt]}

(* Whatever times out, fails, is cancelled or dropped, guards keep their
   slots, and a stream is made of one attempt, which alone is charged
   (ModelGateway, ConcurrencyGuard). *)
GatewaySound == GatewayTypeOK /\ SlotsConserved /\ StreamFromOneAttempt
=============================================================================
