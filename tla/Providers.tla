------------------------------ MODULE Providers ------------------------------
(* What is behind the model gateway (capabilities/ai): the provider that
   speaks the protocol of OpenAI, with the answers it reads line by line
   and the clients it makes; the pool of clients; the usage that is
   recorded and saved; and the templates of prompts.

   Coroutines give way where the code awaits.  A generator that nobody
   asks any more is closed later, when it is collected. *)
EXTENDS Naturals, FiniteSets, Sequences
LOCAL INSTANCE SequencesExt
LOCAL INSTANCE FiniteSetsExt

CONSTANTS ModelCalls, MaxConnections, \* calls, and connections of the pool
          MaxDeltas,     \* bound: chunks of a stream
          Closers,       \* callers of OpenAICompatibleProvider.close
          MaxMade,       \* bound: clients that are made
          Seekers,       \* callers of ConnectionPoolManager
          Dimensions, Values, \* group_by of aggregate: model_code, provider, tenant_id, scene
          MaxRecords,    \* bound: calls recorded
          Variables,     \* variables of templates, in the order they are given
          Templates, Given  \* bound: templates, and what variables have as values

ASSUME ProvidersAssumption ==
  /\ MaxConnections \in Nat \ {0} /\ MaxDeltas \in Nat \ {0} /\ MaxMade \in Nat
  /\ IsFiniteSet(Dimensions) /\ IsFiniteSet(Values) /\ MaxRecords \in Nat

VARIABLES call,     \* of each: [kind, at, open, got, code, client]
          provider, \* [own, pooled]: _client, a number or 0, and _stream_client
          made, shut, \* own clients there were, and those that were closed
          closer,   \* of each: the client it is closing, or 0
          overlap,  \* history: did two closes overlap?
          pool,     \* of "stream" and "sync": the client, or 0
          broken,   \* clients of the pool that were closed
          poolMade, \* how many there were
          holder,   \* _lock: "none", or the kind that is being closed
          seeker,   \* of each: [at, kind, client]
          sums,     \* _aggregates: [tokens, calls] of each dimension and value
          records,  \* history: [keys, tokens]
          saving, saved, \* tasks that save records, and what they saved
          lostSave, \* history: was a record not saved?
          prompt    \* [template, values, result]: what fill does

callVars == <<call, provider, made, shut, closer, overlap>>
poolVars == <<pool, broken, poolMade, holder, seeker>>
usageVars == <<sums, records, saving, saved, lostSave>>
promptVars == <<prompt>>

----------------------------------------
(* OpenAICompatibleProvider. *)

NoCall == [kind |-> "none", at |-> "new", open |-> FALSE, got |-> 0, code |-> "none",
           client |-> 0]

CallsInit ==
  /\ call = [c \in ModelCalls |-> NoCall]
  /\ provider = [own |-> 0, pooled |-> FALSE] /\ made = 0 /\ shut = {}
  /\ closer = [k \in Closers |-> 0] /\ overlap = FALSE

(* attach_clients: those of the pool. *)
AttachPooled ==
  /\ ~provider.pooled /\ provider' = [provider EXCEPT !.pooled = TRUE]
  /\ UNCHANGED <<call, made, shut, closer, overlap>>

(* _lazy_client makes a client when there is none, of its own or of the
   pool. *)
Lazy == provider.own = 0 /\ ~provider.pooled
Made == IF Lazy THEN made + 1 ELSE made

(* _get_client: its own first, then the pool's (number 0). *)
Begins(c, kind) ==
  LET client == IF Lazy THEN Made ELSE provider.own
  IN  /\ call[c].at = "new" /\ Made <= MaxMade
      /\ call' = [call EXCEPT ![c] = [NoCall EXCEPT !.kind = kind, !.at = "sending",
                                                    !.client = client]]
      /\ made' = Made /\ provider' = [provider EXCEPT !.own = client]
      /\ UNCHANGED <<shut, closer, overlap>>

(* A call ends; its answer is closed, or stays open. *)
Ends(c, code, open) ==
  /\ call' = [call EXCEPT ![c].at = "ended", ![c].code = code, ![c].open = open]
  /\ UNCHANGED <<provider, made, shut, closer, overlap>>
GoesOn(c, at) ==
  /\ call' = [call EXCEPT ![c].at = at]
  /\ UNCHANGED <<provider, made, shut, closer, overlap>>

InPool == {c \in ModelCalls : call[c].open /\ call[c].client = 0}
HasRoom(c) == call[c].client \notin shut
              /\ (call[c].client = 0 => Cardinality(InPool) < MaxConnections)

(* _post, _raise_for_status and _parse_chat_response: the whole answer. *)
WholeAnswer(c, code) ==
  /\ call[c].at = "sending" /\ call[c].kind # "stream" /\ HasRoom(c)
  /\ Ends(c, code, FALSE)

(* A client that was closed, and a time that is up. *)
NotSent(c) ==
  /\ call[c].at = "sending"
  /\ Ends(c, IF call[c].client \in shut THEN "closed" ELSE "timeout", FALSE)

(* send(stream=True): the answer is open; its lines are still to come. *)
AnswerOpens(c) ==
  /\ call[c].at = "sending" /\ call[c].kind = "stream" /\ HasRoom(c)
  /\ call' = [call EXCEPT ![c].at = "first", ![c].open = TRUE]
  /\ UNCHANGED <<provider, made, shut, closer, overlap>>

(* _raise_for_status: nobody closes this answer. *)
AnswerRefuses(c, code) ==
  /\ call[c].at = "sending" /\ call[c].kind = "stream" /\ HasRoom(c)
  /\ Ends(c, code, TRUE)

Reading(c) == call[c].at \in {"first", "reading"}

(* _raw: a line with a chunk; other lines are passed over. *)
Delta(c) ==
  /\ Reading(c) /\ call[c].got < MaxDeltas
  /\ call' = [call EXCEPT ![c].at = "yielded", ![c].got = @ + 1]
  /\ UNCHANGED <<provider, made, shut, closer, overlap>>

(* A mutant: an answer that cannot be read stays open. *)
StreamFailsOpen(c, code) == Reading(c) /\ Ends(c, code, TRUE)

(* A line that cannot be read, a time that is up, a cancellation: the
   answer is closed by the finally of _raw. *)
StreamFails(c, code) == Reading(c) /\ Ends(c, code, FALSE)

(* [DONE], or the end.  Before the first chunk it is an error: the
   StopAsyncIteration that goes through a generator. *)
StreamEnds(c) ==
  Reading(c) /\ Ends(c, IF call[c].at = "first" THEN "RuntimeError" ELSE "ok", FALSE)

AskForMore(c) == call[c].at = "yielded" /\ GoesOn(c, "reading")

(* A time that was up when more was asked, and a caller that asks no more:
   the generator that has the answer is dropped. *)
DropStream(c) == call[c].at = "yielded" /\ GoesOn(c, "dropped")

Collected(c) == call[c].at = "dropped" /\ Ends(c, "dropped", FALSE)

CancelCall(c) ==
  /\ call[c].at = "sending" /\ Ends(c, "cancelled", FALSE)

(* close, up to and from the await. *)
CloseBegins(k) ==
  /\ provider.own # 0 /\ closer[k] = 0
  /\ closer' = [closer EXCEPT ![k] = provider.own]
  /\ overlap' = (overlap \/ \E j \in Closers : closer[j] # 0)
  /\ UNCHANGED <<call, provider, made, shut>>

CloseEnds(k) ==
  /\ closer[k] # 0 /\ closer' = [closer EXCEPT ![k] = 0]
  /\ shut' = shut \cup {closer[k]} /\ provider' = [provider EXCEPT !.own = 0]
  /\ UNCHANGED <<call, made, overlap>>

Codes == {"rate limited", "unavailable"}
CallsNext ==
  \/ AttachPooled
  \/ \E k \in Closers : CloseBegins(k) \/ CloseEnds(k)
  \/ \E c \in ModelCalls :
       \/ \E kind \in {"chat", "stream"} : Begins(c, kind)
       \/ \E code \in Codes \cup {"ok", "bad"} : WholeAnswer(c, code)
       \/ \E code \in Codes : AnswerRefuses(c, code)
       \/ \E code \in {"bad", "timeout", "cancelled"} : StreamFails(c, code)
       \/ NotSent(c) \/ AnswerOpens(c) \/ Delta(c) \/ StreamEnds(c) \/ AskForMore(c)
       \/ DropStream(c) \/ Collected(c) \/ CancelCall(c)

----------------------------------------
(* ConnectionPoolManager. *)

Kinds == {"stream", "sync"}

PoolInit ==
  /\ pool = [k \in Kinds |-> 0] /\ broken = {} /\ poolMade = 0 /\ holder = "none"
  /\ seeker = [g \in Seekers |-> [at |-> "idle", kind |-> "sync", client |-> 0]]

Gets(g, at, kind, client) == seeker' = [seeker EXCEPT ![g] = [at |-> at, kind |-> kind,
                                                              client |-> client]]

(* get_stream_client, get_sync_client: without the lock first. *)
GetClient(g, kind) ==
  /\ seeker[g].at # "waiting"
  /\ IF pool[kind] = 0 THEN Gets(g, "waiting", kind, 0) ELSE Gets(g, "got", kind, pool[kind])
  /\ UNCHANGED <<pool, broken, poolMade, holder>>

(* A mutant: it does not look again with the lock. *)
BuildClientAgain(g) ==
  LET kind == seeker[g].kind
  IN  /\ seeker[g].at = "waiting" /\ holder = "none" /\ poolMade < MaxMade
      /\ pool' = [pool EXCEPT ![kind] = poolMade + 1] /\ poolMade' = poolMade + 1
      /\ Gets(g, "got", kind, pool'[kind]) /\ UNCHANGED <<broken, holder>>

BuildClient(g) ==
  LET kind == seeker[g].kind
  IN  /\ seeker[g].at = "waiting" /\ holder = "none"
      /\ \/ pool[kind] # 0 /\ UNCHANGED <<pool, poolMade>>
         \/ /\ pool[kind] = 0 /\ poolMade < MaxMade /\ poolMade' = poolMade + 1
            /\ pool' = [pool EXCEPT ![kind] = poolMade + 1]
      /\ Gets(g, "got", kind, pool'[kind]) /\ UNCHANGED <<broken, holder>>

(* close: the one client, then the other; an error leaves the rest. *)
ClosePool ==
  /\ holder = "none" /\ holder' = "stream" /\ UNCHANGED <<pool, broken, poolMade, seeker>>

ClientCloses ==
  /\ holder \in Kinds /\ broken' = broken \cup ({pool[holder]} \ {0})
  /\ IF holder = "stream" THEN holder' = "sync" /\ UNCHANGED pool
     ELSE holder' = "none" /\ pool' = [k \in Kinds |-> 0]
  /\ UNCHANGED <<poolMade, seeker>>

CloseRaises ==
  /\ holder \in Kinds /\ pool[holder] # 0 /\ holder' = "none"
  /\ UNCHANGED <<pool, broken, poolMade, seeker>>

PoolNext ==
  \/ ClosePool \/ ClientCloses \/ CloseRaises
  \/ \E g \in Seekers : BuildClient(g) \/ \E kind \in Kinds : GetClient(g, kind)

----------------------------------------
(* UsageAccounting.  Tokens stand for costs, too. *)

(* _aggregate_keys: there is none for the provider. *)
Kept == Dimensions \ {"provider"}
Unused == [v \in Values |-> [tokens |-> 0, calls |-> 0]]

UsageInit ==
  /\ sums = [d \in Kept |-> Unused]
  /\ records = <<>> /\ saving = {} /\ saved = {} /\ lostSave = FALSE

(* A mutant: a dimension that is empty is left out. *)
AddedToMost(keys, tokens) ==
  sums' = [d \in Kept |->
    IF keys[d] = "" THEN sums[d]
    ELSE [sums[d] EXCEPT ![keys[d]] = [tokens |-> @.tokens + tokens, calls |-> @.calls + 1]]]

(* The sums of every dimension that is kept. *)
AddedTo(keys, tokens) ==
  sums' = [d \in Kept |->
    [sums[d] EXCEPT ![keys[d]] = [tokens |-> @.tokens + tokens, calls |-> @.calls + 1]]]

(* aggregate, grouped by one dimension. *)
Aggregate(d) == IF d \in Kept THEN sums[d] ELSE Unused

(* record: a task saves it, if there is a loop. *)
RecordUsage(keys, tokens, loop) ==
  /\ Len(records) < MaxRecords /\ AddedTo(keys, tokens)
  /\ records' = Append(records, [keys |-> keys, tokens |-> tokens])
  /\ saving' = IF loop THEN saving \cup {Len(records')} ELSE saving
  /\ lostSave' = (lostSave \/ ~loop) /\ UNCHANGED saved

SaveRuns(n) ==
  /\ n \in saving /\ saving' = saving \ {n} /\ saved' = saved \cup {n}
  /\ UNCHANGED <<sums, records, lostSave>>

(* Nobody waits for the task: an error, and the end of the loop. *)
SaveLost(n) ==
  /\ n \in saving /\ saving' = saving \ {n} /\ lostSave' = TRUE
  /\ UNCHANGED <<sums, records, saved>>

UsageNext ==
  \/ \E keys \in [Dimensions -> Values], tokens \in 0..1, loop \in BOOLEAN :
       RecordUsage(keys, tokens, loop)
  \/ \E n \in saving : SaveRuns(n) \/ SaveLost(n)

----------------------------------------
(* PromptTemplateFiller.  A text is a sequence of pieces: "text", "slot"
   ({name}), "double" ({{name}}), and "kept", a slot of a value. *)

Piece(kind, name) == [kind |-> kind, name |-> name]
As(piece, kind) == [piece EXCEPT !.kind = kind]

(* extract_variables. *)
Extracted(text) == {text[n].name : n \in {m \in DOMAIN text : text[m].kind = "slot"}}

(* _protect_nested_placeholders, and back. *)
Protected(text) == [n \in DOMAIN text |-> IF text[n].kind = "slot" THEN As(text[n], "kept")
                                          ELSE text[n]]
Restored(text) == [n \in DOMAIN text |-> IF text[n].kind = "kept" THEN As(text[n], "slot")
                                         ELSE text[n]]

(* What {value} is, for a value of one piece. *)
Braced(value) ==
  IF value # <<>> /\ value[1].kind = "text" /\ value[1].name \in ToSet(Variables)
  THEN <<As(value[1], "slot")>>
  ELSE <<Piece("text", "{")>> \o value \o <<Piece("text", "}")>>

(* replace: in {{name}} it finds {name}, too. *)
Replace(text, name, value) ==
  FlattenSeq([n \in DOMAIN text |->
    IF text[n] = Piece("slot", name) THEN value
    ELSE IF text[n] = Piece("double", name) THEN Braced(value) ELSE <<text[n]>>])

(* A mutant: values are not protected. *)
FilledAgain(template, values) ==
  FoldLeft(LAMBDA text, v : IF v \in DOMAIN values THEN Replace(text, v, values[v]) ELSE text,
           template, Variables)

(* The replacements of fill. *)
Filled(template, values) ==
  Restored(FoldLeft(LAMBDA text, v : IF v \in DOMAIN values
                                     THEN Replace(text, v, Protected(values[v])) ELSE text,
                    template, Variables))

PromptInit ==
  \E t \in Templates, g \in Given :
    prompt = [template |-> t, values |-> g, result |-> <<>>, at |-> "new"]

Fill ==
  LET result == Filled(prompt.template, prompt.values)
      remaining == Extracted(result) \cap Extracted(prompt.template)
  IN  /\ prompt.at = "new"
      /\ prompt' = [prompt EXCEPT !.result = result,
                                  !.at = IF remaining = {} THEN "ok" ELSE "ValueError"]

PromptNext == Fill

----------------------------------------
(* Properties. *)

(* Who holds a connection is a stream that is read, or was and is asked no
   more, which holds it until its generator is collected; or a stream that
   was refused, whose answer is never closed, so that it holds one for
   ever.  These two are the leaks, and there is no other (stream_chat). *)
StreamsReleased ==
  \A c \in ModelCalls :
    call[c].open =>
      /\ call[c].kind = "stream"
      /\ \/ Reading(c) \/ call[c].at \in {"yielded", "dropped"}
         \/ call[c].at = "ended" /\ call[c].code \in Codes

(* Clients that a provider made are closed, or the one it uses, unless two
   closes overlap: the second then drops a client made after the first
   (close, _lazy_client).  The pool has one open client of each kind, and
   hands out a closed one only while, or after, it is closed (close,
   get_stream_client). *)
ClientsKept ==
  /\ overlap \/ (1..made) \ shut \subseteq {provider.own}
  /\ (1..poolMade) \ broken \subseteq {pool[k] : k \in Kinds}
  /\ \A k \in Kinds : pool[k] \in broken => holder # "none" \/ pool["sync"] \notin broken

(* The sums of a dimension that is kept are those of all records, so that
   all of them agree; and once all tasks have run and none was lost, they
   are those of what was saved.  Asked for the providers, aggregate tells
   of nothing used, though its docstring offers them (record, aggregate,
   _aggregate_keys): DimensionsAdd is not checked. *)
TokensOfRecords(set) == MapThenSumSet(LAMBDA n : records[n].tokens, set)
AddsUp(d) ==
  /\ MapThenSumSet(LAMBDA v : Aggregate(d)[v].tokens, Values) = TokensOfRecords(DOMAIN records)
  /\ MapThenSumSet(LAMBDA v : Aggregate(d)[v].calls, Values) = Len(records)
DimensionsAdd == \A d \in Dimensions : AddsUp(d)
UsageAdds ==
  /\ \A d \in Kept : AddsUp(d)
  /\ saving = {} /\ ~lostSave => TokensOfRecords(saved) = TokensOfRecords(DOMAIN records)

(* A template without double braces has every slot that is given replaced
   once, whatever its value contains, and passes only when all are given.
   One is refused though all are given only when a value shows the name of
   a slot, which the protection of values was to allow
   (prompt_template_filler.py:7): fill looks at the whole result. *)
FillOnce ==
  LET t == prompt.template
      v == prompt.values
  IN  prompt.at # "new" /\ (\A n \in DOMAIN t : t[n].kind # "double") =>
        /\ prompt.result = FlattenSeq([n \in DOMAIN t |->
             IF t[n].kind = "slot" /\ t[n].name \in DOMAIN v THEN v[t[n].name] ELSE <<t[n]>>])
        /\ prompt.at = "ok" => Extracted(t) \subseteq DOMAIN v
        /\ prompt.at = "ValueError" =>
             \E n \in Extracted(t) :
               n \notin DOMAIN v \/ \E m \in Extracted(t) \cap DOMAIN v : n \in Extracted(v[m])

(* Connections are held by streams only, clients are kept and closed, usage
   adds up in what is kept of it, and templates are filled once. *)
ProvidersSound == StreamsReleased /\ ClientsKept /\ UsageAdds /\ FillOnce
=============================================================================
