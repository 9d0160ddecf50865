----------------------------- MODULE Conversations -----------------------------
(* What is said to a model and what comes back (capabilities/ai): the cache
   of answers and the content guard of ModelGateway, contexts that are too
   long and are cut, tokenizers, and the providers that are made of
   configurations.  A text is a sequence of words, "nl" among them; how long
   a context is, is a number of characters. *)
EXTENDS Integers, Sequences, FiniteSets

LOCAL INSTANCE FiniteSetsExt
LOCAL INSTANCE SequencesExt
LOCAL INSTANCE TLC

CONSTANTS Dialogues,    \* the messages of a request: [role, content]
          Askers,       \* [tenant, user] of a request, each may be ""
          Temperatures, \* a temperature, or "none"
          Words,        \* words a stream is made of
          ModelTexts,   \* answers of models
          BlockRules,   \* pairs of words that block, in one line
          MaxWords,     \* bound: words of a stream
          MaxAsked,     \* bound: requests under way, and answers in the cache
          MaxText, Limits, \* bound: characters; contexts that models take, in tokens
          TokensOf,     \* tokens of the first n characters, of each tokenizer
          MaxAttempts,  \* of ContextWindowRetryPolicy
          Readers, Dirs, MaxLoaded, \* threads, tokenizers and maxsize of their cache
          MaxLoads,     \* bound
          ModelPlans,        \* configurations of registrars: sequences of names
          MaxProvided,  \* bound: providers that are made
          MaxEvents     \* bound: events of a source, and heartbeats

ASSUME ConversationsAssumption ==
  /\ {MaxWords, MaxAsked, MaxText, MaxLoads, MaxProvided, MaxEvents} \subseteq Nat
  /\ Limits \subseteq Nat /\ MaxAttempts \in Nat \ {0} /\ MaxLoaded \in Nat \ {0}
  /\ \A k \in DOMAIN TokensOf : TokensOf[k] \in [0..MaxText -> Nat] /\ TokensOf[k][0] = 0

VARIABLES answers,   \* AICache: the answer of each key
          asking,    \* requests under way
          told,      \* history: the last answer: [to, text, meant, primary]
          stream,    \* of a stream: [at, attempt, buffer, handed, rejected]
          dialogue,  \* a call with a context: [kind, limit, wording, sent, budget, at]
          loaded,    \* the cache of tokenizers: [dir, number], the last used first
          loadedBy,  \* of each thread: [at, dir, number]
          loads, overlaps, \* history: loads so far; directories that were loaded at once
          registry,  \* ModelProviderRegistry._providers: a number of each name
          created,   \* ModelAutoRegistrar._created
          provided,  \* history: all it made, and whether each is open
          closing,   \* closes under way: the place each is at
          overtook,  \* history: two closes overlapped
          pushed     \* an answer of server-sent events: [at, source, made, frames, client]

answerVars == <<answers, asking, told>>
streamVars == <<stream>>
contextVars == <<dialogue>>
tokenizerVars == <<loaded, loadedBy, loads, overlaps>>
registrarVars == <<registry, created, provided, closing, overtook>>
pushVars == <<pushed>>

----------------------------------------
(* RuleBasedContentGuard: a rule is a pair of words with anything but a
   line break between them.  Of an output it warns too, which says nothing
   to the gateway. *)

Blocked(text) ==
  \E i, j \in DOMAIN text :
    i < j /\ <<text[i], text[j]>> \in BlockRules /\ \A k \in i..j : text[k] # "nl"

(* check_input, check_output pass an empty text, which no rule finds. *)
CheckInput(text) == IF Blocked(text) THEN "blocked" ELSE "pass"
CheckOutput(text) == IF Blocked(text) THEN "blocked" ELSE "pass"

----------------------------------------
(* ModelGateway.chat with its cache. *)

ChatRequests == [messages : Dialogues, asker : Askers, temperature : Temperatures]
Nothing == [to |-> "none"]

AnswersInit == answers = <<>> /\ asking = {} /\ told = Nothing

(* _cache_prompt: the contents, a line break between two. *)
CachePrompt(messages) ==
  FoldLeft(LAMBDA text, m : IF text = <<>> THEN m.content ELSE text \o <<"nl">> \o m.content,
           <<>>, messages)

(* A mutant: the tenant is left to the prefix of the key. *)
BuildKeyShared(r) ==
  [prompt |-> CachePrompt(r.messages), user |-> r.asker.user, temperature |-> r.temperature]

(* AICache._build_key: a digest of all this. *)
BuildKey(r) ==
  [prompt |-> CachePrompt(r.messages), tenant |-> r.asker.tenant, user |-> r.asker.user,
   temperature |-> r.temperature]

(* _check_input and _try_cache_hit, AICache.get. *)
AskModel(r) ==
  /\ r \notin asking
  /\ Cardinality(asking) + Cardinality(DOMAIN answers \ {BuildKey(r)}) < MaxAsked   \* bound
  /\ CheckInput(CachePrompt(r.messages)) = "pass"
  /\ IF BuildKey(r) \in DOMAIN answers
     THEN /\ told' = [to |-> r, cached |-> TRUE] @@ answers[BuildKey(r)]
          /\ UNCHANGED <<answers, asking>>
     ELSE asking' = asking \cup {r} /\ UNCHANGED <<answers, told>>

(* A mutant: any model's answer is kept. *)
KeepAny(primary) == TRUE

(* Answers of a backup are not kept. *)
Keeps(primary) == primary

(* _check_output, _write_cache, AICache.set. *)
ModelAnswers(r, text, primary) ==
  LET answer == [text |-> text, meant |-> r, primary |-> primary]
  IN  /\ r \in asking /\ asking' = asking \ {r}
      /\ IF CheckOutput(text) = "blocked" THEN UNCHANGED <<answers, told>>
         ELSE /\ told' = [to |-> r, cached |-> FALSE] @@ answer
              /\ answers' = IF Keeps(primary) THEN (BuildKey(r) :> answer) @@ answers ELSE answers

AnswerExpires(k) ==
  k \in DOMAIN answers /\ answers' = [l \in DOMAIN answers \ {k} |-> answers[l]]
  /\ UNCHANGED <<asking, told>>

AnswersNext ==
  \/ \E r \in ChatRequests : AskModel(r)
  \/ \E r \in asking, text \in ModelTexts, primary \in BOOLEAN : ModelAnswers(r, text, primary)
  \/ \E k \in DOMAIN answers : AnswerExpires(k)

----------------------------------------
(* ModelGateway.stream_chat: what a model says is looked at together with
   what it said before in this attempt, and then handed on. *)

StreamInit == stream = [at |-> "open", attempt |-> 1, buffer |-> <<>>, handed |-> <<>>,
                        rejected |-> <<>>]

(* A mutant: each piece is looked at by itself. *)
LooksAtPiece(piece) == CheckOutput(piece)
LooksAt(piece) == CheckOutput(stream.buffer \o piece)

SaysPiece(piece) ==
  /\ stream.at = "open" /\ Len(stream.handed) + Len(piece) <= MaxWords   \* bound
  /\ stream' = IF LooksAt(piece) = "blocked"
               THEN [stream EXCEPT !.at = "rejected", !.rejected = stream.buffer \o piece]
               ELSE [stream EXCEPT !.buffer = @ \o piece, !.handed = Append(@, piece)]

(* A model fails: it is tried again, unless it had said something. *)
SaysFails ==
  /\ stream.at = "open" /\ stream.attempt < 3   \* bound
  /\ stream' = IF stream.handed # <<>> THEN [stream EXCEPT !.at = "failed"]
               ELSE [stream EXCEPT !.attempt = @ + 1, !.buffer = <<>>]

StreamNext ==
  SaysFails \/ \E text \in UNION {[1..n -> Words] : n \in 1..2} : SaysPiece(text)

----------------------------------------
(* ContextWindowRetryPolicy over TokenCounter and ContextTruncator. *)

(* TokenCounter.count_tokens: with a tokenizer, or 1.3 characters to one. *)
Estimate(n) == IF n = 0 THEN 0 ELSE Max({1, (10 * n) \div 13})
CountTokens(kind, n) == IF kind \in DOMAIN TokensOf THEN TokensOf[kind][n] ELSE Estimate(n)

(* A mutant: what is cut in proportion is taken to fit. *)
TruncateOnce(kind, n, budget) ==
  IF n = 0 \/ budget <= 0 THEN 0
  ELSE IF CountTokens(kind, n) <= budget THEN n
  ELSE Max({(n * budget) \div CountTokens(kind, n), n \div 20, 1})

(* ContextTruncator.truncate: cut in proportion, then by a tenth. *)
Truncate(kind, n, budget) ==
  LET cut == Max({(n * budget) \div CountTokens(kind, n), n \div 20, 1})
      Fit[k \in 0..n] == IF k = 0 \/ CountTokens(kind, k) <= budget THEN k
                         ELSE Fit[Max({(9 * k) \div 10, k - 100})]
  IN  IF n = 0 \/ budget <= 0 THEN 0
      ELSE IF CountTokens(kind, n) <= budget THEN n ELSE Fit[cut]

(* ContextWindowErrorParser.parse of what a provider says; -1 is None. *)
Wordings == {"both", "limit", "vague", "other"}
ParseBudget(wording, tokens, limit) ==
  CASE wording = "both" -> tokens [] wording = "limit" -> limit
    [] wording = "vague" -> 0 [] OTHER -> -1

ContextInit ==
  dialogue \in [kind : DOMAIN TokensOf \cup {"estimate"}, limit : Limits, wording : Wordings,
              length : 0..MaxText, sent : {<<>>}, budget : {-1}, at : {"building"}]

(* The context of an application, which it cuts to a budget. *)
BuildContext ==
  /\ dialogue.at = "building"
  /\ dialogue' = [dialogue EXCEPT !.at = "called", !.sent = Append(@,
       IF dialogue.budget = -1 THEN dialogue.length
       ELSE Truncate(dialogue.kind, dialogue.length, dialogue.budget))]

(* ContextWindowRetryPolicy.run: the model takes it, or says why not. *)
CallWithContext ==
  LET n == dialogue.sent[Len(dialogue.sent)]
      tokens == CountTokens(dialogue.kind, n)
      parsed == ParseBudget(dialogue.wording, tokens, dialogue.limit)
  IN  /\ dialogue.at = "called"
      /\ dialogue' =
           IF tokens <= dialogue.limit THEN [dialogue EXCEPT !.at = "answered"]
           ELSE IF parsed = -1 \/ Len(dialogue.sent) = MaxAttempts
           THEN [dialogue EXCEPT !.at = "failed"]
           ELSE [dialogue EXCEPT !.at = "building",
                               !.budget = IF parsed > 0 THEN parsed
                                          ELSE IF n > 0 THEN Max({tokens \div 2, 1}) ELSE 1]

ContextNext == BuildContext \/ CallWithContext

----------------------------------------
(* _load_tokenizer_impl: an LRU cache, whose lock is not held for a load. *)

TokenizersInit ==
  /\ loaded = <<>> /\ loadedBy = [t \in Readers |-> [at |-> "idle", dir |-> "none", number |-> 0]]
  /\ loads = 0 /\ overlaps = {}

LoadedWithout(cache, d) == SelectSeq(cache, LAMBDA e : e.dir # d)
NumberOf(d) == (CHOOSE e \in ToSet(loaded) : e.dir = d).number
IsLoaded(d) == \E e \in ToSet(loaded) : e.dir = d

LoadTokenizer(t, d) ==
  /\ loadedBy[t].at # "loading" /\ loads < MaxLoads   \* bound
  /\ IF IsLoaded(d)
     THEN /\ loadedBy' = [loadedBy EXCEPT ![t] = [at |-> "has", dir |-> d, number |-> NumberOf(d)]]
          /\ loaded' = <<[dir |-> d, number |-> NumberOf(d)]>> \o LoadedWithout(loaded, d)
          /\ UNCHANGED <<loads, overlaps>>
     ELSE /\ loadedBy' = [loadedBy EXCEPT ![t] = [at |-> "loading", dir |-> d, number |-> 0]]
          /\ overlaps' = IF \E u \in Readers : loadedBy[u].at = "loading" /\ loadedBy[u].dir = d
                         THEN overlaps \cup {d} ELSE overlaps
          /\ UNCHANGED <<loaded, loads>>

(* A mutant: what is loaded goes to the end of the cache. *)
EnteredLast(d, n) == LET all == Append(loaded, [dir |-> d, number |-> n])
                     IN  SubSeq(all, 1, Min({MaxLoaded, Len(all)}))

(* One that was entered meanwhile stays; the one not used longest goes. *)
Entered(d, n) ==
  IF IsLoaded(d) THEN loaded
  ELSE LET all == <<[dir |-> d, number |-> n]>> \o loaded
       IN  SubSeq(all, 1, Min({MaxLoaded, Len(all)}))

(* _load_tokenizer_from_disk; what could not be loaded is None, a number
   below zero, and kept like the others. *)
TokenizerLoaded(t, ok) ==
  LET d == loadedBy[t].dir
      n == IF ok THEN loads + 1 ELSE -(loads + 1)
  IN  /\ loadedBy[t].at = "loading" /\ loads' = loads + 1
      /\ loadedBy' = [loadedBy EXCEPT ![t] = [at |-> "has", dir |-> d, number |-> n]]
      /\ loaded' = Entered(d, n) /\ UNCHANGED overlaps

TokenizersNext ==
  \E t \in Readers :
    \/ \E d \in Dirs : LoadTokenizer(t, d)
    \/ \E ok \in BOOLEAN : TokenizerLoaded(t, ok)

----------------------------------------
(* ModelAutoRegistrar over the registry of the process. *)

RegistrarInit ==
  registry = <<>> /\ created = <<>> /\ provided = <<>> /\ closing = <<>> /\ overtook = FALSE

(* register_configs: the factory of the k-th configuration may raise. *)
RegisterConfigs(plan, k) ==
  LET made == [i \in 1..k |-> Len(provided) + i]
      last(n) == CHOOSE i \in 1..k : plan[i] = n /\ \A j \in i + 1..k : plan[j] # n
  IN  /\ k <= Len(plan) /\ k > 0 /\ Len(provided) + k <= MaxProvided   \* bound
      /\ provided' = provided \o [i \in 1..k |-> "open"]
      /\ created' = created \o made
      /\ registry' = [n \in {plan[i] : i \in 1..k} |-> made[last(n)]] @@ registry
      /\ UNCHANGED <<closing, overtook>>

CloseBeginsAt(c) ==
  /\ c \notin DOMAIN closing /\ closing' = (c :> 1) @@ closing
  /\ overtook' = (overtook \/ DOMAIN closing # {})
  /\ UNCHANGED <<registry, created, provided>>

EndsClose(c) == closing' = [d \in DOMAIN closing \ {c} |-> closing[d]]

(* close: one after another of the list as it is by then, which is cleared
   at the end; an error leaves it as it is. *)
CloseNextProvider(c) ==
  /\ c \in DOMAIN closing /\ closing[c] <= Len(created)
  /\ \/ /\ provided' = [provided EXCEPT ![created[closing[c]]] = "closed"]
        /\ closing' = [closing EXCEPT ![c] = @ + 1]
     \/ UNCHANGED provided /\ EndsClose(c)
  /\ UNCHANGED <<registry, created, overtook>>

(* A mutant: the list is cleared when a close has its first provider. *)
ClearsEarly(c) ==
  /\ c \in DOMAIN closing /\ closing[c] > 1 /\ EndsClose(c) /\ created' = <<>>
  /\ UNCHANGED <<registry, provided, overtook>>

CloseClears(c) ==
  /\ c \in DOMAIN closing /\ closing[c] > Len(created) /\ EndsClose(c) /\ created' = <<>>
  /\ UNCHANGED <<registry, provided, overtook>>

RegistrarNext ==
  \/ \E plan \in ModelPlans : \E k \in 1..Len(plan) : RegisterConfigs(plan, k)
  \/ \E c \in 1..2 : CloseBeginsAt(c) \/ CloseNextProvider(c) \/ CloseClears(c)

----------------------------------------
(* sse_response: events of a source, an asynchronous generator, are handed
   on one by one.  Who waits too long for the next cancels the source,
   which may catch that and go on. *)

PushInit == pushed = [at |-> "looking", source |-> "open", made |-> 0, frames |-> <<>>,
                      client |-> TRUE]

Ending(p) == [p EXCEPT !.at = "closing"]

(* is_disconnected, before each event; a source that has ended has none. *)
LooksForClient ==
  /\ pushed.at = "looking"
  /\ pushed' = IF ~pushed.client \/ pushed.source # "open" THEN Ending(pushed)
               ELSE [pushed EXCEPT !.at = "waiting"]

Handed(p, frame) == [p EXCEPT !.at = "looking", !.frames = Append(@, frame)]

(* The source yields, ends, or raises. *)
SourceYields ==
  /\ pushed.at = "waiting" /\ pushed.made < MaxEvents
  /\ pushed' = Handed([pushed EXCEPT !.made = @ + 1], "event")

SourceStops(as) ==
  /\ pushed.at = "waiting" /\ pushed' = Ending([pushed EXCEPT !.source = as])

(* wait_for times out: what runs in the source is cancelled, and then a
   heartbeat is sent; a source that catches it yields its event instead. *)
Heartbeat(catches) ==
  /\ pushed.at = "waiting" /\ Len(pushed.frames) < MaxEvents + 1
  /\ IF catches THEN pushed.made < MaxEvents
                     /\ pushed' = Handed([pushed EXCEPT !.made = @ + 1], "event")
     ELSE pushed' = Handed([pushed EXCEPT !.source = "cancelled"], "heartbeat")

ClientLeaves == pushed.client /\ pushed.at # "done" /\ pushed' = [pushed EXCEPT !.client = FALSE]

(* The server cancels the answer of a client that has left. *)
AnswerCancelled ==
  /\ ~pushed.client /\ pushed.at \in {"looking", "waiting"}
  /\ pushed' = Ending([pushed EXCEPT !.source = IF pushed.at = "waiting" THEN "cancelled" ELSE @])

(* A mutant: the source is left as it is. *)
CloseSourceNot == pushed.at = "closing" /\ pushed' = [pushed EXCEPT !.at = "done"]

(* finally: aclose. *)
CloseSource ==
  /\ pushed.at = "closing"
  /\ pushed' = [pushed EXCEPT !.at = "done", !.source = IF @ = "open" THEN "closed" ELSE @]

PushNext ==
  \/ LooksForClient \/ SourceYields \/ ClientLeaves \/ AnswerCancelled \/ CloseSource
  \/ \E as \in {"ended", "failed"} : SourceStops(as)
  \/ \E catches \in BOOLEAN : Heartbeat(catches)

----------------------------------------
(* Properties. *)

(* An answer that is handed out passes the rules; one from the cache is an
   answer of the primary model to a request of the same tenant, user and
   parameters with the same text - though perhaps of other roles, or cut
   into other messages (_cache_prompt, AICache._build_key). *)
AnswersBelong ==
  told # Nothing =>
    /\ ~Blocked(told.text)
    /\ told.cached =>
         /\ told.primary
         /\ told.meant.asker = told.to.asker /\ told.meant.temperature = told.to.temperature
         /\ CachePrompt(told.meant.messages) = CachePrompt(told.to.messages)

(* What a stream handed out, taken together, passes the rules, and a
   stream is broken off only for what it said in this attempt
   (stream_chat). *)
StreamClean ==
  /\ ~Blocked(FlattenSeq(stream.handed))
  /\ stream.at = "rejected" =>
       /\ Blocked(stream.rejected) /\ IsPrefix(FlattenSeq(stream.handed), stream.rejected)

(* A context that is cut is one that is not longer, and fits its budget or
   is empty, whatever the tokenizer; so a retry with the limit that a
   provider names succeeds, and one with no number sends at most half of
   what was sent before, or one token.  Nothing of the kind is said where
   the provider names both numbers: the parser takes the tokens requested
   for the limit, and all attempts send the same (ContextTruncator.truncate,
   ContextWindowErrorParser.parse, ContextWindowRetryPolicy.run). *)
RetriesShrink ==
  LET s == dialogue.sent
      Tokens(i) == CountTokens(dialogue.kind, s[i])
  IN  /\ \A i \in 2..Len(s) :
           /\ s[i] <= s[i - 1]
           /\ dialogue.wording = "limit" => Tokens(i) <= dialogue.limit
           /\ dialogue.wording = "vague" => Tokens(i) <= Max({Tokens(i - 1) \div 2, 1})
      /\ dialogue.at = "failed" =>
           \/ dialogue.wording = "other" \/ MaxAttempts = 1
           \/ dialogue.wording # "limit" /\ Len(s) = MaxAttempts

(* Threads that use one directory have one tokenizer, unless it was loaded
   at once or given up; the cache keeps those that were used last
   (_load_tokenizer_impl). *)
TokenizersKept ==
  /\ Len(loaded) <= MaxLoaded
  /\ \A i, j \in DOMAIN loaded : i # j => loaded[i].dir # loaded[j].dir
  /\ \A t \in Readers :
       loadedBy[t].at = "has" /\ IsLoaded(loadedBy[t].dir) =>
         \/ NumberOf(loadedBy[t].dir) = loadedBy[t].number
         \/ loadedBy[t].dir \in overlaps \/ loads > MaxLoaded

(* Providers that are open can be closed, as the registrar has them in its
   list - unless two closes overlapped; the registry goes on to name those
   that were closed (ModelAutoRegistrar.close, register_configs). *)
ProvidersClosable ==
  \/ overtook
  \/ \A p \in DOMAIN provided :
       provided[p] = "open" => \E i \in DOMAIN created : created[i] = p

(* Every event a source made is sent, once and in order, and a source is
   released when its answer is over.  An answer is over before its source
   has ended or failed only when its client has left or, though a heartbeat
   is to keep it alive (sse.py:7), as its last frame is a heartbeat, whose
   wait has cancelled the source (sse_response): HeartbeatKeepsAlive is not
   checked. *)
HeartbeatKeepsAlive ==
  pushed.at = "done" => pushed.source \in {"ended", "failed"} \/ ~pushed.client
EventsSent ==
  /\ Cardinality({i \in DOMAIN pushed.frames : pushed.frames[i] = "event"}) = pushed.made
  /\ pushed.at = "done" =>
       /\ pushed.source \in {"ended", "failed", "closed", "cancelled"}
       /\ pushed.source \in {"ended", "failed"} \/ ~pushed.client
            \/ (pushed.frames # <<>> /\ pushed.frames[Len(pushed.frames)] = "heartbeat")

(* Answers belong to who asked, nothing forbidden is streamed, contexts
   that are retried are not longer, what was made can be closed, and events
   are sent until the source ends, the client leaves or a heartbeat falls
   due. *)
ConversationsSound ==
  AnswersBelong /\ StreamClean /\ RetriesShrink /\ TokenizersKept /\ ProvidersClosable
    /\ EventsSent
=============================================================================
