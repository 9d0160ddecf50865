------------------------------ MODULE Monitoring ------------------------------
(* What a process says of itself (infra/monitoring, infra/web): the counts
   of requests and the samples of slow ones, the alerts of pools that stay
   full, error budgets, the answer to "are you ready", and the page
   /metrics: what it sums up of the requests that were recorded, and which
   metrics it shows where (metrics_html.py). *)
EXTENDS Integers, Sequences, FiniteSets, Bags

LOCAL INSTANCE FiniteSetsExt
LOCAL INSTANCE SequencesExt
LOCAL INSTANCE Functions

CONSTANTS Requests,
          MaxSamples,     \* SLOW_REQUEST_SAMPLE_MAXLEN
          Components,     \* what is asked for its health, one after another
          ProbeOrder, Probes,
          Sustain, History, \* PoolAlertConfig and history_window, in minutes
          MaxUsageSamples,  \* maxlen of the samples
          LastMinute,     \* bound
          Allowed,        \* errors allowed, of how many: <<n, of>>
          MaxCalls,       \* bound: calls that are recorded
          ServiceNames, Routes, Verbs,
          Bounds,       \* HTTP_LATENCY_BUCKETS, in order; above them is +Inf
          Durations,    \* times of requests that are tried
          MaxRecorded,  \* bound: requests
          MaxSlowSql,   \* SLOW_SQL_CACHE_MAXLEN
          Bases,        \* what names of metrics of applications begin with
          BuiltinGroups, \* _METRIC_GROUPS: what they begin with, of each
          GroupNames,   \* names of groups that applications register
          MaxMetrics, MaxProviders \* bounds

ASSUME MonitoringAssumption ==
  /\ MaxSamples \in Nat \ {0} /\ MaxUsageSamples \in Nat \ {0}
  /\ ProbeOrder \in Seq(Components)
  /\ Components \subseteq {ProbeOrder[n] : n \in DOMAIN ProbeOrder} \* all are asked
  /\ Sustain \in Nat /\ History \in Nat /\ LastMinute \in Nat /\ MaxCalls \in Nat
  /\ Allowed \subseteq Nat \X (Nat \ {0})

ASSUME DashboardsAssumption ==
  /\ Bounds \in Seq(Nat) /\ Bounds # <<>> /\ Durations \subseteq Nat
  /\ \A i, j \in 1..Len(Bounds) : i < j => Bounds[i] < Bounds[j]
  /\ {MaxRecorded, MaxSlowSql, MaxMetrics, MaxProviders} \subseteq Nat
  /\ DOMAIN BuiltinGroups \cap {"other"} = {}

VARIABLES request,   \* of each: "new", "inside", and how it ended
          inFlight,  \* HTTP_REQUESTS_IN_FLIGHT
          total, errors, \* HTTP_REQUESTS_TOTAL, HTTP_REQUEST_ERRORS_TOTAL
          slowest,   \* SlowRequestStore: the newest first
          slowOrder, \* history: all slow requests, the newest first
          up,        \* components that would answer
          probe,     \* of each: [next, found, wasUp, wasDown, answer]
          minute,
          usage,     \* _history of a pool: [at, high], the oldest first
          usageSeen, \* history: all of them
          budget,    \* of a service level: [allowed, total, failures]
          recorded,  \* history: the requests there were, a bag
          inside,    \* HTTP_REQUESTS_IN_FLIGHT of each service that had one
          slowSqls,  \* history: all slow statements, the newest first
          slowCache, \* _SLOW_SQL_CACHE
          metrics,   \* metrics of applications in the registry
          providers  \* MetricGroupProviderRegistry._providers

requestVars == <<request, inFlight, total, errors, slowest, slowOrder>>
probeVars == <<up, probe>>
alertVars == <<minute, usage, usageSeen>>
budgetVars == <<budget>>
redVars == <<recorded, inside, slowSqls, slowCache>>
groupVars == <<metrics, providers>>

FirstOf(n, s) == SubSeq(s, 1, IF Len(s) < n THEN Len(s) ELSE n)
LastOf(n, s) == SubSeq(s, IF Len(s) > n THEN Len(s) - n + 1 ELSE 1, Len(s))

----------------------------------------
(* LoggingMiddleware.dispatch. *)

RequestsInit ==
  /\ request = [r \in Requests |-> "new"]
  /\ inFlight = 0 /\ total = 0 /\ errors = 0 /\ slowest = <<>> /\ slowOrder = <<>>

Arrive(r) ==
  /\ request[r] = "new" /\ request' = [request EXCEPT ![r] = "inside"]
  /\ inFlight' = inFlight + 1
  /\ UNCHANGED <<total, errors, slowest, slowOrder>>

Leaves(r, how) ==
  /\ request[r] = "inside" /\ request' = [request EXCEPT ![r] = how]
  /\ inFlight' = inFlight - 1

(* record_http_request. *)
Counted(failed) ==
  /\ total' = total + 1 /\ errors' = errors + (IF failed THEN 1 ELSE 0)

(* SlowRequestStore.record. *)
Sampled(r) == slowest' = FirstOf(MaxSamples, <<r>> \o slowest)

Responds(r, failed, slow) ==
  /\ Leaves(r, IF failed THEN "failed" ELSE "ok") /\ Counted(failed)
  /\ IF slow THEN Sampled(r) /\ slowOrder' = <<r>> \o slowOrder
     ELSE UNCHANGED <<slowest, slowOrder>>

(* An exception is counted and goes on; no sample is taken of it. *)
Raises(r) ==
  /\ Leaves(r, "failed") /\ Counted(TRUE) /\ UNCHANGED <<slowest, slowOrder>>

(* A request that is cancelled is no Exception. *)
Cancelled(r) ==
  /\ Leaves(r, "cancelled") /\ UNCHANGED <<total, errors, slowest, slowOrder>>

RequestsNext ==
  \E r \in Requests :
    \/ Arrive(r) \/ Raises(r) \/ Cancelled(r)
    \/ \E failed, slow \in BOOLEAN : Responds(r, failed, slow)

----------------------------------------
(* /health/ready: _probe_components, with an await for each component. *)

Unasked == [next |-> 1, found |-> {}, wasUp |-> {}, wasDown |-> {}, answer |-> "none"]
ProbesInit == up = Components /\ probe = [p \in Probes |-> Unasked]

(* What the histories of the running probes see. *)
Saw(p, now) == [p EXCEPT !.wasUp = @ \cup now, !.wasDown = @ \cup (Components \ now)]

Turns(c) ==
  /\ up' = (up \ {c}) \cup ({c} \ up)
  /\ probe' = [p \in Probes |-> IF probe[p].answer = "asking" THEN Saw(probe[p], up')
                                ELSE probe[p]]

Ask(p) ==
  /\ probe[p].answer # "asking"
  /\ probe' = [probe EXCEPT ![p] = Saw([Unasked EXCEPT !.answer = "asking"], up)]
  /\ UNCHANGED up

(* _probe_component: an error is DOWN. *)
AskNext(p) ==
  LET c == ProbeOrder[probe[p].next]
  IN  /\ probe[p].answer = "asking" /\ probe[p].next <= Len(ProbeOrder)
      /\ probe' = [probe EXCEPT ![p].next = @ + 1,
                                ![p].found = IF c \in up THEN @ \cup {c} ELSE @]
      /\ UNCHANGED up

(* A mutant: the last component decides. *)
LastDecides(p) ==
  /\ probe[p].answer = "asking" /\ probe[p].next > Len(ProbeOrder)
  /\ probe' = [probe EXCEPT ![p].answer = IF ProbeOrder[Len(ProbeOrder)] \in probe[p].found
                                          THEN "UP" ELSE "DOWN"]
  /\ UNCHANGED up

Answer(p) ==
  /\ probe[p].answer = "asking" /\ probe[p].next > Len(ProbeOrder)
  /\ probe' = [probe EXCEPT ![p].answer = IF probe[p].found = Components THEN "UP"
                                          ELSE "DOWN"]
  /\ UNCHANGED up

ProbesNext ==
  \/ \E c \in Components : Turns(c)
  \/ \E p \in Probes : Ask(p) \/ AskNext(p) \/ Answer(p)

----------------------------------------
(* PoolAlertEvaluator of one pool.  A sample is high or not. *)

AlertsInit == minute = 0 /\ usage = <<>> /\ usageSeen = <<>>

MinutePasses == minute < LastMinute /\ minute' = minute + 1 /\ UNCHANGED <<usage, usageSeen>>

ReportUsage(high) ==
  /\ Len(usageSeen) <= LastMinute   \* bound
  /\ usage' = LastOf(MaxUsageSamples, Append(usage, [at |-> minute, high |-> high]))
  /\ usageSeen' = Append(usageSeen, [at |-> minute, high |-> high])
  /\ UNCHANGED minute

(* reset, when a pool is made anew. *)
Reset == usage # <<>> /\ usage' = <<>> /\ usageSeen' = <<>> /\ UNCHANGED minute

Highest(times) == CHOOSE t \in times : \A u \in times : u <= t
Recent == SelectSeq(usage, LAMBDA s : minute - s.at <= History)

(* A mutant: what counts is the time of the first sample. *)
SinceFirst ==
  LET samples == Recent
  IN  /\ samples # <<>> /\ samples[Len(samples)].high
      /\ minute - samples[1].at >= Sustain

(* evaluate: high now, and no low sample for as long as is asked. *)
Triggered ==
  LET samples == Recent
      low == {samples[n].at : n \in {m \in DOMAIN samples : ~samples[m].high}}
  IN  /\ samples # <<>> /\ samples[Len(samples)].high
      /\ minute - (IF low # {} THEN Highest(low) ELSE samples[1].at) >= Sustain

AlertsNext == MinutePasses \/ Reset \/ \E high \in BOOLEAN : ReportUsage(high)

----------------------------------------
(* ErrorBudgetTracker of one service level. *)

BudgetInit == \E a \in Allowed : budget = [allowed |-> a, total |-> 0, failures |-> 0]

(* register starts to count again. *)
Register(a) == budget' = [allowed |-> a, total |-> 0, failures |-> 0]

RecordSuccess == budget.total < MaxCalls /\ budget' = [budget EXCEPT !.total = @ + 1]

RecordFailure ==
  /\ budget.total < MaxCalls
  /\ budget' = [budget EXCEPT !.total = @ + 1, !.failures = @ + 1]

(* evaluate, budget_exhausted: the share of failures is what is allowed,
   or more; one failure is enough where none is. *)
Exhausted(b) ==
  IF b.allowed[1] = 0 THEN b.failures > 0
  ELSE b.failures * b.allowed[2] >= b.allowed[1] * (IF b.total = 0 THEN 1 ELSE b.total)

BudgetNext == RecordSuccess \/ RecordFailure \/ \E a \in Allowed : Register(a)

----------------------------------------
SumOver(S, f(_)) == MapThenSumSet(f, S)

(* Requests as the page /metrics has them. *)

RequestKinds == [service : ServiceNames, path : Routes, method : Verbs, failed : BOOLEAN,
                 time : Durations]
Recorded == BagToSet(recorded)
Often(k) == IF BagIn(k, recorded) THEN recorded[k] ELSE 0

RedInit ==
  /\ recorded = EmptyBag /\ inside = <<>>
  /\ slowSqls = <<>> /\ slowCache = <<>>

Enters(s) ==
  /\ BagCardinality(recorded) + SumOver(DOMAIN inside, LAMBDA t : inside[t])
       < MaxRecorded   \* bound
  /\ inside' = [t \in DOMAIN inside \cup {s} |->
                  (IF t \in DOMAIN inside THEN inside[t] ELSE 0) + (IF t = s THEN 1 ELSE 0)]
  /\ UNCHANGED <<recorded, slowSqls, slowCache>>

Recording(k) ==
  /\ k.service \in DOMAIN inside /\ inside[k.service] > 0
  /\ inside' = [inside EXCEPT ![k.service] = @ - 1]
  /\ recorded' = recorded (+) SetToBag({k})
  /\ UNCHANGED <<slowSqls, slowCache>>

(* record_slow_sql: the cache is a deque that drops its oldest. *)
SlowSql ==
  /\ Len(slowSqls) <= MaxSlowSql   \* bound
  /\ slowSqls' = <<Len(slowSqls) + 1>> \o slowSqls
  /\ slowCache' = FirstOf(MaxSlowSql, <<Len(slowSqls) + 1>> \o slowCache)
  /\ UNCHANGED <<recorded, inside>>

RedNext ==
  \/ \E s \in ServiceNames : Enters(s)
  \/ \E k \in RequestKinds : Recording(k)
  \/ SlowSql

----------------------------------------
(* histogram_quantile.  A bucket is [upper, cumulative], upper 0 is +Inf;
   q is in hundredths.  What it returns lies in a bucket, by its number. *)

Buckets(requests) ==
  [i \in 1..Len(Bounds) + 1 |->
     SumOver({k \in requests : i > Len(Bounds) \/ k.time <= Bounds[i]}, LAMBDA k : Often(k))]

(* A mutant: the rank is rounded down. *)
QuantileDown(cumulative, q) ==
  LET all == cumulative[Len(cumulative)]
  IN  IF all = 0 THEN 0
      ELSE Min({i \in 1..Len(cumulative) : cumulative[i] >= (q * all) \div 100})

Quantile(cumulative, q) ==
  LET all == cumulative[Len(cumulative)]
  IN  IF all = 0 THEN 0
      ELSE Min({i \in 1..Len(cumulative) : 100 * cumulative[i] >= q * all})

----------------------------------------
(* _collect_http_red.  Each of the four metrics has samples of its own;
   what a service, a path and a method show is summed up from them. *)

Requested(kinds) == SumOver(kinds, LAMBDA k : Often(k))
TimeOf(kinds) == SumOver(kinds, LAMBDA k : Often(k) * k.time)

(* HTTP_REQUESTS_TOTAL is labelled with the class of the status too, the
   other two are not; a label set has a sample once it was used. *)
TotalSamples ==
  {[service |-> k.service, path |-> k.path, method |-> k.method, class |-> k.failed,
    value |-> Requested({l \in Recorded : [l EXCEPT !.time = k.time] = k})] : k \in Recorded}
ErrorSamples ==
  {[service |-> k.service, path |-> k.path, method |-> k.method,
    value |-> Requested({l \in Recorded : l.failed /\ [l EXCEPT !.time = k.time] = k})]
     : k \in {l \in Recorded : l.failed}}
DurationSamples ==
  {LET same == {l \in Recorded : [l EXCEPT !.time = k.time, !.failed = k.failed] = k}
   IN  [service |-> k.service, path |-> k.path, method |-> k.method,
        count |-> Requested(same), sum |-> TimeOf(same), buckets |-> Buckets(same)]
     : k \in Recorded}

(* A mutant: one class of statuses is kept. *)
RedOfOnce(services, paths, methods) ==
  LET Inside(x) == x.service \in services /\ x.path \in paths /\ x.method \in methods
      Total(S) == SumOver({x \in S : Inside(x)}, LAMBDA x : x.value)
      times == {x \in DurationSamples : Inside(x)}
  IN  [total |-> Max({x.value : x \in {y \in TotalSamples : Inside(y)}} \cup {0}),
       errors |-> Total(ErrorSamples),
       sum |-> SumOver(times, LAMBDA x : x.sum), count |-> SumOver(times, LAMBDA x : x.count)]

RedOf(services, paths, methods) ==
  LET Inside(x) == x.service \in services /\ x.path \in paths /\ x.method \in methods
      Total(S) == SumOver({x \in S : Inside(x)}, LAMBDA x : x.value)
      times == {x \in DurationSamples : Inside(x)}
  IN  [total |-> Total(TotalSamples), errors |-> Total(ErrorSamples),
       sum |-> SumOver(times, LAMBDA x : x.sum), count |-> SumOver(times, LAMBDA x : x.count)]

(* _render_http_red_group: the services by their totals, and in each its
   paths, with a row for each method. *)
Shown(s) ==
  [card |-> RedOf({s}, Routes, Verbs),
   inflight |-> IF s \in DOMAIN inside THEN inside[s] ELSE 0,
   paths |-> [p \in {k.path : k \in {l \in Recorded : l.service = s}} |->
                [card |-> RedOf({s}, {p}, Verbs),
                 methods |-> [m \in {k.method : k \in {l \in Recorded : l.service = s /\ l.path = p}}
                                |-> RedOf({s}, {p}, {m})]]]]
ShownServices == {k.service : k \in Recorded} \cup DOMAIN inside

(* _render_overview_cards. *)
Overview ==
  [requests |-> SumOver(TotalSamples, LAMBDA x : x.value),
   inflight |-> SumOver(DOMAIN inside, LAMBDA s : inside[s]),
   errors |-> SumOver(ErrorSamples, LAMBDA x : x.value),
   sum |-> SumOver(DurationSamples, LAMBDA x : x.sum),
   count |-> SumOver(DurationSamples, LAMBDA x : x.count)]

(* _render_slow_sql_detail, get_slow_sql_samples. *)
SlowShown == FirstOf(MaxSlowSql, slowCache)

----------------------------------------
(* Which metrics are shown where.  A metric is [base, ending, kind,
   labels]: its name is the base and the ending. *)

Endings == [gauge |-> {"", "_count", "_created", "_seconds"}, counter |-> {""},
            histogram |-> {"", "_seconds"}]
MetricsOf(b) == UNION {[base : {b}, ending : Endings[k], kind : {k}, labels : {{}, {"l"}}]
                         : k \in DOMAIN Endings}

(* CollectorRegistry.register: no two metrics have a time series in common. *)
Series(x) ==
  {<<x.base, x.ending>>}
    \cup (IF x.kind = "gauge" THEN {}
          ELSE {<<x.base, IF x.ending = "" THEN e ELSE x.ending \o e>>
                  : e \in IF x.kind = "counter" THEN {"_total", "_created"}
                          ELSE {"_bucket", "_count", "_sum", "_created"}})

GroupsInit == metrics = {} /\ providers = <<>>

AddMetric(x) ==
  /\ Cardinality(metrics) < MaxMetrics   \* bound
  /\ \A y \in metrics : Series(x) \cap Series(y) = {}
  /\ metrics' = metrics \cup {x} /\ UNCHANGED providers

(* A mutant: a name that is there is registered again. *)
RegisterProviderAgain(p) ==
  /\ p.prefixes # {} /\ Len(providers) < MaxProviders
  /\ providers' = Append(providers, p) /\ UNCHANGED metrics

(* MetricGroupProviderRegistry.register, unregister. *)
OtherProviders(name) == SelectSeq(providers, LAMBDA p : p.name # name)
RegisterProvider(p) ==
  /\ p.prefixes # {} /\ Len(OtherProviders(p.name)) < MaxProviders   \* bound
  /\ providers' = Append(OtherProviders(p.name), p) /\ UNCHANGED metrics

UnregisterProvider(name) ==
  /\ OtherProviders(name) # providers /\ providers' = OtherProviders(name) /\ UNCHANGED metrics

GroupsNext ==
  \/ \E x \in UNION {MetricsOf(b) : b \in Bases} : AddMetric(x)
  \/ \E p \in [name : GroupNames, prefixes : SUBSET Bases] : RegisterProvider(p)
  \/ \E name \in GroupNames : UnregisterProvider(name)

(* _metric_display_name: what the first sample is called, without what a
   histogram appends; a metric without samples has the name it was given. *)
DisplayName(x) ==
  CASE x.kind = "counter" -> <<x.base, "_total">>
    [] x.kind = "gauge" /\ x.labels # {} /\ x.ending \in {"_count", "_created"} -> <<x.base, "">>
    [] OTHER -> <<x.base, x.ending>>

(* _metric_group: a group of the framework, then one of the application. *)
GroupOf(x) ==
  LET own == {g \in DOMAIN BuiltinGroups : x.base \in BuiltinGroups[g]}
      first == {i \in 1..Len(providers) : x.base \in providers[i].prefixes}
  IN  IF own # {} THEN CHOOSE g \in own : TRUE
      ELSE IF first # {} THEN providers[Min(first)].name ELSE "other"

Members(group) == {x \in metrics : GroupOf(x) = group}
HasData(group) == \E x \in Members(group) : x.labels # {}

(* The groups shown, in order: those of the framework (in any order here),
   those of applications, and what else there is. *)
Sections ==
  LET spi == SelectSeq([i \in 1..Len(providers) |-> providers[i].name],
                       LAMBDA g : g \notin DOMAIN BuiltinGroups /\ HasData(g))
      defined == DOMAIN BuiltinGroups \cup {providers[i].name : i \in 1..Len(providers)}
  IN  SetToSeq({g \in DOMAIN BuiltinGroups : HasData(g)}) \o spi
        \o SetToSeq({g \in {GroupOf(x) : x \in metrics} : g \notin defined /\ HasData(g)})

(* _is_duration_metric; of anything else an infinite bound is turned into
   a whole number, which raises. *)
IsDuration(x) == DisplayName(x)[2] = "_seconds"

(* _render_histogram, _render_metric: a series of a histogram, a row of
   anything else but what ends with _created. *)
Rows(x) == IF x.kind = "gauge" /\ x.ending = "_created" THEN {} ELSE x.labels

(* sorted() of the metrics of a group compares those of one name. *)
Unordered(group) ==
  \E x, y \in Members(group) : x # y /\ DisplayName(x) = DisplayName(y)
Unwritable(x) == x.kind = "histogram" /\ x.labels # {} /\ ~IsDuration(x)

(* render_metrics_html: whether it raises, and what is in which section. *)
PageFails ==
  \E group \in Range(Sections) :
    Unordered(group) \/ \E x \in Members(group) : Unwritable(x)

Page == LET groups == Sections
        IN  [i \in DOMAIN groups |->
               UNION {{<<x, l>> : l \in Rows(x)} : x \in Members(groups[i])}]

----------------------------------------
(* Properties. *)

Ended(how) == Cardinality({r \in Requests : request[r] = how})

(* Every request that ends, however it does, leaves the gauge; all but
   those that were cancelled are counted; and the samples are the newest
   of the slow ones (LoggingMiddleware.dispatch). *)
RequestsCounted ==
  /\ inFlight = Ended("inside")
  /\ total = Ended("ok") + Ended("failed") /\ errors = Ended("failed")
  /\ slowest = FirstOf(MaxSamples, slowOrder)

(* "UP" says of each component that it was up at some time of the probe;
   "DOWN" that one was down (_probe_components). *)
ReadyTrue ==
  \A p \in Probes :
    /\ probe[p].answer = "UP" => probe[p].wasUp = Components
    /\ probe[p].answer = "DOWN" => probe[p].wasDown # {}

(* An alert is raised only when all samples of the time that is asked for
   were high, and there is one; it is not raised late when a sample of
   just then is still there (PoolAlertEvaluator.evaluate). *)
AlertSustained ==
  /\ Triggered =>
       /\ usageSeen # <<>>
       /\ \A n \in DOMAIN usageSeen : usageSeen[n].at > minute - Sustain => usageSeen[n].high
  /\ (\E n \in DOMAIN usage : usage[n].at = minute - Sustain)
     /\ (\A n \in DOMAIN usage : usage[n].high) /\ Sustain <= History => Triggered

(* A failure never gives budget back, and a success never uses it up
   (ErrorBudgetTracker.evaluate, record_success, record_failure). *)
BudgetMonotone ==
  LET then(failed) == [budget EXCEPT !.total = @ + 1, !.failures = @ + failed]
  IN  /\ Exhausted(budget) => Exhausted(then(1))
      /\ ~Exhausted(budget) => ~Exhausted(then(0))

(* The numbers of the page agree with one another and with the requests
   there were, whatever labels each metric has: the cards at the top are
   the sum of the services, a service is the sum of its paths, a path of
   its methods, and none has more errors than requests, or more requests
   than times (_collect_http_red, _render_overview_cards). *)
PageAgrees ==
  LET Sum(f, D) == [total |-> SumOver(D, LAMBDA d : f[d].total),
                    errors |-> SumOver(D, LAMBDA d : f[d].errors),
                    sum |-> SumOver(D, LAMBDA d : f[d].sum),
                    count |-> SumOver(D, LAMBDA d : f[d].count)]
      services == [s \in ShownServices |-> Shown(s).card]
      all == Sum(services, ShownServices)
  IN  /\ Overview = [requests |-> all.total, errors |-> all.errors, sum |-> all.sum,
                     count |-> all.count,
                     inflight |-> SumOver(ShownServices, LAMBDA s : Shown(s).inflight)]
      /\ Overview.requests = Requested(RequestKinds) /\ Overview.sum = TimeOf(RequestKinds)
      /\ \A s \in ShownServices :
           LET paths == Shown(s).paths
           IN  /\ services[s] = Sum([p \in DOMAIN paths |-> paths[p].card], DOMAIN paths)
               /\ \A p \in DOMAIN paths :
                    LET methods == paths[p].methods
                    IN  /\ paths[p].card = Sum(methods, DOMAIN methods)
                        /\ \A m \in DOMAIN methods :
                             methods[m].errors <= methods[m].total
                               /\ methods[m].total = methods[m].count

(* A percentile that is shown lies in the bucket of the request it is
   about: of n requests of a method, the one after which at least q in a
   hundred have ended (histogram_quantile). *)
QuantilesRight ==
  \A x \in DurationSamples, q \in {50, 95, 99} :
    LET same == {k \in Recorded : k.service = x.service /\ k.path = x.path /\ k.method = x.method}
        Within(t) == Requested({k \in same : k.time <= t})
        decisive == Min({k.time : k \in {l \in same : 100 * Within(l.time) >= q * x.count}})
        i == Quantile(x.buckets, q)
    IN  /\ i \in 1..Len(x.buckets)
        /\ i <= Len(Bounds) => decisive <= Bounds[i]
        /\ i > 1 => decisive > Bounds[i - 1]

(* The slow statements shown are the last there were, the newest first. *)
SlowSqlShown == SlowShown = FirstOf(MaxSlowSql, slowSqls)

(* Two metrics called alike, or a histogram that is no duration. *)
Unshowable ==
  \/ \E x, y \in metrics : x # y /\ DisplayName(x) = DisplayName(y)
  \/ \E x \in metrics : Unwritable(x)

(* Either the page raises and nothing at all is shown, which takes two
   metrics that are called alike (a gauge x_count beside x: they cannot be
   sorted) or a histogram that is no duration (it cannot be written); or
   every series of every metric is shown in one section, whatever groups
   applications register, replace and remove, but for those of a gauge
   called x_created, which has no rows (render_metrics_html). *)
ShownOnce ==
  IF PageFails THEN Unshowable
  ELSE LET page == Page
       IN  \A x \in metrics : \A l \in x.labels :
             \/ x.kind = "gauge" /\ x.ending = "_created"
             \/ \E i \in DOMAIN page : \A j \in DOMAIN page : <<x, l>> \in page[j] <=> i = j

(* What is counted, asked and alerted, and what the page shows. *)
MonitoringSound == RequestsCounted /\ ReadyTrue /\ AlertSustained /\ BudgetMonotone

(* What the page shows, when it can be written, was recorded, and is there
   once (metrics_html.py). *)
DashboardsSound == PageAgrees /\ QuantilesRight /\ SlowSqlShown /\ ShownOnce
=============================================================================
