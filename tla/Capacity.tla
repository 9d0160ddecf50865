------------------------------- MODULE Capacity -------------------------------
(* How many requests a process and its cluster serve, and could serve
   (capabilities/capacity): the estimate from the configuration, the
   sampler with its loop, the probe of other instances, and the reports of
   /capacity.  Sampling does not give way to other coroutines; a probe
   waits for every instance, and two reports may probe the same one.

   Counters count requests, and time is left out of rates: a rate is known
   by the requests it was computed from. *)
EXTENDS Integers, FiniteSets, Sequences

CONSTANTS Targets,     \* remote_targets, and the process itself
          Self,
          Reports,     \* requests of /capacity
          Setups,      \* configurations: [web, pools, cpu, limit]
          WindowSize,
          ServedLimit, \* bound: requests each instance serves
          LoopLimit,   \* bound: sampling loops started
          Platforms,   \* "linux", "windows" and others
          MaxTicks,    \* bound: of the processor, of each kind
          MaxAnswered  \* bound: requests of each class

ASSUME CapacityAssumption ==
  /\ Self \in Targets /\ WindowSize \in Nat \ {0}
  /\ ServedLimit \in [Targets -> Nat] /\ LoopLimit \in Nat
  /\ Platforms \subseteq {"linux", "windows", "psutil", "none"}
  /\ MaxTicks \in Nat /\ MaxAnswered \in Nat

VARIABLES served,    \* http_requests_total of each instance
          everServed,\* history: since its first start
          starts,    \* history: how often it started again
          baseline,  \* of each instance: [count, read], the last counter seen
          overtaken, \* history: was an older reading taken up after a newer?
          counted,   \* history: requests all rates were computed from
          window,    \* _samples: how many rates it holds
          report,    \* of each: where it is, and of each instance the
                     \* counter it got, and when that was read
          loops,     \* sampling loops: "running", "cancelled", "failed" or "ended"
          task,      \* _task: the number of a loop, or 0
          estimate,  \* what the configuration comes to
          platform,  \* where a sampler runs
          ticks,     \* of the processor, by kind, and those at the last reading
          responses,  \* requests by class, and those at the last reading
          bases,     \* its bases: [total, busy], or {}, and [requests], or {}
          sampled    \* _samples: [rate, cpu, errors], and what was true:
                     \* [since, misread, spent]

capacityVars == <<served, everServed, starts, baseline, overtaken, counted, window,
                  report, loops, task, estimate>>
samplerVars == <<platform, ticks, responses, bases, sampled>>

Others == Targets \ {Self}
NoRate == -1

(* When a counter was read, for the histories. *)
Moment(t) == everServed[t] + starts[t]

NoBaseline == [count |-> -1, read |-> 0]
Asleep == [at |-> "new", got |-> [t \in Others |-> "none"],
           count |-> [t \in Others |-> NoRate], read |-> [t \in Others |-> 0]]

----------------------------------------
(* StaticEstimator. *)

(* web without workers, and pools that are not assembled, do not count. *)
ComponentLimits(s) == {s.web, s.cpu} \cup s.pools
Known(limits) == {n \in limits : n # NoRate}
Lowest(limits) == CHOOSE n \in limits : \A m \in limits : n <= m

(* estimate: the smallest limit, and no more than the rate limit allows. *)
Estimated(s) ==
  LET most == Lowest(Known(ComponentLimits(s)))
  IN  [limit |-> most,
       effective |-> IF s.limit = NoRate THEN most ELSE Lowest({most, s.limit}),
       limited |-> s.limit # NoRate /\ s.limit < most]

CapacityInit ==
  /\ served = [t \in Targets |-> 0] /\ everServed = [t \in Targets |-> 0]
  /\ starts = [t \in Targets |-> 0]
  /\ baseline = [t \in Targets |-> NoBaseline]
  /\ overtaken = {} /\ counted = [t \in Targets |-> 0]
  /\ window = 0 /\ report = [r \in Reports |-> Asleep]
  /\ loops = <<>> /\ task = 0
  /\ estimate \in {Estimated(s) : s \in Setups}

----------------------------------------
(* Instances serve requests, and start again with a counter of zero. *)

Serve(t) ==
  /\ everServed[t] < ServedLimit[t]
  /\ served' = [served EXCEPT ![t] = @ + 1]
  /\ everServed' = [everServed EXCEPT ![t] = @ + 1]
  /\ UNCHANGED <<starts, baseline, overtaken, counted, window, report, loops,
                 task, estimate>>

Restart(t) ==
  /\ t # Self /\ served[t] > 0 /\ served' = [served EXCEPT ![t] = 0]
  /\ starts' = [starts EXCEPT ![t] = @ + 1]
  /\ UNCHANGED <<everServed, baseline, overtaken, counted, window, report,
                 loops, task, estimate>>

----------------------------------------
(* RuntimeSampler. *)

(* A mutant: the first counter stays the baseline. *)
TakenUpFirst(t, count, read) ==
  IF baseline[t] # NoBaseline THEN UNCHANGED baseline
  ELSE baseline' = [baseline EXCEPT ![t] = [count |-> count, read |-> read]]

(* The last counter is the next baseline, under the lock. *)
TakenUp(t, count, read) ==
  baseline' = [baseline EXCEPT ![t] = [count |-> count, read |-> read]]

(* _diff_qps_locked: none for the first, and none when the counter fell. *)
Rate(t, count) ==
  IF baseline[t] = NoBaseline \/ count < baseline[t].count THEN NoRate
  ELSE count - baseline[t].count

Counts(t, rate) ==
  counted' = IF rate = NoRate THEN counted ELSE [counted EXCEPT ![t] = @ + rate]

Keep(n) == IF n > WindowSize THEN WindowSize ELSE n

(* sample. *)
Sample ==
  LET rate == Rate(Self, served[Self])
  IN  /\ TakenUp(Self, served[Self], Moment(Self)) /\ Counts(Self, rate)
      /\ window' = Keep(window + 1)
      /\ UNCHANGED <<served, everServed, starts, overtaken, estimate>>

(* A mutant: start does not look for a loop of its own. *)
StartAgain ==
  /\ Len(loops) < LoopLimit
  /\ loops' = Append(loops, "running") /\ task' = Len(loops')
  /\ UNCHANGED <<served, everServed, starts, baseline, overtaken, counted, window,
                 report, estimate>>

(* start, which does nothing while its loop runs. *)
Start ==
  /\ Len(loops) < LoopLimit
  /\ task # 0 => loops[task] # "running"
  /\ loops' = Append(loops, "running") /\ task' = Len(loops')
  /\ UNCHANGED <<served, everServed, starts, baseline, overtaken, counted, window,
                 report, estimate>>

(* stop, up to the await; a loop that had failed raises again. *)
Stop ==
  /\ task # 0 /\ task' = 0
  /\ loops' = [loops EXCEPT ![task] = IF @ = "running" THEN "cancelled" ELSE @]
  /\ UNCHANGED <<served, everServed, starts, baseline, overtaken, counted, window,
                 report, estimate>>

(* _run_loop: a loop that was cancelled does not sample again; one whose
   sample raises ends, and stays in _task. *)
LoopSamples(n) ==
  /\ loops[n] = "running" /\ Sample
  /\ UNCHANGED <<report, loops, task>>

LoopEnds(n) ==
  /\ loops[n] \in {"running", "cancelled"}
  /\ loops' = [loops EXCEPT ![n] = IF @ = "cancelled" THEN "ended" ELSE "failed"]
  /\ UNCHANGED <<served, everServed, starts, baseline, overtaken, counted, window,
                 report, task, estimate>>

----------------------------------------
(* CapacityAssessor.assess and RemoteProbe. *)

(* An empty window is filled first; then all others are asked. *)
Assess(r) ==
  /\ report[r].at = "new"
  /\ report' = [report EXCEPT ![r].at = "probing"]
  /\ IF window = 0 THEN Sample
     ELSE UNCHANGED <<served, everServed, starts, baseline, overtaken, counted, window,
                      estimate>>
  /\ UNCHANGED <<loops, task>>

(* An instance answers with its counter of the moment, or does not. *)
FetchCounter(r, t) ==
  /\ report[r].at = "probing" /\ report[r].got[t] = "none"
  /\ \/ report' = [report EXCEPT ![r].got[t] = "sent", ![r].count[t] = served[t],
                                 ![r].read[t] = Moment(t)]
     \/ report' = [report EXCEPT ![r].got[t] = "unreachable"]
  /\ UNCHANGED <<served, everServed, starts, baseline, overtaken, counted, window,
                 loops, task, estimate>>

(* _evaluate_target_snapshot_diff, after the await. *)
TakeUpCounter(r, t) ==
  LET count == report[r].count[t]
      rate == Rate(t, count)
  IN  /\ report[r].got[t] = "sent"
      /\ TakenUp(t, count, report[r].read[t]) /\ Counts(t, rate)
      /\ overtaken' = IF report[r].read[t] < baseline[t].read THEN overtaken \cup {t} ELSE overtaken
      /\ report' = [report EXCEPT ![r].got[t] = "ok", ![r].count[t] = NoRate, ![r].read[t] = 0]
      /\ UNCHANGED <<served, everServed, starts, window, loops, task, estimate>>

(* evaluate, when all have answered: the rates of those that have one are
   added up. *)
Reported(r) ==
  /\ report[r].at = "probing"
  /\ \A t \in Others : report[r].got[t] \in {"ok", "unreachable"}
  /\ report' = [report EXCEPT ![r] = Asleep]
  /\ UNCHANGED <<served, everServed, starts, baseline, overtaken, counted, window,
                 loops, task, estimate>>

CapacityNext ==
  \/ Start \/ Stop
  \/ \E n \in DOMAIN loops : LoopSamples(n) \/ LoopEnds(n)
  \/ \E t \in Targets : Serve(t) \/ Restart(t)
  \/ \E r \in Reports :
       \/ Assess(r) \/ Reported(r)
       \/ \E t \in Others : FetchCounter(r, t) \/ TakeUpCounter(r, t)

----------------------------------------
(* One sampler: what it reads of the registry and of the processor.  Ticks
   of the kernel that are stolen by other machines are no others. *)

TickKinds == {"user", "idle", "iowait", "steal"}
StatusClasses == {"2xx", "5xx"}
AllResponses(f) == f["2xx"] + f["5xx"]
NothingYet == [now |-> [k \in TickKinds |-> 0], last |-> [k \in TickKinds |-> 0]]

SamplerInit ==
  /\ platform \in Platforms /\ ticks = NothingYet
  /\ responses = [now |-> [c \in StatusClasses |-> 0], last |-> [c \in StatusClasses |-> 0]]
  /\ bases = [cpu |-> {}, counter |-> {}] /\ sampled = <<>>

ProcessorTicks(k) ==
  /\ ticks.now[k] < MaxTicks /\ ticks' = [ticks EXCEPT !.now[k] = @ + 1]
  /\ UNCHANGED <<platform, responses, bases, sampled>>

RequestAnswered(c) ==
  /\ responses.now[c] < MaxAnswered /\ responses' = [responses EXCEPT !.now[c] = @ + 1]
  /\ UNCHANGED <<platform, ticks, bases, sampled>>

(* _read_linux: the first seven fields are summed; what is taken for the
   time of waiting is the eighth, that was stolen. *)
ReadLinux(t) ==
  LET total == t["user"] + t["idle"] + t["iowait"]
  IN  {[total |-> total, busy |-> total - (t["idle"] + t["steal"])]}

(* _read_windows: kernel and user time, of which idle time is a part. *)
ReadWindows(t) ==
  {[total |-> t["user"] + t["idle"] + t["iowait"] + t["steal"],
    busy |-> t["user"] + t["iowait"] + t["steal"]]}

(* _read_psutil: a percentage of its own, of a total that never changes. *)
ReadPsutil(t) == {[total |-> 100, busy |-> 100 - t["idle"]]}

(* _read_stats. *)
ReadStats ==
  CASE platform = "linux" -> ReadLinux(ticks.now)
    [] platform = "windows" -> ReadWindows(ticks.now)
    [] platform = "psutil" -> ReadPsutil(ticks.now)
    [] OTHER -> {}

(* A mutant: only the first reading becomes a base. *)
CpuSampleFirst(stats) ==
  [base |-> IF bases.cpu = {} THEN stats ELSE bases.cpu,
   share |-> IF bases.cpu = {} \/ stats = {} THEN {}
             ELSE {[busy |-> x[1].busy - x[2].busy, of |-> x[1].total - x[2].total]
                    : x \in {y \in stats \X bases.cpu : y[1].total > y[2].total}}]

(* CpuSampler.sample: none at first, and none when no time has passed. *)
CpuSample(stats) ==
  [base |-> IF stats = {} THEN bases.cpu ELSE stats,
   share |-> {[busy |-> x[1].busy - x[2].busy, of |-> x[1].total - x[2].total]
               : x \in {y \in stats \X bases.cpu : y[1].total > y[2].total}}]

(* _read_prometheus: what was added up before a collector raised counts;
   shares are then left out. *)
ReadPrometheus(raises, before) ==
  [requests |-> IF raises /\ ~before THEN 0 ELSE AllResponses(responses.now),
   errors |-> IF raises \/ AllResponses(responses.now) = 0 THEN {}
              ELSE {[bad |-> responses.now["5xx"], of |-> AllResponses(responses.now)]}]

(* RuntimeSampler.sample; the newest samples are kept. *)
SamplerSamples(raises, before) ==
  LET read == ReadPrometheus(raises, before)
      cpu == CpuSample(ReadStats)
      sample == [rate |-> {read.requests - c : c \in {x \in bases.counter : x <= read.requests}},
                 cpu |-> cpu.share, errors |-> read.errors,
                 since |-> AllResponses(responses.now) - AllResponses(responses.last),
                 ever |-> AllResponses(responses.now),
                 misread |-> (raises /\ ~before)
                               \/ ~(bases.counter \subseteq {AllResponses(responses.last)}),
                 spent |-> [k \in TickKinds |-> ticks.now[k] - ticks.last[k]]]
  IN  /\ sampled' = IF Len(sampled) < WindowSize THEN Append(sampled, sample)
                    ELSE Append(Tail(sampled), sample)
      /\ bases' = [cpu |-> cpu.base, counter |-> {read.requests}]
      /\ responses' = [responses EXCEPT !.last = responses.now]
      /\ ticks' = [ticks EXCEPT !.last = ticks.now]
      /\ UNCHANGED platform

SamplerNext ==
  \/ \E k \in TickKinds : ProcessorTicks(k)
  \/ \E c \in StatusClasses : RequestAnswered(c)
  \/ \E raises, before \in BOOLEAN : SamplerSamples(raises, before)

----------------------------------------
(* Properties. *)

(* No request is in two rates, unless the answers to two probes overtook
   each other, which sets the baseline back (_diff_qps_locked,
   _evaluate_target_snapshot_diff); restarts of an instance do not. *)
CountedOnce == \A t \in Targets \ overtaken : counted[t] <= everServed[t]

(* A loop that goes on sampling is the one that stop will cancel
   (CapacityAssessor.start, stop). *)
LoopsOwned == \A n \in DOMAIN loops : loops[n] = "running" => n = task

(* A rate is that of the requests since the last sample.  When one of the
   two readings broke off before it came to the counter it is wrong, and
   shown all the same: nothing, or all requests there ever were
   (_read_prometheus).  Errors are no more than requests.  A share of the
   processor is that of the time since the last sample.  On Linux waiting
   counts as work, and stolen time is no part of the time but is taken off
   the work, for what is read as iowait is the field of steal; _read_linux
   and the docstring of sample say otherwise.  With psutil, and without
   it, there is no share (CpuSampler). *)
SamplesTrue ==
  \A i \in DOMAIN sampled :
    LET s == sampled[i]
        used == s.spent["user"] + s.spent["iowait"]
        stolen == s.spent["steal"]
    IN  /\ s.rate \subseteq IF s.misread THEN {0, s.ever} ELSE {s.since}
        /\ \A e \in s.errors : 0 <= e.bad /\ e.bad <= e.of
        /\ platform \notin {"linux", "windows"} => s.cpu = {}
        /\ \A c \in s.cpu :
             c = IF platform = "windows"
                 THEN [busy |-> used + stolen, of |-> used + stolen + s.spent["idle"]]
                 ELSE [busy |-> used - stolen, of |-> used + s.spent["idle"]]

(* "busy = total - idle - iowait" (CpuSampler.sample), which the code does
   not do. *)
BusyAsDocumented ==
  \A i \in DOMAIN sampled : \A c \in sampled[i].cpu :
    platform = "linux" =>
      c.busy = c.of - sampled[i].spent["idle"] - sampled[i].spent["iowait"]

(* Counters are counted once, loops belong to who started them, and what
   samples say is known (RuntimeSampler, CpuSampler, RemoteProbe). *)
CapacitySound == CountedOnce /\ LoopsOwned /\ SamplesTrue
=============================================================================
