------------------------------ MODULE Utilities ------------------------------
(* The utilities (infra/utils).  Two of them keep state: snowflake ids,
   whose generator is found, or made, without a lock and works under its
   own, and file locks, a lock being a handle of a file, which the object
   keeps.  The arithmetic (MathUtil, DataUtil) is over samples that a
   caller puts together: quotients are kept as numerators and
   denominators, proportions and percentiles as whole percents, decimals
   as whole numbers of their last place; a float is a whole number with so
   many bits. *)
EXTENDS Integers, Sequences, FiniteSets
LOCAL INSTANCE SequencesExt
LOCAL INSTANCE TLC

CONSTANTS IdThreads, IdProcess,  \* threads, and the process of each
          IdProcesses, Worker,   \* SNOWFLAKE_WORKER_ID of each process
          MaxSequence,           \* MAX_SEQUENCE
          MaxTime,               \* bound: milliseconds
          MaxIds,                \* bound: ids that are made
          LockUsers, LockObject, \* users of one file, and the FileLock of each
          MaxHandles,            \* bound: handles that are opened
          Numerals,              \* bound: the numbers of a sample
          MaxSample,             \* bound: how many
          Percents,              \* bound: percentiles and proportions asked for
          Bits,                  \* of a float
          Kilo, Units,           \* bytes in a kilobyte, and units there are
          Addresses, PrivateNets, \* of hosts, and those of private or reserved networks
          DefaultCidrs, AllowedCidrs, \* DEFAULT_ALLOWED_CIDRS, and allowed_cidrs
          ProxyLists,            \* values of TRUSTED_PROXY_IPS
          Paths, Claims          \* proxies on the way; headers that clients bring

ASSUME UtilitiesAssumption ==
  /\ IdProcess \in [IdThreads -> IdProcesses] /\ Worker \in [IdProcesses -> Nat]
  /\ MaxSequence \in Nat /\ MaxTime \in Nat /\ MaxIds \in Nat /\ MaxHandles \in Nat

ASSUME NumbersAssumption ==
  /\ Numerals \subseteq Int /\ MaxSample \in Nat /\ Percents \subseteq 0..100
  /\ Bits \in Nat /\ Kilo \in Nat \ {0, 1} /\ Units \in Nat \ {0}

ASSUME AddressesAssumption ==
  /\ PrivateNets \cup DefaultCidrs \cup AllowedCidrs \cup UNION ProxyLists \subseteq Addresses
  /\ DefaultCidrs \subseteq PrivateNets /\ Paths \subseteq Seq(Addresses)
  /\ "none" \notin Addresses

VARIABLES now,        \* the clock of the machines
          generators, \* of each: [process, last, sequence, lock]
          current,    \* _snowflake of each process: a generator, or 0
          thread,     \* of each: [at, using]
          ids,        \* history: [generator, worker, time, sequence], in order
          twice,      \* history: processes that made a generator too many
          again,      \* history: processes that started again
          handle,     \* _lock_file of each object, or 0
          opened,     \* handles that are open
          lockedBy,   \* the handle that has the lock of the file, or 0
          user,       \* of each: where it is, and its last handle
          sample,     \* the numbers a caller has
          limit,      \* a number that is asked about
          proxyEnv,   \* TRUSTED_PROXY_IPS
          proxyCache, \* _get_extra_trusted_proxy_networks: a set in a set, or {}
          guarded,    \* the guard: [enabled, production]
          arrived,    \* a request: [at, sender, path, peer, real, forwarded]
          resolved    \* what its looks found: texts of addresses

idVars == <<now, generators, current, thread, ids, twice, again>>
lockVars == <<handle, opened, lockedBy, user>>
numberVars == <<sample, limit>>
clientVars == <<proxyEnv, proxyCache, guarded, arrived, resolved>>

----------------------------------------
(* SnowflakeUtil. *)

IdsInit ==
  /\ now = 1 /\ generators = <<>> /\ current = [p \in IdProcesses |-> 0]
  /\ thread = [t \in IdThreads |-> [at |-> "idle", using |-> 0]]
  /\ ids = <<>> /\ twice = {} /\ again = {}

(* The clock goes on, or is set back. *)
Tick ==
  /\ now' \in {now + 1, now - 1} \cap 0..MaxTime
  /\ UNCHANGED <<generators, current, thread, ids, twice, again>>

Goes(t, at, g) == thread' = [thread EXCEPT ![t] = [at |-> at, using |-> g]]

(* _get_snowflake: one that is there is used, *)
Look(t) ==
  /\ thread[t].at = "idle"
  /\ IF current[IdProcess[t]] = 0 THEN Goes(t, "making", 0)
     ELSE Goes(t, "found", current[IdProcess[t]])
  /\ UNCHANGED <<now, generators, current, ids, twice, again>>

(* or else one is made: SnowflakeUtil.__init__. *)
Make(t) ==
  LET p == IdProcess[t]
  IN  /\ thread[t].at = "making"
      /\ generators' = Append(generators, [process |-> p, last |-> -1, sequence |-> 0,
                                           lock |-> FALSE])
      /\ current' = [current EXCEPT ![p] = Len(generators')]
      /\ twice' = IF current[p] = 0 THEN twice ELSE twice \cup {p}
      /\ Goes(t, "made", 0) /\ UNCHANGED <<now, ids, again>>

(* The one that is there now, which another thread may have made. *)
Take(t) ==
  /\ thread[t].at = "made" /\ Goes(t, "found", current[IdProcess[t]])
  /\ UNCHANGED <<now, generators, current, ids, twice, again>>

Issue(g, time, sequence) ==
  /\ generators' = [generators EXCEPT ![g].last = time, ![g].sequence = sequence,
                                      ![g].lock = FALSE]
  /\ ids' = Append(ids, [generator |-> g, worker |-> Worker[generators[g].process],
                         time |-> time, sequence |-> sequence])

(* next_id: an error when the clock is behind, and a wait with the lock
   held when a millisecond is used up. *)
NextId(t) ==
  LET g == thread[t].using
      x == generators[g]
      next == (x.sequence + 1) % (MaxSequence + 1)
  IN  /\ thread[t].at = "found" /\ ~x.lock /\ Len(ids) < MaxIds
      /\ \/ now < x.last /\ Goes(t, "idle", 0) /\ UNCHANGED <<generators, ids>>
         \/ now > x.last /\ Issue(g, now, 0) /\ Goes(t, "idle", 0)
         \/ now = x.last /\ next # 0 /\ Issue(g, now, next) /\ Goes(t, "idle", 0)
         \/ /\ now = x.last /\ next = 0 /\ Goes(t, "waiting", g)
            /\ generators' = [generators EXCEPT ![g].lock = TRUE, ![g].sequence = 0]
            /\ UNCHANGED ids
      /\ UNCHANGED <<now, current, twice, again>>

(* A mutant: the wait is over when the millisecond is not. *)
WaitedTooShort(t) ==
  LET g == thread[t].using
  IN  /\ thread[t].at = "waiting" /\ now >= generators[g].last
      /\ Issue(g, now, 0) /\ Goes(t, "idle", 0)
      /\ UNCHANGED <<now, current, twice, again>>

(* _wait_next_millis. *)
Waited(t) ==
  LET g == thread[t].using
  IN  /\ thread[t].at = "waiting" /\ now > generators[g].last
      /\ Issue(g, now, 0) /\ Goes(t, "idle", 0)
      /\ UNCHANGED <<now, current, twice, again>>

(* A process starts again: the last time is not kept anywhere. *)
ProcessRestarts(p) ==
  /\ current[p] # 0 /\ p \notin again
  /\ current' = [current EXCEPT ![p] = 0] /\ again' = again \cup {p}
  /\ thread' = [t \in IdThreads |-> IF IdProcess[t] = p THEN [at |-> "idle", using |-> 0]
                                    ELSE thread[t]]
  /\ UNCHANGED <<now, generators, ids, twice>>

IdsNext ==
  \/ Tick
  \/ \E t \in IdThreads : Look(t) \/ Make(t) \/ Take(t) \/ NextId(t) \/ Waited(t)
  \/ \E p \in IdProcesses : ProcessRestarts(p)

----------------------------------------
(* FileLock over flock.  A handle is a number that is not used again. *)

LocksInit ==
  /\ handle = [o \in {LockObject[u] : u \in LockUsers} |-> 0]
  /\ opened = {} /\ lockedBy = 0
  /\ user = [u \in LockUsers |-> [at |-> "idle", last |-> 0]]

Handles == {user[u].last : u \in LockUsers} \cup opened
UserAt(u, at) == user' = [user EXCEPT ![u].at = at]

(* acquire: the handle of the object is replaced. *)
OpenFile(u) ==
  LET new == 1 + CHOOSE h \in Handles \cup {0} : \A k \in Handles : k <= h
  IN  /\ user[u].at = "idle" /\ new <= MaxHandles
      /\ opened' = opened \cup {new}
      /\ handle' = [handle EXCEPT ![LockObject[u]] = new]
      /\ user' = [user EXCEPT ![u] = [at |-> "trying", last |-> new]]
      /\ UNCHANGED lockedBy

(* flock of the handle the object has now, which fails with a TypeError
   when it has none.  A handle that has the lock gets it once more. *)
TryLock(u) ==
  LET h == handle[LockObject[u]]
  IN  /\ user[u].at = "trying"
      /\ \/ h # 0 /\ lockedBy \in {0, h} /\ lockedBy' = h /\ UserAt(u, "holding")
         \/ h = 0 /\ UserAt(u, "error") /\ UNCHANGED lockedBy
      /\ UNCHANGED <<handle, opened>>

CloseHandle(o) ==
  /\ opened' = opened \ {handle[o]} /\ handle' = [handle EXCEPT ![o] = 0]
  /\ lockedBy' = IF lockedBy = handle[o] THEN 0 ELSE lockedBy

(* The deadline, seen after an attempt. *)
GiveUp(u) ==
  LET h == handle[LockObject[u]]
  IN  /\ user[u].at = "trying" /\ h # 0 /\ lockedBy \notin {0, h}
      /\ CloseHandle(LockObject[u]) /\ UserAt(u, "timeout")

(* A mutant: the handle stays open. *)
ReleaseOnly(u) ==
  /\ user[u].at = "holding" /\ UserAt(u, "done")
  /\ lockedBy' = (IF lockedBy = handle[LockObject[u]] THEN 0 ELSE lockedBy)
  /\ UNCHANGED <<handle, opened>>

(* release: of the handle the object has now. *)
Release(u) ==
  /\ user[u].at = "holding" /\ UserAt(u, "done")
  /\ IF handle[LockObject[u]] = 0 THEN UNCHANGED <<handle, opened, lockedBy>>
     ELSE CloseHandle(LockObject[u])

(* acquire again after the end, whatever it was. *)
Again(u) ==
  /\ user[u].at \in {"done", "timeout", "error"} /\ UserAt(u, "idle")
  /\ UNCHANGED <<handle, opened, lockedBy>>

(* A process that ends has its handles closed. *)
UserEnds(u) ==
  /\ user[u].at \in {"trying", "holding"}
  /\ \A v \in LockUsers \ {u} : LockObject[v] # LockObject[u]
  /\ CloseHandle(LockObject[u]) /\ UserAt(u, "done")

LocksNext ==
  \E u \in LockUsers : OpenFile(u) \/ TryLock(u) \/ GiveUp(u) \/ Release(u) \/ Again(u)
                       \/ UserEnds(u)

----------------------------------------
(* MathUtil, DataUtil: what a caller asks of a sample. *)

NumbersInit == sample = <<>> /\ limit \in Numerals

Gather(n) == Len(sample) < MaxSample /\ sample' = Append(sample, n) /\ UNCHANGED limit

NumbersNext == \E n \in Numerals : Gather(n)

----------------------------------------
(* Whole numbers and decimals. *)

Abs(n) == IF n < 0 THEN -n ELSE n
Signed(n, m) == IF n < 0 THEN -m ELSE m

Within(n, low, high) == IF n < low THEN low ELSE IF n > high THEN high ELSE n

(* clamp and in_range, with both ends: an answer, or none when the ends are
   the wrong way round (ValueError). *)
Clamp(n, low, high) == IF low > high THEN {} ELSE {Within(n, low, high)}
InRange(n, low, high) == IF low > high THEN {} ELSE {low <= n /\ n <= high}

(* round_half_up, to a multiple of a unit: a half goes away from zero. *)
RoundHalfUp(n, unit) == Signed(n, (2 * Abs(n) + unit) \div (2 * unit))

(* round_half_even: a half goes to the even side. *)
RoundHalfEven(n, unit) ==
  LET up == (2 * Abs(n) + unit) \div (2 * unit)
      half == (2 * Abs(n) + unit) % (2 * unit) = 0
  IN  Signed(n, IF half /\ up % 2 = 1 THEN up - 1 ELSE up)

(* The units that a number is kept to in a float. *)
UnitOf(n) == 2 ^ CHOOSE k \in 0..Abs(n) :
                   /\ Abs(n) < 2 ^ (k + Bits)
                   /\ k = 0 \/ Abs(n) >= 2 ^ (k - 1 + Bits)

(* parse_int of a text: by way of a float. *)
ParseInt(n) == RoundHalfEven(n, UnitOf(n)) * UnitOf(n)

(* int_to_base: the digits, the lowest last. *)
ToBase(n, base) ==
  LET digits[m \in 0..Abs(n)] ==
        IF m = 0 THEN <<>> ELSE Append(digits[m \div base], m % base)
  IN  [negative |-> n < 0, digits |-> IF n = 0 THEN <<0>> ELSE digits[Abs(n)]]

(* base_to_int. *)
FromBase(text, base) ==
  LET value == FoldLeft(LAMBDA all, d : all * base + d, 0, text.digits)
  IN  IF text.negative THEN -value ELSE value

(* format_bytes, with no decimals: the unit, and how many of it. *)
FormatBytes(size) ==
  LET index == CHOOSE k \in 0..Units - 1 :
                 /\ k = 0 \/ size >= Kilo ^ k
                 /\ k = Units - 1 \/ size < Kilo ^ (k + 1)
  IN  [index |-> index, shown |-> RoundHalfEven(size, Kilo ^ index)]

----------------------------------------
(* Samples. *)

Total(s) == FoldLeft(LAMBDA x, y : x + y, 0, s)
Ordered(s) == SortSeq(s, <)
HowOften(s, n) == Cardinality({i \in DOMAIN s : s[i] = n})

(* median, twice. *)
Median2(s) ==
  LET t == Ordered(s)
      mid == Len(s) \div 2
  IN  IF Len(s) % 2 = 1 THEN 2 * t[mid + 1] ELSE t[mid] + t[mid + 1]

(* mode: the first of those that are there most often. *)
Mode(s) ==
  LET most == {i \in DOMAIN s : \A j \in DOMAIN s : HowOften(s, s[j]) <= HowOften(s, s[i])}
  IN  s[CHOOSE i \in most : \A j \in most : i <= j]

(* variance, times n * n * its divisor: of n times the numbers. *)
SquaredDeviations(s) ==
  Total([i \in DOMAIN s |-> (Len(s) * s[i] - Total(s)) * (Len(s) * s[i] - Total(s))])

(* percentile, times a hundred: between two neighbours, as far as the rank
   goes. *)
Percentile(s, q) ==
  LET t == Ordered(s)
      lower == (q * (Len(s) - 1)) \div 100
      weight == (q * (Len(s) - 1)) % 100
  IN  IF weight = 0 THEN 100 * t[lower + 1]
      ELSE t[lower + 1] * (100 - weight) + t[lower + 2] * weight

(* moving_average, times the window. *)
MovingSums(s, window) ==
  IF window > Len(s) THEN <<>>
  ELSE [i \in 1..Len(s) - window + 1 |-> Total(SubSeq(s, i, i + window - 1))]

CutOff(s, percent) == (Len(s) * percent) \div 100

(* trim_mean: what is left of the sample. *)
Trimmed(s, percent) ==
  SubSeq(Ordered(s), CutOff(s, percent) + 1, Len(s) - CutOff(s, percent))

(* A mutant: the upper end is one further out. *)
WinsorizedWider(s, percent) ==
  LET t == Ordered(s)
      k == CutOff(s, percent)
  IN  IF k = 0 THEN s ELSE [i \in DOMAIN s |-> Within(s[i], t[k + 1], t[Len(s) - k + 1])]

(* winsorize: in the order of the sample. *)
Winsorized(s, percent) ==
  LET t == Ordered(s)
      k == CutOff(s, percent)
  IN  IF k = 0 THEN s ELSE [i \in DOMAIN s |-> Within(s[i], t[k + 1], t[Len(s) - k])]

(* dot_product, and the square of euclidean_distance. *)
Dot(a, b) == Total([i \in DOMAIN a |-> a[i] * b[i]])
Distance2(a, b) == Total([i \in DOMAIN a |-> (a[i] - b[i]) * (a[i] - b[i])])

(* cosine_similarity, squared: <<numerator, denominator>>. *)
Cosine2(a, b) ==
  IF Dot(a, a) = 0 \/ Dot(b, b) = 0 THEN <<0, 1>>
  ELSE <<Dot(a, b) * Dot(a, b), Dot(a, a) * Dot(b, b)>>

(* l1_normalize, times the norm. *)
L1Norm(s) == Total([i \in DOMAIN s |-> Abs(s[i])])

----------------------------------------
(* DataUtil. *)

Chunk(s, size) ==
  [c \in 1..(Len(s) + size - 1) \div size |->
     SubSeq(s, (c - 1) * size + 1, IF c * size < Len(s) THEN c * size ELSE Len(s))]

(* unique: what was not seen before. *)
Unique(s) ==
  FoldLeft(LAMBDA found, n : IF n \in ToSet(found) THEN found ELSE Append(found, n), <<>>, s)

----------------------------------------
(* Whose request it is: IPAddressUtil, get_client_ip, DiagnosticAccessGuard.
   A text is an address in one of two ways to write it, or nothing, or no
   address at all. *)

Nobody == [of |-> "none", form |-> "none"]
Garbage == [of |-> "none", form |-> "other"]
Texts == [of : Addresses, form : {"plain", "mapped"}] \cup {Nobody, Garbage}
NoRequest == [at |-> "none", sender |-> Nobody, path |-> <<>>, peer |-> Nobody,
              real |-> Nobody, forwarded |-> <<>>]

ClientsInit ==
  /\ proxyEnv \in ProxyLists /\ proxyCache = {}
  /\ guarded \in [enabled : BOOLEAN, production : BOOLEAN]
  /\ arrived = NoRequest /\ resolved = <<>>

(* A mutant: an address of IPv4 that is written as one of IPv6 is another. *)
ParseAsWritten(x) == IF x.form = "mapped" THEN {} ELSE {x.of} \ {"none"}

(* _parse_ip: the address, if it is one. *)
ParseIp(x) == {x.of} \ {"none"}

(* _in_any_network. *)
InNetworks(x, networks) == ParseIp(x) \cap networks # {}

(* is_private_or_reserved: what is no address is not to be locked either. *)
IsPrivateOrReserved(x) == ParseIp(x) = {} \/ InNetworks(x, PrivateNets)

(* _get_extra_trusted_proxy_networks: the first answer is kept. *)
ExtraProxies == IF proxyCache = {} THEN proxyEnv ELSE UNION proxyCache
AsksForExtra(x) == ParseIp(x) # {} /\ ~InNetworks(x, PrivateNets)

IsTrustedProxy(x) == InNetworks(x, PrivateNets) \/ InNetworks(x, ExtraProxies)

(* A mutant: the first address that was handed on is the client. *)
ClientIpFirst(r) ==
  IF r.peer = Nobody \/ ~IsTrustedProxy(r.peer) THEN r.peer
  ELSE IF r.forwarded # <<>> THEN r.forwarded[1]
  ELSE r.peer

(* get_client_ip: headers count when the peer is a trusted proxy. *)
ClientIp(r) ==
  IF r.peer = Nobody \/ ~IsTrustedProxy(r.peer) THEN r.peer
  ELSE IF r.real # Nobody THEN r.real
  ELSE IF r.forwarded # <<>> THEN r.forwarded[Len(r.forwarded)]
  ELSE r.peer

(* A request comes straight, with what the client puts into the headers,
   or by way of proxies, each of which sets X-Real-IP to its peer and
   appends it to X-Forwarded-For, or only appends it. *)
RequestArrives(sender, claim, path, sets) ==
  LET peers == <<sender>> \o [i \in DOMAIN path |-> [of |-> path[i], form |-> "plain"]]
      n == Len(path)
  IN  /\ arrived.at = "none"
      /\ arrived' = [at |-> "arrived", sender |-> sender, path |-> path, peer |-> peers[n + 1],
                     real |-> IF n > 0 /\ sets THEN peers[n] ELSE IF n > 0 THEN Nobody ELSE claim,
                     forwarded |-> (IF claim = Nobody THEN <<>> ELSE <<claim>>)
                                     \o SubSeq(peers, 1, n)]
      /\ UNCHANGED <<proxyEnv, proxyCache, guarded, resolved>>

LooksAtPeer ==
  /\ resolved' = Append(resolved, ClientIp(arrived))
  /\ proxyCache' = IF proxyCache = {} /\ AsksForExtra(arrived.peer) THEN {proxyEnv} ELSE proxyCache
  /\ UNCHANGED <<proxyEnv, guarded>>

(* LoggingMiddleware, apply_real_client_ip: later looks find the address
   in the place of the peer. *)
ApplyRealClientIp ==
  /\ arrived.at = "arrived" /\ LooksAtPeer
  /\ arrived' = [arrived EXCEPT !.at = "applied",
                                !.peer = IF ClientIp(arrived) = Nobody \/ @ = Nobody THEN @
                                         ELSE ClientIp(arrived)]

(* effective_cidrs. *)
EffectiveCidrs == DefaultCidrs \cup AllowedCidrs

(* DiagnosticAccessGuard.check: what is no address is refused. *)
GuardChecks ==
  /\ arrived.at = "applied"
  /\ IF ~guarded.enabled \/ ~guarded.production
     THEN arrived' = [arrived EXCEPT !.at = "admitted"]
          /\ UNCHANGED <<proxyEnv, proxyCache, guarded, resolved>>
     ELSE /\ LooksAtPeer
          /\ arrived' = [arrived EXCEPT !.at = IF InNetworks(ClientIp(arrived), EffectiveCidrs)
                                               THEN "admitted" ELSE "refused"]

RequestEnds ==
  /\ arrived.at \in {"admitted", "refused"} /\ arrived' = NoRequest /\ resolved' = <<>>
  /\ UNCHANGED <<proxyEnv, proxyCache, guarded>>

ProxiesChange == proxyEnv' \in ProxyLists \ {proxyEnv}
                   /\ UNCHANGED <<proxyCache, guarded, arrived, resolved>>

ClearProxyCache == proxyCache # {} /\ arrived.at = "none" /\ proxyCache' = {}
                     /\ UNCHANGED <<proxyEnv, guarded, arrived, resolved>>

ClientsNext ==
  \/ \E sender \in Texts \ {Garbage}, claim \in Claims, path \in Paths, sets \in BOOLEAN :
       /\ sender = Nobody => path = <<>>
       /\ RequestArrives(sender, claim, path, sets)
  \/ ApplyRealClientIp \/ GuardChecks \/ RequestEnds \/ ProxiesChange \/ ClearProxyCache

----------------------------------------
(* Properties. *)

Later(x, y) == x.time < y.time \/ (x.time = y.time /\ x.sequence < y.sequence)

(* The ids of a generator grow, whatever the clock does.  An id is issued
   twice in three cases and no other: two processes have one worker id; a
   process started again, and the clock was set back; and two threads of
   one process ask for its first id at once, and each makes a generator.
   The ids of one process are not unique then, as next_id says they are
   (snowflake_util.py:38): IdsDistinct is not checked (next_id,
   _get_snowflake). *)
IdsDistinct ==
  \A m, n \in DOMAIN ids :
    m # n /\ ids[m].worker = ids[n].worker =>
      ids[m].time # ids[n].time \/ ids[m].sequence # ids[n].sequence
IdsUnique ==
  \A m, n \in DOMAIN ids :
    m < n =>
      /\ ids[m].generator = ids[n].generator => Later(ids[m], ids[n])
      /\ ids[m].worker = ids[n].worker /\ ids[m].time = ids[n].time
         /\ ids[m].sequence = ids[n].sequence =>
           LET p == generators[ids[m].generator].process
               q == generators[ids[n].generator].process
           IN  p # q \/ p \in again \cup twice

(* Users with a FileLock of their own exclude each other, and leave no
   handle open.  Threads that share one exclude nobody: its handle is the
   last one opened, which each of them locks and closes (FileLock.acquire,
   release). *)
Sharing(u) == \E v \in LockUsers \ {u} : LockObject[v] = LockObject[u]
LockExclusive ==
  /\ \A u, v \in LockUsers :
       u # v /\ user[u].at = "holding" /\ user[v].at = "holding" => Sharing(u) \/ Sharing(v)
  /\ \A u \in LockUsers :
       ~Sharing(u) /\ user[u].at \notin {"trying", "holding"} =>
         handle[LockObject[u]] = 0 /\ user[u].last \notin opened

(* Rounding is to a nearest multiple, the same on both sides of zero, and
   the two ways differ at a half only.  A text with more digits than a
   float holds is read as a neighbour (parse_int), an integer of any base
   comes back, and a size is shown in the largest unit of which there is
   one, rounded; clamp stays in its range, if there is one (round_half_up,
   round_half_even, parse_int, clamp, int_to_base, format_bytes). *)
NumeralsRight ==
  /\ \A unit \in 1..4 :
       LET up == RoundHalfUp(limit, unit)
           even == RoundHalfEven(limit, unit)
       IN  /\ 2 * Abs(up * unit - limit) <= unit /\ 2 * Abs(even * unit - limit) <= unit
           /\ up = -RoundHalfUp(-limit, unit)
           /\ up # even => 2 * Abs(up * unit - limit) = unit /\ even % 2 = 0 /\ Abs(even) < Abs(up)
  /\ (ParseInt(limit) = limit) = (Abs(limit) % UnitOf(limit) = 0)
  /\ 2 * Abs(ParseInt(limit) - limit) <= UnitOf(limit)
  /\ \A low, high \in -1..8 :
       /\ low > high => Clamp(limit, low, high) \cup InRange(limit, low, high) = {}
       /\ low <= high =>
            \E n \in Clamp(limit, low, high) :
              /\ InRange(n, low, high) = {TRUE} /\ InRange(limit, low, high) = {n = limit}
              /\ \A k \in low..high : Abs(n - limit) <= Abs(k - limit)
  /\ \A base \in 2..4 : FromBase(ToBase(limit, base), base) = limit
  /\ limit >= 0 =>
       LET b == FormatBytes(limit)
       IN  /\ 2 * Abs(b.shown * Kilo ^ b.index - limit) <= Kilo ^ b.index
           /\ b.shown > Kilo => b.index = Units - 1
           /\ b.shown = Kilo => b.index = Units - 1 \/ limit < Kilo ^ (b.index + 1)
           /\ limit > 0 => b.shown > 0

(* A percentile has as many numbers on each side as its rank says, and the
   50th is the median; what is trimmed and what winsorize changes are the
   same numbers at both ends; deviations, distances and windows agree with
   the sums they come from (percentile, median, mode, variance, trim_mean,
   winsorize, moving_average, dot_product). *)
SamplesRight ==
  sample # <<>> =>
    LET n == Len(sample)
        there == DOMAIN sample
        other == Reverse(sample)
    IN  /\ Percentile(sample, 50) = 50 * Median2(sample)
        /\ \A q \in Percents :
             LET p == Percentile(sample, q)
             IN  /\ 100 * Cardinality({i \in there : 100 * sample[i] <= p}) > q * (n - 1)
                 /\ 100 * Cardinality({i \in there : 100 * sample[i] >= p}) > (100 - q) * (n - 1)
                 /\ \A r \in Percents : q <= r => p <= Percentile(sample, r)
        /\ \A m \in there : HowOften(sample, sample[m]) <= HowOften(sample, Mode(sample))
        /\ SquaredDeviations(sample)
             = n * (n * Total([i \in there |-> sample[i] * sample[i]]) - Total(sample) * Total(sample))
        /\ \A p \in Percents \cap 0..49 :
             LET k == CutOff(sample, p)
                 kept == Trimmed(sample, p)
                 moved == Winsorized(sample, p)
             IN  /\ kept # <<>>
                 /\ Total(moved) = Total(kept) + k * (kept[1] + kept[Len(kept)])
                 /\ \A i, j \in there : sample[i] <= sample[j] => moved[i] <= moved[j]
        /\ \A w \in 1..n : \A i \in 2..n - w + 1 :
             MovingSums(sample, w)[i] - MovingSums(sample, w)[i - 1] = sample[i + w - 1] - sample[i - 1]
        /\ Distance2(sample, other)
             = Dot(sample, sample) + Dot(other, other) - 2 * Dot(sample, other)
        /\ Cosine2(sample, other)[1] <= Cosine2(sample, other)[2]
        /\ L1Norm(sample) >= Abs(Total(sample))

(* Chunks put together are the list, and all but the last are full; unique
   keeps the first of each, in order (chunk, unique). *)
ListsRight ==
  /\ \A size \in 1..MaxSample :
       /\ FlattenSeq(Chunk(sample, size)) = sample
       /\ \A c \in DOMAIN Chunk(sample, size) :
            /\ Chunk(sample, size)[c] # <<>>
            /\ c < Len(Chunk(sample, size)) => Len(Chunk(sample, size)[c]) = size
  /\ LET u == Unique(sample)
         place(n) == CHOOSE i \in DOMAIN sample :
                       sample[i] = n /\ \A j \in 1..i - 1 : sample[j] # n
     IN  /\ ToSet(u) = ToSet(sample) /\ IsInjective(u)
         /\ \A i, j \in DOMAIN u : i < j => place(u[i]) < place(u[j])

(* Parsing and rounding, statistics, and the cutting of lists do what they
   say (MathUtil, DataUtil). *)
NumbersRight == NumeralsRight /\ SamplesRight /\ ListsRight

(* A request that came by trusted proxies is that of whoever connected to
   the last of them, and one that came from elsewhere that of its peer,
   whatever headers say; only those who connect from a trusted network
   themselves may say who they are.  The guard takes the same address as
   the log, and admits it just when it is in one of its networks, however
   it is written; and failures of login are counted for a sender in no
   private network, when all the proxies are in one (get_client_ip,
   apply_real_client_ip, check). *)
ClientsKnown ==
  arrived.at \notin {"none", "arrived"} =>
    LET n == Len(arrived.path)
        direct == n = 0
        last == IF direct THEN arrived.sender ELSE [of |-> arrived.path[n], form |-> "plain"]
        before == IF n = 1 THEN arrived.sender ELSE [of |-> arrived.path[n - 1], form |-> "plain"]
    IN  /\ \A i \in DOMAIN resolved : ParseIp(resolved[i]) = ParseIp(resolved[1])
        /\ ~direct => resolved[1] \in {before, last}
        /\ ~direct /\ InNetworks(last, PrivateNets) => resolved[1] = before
        /\ direct /\ ~IsTrustedProxy(last) => resolved[1] = last
        /\ guarded.enabled /\ guarded.production =>
             (arrived.at = "admitted" => resolved[1].of \in DefaultCidrs \cup AllowedCidrs)
        /\ arrived.at = "refused" => resolved[1].of \notin DefaultCidrs \cup AllowedCidrs
        /\ ~IsPrivateOrReserved(resolved[1]) /\ ~direct
             /\ (\A i \in DOMAIN arrived.path : arrived.path[i] \in PrivateNets) =>
             resolved[1] = arrived.sender

(* Ids differ but where a generator is one too many, a lock that is not
   shared has one holder, and a client is who it is taken for. *)
UtilitiesSound == IdsUnique /\ LockExclusive /\ ClientsKnown
=============================================================================
