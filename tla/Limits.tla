------------------------------- MODULE Limits -------------------------------
(* The two limits on what callers may do in a time: the risk check before
   a payment (payment/risk) with its counters in memory, and the limiter
   of requests (infra/web, infra/resilience) with its token buckets.

   Each counter is added to in a step of its own, as other checks may run
   at every await.  Tokens are counted in fractions: a request costs
   TokenCost of them, and Refill come back per tick. *)
EXTENDS Naturals, Sequences, FiniteSets

CONSTANTS Checks,      \* calls of check_prepay, of one user and channel
          Asked,      \* the amount of each
          PerTransaction, DailyLimit, MonthlyLimit, Window, MaxAttempts,
          SplitCount,  \* LimitRule; Window is frequency_window_seconds
          Large,       \* per_transaction * suspicious_split_ratio
          Hour, Day, Month,  \* in ticks
          RateKeys, Burst, TokenCost, Refill,
          MaxLimiters, \* the bound of RateLimitMiddleware._limiters
          FirstTick, LastTick,  \* bound: the ticks that are looked at
          MaxAccepted  \* bound: requests let through

ASSUME LimitsAssumption ==
  /\ Asked \in [Checks -> Nat] /\ PerTransaction \in Nat /\ Large \in Nat
  /\ DailyLimit \in Nat /\ MonthlyLimit \in Nat
  /\ Window \in Nat \ {0} /\ MaxAttempts \in Nat \ {0} /\ SplitCount \in Nat \ {0}
  /\ Hour \in Nat \ {0} /\ Day \in Nat \ {0} /\ Month \in Nat \ {0}
  /\ Burst \in Nat /\ TokenCost \in Nat \ {0} /\ Refill \in Nat \ {0}
  /\ MaxLimiters \in Nat \ {0} /\ MaxAccepted \in Nat
  /\ FirstTick \in Nat /\ LastTick \in Nat /\ FirstTick <= LastTick

VARIABLES tick,     \* the clocks
          check,    \* [at, day, month, window, split] of each call
          counters, \* InMemoryLimitCounterStore._counters: 0 when absent
          limiters, \* _limiters, the least recently used first
          tokens,   \* _tokens of each limiter
          refilled, \* _last_refill of each limiter
          told,     \* when who was refused last was told to come again, or 0
          accepted  \* history: when the limiter of a key let a request pass

riskVars == <<check, counters>>
rateVars == <<limiters, tokens, refilled, accepted, told>>
limitVars == <<tick, riskVars, rateVars>>

NotYet == [at |-> "transaction", day |-> 0, month |-> 0, window |-> 0, split |-> 0]

\* The keys of the counters with their buckets; permanent ones have bucket 0.
CounterKeys ==
  {"daily", "monthly"} \X (0..LastTick) \X {0}
    \cup {"frequency", "split"} \X {0} \X (0..LastTick)

LimitsInit ==
  /\ tick = FirstTick
  /\ check = [c \in Checks |-> NotYet]
  /\ counters = [k \in CounterKeys |-> 0]
  /\ limiters = <<>>
  /\ tokens = [k \in RateKeys |-> 0] /\ refilled = [k \in RateKeys |-> 0]
  /\ accepted = [k \in RateKeys |-> <<>>] /\ told = [k \in RateKeys |-> 0]

Passes ==
  /\ tick < LastTick /\ tick' = tick + 1
  /\ UNCHANGED <<riskVars, rateVars>>

----------------------------------------
(* check_prepay. *)

(* _cleanup compares the number of any bucket with the number of the hour:
   it drops none of a shorter window, and all of a longer one at once. *)
Stale(k) == k[3] # 0 /\ k[3] + 1 < tick \div Hour

(* A mutant: the total from before this payment. *)
TotalBefore(k, n) == counters[k]

Total(k, n) == counters[k] + n

AddTo(k, n) ==
  counters' = [x \in CounterKeys |-> IF Stale(x) THEN 0
                                     ELSE IF x = k THEN counters[k] + n
                                     ELSE counters[x]]

(* The limit is compared with the total that includes this payment, which
   stays counted when it is refused. *)
Counted(c, k, n, ok, next) ==
  /\ AddTo(k, n)
  /\ check' = [check EXCEPT ![c] = IF ok THEN next
                                   ELSE [check[c] EXCEPT !.at = "refused"]]
  /\ UNCHANGED <<tick, rateVars>>

CheckTransaction(c) ==
  /\ check[c].at = "transaction"
  /\ check' = [check EXCEPT ![c].at = IF Asked[c] > PerTransaction THEN "refused"
                                      ELSE "daily"]
  /\ UNCHANGED <<tick, counters, rateVars>>

CheckDaily(c) ==
  LET day == tick \div Day
      key == <<"daily", day, 0>>
  IN  /\ check[c].at = "daily"
      /\ Counted(c, key, Asked[c], Total(key, Asked[c]) <= DailyLimit,
                 [check[c] EXCEPT !.at = "monthly", !.day = day])

CheckMonthly(c) ==
  LET month == tick \div Month
      key == <<"monthly", month, 0>>
  IN  /\ check[c].at = "monthly"
      /\ Counted(c, key, Asked[c], Total(key, Asked[c]) <= MonthlyLimit,
                 [check[c] EXCEPT !.at = "frequency", !.month = month])

CheckFrequency(c) ==
  LET window == tick \div Window
      key == <<"frequency", 0, window>>
  IN  /\ check[c].at = "frequency"
      /\ Counted(c, key, 1, Total(key, 1) <= MaxAttempts,
                 [check[c] EXCEPT !.window = window,
                    !.at = IF Asked[c] >= Large THEN "split" ELSE "passed"])

CheckSplit(c) ==
  LET window == tick \div Window
      key == <<"split", 0, window>>
  IN  /\ check[c].at = "split"
      /\ Counted(c, key, 1, Total(key, 1) < SplitCount,
                 [check[c] EXCEPT !.at = "passed", !.split = window])

----------------------------------------
(* RateLimitMiddleware. *)

Known(k) == \E i \in DOMAIN limiters : limiters[i] = k

(* The limiter of a key becomes the one used last (move_to_end). *)
MovedToEnd(k) ==
  LET i == CHOOSE j \in DOMAIN limiters : limiters[j] = k
  IN  SubSeq(limiters, 1, i - 1) \o Append(SubSeq(limiters, i + 1, Len(limiters)), k)

(* A new limiter is full; the one used least recently makes room for it. *)
LimiterFor(k) ==
  limiters' = IF Known(k) THEN MovedToEnd(k)
              ELSE Append(IF Len(limiters) = MaxLimiters THEN Tail(limiters)
                          ELSE limiters, k)

Refilled(k) ==
  LET more == tokens[k] + (tick - refilled[k]) * Refill
  IN  IF ~Known(k) \/ more > Burst THEN Burst ELSE more

TryAcquire(k) ==
  LET have == Refilled(k)
      passes == have >= TokenCost
      before == IF Known(k) THEN accepted[k] ELSE <<>>
  IN  /\ passes => Len(before) < MaxAccepted
      /\ tokens' = [tokens EXCEPT ![k] = IF passes THEN have - TokenCost ELSE have]
      /\ refilled' = [refilled EXCEPT ![k] = tick]
      /\ accepted' = [accepted EXCEPT ![k] = IF passes THEN Append(before, tick)
                                             ELSE before]

(* A mutant: the ticks rounded down. *)
ToldTooSoon(have) == (TokenCost - have) \div Refill

(* retry_after_seconds, which _rate_limited_response rounds up. *)
RetryAfter(have) == IF have >= TokenCost THEN 0
                    ELSE (TokenCost - have + Refill - 1) \div Refill

(* Who is refused is told when to come again. *)
RateLimited(k) ==
  told' = [told EXCEPT ![k] = IF Refilled(k) >= TokenCost THEN 0
                              ELSE tick + RetryAfter(Refilled(k))]

Dispatch(k) == /\ LimiterFor(k) /\ TryAcquire(k) /\ RateLimited(k)
               /\ UNCHANGED <<tick, riskVars>>

RiskNext ==
  \/ Passes
  \/ \E c \in Checks :
     \/ CheckTransaction(c) \/ CheckDaily(c) \/ CheckMonthly(c)
     \/ CheckFrequency(c) \/ CheckSplit(c)

RateNext == Passes \/ \E k \in RateKeys : Dispatch(k)

LimitsNext == RiskNext \/ RateNext

LimitsSpec == LimitsInit /\ [][LimitsNext]_limitVars

LimitsTypeOK ==
  /\ tick \in FirstTick..LastTick
  /\ check \in [Checks -> [at : {"transaction", "daily", "monthly", "frequency",
                                 "split", "passed", "refused"},
                           day : Nat, month : Nat, window : Nat, split : Nat]]
  /\ counters \in [CounterKeys -> Nat]
  /\ limiters \in Seq(RateKeys) /\ Len(limiters) <= MaxLimiters
  /\ tokens \in [RateKeys -> 0..Burst] /\ refilled \in [RateKeys -> 0..LastTick]

Passed == {c \in Checks : check[c].at = "passed"}
(* The units of what the calls of S ask for, and how many they are. *)
UnitsOf(S) == UNION {{c} \X (1..Asked[c]) : c \in S}
SumOf(S) == Cardinality(UnitsOf(S))

(* What is accepted stays within the limits, for checks that interleave
   and that go on over midnight: of the payments that passed, those
   counted for one day or month sum to at most its limit, and those of one
   window, of an hour at most, are at most as many as the rule says (the
   counters of a longer window are dropped at once).  And the requests a
   limiter lets pass from one time to another are at most its burst and
   what came back in between; who is refused is let through when he comes
   again when told to, unless another was before him (retry_after_seconds),
   given a burst that is enough for one request. *)
LimitsHold ==
  /\ \A d \in 0..LastTick : SumOf({c \in Passed : check[c].day = d}) <= DailyLimit
  /\ \A m \in 0..LastTick : SumOf({c \in Passed : check[c].month = m}) <= MonthlyLimit
  /\ Window <= Hour => \A w \in 0..LastTick :
       /\ Cardinality({c \in Passed : check[c].window = w}) <= MaxAttempts
       /\ Cardinality({c \in Passed : Asked[c] >= Large /\ check[c].split = w})
            < SplitCount
  /\ \A k \in RateKeys : \A j \in DOMAIN accepted[k] : \A i \in 1..j :
       (j - i + 1) * TokenCost
         <= Burst + (accepted[k][j] - accepted[k][i]) * Refill
  /\ Burst >= TokenCost => \A k \in RateKeys :
       Known(k) /\ told[k] # 0 /\ tick >= told[k] => Refilled(k) >= TokenCost

(* What passes within a time stays within the limits, of payments
   (PaymentRiskGuard) and of requests (TokenBucketRateLimiter), whatever
   checks interleave. *)
LimitsSound == LimitsTypeOK /\ LimitsHold
=============================================================================
