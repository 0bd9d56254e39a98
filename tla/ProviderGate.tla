----------------------------- MODULE ProviderGate -----------------------------
(***************************************************************************)
(* What stands between a process and the EODHD provider: the cache of      *)
(* responses, the budget of calls per UTC day, the token bucket and the    *)
(* retries (providers/shared, providers/eodhd/adapter.py), and the         *)
(* synchronisation with the counter the provider keeps, which other        *)
(* processes with the same key raise as well (core/di/container.py).       *)
(* What happens under an asyncio lock is one action.                       *)
(***************************************************************************)
EXTENDS Naturals, FiniteSets

CONSTANTS
    Callers,                \* tasks of the process
    Requests,               \* of "search", which is not cached, and "prices"
    Budget, Reserve,        \* calls per day, per cent kept back
    Cost,                   \* provider_call_cost
    Rate, Burst,            \* tokens per tick, capacity of the bucket
    MaxAttempts, Timeout,   \* of the retry policy
    Ttl,                    \* of a cached response, in ticks
    DayLength, LastTick,    \* ticks of a day; bound: time
    MaxForeign              \* bound: requests of other processes

GateAssumption ==
    /\ IsFiniteSet(Callers) /\ Requests # {}
    /\ Budget \in Nat /\ Reserve \in 0..100 /\ Cost \in Nat /\ Rate \in Nat /\ Burst \in Nat
    /\ MaxAttempts \in Nat \ {0} /\ Timeout \in Nat /\ Ttl \in Nat /\ DayLength \in Nat \ {0}
    /\ LastTick \in Nat /\ MaxForeign \in Nat

VARIABLES
    now,        \* the clocks, monotonic and UTC
    usage,      \* DailyCallBudget: units used and their day
    bucket,     \* TokenBucketRateLimiter: tokens and the last refill
    cached,     \* the end of the cached response's validity, 0 without one
    caller,     \* the state of each task
    report,     \* counters under way to synchronize_usage
    counter,    \* what the provider has counted, and its day
    foreign,    \* requests of other processes so far
    bill,       \* of this day: units charged, sent on a charge of the day before, foreign
    posted      \* tick -> requests sent until its end

gateVars == <<now, usage, bucket, cached, caller, report, counter, foreign, bill, posted>>

Ticks == 0..LastTick
Today == now \div DayLength
EffectiveBudget == (Budget * (100 - Reserve)) \div 100
Least(a, b) == IF a < b THEN a ELSE b
Largest(a, b) == IF a > b THEN a ELSE b

Idle == [does |-> "nothing", wants |-> CHOOSE r \in Requests : TRUE, attempt |-> 0, started |-> 0, wake |-> 0, charged |-> 0]
Counters == [used : Nat, day : Nat]

TypeOK ==
    /\ now \in Ticks
    /\ usage \in Counters
    /\ bucket \in [tokens : 0..Burst, at : Ticks]
    /\ cached \in 0..(LastTick + Ttl)
    /\ caller \in [Callers -> [does : {"nothing", "charge", "acquire", "sent"}, wants : Requests,
                               attempt : 0..MaxAttempts, started : Ticks,
                               wake : 0..(LastTick + Timeout + 1), charged : Nat]]
    /\ report \subseteq Counters
    /\ counter \in Counters
    /\ foreign \in 0..MaxForeign
    /\ bill \in [charged : Nat, carried : Nat, foreign : Nat]
    /\ posted \in [Ticks -> Nat]

Init ==
    /\ now = 0
    /\ usage = [used |-> 0, day |-> 0]
    /\ bucket = [tokens |-> Burst, at |-> 0]
    /\ cached = 0
    /\ caller = [c \in Callers |-> Idle]
    /\ report = {}
    /\ counter = [used |-> 0, day |-> 0]
    /\ foreign = 0
    /\ bill = [charged |-> 0, carried |-> 0, foreign |-> 0]
    /\ posted = [t \in Ticks |-> 0]

-----------------------------------------------------------------------------

\* Midnight ends the bill of the day.
Tick ==
    /\ now < LastTick
    /\ now' = now + 1
    /\ bill' = IF (now + 1) \div DayLength = Today THEN bill
               ELSE [charged |-> 0, carried |-> 0, foreign |-> 0]
    /\ posted' = [posted EXCEPT ![now + 1] = posted[now]]
    /\ UNCHANGED <<usage, bucket, cached, caller, report, counter, foreign>>

\* The provider's counter, of its last day with a request.
Counted == [used |-> Cost + IF counter.day = Today THEN counter.used ELSE 0, day |-> Today]

Foreign ==
    /\ foreign < MaxForeign
    /\ foreign' = foreign + 1
    /\ counter' = Counted
    /\ bill' = [bill EXCEPT !.foreign = @ + Cost]
    /\ UNCHANGED <<now, usage, bucket, cached, caller, report, posted>>

Begin(c, wanted) == 
    caller' = [caller EXCEPT ![c] = [Idle EXCEPT !.does = "charge", !.wants = wanted,
                                         !.attempt = 1, !.started = now]]
End(c) == caller' = [caller EXCEPT ![c] = Idle]

\* search_instruments, validate_mapping: nothing is cached.
Search(c) ==
    /\ "search" \in Requests
    /\ caller[c].does = "nothing"
    /\ Begin(c, "search")
    /\ UNCHANGED <<now, usage, bucket, cached, report, counter, foreign, bill, posted>>

\* _load: a response that is still valid is served; an older one is dropped.
Load(c) ==
    /\ "prices" \in Requests
    /\ caller[c].does = "nothing"
    /\ cached <= now
    /\ cached' = 0
    /\ Begin(c, "prices")
    /\ UNCHANGED <<now, usage, bucket, report, counter, foreign, bill, posted>>

\* _reset_if_needed
UsedToday == IF usage.day = Today THEN usage.used ELSE 0

\* consume
Charge(c) ==
    /\ caller[c].does = "charge"
    /\ now >= caller[c].wake
    /\ IF UsedToday + Cost > EffectiveBudget
       THEN /\ usage' = [used |-> UsedToday, day |-> Today]
            /\ End(c)
            /\ UNCHANGED bill
       ELSE /\ usage' = [used |-> UsedToday + Cost, day |-> Today]
            /\ caller' = [caller EXCEPT ![c].does = "acquire", ![c].wake = 0, ![c].charged = Today]
            /\ bill' = [bill EXCEPT !.charged = @ + Cost]
    /\ UNCHANGED <<now, bucket, cached, report, counter, foreign, posted>>

\* _refill
Refilled == Least(Burst, bucket.tokens + (now - bucket.at) * Rate)

\* acquire, and the request: the time to wait for is computed under the lock,
\* after it another caller may take the token.
Acquire(c) ==
    /\ caller[c].does = "acquire"
    /\ now >= caller[c].wake
    /\ IF Refilled < 1
       THEN /\ bucket' = [tokens |-> Refilled, at |-> now]
            /\ caller' = [caller EXCEPT ![c].wake = now + 1]
            /\ UNCHANGED <<counter, bill, posted>>
       ELSE /\ bucket' = [tokens |-> Refilled - 1, at |-> now]
            /\ caller' = [caller EXCEPT ![c].does = "sent"]
            /\ counter' = Counted
            /\ bill' = IF caller[c].charged = Today THEN bill ELSE [bill EXCEPT !.carried = @ + Cost]
            /\ posted' = [posted EXCEPT ![now] = @ + 1]
    /\ UNCHANGED <<now, usage, cached, report, foreign>>

\* The response is parsed and cached.
Answer(c) ==
    /\ caller[c].does = "sent"
    /\ cached' = IF caller[c].wants = "prices" THEN now + Ttl ELSE cached
    /\ End(c)
    /\ UNCHANGED <<now, usage, bucket, report, counter, foreign, bill, posted>>

\* RetryPolicy.execute: a retryable error, with a delay that the time allows.
Retry(c, delay) ==
    /\ caller[c].does = "sent"
    /\ caller[c].attempt < MaxAttempts
    /\ (now - caller[c].started) + delay <= Timeout
    /\ caller' = [caller EXCEPT ![c].does = "charge", ![c].attempt = @ + 1, ![c].wake = now + delay]
    /\ UNCHANGED <<now, usage, bucket, cached, report, counter, foreign, bill, posted>>

\* Any other error.
Raise(c) ==
    /\ caller[c].does = "sent"
    /\ End(c)
    /\ UNCHANGED <<now, usage, bucket, cached, report, counter, foreign, bill, posted>>

\* sync_eodhd_usage: GET /user/, which the provider does not count.
AskForUsage ==
    /\ report = {}
    /\ report' = {counter}
    /\ UNCHANGED <<now, usage, bucket, cached, caller, counter, foreign, bill, posted>>

AnyDay(day) == TRUE
SameDay(day) == day = Today

SynchronizeUsage ==
    /\ \E r \in report :
        usage' = [used |-> IF SameDay(r.day) THEN Largest(UsedToday, r.used) ELSE UsedToday, day |-> Today]
    /\ report' = {}
    /\ UNCHANGED <<now, bucket, cached, caller, counter, foreign, bill, posted>>

Next ==
    \/ Tick \/ Foreign \/ AskForUsage \/ SynchronizeUsage
    \/ \E c \in Callers :
        \/ Search(c) \/ Load(c) \/ Charge(c) \/ Acquire(c) \/ Answer(c) \/ Raise(c)
        \/ \E delay \in 0..Timeout : Retry(c, delay)

Spec == Init /\ [][Next]_gateVars

-----------------------------------------------------------------------------
(* Properties *)

\* However callers wait, are overtaken and retried, no interval has more requests
\* than the bucket held and was refilled with.
SentBefore(t) == IF t = 0 THEN 0 ELSE posted[t - 1]
RateIsKept == \A t \in 0..now : posted[now] <= SentBefore(t) + Burst + Rate * (now - t)

\* However they are charged around midnight, a day's charges stay within the
\* budget, which also never makes up for use that is not of this day: units used
\* are the charged ones, or what the provider has counted for other processes
\* and for charges of the day before, one of each task at most.
BudgetIsKept ==
    /\ bill.charged <= EffectiveBudget
    /\ bill.carried <= Cost * Cardinality(Callers)
    /\ bill.charged <= UsedToday
    /\ UsedToday <= bill.charged + bill.carried + bill.foreign

WithinLimits == RateIsKept /\ BudgetIsKept
=============================================================================
