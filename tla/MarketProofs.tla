---------------------------- MODULE MarketProofs ----------------------------
(***************************************************************************)
(* Proofs about the services of market data and of what is bought with     *)
(* it: the limits of the provider's gate, for any number of tasks and any  *)
(* rate, budget and capacity; the sources of a candidate, the quotes that  *)
(* are kept, the product and the routes of its positions, an underlying    *)
(* with its listings, the runs of an analysis and the catalog of           *)
(* currencies; the currency of the executions of a trade, and its page.    *)
(***************************************************************************)
EXTENDS Naturals, Sequences, FiniteSets, FiniteSetTheorems, TLAPS

CONSTANTS
    Callers, Requests, Budget, Reserve, Cost, Rate, Burst, MaxAttempts, Timeout, Ttl, DayLength,
    LastTick, MaxForeign, MaxMissing, Readers, LastIdentity, SlotLength, Clients, Identifiers,
    FirstIsin, Changes, LastVersion, LastRevision, Positions, MaxDecisions, Editors, Listings,
    LastRowVersion, MaxEvents, Operations, Analysts, Versions, Outcomes, LastPrices, Admins,
    Codes, Document, Seeded, LastEvent, Moments, Denominations, Documents, Sheets, MaxRows,
    Captures, MaxWrites, MaxSubmits, MaxInputs, MaxTyped, OtherWrites

VARIABLES
    now, usage, bucket, cached, caller, report, counter, foreign, bill, posted, assigned,
    active, native, listing, model, identity, cache, reader, quote, replaced, samples, warrant,
    terms, audits, valuations, edit, listed, mapping, affected, seeker, selections, row, told,
    used, request, prices, run, lifecycle, analyst, current, releases, currency, log, lock,
    admin, executions, confirmations, sources, withdrawn, desk, logbook, lost, page, panel,
    tasks, reads, capture, submits, heard

PG == INSTANCE ProviderGate
CS == INSTANCE CandidateSources
RQ == INSTANCE RetainedQuotes WITH row <- quote
QR == INSTANCE QuoteRoutes
UN == INSTANCE Underlyings WITH Clients <- Editors, LastVersion <- LastRowVersion
MA == INSTANCE MarketAnalysis
CC == INSTANCE CurrencyCatalog WITH MaxEvents <- LastEvent
MS == INSTANCE CurrencySources WITH Listings <- Sheets, Currencies <- Denominations
TP == INSTANCE TradePage WITH log <- logbook, told <- heard

-----------------------------------------------------------------------------
(* The gate of the provider. *)

Tasks == [does : {"nothing", "charge", "acquire", "sent"}, wants : Requests, attempt : 0..MaxAttempts,
          started : 0..LastTick, wake : 0..(LastTick + Timeout + 1), charged : Nat]
Bills == [charged : Nat, carried : Nat, foreign : Nat]

\* Tasks that wait for a token on a charge of this day, or of an earlier one.
ChargedToday == {c \in Callers : caller[c].does = "acquire" /\ caller[c].charged = PG!Today}
ChargedBefore == {c \in Callers : caller[c].does = "acquire" /\ caller[c].charged # PG!Today}
CountedToday == IF counter.day = PG!Today THEN counter.used ELSE 0

\* No clock is ahead.
GateClocks ==
    /\ usage.day <= PG!Today /\ counter.day <= PG!Today /\ bucket.at <= now
    /\ \A r \in report : r.day <= PG!Today
    /\ \A c \in Callers : caller[c].charged <= PG!Today
\* The requests of every interval until now, and the tokens that are left.
GateTokens == \A t \in 0..now : posted[now] + PG!Refilled <= PG!SentBefore(t) + Burst + Rate * (now - t)
\* What is counted, and what will be for the tasks that wait.
GateBill ==
    /\ bill.charged <= PG!EffectiveBudget
    /\ bill.charged <= PG!UsedToday
    /\ bill.carried + Cost * Cardinality(ChargedBefore) <= Cost * Cardinality(Callers)
    /\ CountedToday + Cost * Cardinality(ChargedToday) <= bill.charged + bill.carried + bill.foreign
    /\ PG!UsedToday <= bill.charged + bill.carried + bill.foreign
    /\ \A r \in report : r.day = PG!Today => r.used <= bill.charged + bill.carried + bill.foreign
GateInv == PG!TypeOK /\ GateClocks /\ GateTokens /\ GateBill

\* The types, by variable.
LEMMA GateTypes ==
  PG!TypeOK <=>
    /\ now \in 0..LastTick /\ usage \in PG!Counters /\ bucket \in [tokens : 0..Burst, at : 0..LastTick]
    /\ cached \in 0..(LastTick + Ttl) /\ caller \in [Callers -> Tasks] /\ report \subseteq PG!Counters
    /\ counter \in PG!Counters /\ foreign \in 0..MaxForeign /\ bill \in Bills /\ posted \in [0..LastTick -> Nat]
  BY DEF PG!TypeOK, PG!Ticks, Tasks, Bills

\* What is computed is a number.
LEMMA GateNumbers ==
  ASSUME PG!GateAssumption, PG!TypeOK
  PROVE  PG!Today \in Nat /\ PG!EffectiveBudget \in Nat /\ PG!UsedToday \in Nat /\ CountedToday \in Nat
         /\ (bucket.at <= now => PG!Refilled \in 0..Burst)
  <1>1. now \in Nat /\ usage \in PG!Counters /\ counter \in PG!Counters /\ bucket.tokens \in 0..Burst
        /\ bucket \in [tokens : 0..Burst, at : 0..LastTick] /\ now \in 0..LastTick
    BY GateTypes DEF PG!GateAssumption
  <1>2. PG!Today \in Nat
    BY <1>1 DEF PG!GateAssumption, PG!Today
  <1>3. PG!EffectiveBudget \in Nat
    <2>1. Budget * (100 - Reserve) \in Nat
      BY DEF PG!GateAssumption
    <2> QED BY <2>1 DEF PG!EffectiveBudget
  <1>4. PG!UsedToday \in Nat /\ CountedToday \in Nat
    BY <1>1 DEF PG!UsedToday, CountedToday, PG!Counters
  <1>5. ASSUME bucket.at <= now PROVE PG!Refilled \in 0..Burst
    <2>1. bucket.at \in Nat /\ now - bucket.at \in Nat
      BY <1>1, <1>5 DEF PG!GateAssumption
    <2>2. (now - bucket.at) * Rate \in Nat
      BY <2>1 DEF PG!GateAssumption
    <2> QED BY <1>1, <2>2 DEF PG!Refilled, PG!Least, PG!GateAssumption
  <1> QED BY <1>2, <1>3, <1>4, <1>5

\* The tasks that wait can be counted.
LEMMA GateSets ==
  ASSUME PG!GateAssumption
  PROVE  /\ IsFiniteSet(ChargedToday) /\ Cardinality(ChargedToday) \in Nat
         /\ IsFiniteSet(ChargedBefore) /\ Cardinality(ChargedBefore) \in Nat
         /\ Cardinality(ChargedBefore) <= Cardinality(Callers) /\ Cardinality(Callers) \in Nat
  <1>1. ChargedToday \subseteq Callers /\ ChargedBefore \subseteq Callers /\ IsFiniteSet(Callers)
    BY DEF ChargedToday, ChargedBefore, PG!GateAssumption, PG!IsFiniteSet, IsFiniteSet
  <1>2. IsFiniteSet(ChargedToday) /\ IsFiniteSet(ChargedBefore)
    BY <1>1, FS_Subset
  <1>3. Cardinality(ChargedBefore) <= Cardinality(Callers)
    BY <1>1, FS_Subset
  <1>4. Cardinality(ChargedToday) \in Nat /\ Cardinality(ChargedBefore) \in Nat /\ Cardinality(Callers) \in Nat
    BY <1>1, <1>2, FS_CardinalityType
  <1> QED BY <1>2, <1>3, <1>4

\* A full bucket and an unused budget.
LEMMA GateInit == ASSUME PG!GateAssumption PROVE PG!Init => GateInv
  <1> SUFFICES ASSUME PG!Init PROVE GateInv
    OBVIOUS
  <1>1. PG!TypeOK
    <2>1. PG!Idle \in Tasks
      BY DEF PG!Idle, Tasks, PG!GateAssumption
    <2> QED BY <2>1, GateTypes DEF PG!Init, PG!Counters, Bills, PG!Ticks, PG!GateAssumption
  <1>2. PG!Today \in Nat /\ \A c \in Callers : caller[c].does = "nothing" /\ caller[c].charged = 0
    BY <1>1, GateNumbers DEF PG!Init, PG!Idle
  <1>3. GateClocks
    BY <1>2 DEF GateClocks, PG!Init
  <1>4. GateTokens
    <2>1. now = 0 /\ posted[0] = 0 /\ bucket.at = 0 /\ PG!Refilled \in 0..Burst
      BY <1>1, GateNumbers DEF PG!Init, PG!Ticks, PG!GateAssumption
    <2>2. PG!SentBefore(0) = 0 /\ Rate * (0 - 0) = 0
      BY DEF PG!SentBefore, PG!GateAssumption
    <2>3. posted[0] + PG!Refilled <= PG!SentBefore(0) + Burst + Rate * (0 - 0)
      BY <2>1, <2>2 DEF PG!GateAssumption
    <2> QED BY <2>1, <2>3 DEF GateTokens
  <1>5. GateBill
    <2>1. ChargedToday = {} /\ ChargedBefore = {}
      BY <1>2 DEF ChargedToday, ChargedBefore
    <2>2. Cardinality(ChargedToday) = 0 /\ Cardinality(ChargedBefore) = 0 /\ Cardinality(Callers) \in Nat
      BY <2>1, FS_EmptySet, GateSets
    <2>3. bill.charged = 0 /\ bill.carried = 0 /\ bill.foreign = 0 /\ PG!UsedToday = 0 /\ CountedToday = 0 /\ report = {}
      BY DEF PG!Init, PG!UsedToday, CountedToday
    <2>4. Cost * Cardinality(Callers) \in Nat /\ Cost * 0 = 0
      BY <2>2 DEF PG!GateAssumption
    <2>5. PG!EffectiveBudget \in Nat
      BY <1>1, GateNumbers
    <2> QED BY <2>2, <2>3, <2>4, <2>5 DEF GateBill
  <1> QED BY <1>1, <1>3, <1>4, <1>5 DEF GateInv

\* A task that begins or ends to wait for a token, or does neither.
LEMMA GateWaits ==
  ASSUME PG!GateAssumption, GateInv, NEW c \in Callers, NEW w \in Tasks, caller' = [caller EXCEPT ![c] = w],
         now' = now, w.charged <= PG!Today
  PROVE  /\ caller' \in [Callers -> Tasks] /\ \A d \in Callers : caller'[d].charged <= PG!Today
         /\ w.does # "acquire" /\ caller[c].does # "acquire" =>
                UNCHANGED <<ChargedToday, ChargedBefore>>
         /\ w.does = "acquire" /\ caller[c].does = "acquire" /\ w.charged = caller[c].charged =>
                UNCHANGED <<ChargedToday, ChargedBefore>>
         /\ w.does = "acquire" /\ caller[c].does # "acquire" /\ w.charged = PG!Today =>
                /\ Cardinality(ChargedToday') = Cardinality(ChargedToday) + 1 /\ ChargedBefore' = ChargedBefore
         /\ w.does # "acquire" /\ caller[c].does = "acquire" /\ caller[c].charged = PG!Today =>
                /\ Cardinality(ChargedToday) = Cardinality(ChargedToday') + 1 /\ ChargedBefore' = ChargedBefore
         /\ w.does # "acquire" /\ caller[c].does = "acquire" /\ caller[c].charged # PG!Today =>
                /\ Cardinality(ChargedBefore) = Cardinality(ChargedBefore') + 1 /\ ChargedToday' = ChargedToday
         /\ Cardinality(ChargedToday') \in Nat /\ Cardinality(ChargedBefore') \in Nat
  <1>1. /\ caller' \in [Callers -> Tasks] /\ caller'[c] = w /\ \A d \in Callers : d # c => caller'[d] = caller[d]
        /\ PG!Today' = PG!Today
    BY GateTypes DEF GateInv, PG!Today
  <1>2. \A d \in Callers : caller'[d].charged <= PG!Today
    BY <1>1 DEF GateInv, GateClocks
  <1> DEFINE A(d) == caller'[d].does = "acquire" /\ caller'[d].charged = PG!Today
             B(d) == caller'[d].does = "acquire" /\ caller'[d].charged # PG!Today
             P(d) == caller[d].does = "acquire" /\ caller[d].charged = PG!Today
             Q(d) == caller[d].does = "acquire" /\ caller[d].charged # PG!Today
  <1>9. /\ ChargedToday' = {d \in Callers : A(d)} /\ ChargedBefore' = {d \in Callers : B(d)}
        /\ ChargedToday = {d \in Callers : P(d)} /\ ChargedBefore = {d \in Callers : Q(d)}
    BY <1>1 DEF ChargedToday, ChargedBefore
  <1>10. /\ \A d \in Callers : d # c => (A(d) <=> P(d)) /\ (B(d) <=> Q(d))
         /\ A(c) <=> w.does = "acquire" /\ w.charged = PG!Today
         /\ B(c) <=> w.does = "acquire" /\ w.charged # PG!Today
    BY <1>1
  <1>11. /\ P(c) <=> caller[c].does = "acquire" /\ caller[c].charged = PG!Today
         /\ Q(c) <=> caller[c].does = "acquire" /\ caller[c].charged # PG!Today
    OBVIOUS
  <1> HIDE DEF A, B, P, Q
  <1>3. ASSUME w.does # "acquire", caller[c].does # "acquire"
        PROVE  UNCHANGED <<ChargedToday, ChargedBefore>>
    BY <1>9, <1>10, <1>11, <1>3
  <1>4. ASSUME w.does = "acquire", caller[c].does = "acquire", w.charged = caller[c].charged
        PROVE  UNCHANGED <<ChargedToday, ChargedBefore>>
    BY <1>9, <1>10, <1>11, <1>4
  <1>5. ASSUME w.does = "acquire", caller[c].does # "acquire", w.charged = PG!Today
        PROVE  Cardinality(ChargedToday') = Cardinality(ChargedToday) + 1 /\ ChargedBefore' = ChargedBefore
    <2>1. ChargedToday' = ChargedToday \cup {c} /\ c \notin ChargedToday /\ ChargedBefore' = ChargedBefore
      BY <1>9, <1>10, <1>11, <1>5
    <2> QED BY <2>1, GateSets, FS_AddElement
  <1>6. ASSUME w.does # "acquire", caller[c].does = "acquire", caller[c].charged = PG!Today
        PROVE  Cardinality(ChargedToday) = Cardinality(ChargedToday') + 1 /\ ChargedBefore' = ChargedBefore
    <2>1. ChargedToday' = ChargedToday \ {c} /\ c \in ChargedToday /\ ChargedBefore' = ChargedBefore
      BY <1>9, <1>10, <1>11, <1>6
    <2>2. Cardinality(ChargedToday') = Cardinality(ChargedToday) - 1
      BY <2>1, GateSets, FS_RemoveElement
    <2> QED BY <2>1, <2>2, GateSets
  <1>7. ASSUME w.does # "acquire", caller[c].does = "acquire", caller[c].charged # PG!Today
        PROVE  Cardinality(ChargedBefore) = Cardinality(ChargedBefore') + 1 /\ ChargedToday' = ChargedToday
    <2>1. ChargedBefore' = ChargedBefore \ {c} /\ c \in ChargedBefore /\ ChargedToday' = ChargedToday
      BY <1>9, <1>10, <1>11, <1>7
    <2>2. Cardinality(ChargedBefore') = Cardinality(ChargedBefore) - 1
      BY <2>1, GateSets, FS_RemoveElement
    <2> QED BY <2>1, <2>2, GateSets
  <1>8. Cardinality(ChargedToday') \in Nat /\ Cardinality(ChargedBefore') \in Nat
    <2>1. ChargedToday' \subseteq Callers /\ ChargedBefore' \subseteq Callers
      BY DEF ChargedToday, ChargedBefore
    <2>2. IsFiniteSet(ChargedToday') /\ IsFiniteSet(ChargedBefore')
      <3>1. IsFiniteSet(Callers)
        BY DEF PG!GateAssumption, PG!IsFiniteSet, IsFiniteSet
      <3> QED BY <2>1, <3>1, FS_Subset
    <2> QED BY <2>2, FS_CardinalityType
  <1> QED BY <1>1, <1>2, <1>3, <1>4, <1>5, <1>6, <1>7, <1>8

\* The tokens stay while the clock, the bucket and the requests do.
LEMMA GateTokensStay == ASSUME GateTokens, UNCHANGED <<now, bucket, posted>> PROVE GateTokens'
  BY DEF GateTokens, PG!Refilled, PG!SentBefore, PG!Least

\* A task that waits for no token, and is charged for none.
LEMMA GateTask ==
  ASSUME PG!GateAssumption, GateInv, NEW c \in Callers, NEW w \in Tasks, caller' = [caller EXCEPT ![c] = w],
         w.does # "acquire", caller[c].does # "acquire", w.charged <= PG!Today,
         UNCHANGED <<now, usage, bucket, report, counter, foreign, bill, posted>>,
         cached' \in 0..(LastTick + Ttl)
  PROVE  GateInv'
  <1>1. /\ caller' \in [Callers -> Tasks] /\ \A d \in Callers : caller'[d].charged <= PG!Today
        /\ UNCHANGED <<ChargedToday, ChargedBefore, PG!Today, PG!UsedToday, CountedToday>>
    BY GateWaits DEF PG!Today, PG!UsedToday, CountedToday
  <1>2. PG!TypeOK'
    BY <1>1, GateTypes DEF GateInv, PG!TypeOK, PG!Ticks, Tasks, Bills
  <1>3. GateTokens'
    BY GateTokensStay DEF GateInv
  <1>4. GateClocks'
    BY <1>1 DEF GateInv, GateClocks
  <1>5. GateBill'
    BY <1>1 DEF GateInv, GateBill, PG!EffectiveBudget
  <1> QED BY <1>2, <1>3, <1>4, <1>5 DEF GateInv

\* Steps that neither count a charge nor take a token.
LEMMA GateTasks ==
  ASSUME PG!GateAssumption, GateInv, NEW c \in Callers,
         \/ PG!Search(c) \/ PG!Load(c) \/ PG!Answer(c) \/ PG!Raise(c)
         \/ \E delay \in 0..Timeout : PG!Retry(c, delay)
  PROVE  GateInv'
  <1>0. /\ caller[c] \in Tasks /\ now \in 0..LastTick /\ cached \in 0..(LastTick + Ttl) /\ PG!Today \in Nat
        /\ caller[c].charged <= PG!Today
    BY GateTypes, GateNumbers DEF GateInv, GateClocks
  <1>1. PG!Idle \in Tasks /\ PG!Idle.does = "nothing" /\ PG!Idle.charged = 0
    BY DEF PG!Idle, Tasks, PG!GateAssumption
  <1>2. ASSUME NEW wants \in Requests, PG!Begin(c, wants), caller[c].does = "nothing",
               UNCHANGED <<now, usage, bucket, report, counter, foreign, bill, posted>>, cached' \in {0, cached}
        PROVE  GateInv'
    <2> DEFINE w == [PG!Idle EXCEPT !.does = "charge", !.wants = wants, !.attempt = 1, !.started = now]
    <2>0. ASSUME NEW x \in Tasks
          PROVE  [x EXCEPT !.does = "charge", !.wants = wants, !.attempt = 1, !.started = now] \in Tasks
      <3>1. 1 \in 0..MaxAttempts /\ now \in 0..LastTick
        BY <1>0 DEF PG!GateAssumption
      <3> QED BY <3>1 DEF Tasks
    <2>1. w \in Tasks /\ w.does = "charge" /\ w.charged <= PG!Today
      <3>1. w \in Tasks
        BY <1>1, <2>0
      <3>2. w.does = "charge" /\ w.charged = PG!Idle.charged
        BY <1>1 DEF Tasks
      <3> HIDE DEF w
      <3> QED BY <1>0, <1>1, <3>1, <3>2
    <2>2. caller' = [caller EXCEPT ![c] = w]
      BY <1>2 DEF PG!Begin
    <2>3. cached' \in 0..(LastTick + Ttl)
      BY <1>0, <1>2 DEF PG!GateAssumption
    <2> HIDE DEF w
    <2> QED BY <1>0, <1>2, <2>1, <2>2, <2>3, GateTask
  <1>3. CASE PG!Search(c) \/ PG!Load(c)
    BY <1>2, <1>3 DEF PG!Search, PG!Load
  <1>4. CASE PG!Answer(c) \/ PG!Raise(c)
    <2>1. cached' \in 0..(LastTick + Ttl)
      BY <1>0, <1>4 DEF PG!Answer, PG!Raise, PG!GateAssumption
    <2> QED BY <1>0, <1>1, <1>4, <2>1, GateTask DEF PG!Answer, PG!Raise, PG!End
  <1>5. ASSUME NEW delay \in 0..Timeout, PG!Retry(c, delay) PROVE GateInv'
    <2> DEFINE w == [caller[c] EXCEPT !.does = "charge", !.attempt = caller[c].attempt + 1, !.wake = now + delay]
    <2>1. /\ caller' = [caller EXCEPT ![c] = w] /\ caller[c].does = "sent" /\ caller[c].attempt < MaxAttempts
          /\ UNCHANGED <<now, usage, bucket, cached, report, counter, foreign, bill, posted>>
      BY ZenonT(30), <1>5 DEF PG!Retry
    <2>2. caller[c].attempt + 1 \in 0..MaxAttempts /\ now + delay \in 0..(LastTick + Timeout + 1)
      BY <1>0, <2>1 DEF Tasks, PG!GateAssumption
    <2>3. w \in Tasks /\ w.does = "charge" /\ w.charged = caller[c].charged
      BY <1>0, <2>2 DEF Tasks
    <2> HIDE DEF w
    <2> QED BY <1>0, <2>1, <2>3, GateTask
  <1> QED BY <1>3, <1>4, <1>5

\* Time passes: tokens flow in, and at midnight those who wait are of the day before.
LEMMA GateTick == ASSUME PG!GateAssumption, GateInv, PG!Tick PROVE GateInv'
  <1>0. /\ now \in 0..LastTick /\ bucket \in [tokens : 0..Burst, at : 0..LastTick] /\ caller \in [Callers -> Tasks]
        /\ posted \in [0..LastTick -> Nat] /\ bill \in Bills /\ report \subseteq PG!Counters /\ usage \in PG!Counters
        /\ counter \in PG!Counters
    BY GateTypes DEF GateInv
  <1>1. /\ now < LastTick /\ now' = now + 1 /\ UNCHANGED <<usage, bucket, cached, caller, report, counter, foreign>>
        /\ bill' = IF PG!Today' = PG!Today THEN bill ELSE [charged |-> 0, carried |-> 0, foreign |-> 0]
        /\ posted' = [posted EXCEPT ![now + 1] = posted[now]]
    BY DEF PG!Tick, PG!Today
  <1>2. now' \in 0..LastTick /\ now \in Nat /\ now' \in Nat
    BY <1>0, <1>1 DEF PG!GateAssumption
  <1>3. PG!Today \in Nat /\ PG!Today' \in Nat /\ PG!Today <= PG!Today'
    BY <1>1, <1>2 DEF PG!Today, PG!GateAssumption
  <1>4. PG!TypeOK'
    <2>1. bill' \in Bills
      BY <1>0, <1>1 DEF Bills
    <2>2. posted' \in [0..LastTick -> Nat]
      BY <1>0, <1>1, <1>2
    <2> QED BY <1>1, <1>2, <2>1, <2>2, GateTypes DEF GateInv, PG!TypeOK, PG!Ticks, Bills
  <1>5. GateClocks'
    <2>1. /\ usage.day \in Nat /\ counter.day \in Nat /\ bucket.at \in Nat /\ \A r \in report : r.day \in Nat
          /\ \A c \in Callers : caller[c].charged \in Nat
      BY SMTT(20), <1>0 DEF PG!Counters, Tasks, PG!GateAssumption
    <2> QED BY <1>1, <1>2, <1>3, <2>1 DEF GateInv, GateClocks
  <1>6. GateTokens'
    <2>1. PG!Refilled \in 0..Burst /\ PG!Refilled' \in 0..Burst /\ PG!Refilled' <= PG!Refilled + Rate
      <3>1. bucket.at \in Nat /\ bucket.at <= now /\ bucket.tokens \in Nat /\ Burst \in Nat /\ Rate \in Nat
        BY <1>0 DEF GateInv, GateClocks, PG!GateAssumption
      <3>2. (now - bucket.at) * Rate \in Nat /\ (now + 1 - bucket.at) * Rate = (now - bucket.at) * Rate + Rate
        BY <1>2, <3>1
      <3> DEFINE a == bucket.tokens + (now - bucket.at) * Rate
      <3>3. a \in Nat /\ bucket.tokens + (now + 1 - bucket.at) * Rate = a + Rate
        BY <3>1, <3>2
      <3>5. PG!Refilled = PG!Least(Burst, a)
        BY DEF PG!Refilled
      <3> DEFINE b == bucket.tokens + (now + 1 - bucket.at) * Rate
      <3> DEFINE x == bucket'.tokens + (now' - bucket'.at) * Rate
      <3>7. x = b
        <4>1. now' = now + 1 /\ bucket' = bucket
          BY <1>1
        <4>2. bucket'.tokens = bucket.tokens /\ now' - bucket'.at = now + 1 - bucket.at
          <5>1. bucket'.tokens = bucket.tokens /\ bucket'.at = bucket.at
            BY <4>1
          <5> QED BY <1>2, <3>1, <4>1, <5>1
        <4> DEFINE p == now' - bucket'.at
                   q == now + 1 - bucket.at
        <4>3. p = q /\ bucket'.tokens = bucket.tokens
          BY <4>2
        <4> HIDE DEF p, q
        <4>4. bucket'.tokens + p * Rate = bucket.tokens + q * Rate
          BY <4>3
        <4> QED BY <4>4 DEF p, q
      <3>8. PG!Refilled' = (IF Burst < x THEN Burst ELSE x)
        BY DEF PG!Refilled, PG!Least
      <3> HIDE DEF x, b
      <3>6. PG!Refilled' = (IF Burst < b THEN Burst ELSE b)
        BY <3>7, <3>8
      <3>4. PG!Refilled = (IF Burst < a THEN Burst ELSE a) /\ PG!Refilled' = (IF Burst < a + Rate THEN Burst ELSE a + Rate)
        <4>1. b = a + Rate
          BY <3>3 DEF b
        <4> HIDE DEF a
        <4> QED BY <3>5, <3>6, <4>1 DEF PG!Least
      <3> HIDE DEF a
      <3> QED BY <3>1, <3>3, <3>4
    <2>2. posted'[now + 1] = posted[now] /\ \A t \in 0..now : posted'[t] = posted[t]
      BY <1>0, <1>1, <1>2
    <2>3. ASSUME NEW t \in 0..now' PROVE posted'[now'] + PG!Refilled' <= PG!SentBefore(t)' + Burst + Rate * (now' - t)
      <3>1. CASE t = now + 1
        <4>1. PG!SentBefore(t)' = posted[now] /\ posted[now] \in Nat
          BY <1>0, <1>2, <2>2, <3>1 DEF PG!SentBefore
        <4>2. Rate * (now' - t) = 0
          BY <1>1, <1>2, <3>1 DEF PG!GateAssumption
        <4> QED BY <1>1, <2>1, <2>2, <4>1, <4>2 DEF PG!GateAssumption
      <3>2. CASE t # now + 1
        <4>1. t \in 0..now /\ t \in Nat
          BY <1>1, <1>2, <3>2
        <4>2. PG!SentBefore(t)' = PG!SentBefore(t) /\ PG!SentBefore(t) \in Nat
          <5>1. CASE t = 0
            BY <5>1 DEF PG!SentBefore
          <5>2. CASE t # 0
            <6>1. t - 1 \in 0..now /\ t - 1 \in 0..LastTick
              BY <1>0, <4>1, <5>2 DEF PG!GateAssumption
            <6>2. posted'[t - 1] = posted[t - 1] /\ posted[t - 1] \in Nat
              BY <1>0, <2>2, <6>1
            <6> QED BY <5>2, <6>2 DEF PG!SentBefore
          <5> QED BY <5>1, <5>2
        <4>3. Rate * (now' - t) = Rate * (now - t) + Rate /\ Rate * (now - t) \in Nat /\ Rate \in Nat /\ Burst \in Nat
          BY <1>1, <1>2, <4>1 DEF PG!GateAssumption
        <4>4. posted[now] + PG!Refilled <= PG!SentBefore(t) + Burst + Rate * (now - t)
          BY <4>1 DEF GateInv, GateTokens
        <4>5. posted'[now'] = posted[now] /\ posted[now] \in Nat
          BY <1>0, <1>1, <2>2
        <4> QED BY <2>1, <4>2, <4>3, <4>4, <4>5
      <3> QED BY <3>1, <3>2
    <2> QED BY <2>3 DEF GateTokens
  <1>7. GateBill'
    <2>1. CASE PG!Today' = PG!Today
      <3>1. UNCHANGED <<ChargedToday, ChargedBefore, PG!UsedToday, CountedToday, bill, report, PG!EffectiveBudget>>
        BY <1>1, <2>1 DEF ChargedToday, ChargedBefore, PG!UsedToday, CountedToday, PG!EffectiveBudget
      <3> QED BY <2>1, <3>1 DEF GateInv, GateBill
    <2>2. CASE PG!Today' # PG!Today
      <3>1. PG!Today < PG!Today'
        BY <1>3, <2>2
      <3>2. /\ usage.day # PG!Today' /\ counter.day # PG!Today' /\ \A r \in report : r.day # PG!Today'
            /\ \A c \in Callers : caller[c].charged # PG!Today'
        <4>1. /\ usage.day \in Nat /\ counter.day \in Nat /\ \A r \in report : r.day \in Nat
              /\ \A c \in Callers : caller[c].charged \in Nat
          BY <1>0 DEF PG!Counters, Tasks
        <4> QED BY <1>3, <3>1, <4>1 DEF GateInv, GateClocks
      <3>3. PG!UsedToday' = 0 /\ CountedToday' = 0
        BY <1>1, <3>2 DEF PG!UsedToday, CountedToday
      <3>4. ChargedToday' = {} /\ ChargedBefore' \subseteq Callers
        BY <1>1, <3>2 DEF ChargedToday, ChargedBefore
      <3>5. Cardinality(ChargedToday') = 0
        BY <3>4, FS_EmptySet
      <3>6. Cardinality(ChargedBefore') <= Cardinality(Callers) /\ Cardinality(ChargedBefore') \in Nat /\ Cardinality(Callers) \in Nat
        <4>1. IsFiniteSet(Callers)
          BY DEF PG!GateAssumption, PG!IsFiniteSet, IsFiniteSet
        <4> QED BY <3>4, <4>1, FS_Subset, FS_CardinalityType
      <3>7. Cost * Cardinality(ChargedBefore') <= Cost * Cardinality(Callers) /\ Cost * Cardinality(ChargedBefore') \in Nat
            /\ Cost * 0 = 0
        BY <3>6 DEF PG!GateAssumption
      <3>8. bill'.charged = 0 /\ bill'.carried = 0 /\ bill'.foreign = 0
        BY <1>1, <2>2
      <3>9. PG!EffectiveBudget' = PG!EffectiveBudget /\ PG!EffectiveBudget \in Nat
        BY GateNumbers DEF GateInv, PG!EffectiveBudget
      <3> QED BY <1>1, <3>2, <3>3, <3>5, <3>6, <3>7, <3>8, <3>9 DEF GateBill
    <2> QED BY <2>1, <2>2
  <1> QED BY <1>4, <1>5, <1>6, <1>7 DEF GateInv

\* The provider counts a request of another process, and reports what it has
\* counted.
LEMMA GateCounts ==
  ASSUME PG!GateAssumption, GateInv, PG!Foreign \/ PG!AskForUsage \/ PG!SynchronizeUsage
  PROVE  GateInv'
  <1>0. /\ now \in 0..LastTick /\ bill \in Bills /\ report \subseteq PG!Counters /\ usage \in PG!Counters
        /\ counter \in PG!Counters /\ foreign \in 0..MaxForeign /\ PG!Today \in Nat /\ Cost \in Nat
        /\ PG!UsedToday \in Nat /\ CountedToday \in Nat
    BY GateTypes, GateNumbers DEF GateInv, PG!GateAssumption
  <1>1. /\ UNCHANGED <<now, bucket, cached, caller, posted>>
        /\ UNCHANGED <<PG!Today, ChargedToday, ChargedBefore, PG!EffectiveBudget>>
    BY DEF PG!Foreign, PG!AskForUsage, PG!SynchronizeUsage, PG!Today, ChargedToday, ChargedBefore, PG!EffectiveBudget
  <1>2. GateTokens'
    BY <1>1, GateTokensStay DEF GateInv
  <1>3. Cost * Cardinality(ChargedToday) \in Nat /\ Cost * Cardinality(ChargedBefore) \in Nat
    BY GateSets DEF PG!GateAssumption
  <1>4. CASE PG!Foreign
    <2>1. /\ counter' = [used |-> Cost + CountedToday, day |-> PG!Today] /\ bill' = [bill EXCEPT !.foreign = bill.foreign + Cost]
          /\ UNCHANGED <<usage, report>> /\ foreign' \in 0..MaxForeign
      BY <1>0, <1>4 DEF PG!Foreign, PG!Counted, CountedToday, PG!GateAssumption
    <2>2. /\ bill' \in Bills /\ bill'.charged = bill.charged /\ bill'.carried = bill.carried
          /\ bill'.foreign = bill.foreign + Cost /\ bill.charged \in Nat /\ bill.carried \in Nat /\ bill.foreign \in Nat
      BY <1>0, <2>1 DEF Bills
    <2>3. /\ counter' \in PG!Counters /\ counter'.day = PG!Today /\ CountedToday' = Cost + CountedToday
          /\ PG!UsedToday' = PG!UsedToday
      BY <1>0, <1>1, <2>1 DEF PG!Counters, CountedToday, PG!UsedToday
    <2>4. PG!TypeOK'
      BY <1>1, <2>1, <2>2, <2>3, GateTypes DEF GateInv, PG!TypeOK, PG!Ticks, Tasks, Bills
    <2>5. GateClocks'
      BY <1>0, <1>1, <2>1, <2>3 DEF GateInv, GateClocks
    <2>6. GateBill'
      <3>1. \A r \in report : r.used \in Nat
        BY <1>0 DEF PG!Counters
      <3> QED BY <1>0, <1>1, <1>3, <2>1, <2>2, <2>3, <3>1 DEF GateInv, GateBill
    <2> QED BY <1>2, <2>4, <2>5, <2>6 DEF GateInv
  <1>5. CASE PG!AskForUsage
    <2>1. report' = {counter} /\ UNCHANGED <<usage, counter, foreign, bill>>
      BY <1>5 DEF PG!AskForUsage
    <2>2. PG!UsedToday' = PG!UsedToday /\ CountedToday' = CountedToday
      BY <1>1, <2>1 DEF PG!UsedToday, CountedToday
    <2>3. PG!TypeOK'
      BY <1>0, <1>1, <2>1 DEF GateInv, PG!TypeOK
    <2>4. GateClocks'
      BY <1>1, <2>1 DEF GateInv, GateClocks
    <2>5. counter.day = PG!Today => counter.used <= bill.charged + bill.carried + bill.foreign
      BY <1>0, <1>3 DEF GateInv, GateBill, CountedToday, Bills
    <2>6. GateBill'
      BY <1>1, <2>1, <2>2, <2>5 DEF GateInv, GateBill
    <2> QED BY <1>2, <2>3, <2>4, <2>6 DEF GateInv
  <1>6. CASE PG!SynchronizeUsage
    <2>1. PICK r \in report :
            usage' = [used |-> IF r.day = PG!Today THEN PG!Largest(PG!UsedToday, r.used) ELSE PG!UsedToday, day |-> PG!Today]
      BY <1>6 DEF PG!SynchronizeUsage, PG!SameDay
    <2>2. report' = {} /\ UNCHANGED <<counter, foreign, bill>>
      BY <1>6 DEF PG!SynchronizeUsage
    <2>3. r.used \in Nat /\ (r.day = PG!Today => r.used <= bill.charged + bill.carried + bill.foreign)
      BY <1>0 DEF PG!Counters, GateInv, GateBill
    <2>4. /\ usage' \in PG!Counters /\ usage'.day = PG!Today
          /\ \/ usage'.used = PG!UsedToday
             \/ r.day = PG!Today /\ PG!UsedToday <= r.used /\ usage'.used = r.used
      BY <1>0, <2>1, <2>3 DEF PG!Counters, PG!Largest
    <2>5. /\ PG!UsedToday' = usage'.used /\ CountedToday' = CountedToday
      BY <1>1, <2>2, <2>4 DEF PG!UsedToday, CountedToday
    <2>6. PG!TypeOK'
      BY <1>1, <2>2, <2>4 DEF GateInv, PG!TypeOK
    <2>7. GateClocks'
      BY <1>0, <1>1, <2>2, <2>4 DEF GateInv, GateClocks
    <2>8. GateBill'
      <3>1. bill.charged \in Nat /\ bill.carried \in Nat /\ bill.foreign \in Nat
        BY <1>0 DEF Bills
      <3> QED BY <1>0, <1>1, <2>2, <2>3, <2>4, <2>5, <3>1 DEF GateInv, GateBill
    <2> QED BY <1>2, <2>6, <2>7, <2>8 DEF GateInv
  <1> QED BY <1>4, <1>5, <1>6

\* A task is charged for its request if the budget of the day allows it.
LEMMA GateCharge == ASSUME PG!GateAssumption, GateInv, NEW c \in Callers, PG!Charge(c) PROVE GateInv'
  <1>0. /\ caller[c] \in Tasks /\ now \in 0..LastTick /\ bill \in Bills /\ report \subseteq PG!Counters /\ usage \in PG!Counters
        /\ PG!Today \in Nat /\ Cost \in Nat /\ PG!UsedToday \in Nat /\ CountedToday \in Nat /\ PG!EffectiveBudget \in Nat
        /\ caller[c].charged <= PG!Today
    BY GateTypes, GateNumbers DEF GateInv, PG!GateAssumption, GateClocks
  <1>1. /\ caller[c].does = "charge" /\ usage'.day = PG!Today /\ usage' \in PG!Counters
        /\ UNCHANGED <<now, bucket, cached, report, counter, foreign, posted>>
    BY <1>0 DEF PG!Charge, PG!Counters
  <1>2. UNCHANGED <<PG!Today, PG!EffectiveBudget, CountedToday>> /\ GateTokens' /\ PG!UsedToday' = usage'.used
    BY <1>1, GateTokensStay DEF GateInv, PG!Today, PG!EffectiveBudget, CountedToday, PG!UsedToday
  <1>3. CASE PG!UsedToday + Cost > PG!EffectiveBudget
    <2>1. caller' = [caller EXCEPT ![c] = PG!Idle] /\ UNCHANGED bill /\ usage'.used = PG!UsedToday
      BY <1>3 DEF PG!Charge, PG!End
    <2>2. PG!Idle \in Tasks /\ PG!Idle.does = "nothing" /\ PG!Idle.charged <= PG!Today
      BY <1>0 DEF PG!Idle, Tasks, PG!GateAssumption
    <2>3. /\ caller' \in [Callers -> Tasks] /\ \A d \in Callers : caller'[d].charged <= PG!Today
          /\ UNCHANGED <<ChargedToday, ChargedBefore>>
      BY <1>0, <1>1, <2>1, <2>2, GateWaits
    <2>4. PG!TypeOK'
      BY <1>1, <2>1, <2>3, GateTypes DEF GateInv, PG!TypeOK, PG!Ticks, Tasks, Bills
    <2>5. GateClocks'
      BY <1>0, <1>1, <1>2, <2>3 DEF GateInv, GateClocks
    <2>6. GateBill'
      BY <1>1, <1>2, <2>1, <2>3 DEF GateInv, GateBill
    <2> QED BY <1>2, <2>4, <2>5, <2>6 DEF GateInv
  <1>4. CASE ~(PG!UsedToday + Cost > PG!EffectiveBudget)
    <2> DEFINE w == [caller[c] EXCEPT !.does = "acquire", !.wake = 0, !.charged = PG!Today]
    <2>1. /\ caller' = [caller EXCEPT ![c] = w] /\ bill' = [bill EXCEPT !.charged = bill.charged + Cost]
          /\ usage'.used = PG!UsedToday + Cost
      <3>1. /\ caller' = [caller EXCEPT ![c].does = "acquire", ![c].wake = 0, ![c].charged = PG!Today]
            /\ bill' = [bill EXCEPT !.charged = @ + Cost]
            /\ usage' = [used |-> PG!UsedToday + Cost, day |-> PG!Today]
        BY <1>4 DEF PG!Charge
      <3> QED BY <1>0, <3>1, GateTypes DEF GateInv
    <2>2. w \in Tasks /\ w.does = "acquire" /\ w.charged = PG!Today /\ w.charged <= PG!Today
      <3>1. 0 \in 0..(LastTick + Timeout + 1)
        BY DEF PG!GateAssumption
      <3>2. \A x \in Tasks : [x EXCEPT !.does = "acquire", !.wake = 0, !.charged = PG!Today] \in Tasks
        BY <1>0, <3>1 DEF Tasks
      <3>3. w.does = "acquire" /\ w.charged = PG!Today
        BY <1>0 DEF Tasks
      <3>4. w \in Tasks
        BY <1>0, <3>2
      <3> HIDE DEF w
      <3> QED BY <1>0, <3>3, <3>4
    <2> HIDE DEF w
    <2>3. /\ caller' \in [Callers -> Tasks] /\ \A d \in Callers : caller'[d].charged <= PG!Today
          /\ Cardinality(ChargedToday') = Cardinality(ChargedToday) + 1 /\ ChargedBefore' = ChargedBefore
      BY <1>0, <1>1, <2>1, <2>2, GateWaits
    <2>4. /\ bill' \in Bills /\ bill'.charged = bill.charged + Cost /\ bill'.carried = bill.carried
          /\ bill'.foreign = bill.foreign /\ bill.charged \in Nat /\ bill.carried \in Nat /\ bill.foreign \in Nat
      BY <1>0, <2>1 DEF Bills
    <2>5. PG!TypeOK'
      BY <1>1, <2>3, <2>4, GateTypes DEF GateInv, PG!TypeOK, PG!Ticks, Tasks, Bills
    <2>6. GateClocks'
      BY <1>0, <1>1, <1>2, <2>3 DEF GateInv, GateClocks
    <2>7. /\ Cost * Cardinality(ChargedToday') = Cost * Cardinality(ChargedToday) + Cost
          /\ Cost * Cardinality(ChargedToday) \in Nat
      BY <1>0, <2>3, GateSets
    <2>8. GateBill'
      <3>1. \A r \in report : r.used \in Nat
        BY <1>0 DEF PG!Counters
      <3> QED BY <1>0, <1>1, <1>2, <1>4, <2>1, <2>3, <2>4, <2>7, <3>1 DEF GateInv, GateBill
    <2> QED BY <1>2, <2>5, <2>6, <2>8 DEF GateInv
  <1> QED BY <1>3, <1>4

\* A task takes a token, and its request is counted on the day it is sent.
LEMMA GateAcquire == ASSUME PG!GateAssumption, GateInv, NEW c \in Callers, PG!Acquire(c) PROVE GateInv'
  <1>0. /\ caller[c] \in Tasks /\ caller \in [Callers -> Tasks] /\ now \in 0..LastTick /\ bill \in Bills
        /\ report \subseteq PG!Counters /\ usage \in PG!Counters /\ counter \in PG!Counters
        /\ posted \in [0..LastTick -> Nat] /\ bucket \in [tokens : 0..Burst, at : 0..LastTick]
        /\ PG!Today \in Nat /\ Cost \in Nat /\ PG!UsedToday \in Nat /\ CountedToday \in Nat /\ PG!EffectiveBudget \in Nat
        /\ caller[c].charged <= PG!Today /\ caller[c].charged \in Nat /\ PG!Refilled \in 0..Burst
    BY GateTypes, GateNumbers DEF GateInv, PG!GateAssumption, GateClocks, Tasks
  <1>1. /\ caller[c].does = "acquire" /\ UNCHANGED <<now, usage, cached, report, foreign>>
    BY DEF PG!Acquire
  <1>2. UNCHANGED <<PG!Today, PG!EffectiveBudget, PG!UsedToday>>
    BY <1>1 DEF PG!Today, PG!EffectiveBudget, PG!UsedToday
  <1>3. Cost \in Nat /\ CountedToday \in Nat /\ PG!UsedToday \in Nat /\ PG!Today \in Nat
    BY <1>0
  <1>4. ASSUME NEW n \in 0..PG!Refilled, bucket' = [tokens |-> n, at |-> now]
        PROVE  bucket' \in [tokens : 0..Burst, at : 0..LastTick] /\ bucket'.at <= now /\ PG!Refilled' = n
    <2>1. n \in 0..Burst /\ now - now = 0 /\ 0 * Rate = 0
      BY <1>0 DEF PG!GateAssumption
    <2>2. bucket'.tokens = n /\ bucket'.at = now /\ bucket' \in [tokens : 0..Burst, at : 0..LastTick]
      BY <1>0, <1>4, <2>1
    <2>3. PG!Refilled' = (IF Burst < n + 0 THEN Burst ELSE n + 0)
      BY <1>1, <2>1, <2>2 DEF PG!Refilled, PG!Least
    <2>4. n + 0 = n /\ ~(Burst < n)
      BY <2>1 DEF PG!GateAssumption
    <2> QED BY <1>0, <2>2, <2>3, <2>4
  <1>5. CASE PG!Refilled < 1
    <2> DEFINE w == [caller[c] EXCEPT !.wake = now + 1]
    <2>1. /\ caller' = [caller EXCEPT ![c] = w] /\ bucket' = [tokens |-> PG!Refilled, at |-> now]
          /\ UNCHANGED <<counter, bill, posted>>
      BY <1>5 DEF PG!Acquire
    <2>2. w \in Tasks /\ w.does = "acquire" /\ w.charged = caller[c].charged
      <3>1. now + 1 \in 0..(LastTick + Timeout + 1)
        BY <1>0 DEF PG!GateAssumption
      <3> QED BY <1>0, <1>1, <3>1 DEF Tasks
    <2> HIDE DEF w
    <2>3. /\ caller' \in [Callers -> Tasks] /\ \A d \in Callers : caller'[d].charged <= PG!Today
          /\ UNCHANGED <<ChargedToday, ChargedBefore>>
      BY <1>0, <1>1, <2>1, <2>2, GateWaits
    <2>4. bucket' \in [tokens : 0..Burst, at : 0..LastTick] /\ bucket'.at <= now /\ PG!Refilled' = PG!Refilled
      BY <1>0, <1>4, <2>1
    <2>5. PG!TypeOK'
      BY <1>1, <2>1, <2>3, <2>4, GateTypes DEF GateInv, PG!TypeOK, PG!Ticks, Tasks, Bills
    <2>6. GateClocks'
      BY <1>1, <1>2, <2>1, <2>3, <2>4 DEF GateInv, GateClocks
    <2>7. GateTokens'
      BY <1>1, <2>1, <2>4 DEF GateInv, GateTokens, PG!SentBefore
    <2>8. GateBill'
      BY <1>1, <1>2, <2>1, <2>3 DEF GateInv, GateBill, CountedToday
    <2> QED BY <2>5, <2>6, <2>7, <2>8 DEF GateInv
  <1>6. CASE ~(PG!Refilled < 1)
    <2> DEFINE w == [caller[c] EXCEPT !.does = "sent"]
    <2>1. /\ caller' = [caller EXCEPT ![c] = w] /\ bucket' = [tokens |-> PG!Refilled - 1, at |-> now]
          /\ posted' = [posted EXCEPT ![now] = posted[now] + 1]
      BY <1>6 DEF PG!Acquire
    <2>2. /\ counter' = [used |-> Cost + CountedToday, day |-> PG!Today]
          /\ bill' = IF caller[c].charged = PG!Today THEN bill ELSE [bill EXCEPT !.carried = bill.carried + Cost]
      BY <1>6 DEF PG!Acquire, PG!Counted, CountedToday
    <2>3. w \in Tasks /\ w.does = "sent" /\ w.charged = caller[c].charged
      BY <1>0 DEF Tasks
    <2> HIDE DEF w
    <2>4. bucket' \in [tokens : 0..Burst, at : 0..LastTick] /\ bucket'.at <= now /\ PG!Refilled' = PG!Refilled - 1
      <3>1. PG!Refilled - 1 \in 0..PG!Refilled
        BY <1>0, <1>6 DEF PG!GateAssumption
      <3> QED BY <1>4, <2>1, <3>1
    <2>5. /\ counter' \in PG!Counters /\ counter'.day = PG!Today /\ CountedToday' = Cost + CountedToday
      BY <1>3, <1>2, <2>2 DEF PG!Counters, CountedToday
    <2>6. posted' \in [0..LastTick -> Nat]
      BY <1>0, <2>1
    <2>7. /\ bill' \in Bills /\ bill'.charged = bill.charged /\ bill'.foreign = bill.foreign
          /\ caller[c].charged = PG!Today => bill'.carried = bill.carried
          /\ caller[c].charged # PG!Today => bill'.carried = bill.carried + Cost
          /\ bill.charged \in Nat /\ bill.carried \in Nat /\ bill.foreign \in Nat
      <3>1. bill.charged \in Nat /\ bill.carried \in Nat /\ bill.foreign \in Nat
        BY <1>0 DEF Bills
      <3>2. CASE caller[c].charged = PG!Today
        BY <1>0, <2>2, <3>1, <3>2
      <3>3. CASE caller[c].charged # PG!Today
        <4>1. bill' = [bill EXCEPT !.carried = bill.carried + Cost] /\ bill.carried + Cost \in Nat
          BY <1>3, <2>2, <3>1, <3>3
        <4> QED BY <1>0, <3>1, <3>3, <4>1 DEF Bills
      <3> QED BY <3>2, <3>3
    <2>8. /\ caller' \in [Callers -> Tasks] /\ \A d \in Callers : caller'[d].charged <= PG!Today
          /\ caller[c].charged = PG!Today =>
                Cardinality(ChargedToday) = Cardinality(ChargedToday') + 1 /\ ChargedBefore' = ChargedBefore
          /\ caller[c].charged # PG!Today =>
                Cardinality(ChargedBefore) = Cardinality(ChargedBefore') + 1 /\ ChargedToday' = ChargedToday
          /\ Cardinality(ChargedToday') \in Nat /\ Cardinality(ChargedBefore') \in Nat
      BY <1>0, <1>1, <2>1, <2>3, GateWaits
    <2>9. PG!TypeOK'
      BY <1>1, <2>4, <2>5, <2>6, <2>7, <2>8, GateTypes DEF GateInv, PG!TypeOK, PG!Ticks, Tasks, Bills
    <2>10. GateClocks'
      BY <1>0, <1>1, <1>2, <2>4, <2>5, <2>8 DEF GateInv, GateClocks
    <2>11. GateTokens'
      <3>1. ASSUME NEW t \in 0..now PROVE posted'[now] + PG!Refilled' <= PG!SentBefore(t)' + Burst + Rate * (now - t)
        <4>1. PG!SentBefore(t)' = PG!SentBefore(t) /\ PG!SentBefore(t) \in Nat
          <5>1. CASE t = 0
            BY <5>1 DEF PG!SentBefore
          <5>2. CASE t # 0
            <6>1. t - 1 \in 0..LastTick /\ t - 1 # now
              BY <1>0, <5>2 DEF PG!GateAssumption
            <6>2. posted'[t - 1] = posted[t - 1] /\ posted[t - 1] \in Nat
              BY <1>0, <2>1, <6>1
            <6> QED BY <5>2, <6>2 DEF PG!SentBefore
          <5> QED BY <5>1, <5>2
        <4>2. posted'[now] = posted[now] + 1 /\ posted[now] \in Nat
          BY <1>0, <2>1
        <4>3. posted[now] + PG!Refilled <= PG!SentBefore(t) + Burst + Rate * (now - t)
          BY DEF GateInv, GateTokens
        <4>4. (posted[now] + 1) + (PG!Refilled - 1) = posted[now] + PG!Refilled
          BY <1>0, <4>2
        <4> QED BY <2>4, <4>1, <4>2, <4>3, <4>4
      <3> QED BY <1>1, <3>1 DEF GateTokens
    <2>12. GateBill'
      <3>1. \A r \in report : r.used \in Nat
        BY <1>0 DEF PG!Counters
      <3>2. /\ Cost * Cardinality(ChargedToday) \in Nat /\ Cost * Cardinality(ChargedToday') \in Nat
            /\ Cost * Cardinality(ChargedBefore) \in Nat /\ Cost * Cardinality(ChargedBefore') \in Nat
            /\ Cost * Cardinality(Callers) \in Nat
        <4>1. \A n \in Nat : Cost * n \in Nat
          BY <1>0
        <4> QED BY <2>8, <4>1, GateSets
      <3>3. CASE caller[c].charged = PG!Today
        <4>1. Cost * Cardinality(ChargedToday) = Cost * Cardinality(ChargedToday') + Cost
          BY <1>0, <2>8, <3>3
        <4>2. ChargedBefore' = ChargedBefore /\ bill'.carried = bill.carried
          BY <2>7, <2>8, <3>3
        <4>3. bill'.carried + Cost * Cardinality(ChargedBefore') <= Cost * Cardinality(Callers)
          BY <4>2 DEF GateInv, GateBill
        <4>4. CountedToday' + Cost * Cardinality(ChargedToday') <= bill'.charged + bill'.carried + bill'.foreign
          <5> DEFINE x == Cost * Cardinality(ChargedToday)
          <5> DEFINE y == Cost * Cardinality(ChargedToday')
          <5>1. CountedToday + x <= bill.charged + bill.carried + bill.foreign
            BY DEF GateInv, GateBill
          <5>2. x \in Nat /\ y \in Nat /\ x = y + Cost /\ Cost * Cardinality(ChargedToday') = y
            BY <3>2, <4>1
          <5> HIDE DEF x, y
          <5>3. (Cost + CountedToday) + y <= bill.charged + bill.carried + bill.foreign
            BY <1>3, <2>7, <5>1, <5>2
          <5> QED BY <2>5, <2>7, <4>2, <5>2, <5>3
        <4>5. PG!UsedToday' <= bill'.charged + bill'.carried + bill'.foreign
          BY <1>2, <2>7, <4>2 DEF GateInv, GateBill
        <4>6. \A r \in report' : r.day = PG!Today' => r.used <= bill'.charged + bill'.carried + bill'.foreign
          BY <1>1, <1>2, <2>7, <4>2 DEF GateInv, GateBill
        <4>7. bill'.charged <= PG!EffectiveBudget' /\ bill'.charged <= PG!UsedToday'
          BY <1>2, <2>7 DEF GateInv, GateBill
        <4> QED BY <4>3, <4>4, <4>5, <4>6, <4>7 DEF GateBill
      <3>4. CASE caller[c].charged # PG!Today
        <4>1. Cost * Cardinality(ChargedBefore) = Cost * Cardinality(ChargedBefore') + Cost
          BY <1>0, <2>8, <3>4
        <4>2. ChargedToday' = ChargedToday /\ bill'.carried = bill.carried + Cost
          BY <2>7, <2>8, <3>4
        <4>3. bill'.carried + Cost * Cardinality(ChargedBefore') <= Cost * Cardinality(Callers)
          BY <1>0, <2>7, <3>2, <4>1, <4>2 DEF GateInv, GateBill
        <4>8. Cost * Cardinality(ChargedToday') = Cost * Cardinality(ChargedToday)
          BY <4>2
        <4>9. CountedToday + Cost * Cardinality(ChargedToday) <= bill.charged + bill.carried + bill.foreign
          BY DEF GateInv, GateBill
        <4> DEFINE y == Cost * Cardinality(ChargedToday)
        <4>10. y \in Nat /\ Cost * Cardinality(ChargedToday') = y /\ CountedToday + y <= bill.charged + bill.carried + bill.foreign
          BY <3>2, <4>8, <4>9
        <4> HIDE DEF y
        <4>4. CountedToday' + Cost * Cardinality(ChargedToday') <= bill'.charged + bill'.carried + bill'.foreign
          <5>1. (Cost + CountedToday) + y <= bill.charged + (bill.carried + Cost) + bill.foreign
            BY <1>3, <2>7, <4>10
          <5> QED BY <2>5, <2>7, <3>4, <4>10, <5>1
        <4>5. PG!UsedToday' <= bill'.charged + bill'.carried + bill'.foreign
          <5>1. PG!UsedToday <= bill.charged + bill.carried + bill.foreign
            BY DEF GateInv, GateBill
          <5>2. PG!UsedToday <= bill.charged + (bill.carried + Cost) + bill.foreign
            BY <1>3, <2>7, <5>1
          <5> QED BY <1>2, <2>7, <4>2, <5>2
        <4>6. \A r \in report' : r.day = PG!Today' => r.used <= bill'.charged + bill'.carried + bill'.foreign
          <5>1. ASSUME NEW r \in report, r.day = PG!Today
                PROVE  r.used <= bill.charged + (bill.carried + Cost) + bill.foreign
            <6>1. r.used \in Nat /\ r.used <= bill.charged + bill.carried + bill.foreign
              BY <3>1, <5>1 DEF GateInv, GateBill
            <6> QED BY <1>3, <2>7, <6>1
          <5> QED BY <1>1, <1>2, <2>7, <3>4, <5>1
        <4>7. bill'.charged <= PG!EffectiveBudget' /\ bill'.charged <= PG!UsedToday'
          BY <1>2, <2>7 DEF GateInv, GateBill
        <4> QED BY <4>3, <4>4, <4>5, <4>6, <4>7 DEF GateBill
      <3> QED BY <3>3, <3>4
    <2> QED BY <2>9, <2>10, <2>11, <2>12 DEF GateInv
  <1> QED BY <1>5, <1>6

\* Every step is of one of the groups above.
LEMMA GateNext == ASSUME PG!GateAssumption, GateInv, [PG!Next]_(PG!gateVars) PROVE GateInv'
  <1>1. CASE UNCHANGED PG!gateVars
    <2>1. UNCHANGED <<now, usage, bucket, cached, caller, report, counter, foreign, bill, posted>>
      BY <1>1 DEF PG!gateVars
    <2>2. PG!TypeOK' /\ UNCHANGED <<PG!Today, ChargedToday, ChargedBefore, PG!EffectiveBudget, PG!UsedToday, CountedToday>>
      BY <2>1 DEF GateInv, PG!TypeOK, PG!Today, ChargedToday, ChargedBefore, PG!EffectiveBudget, PG!UsedToday, CountedToday
    <2>3. GateTokens'
      BY <2>1, GateTokensStay DEF GateInv
    <2>4. GateClocks' /\ GateBill'
      BY <2>1, <2>2 DEF GateInv, GateClocks, GateBill
    <2> QED BY <2>2, <2>3, <2>4 DEF GateInv
  <1>2. ASSUME NEW c \in Callers,
               \/ PG!Search(c) \/ PG!Load(c) \/ PG!Answer(c) \/ PG!Raise(c)
               \/ \E delay \in 0..Timeout : PG!Retry(c, delay)
        PROVE  GateInv'
    BY <1>2, GateTasks
  <1>3. ASSUME NEW c \in Callers, PG!Charge(c) \/ PG!Acquire(c) PROVE GateInv'
    BY <1>3, GateCharge, GateAcquire
  <1> QED BY <1>1, <1>2, <1>3, GateTick, GateCounts DEF PG!Next

\* The invariant implies what is promised.
LEMMA GateInvSuffices == ASSUME PG!GateAssumption, GateInv PROVE PG!TypeOK /\ PG!WithinLimits
  <1>1. /\ PG!TypeOK /\ PG!Refilled \in 0..Burst /\ bill \in Bills /\ PG!UsedToday \in Nat /\ now \in 0..LastTick
        /\ posted \in [0..LastTick -> Nat]
    BY GateTypes, GateNumbers DEF GateInv, GateClocks
  <1>2. PG!RateIsKept
    <2>1. ASSUME NEW t \in 0..now PROVE posted[now] <= PG!SentBefore(t) + Burst + Rate * (now - t)
      <3>1. posted[now] + PG!Refilled <= PG!SentBefore(t) + Burst + Rate * (now - t) /\ posted[now] \in Nat
        BY <1>1 DEF GateInv, GateTokens
      <3>2. PG!SentBefore(t) \in Nat /\ Rate * (now - t) \in Nat /\ Burst \in Nat
        BY <1>1 DEF PG!SentBefore, PG!GateAssumption
      <3> QED BY <1>1, <3>1, <3>2
    <2> QED BY <2>1 DEF PG!RateIsKept
  <1>3. bill.carried <= Cost * Cardinality(Callers)
    <2>1. bill.carried \in Nat /\ Cost * Cardinality(ChargedBefore) \in Nat /\ Cost * Cardinality(Callers) \in Nat
      BY <1>1, GateSets DEF Bills, PG!GateAssumption
    <2> QED BY <2>1 DEF GateInv, GateBill
  <1>4. PG!Cardinality(Callers) = Cardinality(Callers)
    BY DEF PG!Cardinality, Cardinality
  <1>5. PG!BudgetIsKept
    BY <1>3, <1>4 DEF GateInv, GateBill, PG!BudgetIsKept
  <1> QED BY <1>1, <1>2, <1>5 DEF PG!WithinLimits

\* In every interval at most the tokens of the bucket and those that flow in are spent; the
\* budget of a day is exceeded only by the requests that were charged before midnight and by
\* those of other processes.
THEOREM CallsStayWithinLimits == ASSUME PG!GateAssumption PROVE PG!Spec => [](PG!TypeOK /\ PG!WithinLimits)
  BY GateInit, GateNext, GateInvSuffices, PTL DEF PG!Spec

-----------------------------------------------------------------------------
(* The sources of a candidate. *)

\* The rows are of their type at first, and remain so.
LEMMA SourcesInit == CS!Init => CS!TypeOK
  <1> SUFFICES ASSUME CS!Init PROVE CS!TypeOK
    OBVIOUS
  <1>1. assigned \in [CS!Kinds -> SUBSET {"good", "poor"}] /\ listing \in [CS!Owners -> SUBSET CS!Parts]
    BY DEF CS!Init
  <1>2. active \subseteq CS!Switched /\ native \in [CS!References -> {"none", "partial", "complete"}]
    BY DEF CS!Init
  <1> QED BY <1>1, <1>2 DEF CS!Init, CS!TypeOK

LEMMA SourcesNext == ASSUME CS!TypeOK, [CS!Next]_(CS!sourceVars) PROVE CS!TypeOK'
  <1> USE DEF CS!TypeOK
  <1>1. ASSUME NEW k \in CS!Kinds, NEW quality \in {"good", "poor"}, CS!Assign(k, quality) \/ CS!Lapse(k, quality)
        PROVE  CS!TypeOK'
    BY <1>1 DEF CS!Assign, CS!Lapse
  <1>2. ASSUME NEW r \in CS!Switched, NEW yes \in BOOLEAN, CS!SetActive(r, yes) PROVE CS!TypeOK'
    BY <1>2 DEF CS!SetActive
  <1>3. ASSUME NEW r \in CS!References, CS!Materialize(r) PROVE CS!TypeOK'
    BY <1>3 DEF CS!Materialize
  <1>4. ASSUME NEW o \in CS!Owners, NEW p \in CS!Parts, CS!Have(o, p) \/ CS!Lack(o, p) PROVE CS!TypeOK'
    BY <1>4 DEF CS!Have, CS!Lack
  <1>5. ASSUME NEW m \in {"none", "incompatible", "executable"}, CS!Activate(m) PROVE CS!TypeOK'
    BY <1>5 DEF CS!Activate
  <1>6. CASE UNCHANGED CS!sourceVars
    BY <1>6 DEF CS!sourceVars
  <1> QED BY <1>1, <1>2, <1>3, <1>4, <1>5, <1>6 DEF CS!Next

\* The only assignment of a kind is one of good quality where one that is active is found.
LEMMA OneActiveIsValid ==
  ASSUME CS!TypeOK, NEW k \in CS!Kinds, CS!OneActive(k) PROVE CS!OneValid(k)
  <1>1. CS!Cardinality({}) = 0
    BY FS_EmptySet DEF CS!Cardinality, Cardinality
  <1>2. assigned[k] \subseteq {"good", "poor"}
    BY DEF CS!TypeOK
  <1> QED BY <1>1, <1>2 DEF CS!OneActive, CS!OneValid

\* A listing without a step that blocks has prices that are analysed.
LEMMA OpenPipeline == ASSUME NEW o, CS!ListingPipeline(o) = {} PROVE "analysis" \in listing[o]
  BY DEF CS!ListingPipeline

\* What the workflow finds complete, the evaluation finds.
LEMMA ReadySuffices == CS!TypeOK => CS!ReadyIsEvaluable
  <1> SUFFICES ASSUME CS!TypeOK, CS!Blocked = {} PROVE CS!Evaluated
    BY DEF CS!ReadyIsEvaluable
  <1>1. /\ CS!BenchmarkKnown /\ CS!ReferencePipeline("market") = {}
        /\ CS!SectorReferenceKnown /\ CS!ReferencePipeline("sector index") = {}
        /\ CS!UnderlyingPipeline = {} /\ CS!RuntimeStep = {}
    BY DEF CS!Blocked
  <1>2. CS!OneValid("benchmark") /\ CS!OneValid("sector") /\ CS!OneValid("sector reference")
        /\ "market" \in active /\ "sector index" \in active
    BY <1>1, OneActiveIsValid DEF CS!BenchmarkKnown, CS!SectorReferenceKnown, CS!SectorKnown, CS!Kinds
  <1>3. ASSUME NEW r \in CS!References PROVE CS!SourceForReference(r)
    <2>1. CS!ReferencePipeline(r) = {} /\ native[r] \in {"none", "partial", "complete"} /\ r \in CS!Kinds
      BY <1>1 DEF CS!References, CS!TypeOK, CS!Kinds
    <2>2. CASE native[r] = "none"
      <3>1. CS!OneActive(r) /\ CS!ListingPipeline(r) = {}
        BY <2>1, <2>2 DEF CS!ReferencePipeline
      <3> QED BY <3>1, <2>1, <2>2, OneActiveIsValid, OpenPipeline DEF CS!SourceForReference
    <2>3. CASE native[r] = "complete"
      BY <2>3 DEF CS!SourceForReference, CS!NativeSource
    <2>4. native[r] # "partial"
      BY <2>1 DEF CS!ReferencePipeline
    <2> QED BY <2>1, <2>2, <2>3, <2>4
  <1>4. "analysis" \in listing["underlying"] /\ model = "executable"
    BY <1>1, OpenPipeline DEF CS!UnderlyingPipeline, CS!RuntimeStep
  <1> QED BY <1>2, <1>3, <1>4 DEF CS!Evaluated, CS!Resolved

\* A candidate whose workflow has no blocked step can be evaluated, whatever is missing.
THEOREM ReadyCandidateIsEvaluable == CS!Spec => [](CS!TypeOK /\ CS!ReadyIsEvaluable)
  BY SourcesInit, SourcesNext, ReadySuffices, PTL DEF CS!Spec

-----------------------------------------------------------------------------
(* The quotes that are kept. *)

Quotes == [fields : 0..LastIdentity, observed : 0..LastTick, retrieved : 0..LastTick]
KeptQuotes == [key : 0..LastIdentity, quote : Quotes]
Identities == [key : 1..LastIdentity, fields : 1..LastIdentity, active : BOOLEAN]
Readings == [phase : {"idle", "asks", "asked", "holds"}, key : 0..LastIdentity, fields : 0..LastIdentity,
             result : Quotes]

\* One reader holds the row, of an identity that is not older than that of the quote;
\* the identity itself may have moved on since.
Holding ==
    /\ quote.key <= identity.key
    /\ \A r \in Readers : reader[r].phase = "holds" =>
        /\ quote.key <= reader[r].key /\ reader[r].key \in 1..identity.key
        /\ \A s \in Readers : reader[s].phase = "holds" => s = r
QuotesInv ==
    /\ RQ!TypeOK /\ now # 0 /\ cache \in Quotes /\ {quote, replaced} \subseteq KeptQuotes
    /\ Holding /\ RQ!QuotesMoveOn /\ RQ!SampledOnce

\* The types, by variable.
LEMMA QuoteTypes ==
  RQ!TypeOK <=>
    /\ now \in 0..LastTick /\ identity \in Identities
    /\ reader \in [Readers -> Readings] /\ samples \in [1..LastIdentity -> [RQ!Slots -> 0..2]]
  BY DEF RQ!TypeOK, Readings, Quotes, Identities

\* Nothing is kept, and nobody reads.
LEMMA QuotesInit == ASSUME RQ!QuotesAssumption PROVE RQ!Init => QuotesInv
  <1> SUFFICES ASSUME RQ!Init PROVE QuotesInv
    OBVIOUS
  <1> USE DEF RQ!Init, RQ!QuotesAssumption
  <1>1. RQ!NoQuote \in Quotes /\ RQ!Idle \in Readings /\ RQ!Idle.phase = "idle"
          /\ RQ!NoRow \in KeptQuotes /\ RQ!NoRow.key = 0 /\ RQ!NoRow.quote = RQ!NoQuote
    BY DEF RQ!NoQuote, RQ!NoRow, RQ!Idle, Quotes, KeptQuotes, Readings
  <1>2. RQ!TypeOK /\ cache \in Quotes /\ {quote, replaced} \subseteq KeptQuotes
    BY <1>1, QuoteTypes DEF Identities
  <1>3. Holding /\ RQ!QuotesMoveOn
    BY <1>1 DEF Holding, RQ!QuotesMoveOn, RQ!Older
  <1>4. RQ!SampledOnce
    BY DEF RQ!SampledOnce
  <1> QED BY <1>2, <1>3, <1>4 DEF QuotesInv

\* A reader that does not take the lock leaves what is kept as it was.
LEMMA QuotesGoOn ==
  ASSUME QuotesInv, NEW r \in Readers, NEW t \in Readings, reader' = [reader EXCEPT ![r] = t],
         t.phase # "holds", cache' \in Quotes, UNCHANGED <<now, identity, quote, replaced, samples>>
  PROVE  QuotesInv'
  <1>1. reader' \in [Readers -> Readings] /\ \A s \in Readers : reader'[s] = IF s = r THEN t ELSE reader[s]
    BY QuoteTypes DEF QuotesInv
  <1>2. RQ!TypeOK' /\ cache' \in Quotes /\ {quote, replaced}' \subseteq KeptQuotes
    BY ZenonT(30), <1>1, QuoteTypes DEF QuotesInv, RQ!TypeOK, Readings, Quotes
  <1>3. Holding'
    BY <1>1 DEF Holding, QuotesInv
  <1> QED BY <1>2, <1>3 DEF QuotesInv, RQ!QuotesMoveOn, RQ!Older, RQ!SampledOnce

\* An answer is heard.
LEMMA QuotesHeard ==
  ASSUME QuotesInv, NEW r \in Readers, NEW q \in Quotes, reader[r].phase = "asks", RQ!Hears(r, q)
  PROVE  \E t \in Readings : t.phase # "holds" /\ reader' = [reader EXCEPT ![r] = t]
  <1>1. reader[r] \in Readings
    BY QuoteTypes DEF QuotesInv
  <1>2. \A t \in Readings : [[t EXCEPT !.phase = "asked"] EXCEPT !.result = q] \in Readings
    BY DEF Readings
  <1>3. \A t \in Readings : [[t EXCEPT !.phase = "asked"] EXCEPT !.result = q].phase = "asked"
    BY DEF Readings
  <1>4. reader' = [reader EXCEPT ![r] = [[reader[r] EXCEPT !.phase = "asked"] EXCEPT !.result = q]]
    BY <1>1, QuoteTypes DEF RQ!Hears, QuotesInv, Readings
  <1> QED BY <1>1, <1>2, <1>3, <1>4

\* A reader that goes back to idle.
LEMMA ReaderIdles ==
  ASSUME RQ!QuotesAssumption PROVE RQ!Idle \in Readings /\ RQ!Idle.phase = "idle" /\ RQ!NoQuote \in Quotes
  BY DEF RQ!Idle, RQ!NoQuote, Readings, Quotes, RQ!QuotesAssumption

\* Time and the identity move on, and only one reader holds the row when it is written.
LEMMA QuotesNext == ASSUME RQ!QuotesAssumption, QuotesInv, [RQ!Next]_(RQ!quoteVars) PROVE QuotesInv'
  <1>1. CASE UNCHANGED RQ!quoteVars
    BY <1>1 DEF RQ!quoteVars, QuotesInv, RQ!TypeOK, Holding, RQ!QuotesMoveOn, RQ!Older, RQ!SampledOnce
  <1>2. CASE RQ!Tick
    <2>1. now' \in 1..LastTick /\ UNCHANGED <<identity, cache, reader, quote, replaced, samples>>
      BY <1>2 DEF RQ!Tick, QuotesInv, RQ!TypeOK, RQ!QuotesAssumption
    <2> QED BY <2>1 DEF QuotesInv, RQ!TypeOK, Holding, RQ!QuotesMoveOn, RQ!Older, RQ!SampledOnce
  <1>3. ASSUME NEW fields \in 1..(identity.key + 1), NEW yes \in BOOLEAN, RQ!Edit(fields, yes) PROVE QuotesInv'
    <2>1. /\ identity' \in Identities /\ identity'.key = identity.key + 1
          /\ identity.key \in Nat /\ UNCHANGED <<now, cache, reader, quote, replaced, samples>>
      <3>1. identity.key \in 1..LastIdentity /\ LastIdentity \in Nat
        BY QuoteTypes DEF QuotesInv, Identities, RQ!QuotesAssumption
      <3>2. identity.key + 1 \in 1..LastIdentity /\ fields \in 1..LastIdentity
        BY <1>3, <3>1 DEF RQ!Edit
      <3> QED BY <1>3, <3>1, <3>2 DEF RQ!Edit, Identities
    <2>2. RQ!TypeOK'
      BY <2>1 DEF QuotesInv, RQ!TypeOK, Identities
    <2>3. quote \in KeptQuotes /\ \A r \in Readers : reader[r] \in Readings
      BY QuoteTypes DEF QuotesInv
    <2>4. Holding'
      BY <2>1, <2>3 DEF Holding, QuotesInv, KeptQuotes, Readings
    <2> QED BY <2>1, <2>2, <2>4 DEF QuotesInv, RQ!QuotesMoveOn, RQ!Older, RQ!SampledOnce
  <1>4. ASSUME NEW r \in Readers, RQ!Ask(r) PROVE QuotesInv'
    <2> DEFINE t == [[[RQ!Idle EXCEPT !.phase = "asks"] EXCEPT !.key = identity.key] EXCEPT !.fields = identity.fields]
    <2>1. identity.key \in 0..LastIdentity /\ identity.fields \in 0..LastIdentity
      BY QuoteTypes DEF QuotesInv, Identities
    <2>2. t \in Readings /\ t.phase = "asks"
      BY <2>1, ReaderIdles DEF Readings
    <2>3. reader' = [reader EXCEPT ![r] = t] /\ UNCHANGED <<now, identity, cache, quote, replaced, samples>>
      BY <1>4, ReaderIdles DEF RQ!Ask, Readings
    <2> HIDE DEF t
    <2> QED BY <2>2, <2>3, QuotesGoOn DEF QuotesInv
  <1>5. ASSUME NEW r \in Readers, NEW observed \in {now - 1, now}, RQ!AnswerNew(r, observed) PROVE QuotesInv'
    <2>1. cache' \in Quotes
      <3>1. now \in 1..LastTick /\ identity.fields \in 0..LastIdentity /\ LastTick \in Nat
        BY QuoteTypes DEF QuotesInv, RQ!QuotesAssumption, Identities
      <3>2. observed \in 0..LastTick /\ now \in 0..LastTick
        BY <3>1
      <3>3. cache' = [fields |-> identity.fields, observed |-> observed, retrieved |-> now]
        BY <1>5 DEF RQ!AnswerNew
      <3> QED BY <3>1, <3>2, <3>3 DEF Quotes
    <2> QED BY <1>5, <2>1, QuotesHeard, QuotesGoOn DEF RQ!AnswerNew
  <1>6. ASSUME NEW r \in Readers, RQ!AnswerCached(r) \/ RQ!AnswerFails(r) PROVE QuotesInv'
    <2>1. cache \in Quotes /\ RQ!NoQuote \in Quotes
      BY ReaderIdles DEF QuotesInv
    <2> QED BY <1>6, <2>1, QuotesHeard, QuotesGoOn DEF RQ!AnswerCached, RQ!AnswerFails
  <1>7. ASSUME NEW r \in Readers, RQ!Lock(r) PROVE QuotesInv'
    <2>1. CASE RQ!Unchanged(r)
      <3> DEFINE t == [reader[r] EXCEPT !.phase = "holds"]
      <3>1. reader[r] \in Readings /\ quote \in KeptQuotes /\ identity \in Identities
        BY QuoteTypes DEF QuotesInv
      <3>2. t \in Readings /\ t.phase = "holds" /\ t.key = reader[r].key
        BY <3>1 DEF Readings
      <3>3. reader[r].key = identity.key
        BY <2>1 DEF RQ!Unchanged
      <3>4. /\ reader' = [reader EXCEPT ![r] = t] /\ \A s \in Readers : reader[s].phase # "holds"
            /\ UNCHANGED <<now, identity, cache, quote, replaced, samples>>
        BY <1>7, <2>1 DEF RQ!Lock, RQ!Unlocked
      <3> HIDE DEF t
      <3>5. reader' \in [Readers -> Readings] /\ \A s \in Readers : reader'[s] = IF s = r THEN t ELSE reader[s]
        BY <3>2, <3>4, QuoteTypes DEF QuotesInv
      <3>6. RQ!TypeOK'
        BY <3>4, <3>5, QuoteTypes DEF QuotesInv, RQ!TypeOK, Readings, Quotes
      <3>7. Holding'
        BY <3>1, <3>2, <3>3, <3>4, <3>5 DEF Holding, QuotesInv, Identities
      <3> QED BY <3>4, <3>6, <3>7 DEF QuotesInv, RQ!QuotesMoveOn, RQ!Older, RQ!SampledOnce
    <2>2. CASE ~RQ!Unchanged(r)
      BY <1>7, <2>2, ReaderIdles, QuotesGoOn DEF RQ!Lock, QuotesInv
    <2> QED BY <2>1, <2>2
  <1>8. ASSUME NEW r \in Readers, RQ!Retain(r) PROVE QuotesInv'
    <2> DEFINE q == reader[r].result
    <2>1. /\ reader[r] \in Readings /\ q \in Quotes /\ quote \in KeptQuotes
          /\ reader[r].phase = "holds" /\ UNCHANGED <<now, identity, cache>>
      BY <1>8, QuoteTypes DEF QuotesInv, RQ!Retain, Readings
    <2>2. quote.key <= reader[r].key /\ reader[r].key \in 1..identity.key /\ identity.key \in 1..LastIdentity
      BY <2>1, QuoteTypes DEF QuotesInv, Holding, Identities
    <2>3. /\ {quote, replaced}' \subseteq KeptQuotes /\ RQ!QuotesMoveOn'
          /\ quote'.key <= identity.key
      <3>1. CASE UNCHANGED <<quote, replaced>>
        BY <3>1 DEF QuotesInv, Holding, RQ!QuotesMoveOn, RQ!Older
      <3>2. CASE RQ!Usable(r) /\ quote' = RQ!Kept(r) /\ replaced' = quote
        <4>1. quote.key = reader[r].key => ~RQ!Older(q, quote.quote)
          BY <3>2 DEF RQ!Usable, RQ!Previous
        <4>2. reader[r].key \in 0..LastIdentity
          BY <2>1 DEF Readings
        <4>3. quote' \in KeptQuotes /\ quote'.key = reader[r].key /\ quote'.quote = q
          BY <2>1, <3>2, <4>2 DEF RQ!Kept, KeptQuotes
        <4> QED BY <2>1, <2>2, <3>2, <4>1, <4>3 DEF RQ!QuotesMoveOn, RQ!Older
      <3> QED BY <1>8, <3>1, <3>2 DEF RQ!Retain
    <2>4. samples' \in [1..LastIdentity -> [RQ!Slots -> 0..2]] /\ RQ!SampledOnce'
      <3> DEFINE k == reader[r].key  slot == RQ!Slot(now)
      <3>1. k \in 1..LastIdentity /\ samples \in [1..LastIdentity -> [RQ!Slots -> 0..2]]
        BY <2>2, QuoteTypes DEF QuotesInv, RQ!QuotesAssumption
      <3>2. \/ samples' = samples
            \/ ~(samples[k][slot] > 0) /\ samples' = [samples EXCEPT ![k][slot] = @ + 1]
        BY <1>8 DEF RQ!Retain, RQ!Sampled
      <3> HIDE DEF k, slot
      <3>3. CASE samples' = samples
        BY <3>1, <3>3 DEF QuotesInv, RQ!SampledOnce
      <3>4. ASSUME ~(samples[k][slot] > 0), samples' = [samples EXCEPT ![k][slot] = @ + 1]
            PROVE  samples' \in [1..LastIdentity -> [RQ!Slots -> 0..2]] /\ RQ!SampledOnce'
        <4> DEFINE f == [samples[k] EXCEPT ![slot] = @ + 1]
        <4>1. samples[k] \in [RQ!Slots -> 0..2] /\ samples' = [samples EXCEPT ![k] = f]
          BY <3>1, <3>4
        <4>2. \A s \in RQ!Slots : f[s] = IF s = slot THEN samples[k][s] + 1 ELSE samples[k][s]
          BY <4>1
        <4>3. \A s \in RQ!Slots : samples[k][s] \in 0..2 /\ samples[k][s] <= 1
          BY <3>1, <4>1 DEF QuotesInv, RQ!SampledOnce
        <4>4. \A s \in RQ!Slots : f[s] \in 0..2 /\ f[s] <= 1
          BY <3>4, <4>2, <4>3
        <4>5. f \in [RQ!Slots -> 0..2]
          BY <4>1, <4>4
        <4> HIDE DEF f
        <4> QED BY <3>1, <4>1, <4>4, <4>5 DEF QuotesInv, RQ!SampledOnce
      <3> QED BY <3>2, <3>3, <3>4
    <2>5. reader' \in [Readers -> Readings] /\ \A s \in Readers : reader'[s] = IF s = r THEN RQ!Idle ELSE reader[s]
      BY <1>8, ReaderIdles, QuoteTypes DEF QuotesInv, RQ!Retain
    <2>6. RQ!TypeOK'
      BY <2>1, <2>4, <2>5, QuoteTypes DEF QuotesInv, RQ!TypeOK, Readings, Quotes
    <2>7. Holding'
      BY <2>1, <2>3, <2>5, ReaderIdles DEF Holding, QuotesInv
    <2> QED BY <2>1, <2>3, <2>4, <2>6, <2>7 DEF QuotesInv
  <1> QED BY <1>1, <1>2, <1>3, <1>4, <1>5, <1>6, <1>7, <1>8 DEF RQ!Next

\* The invariant implies what is promised.
LEMMA QuotesInvSuffices == QuotesInv => RQ!TypeOK /\ RQ!QuotesMoveOn /\ RQ!SampledOnce
  BY DEF QuotesInv

\* The quote of an identity only moves on, and a slot is sampled once, whatever readers overlap,
\* edits come between and answers come late or from the cache.
THEOREM RetainedQuotesMoveOn ==
  ASSUME RQ!QuotesAssumption PROVE RQ!Spec => [](RQ!TypeOK /\ RQ!QuotesMoveOn /\ RQ!SampledOnce)
  BY QuotesInit, QuotesNext, QuotesInvSuffices, PTL DEF RQ!Spec

-----------------------------------------------------------------------------
(* The product whose routes are looked for. *)

Edits == [does : {"nothing", "reviews", "records", "configures"} \cup Changes, version : 0..LastVersion,
          old : Identifiers, new : Identifiers, terms : 0..LastVersion, revision : 0..LastRevision]
Rows == [isin : Identifiers, active : BOOLEAN, version : 0..LastVersion]
Audits == [before : 1..LastVersion, after : 1..LastVersion, old : Identifiers, new : Identifiers]
Evidence == [isin : Identifiers, terms : 1..LastVersion]

\* What a request has read is of the row as it is, or of an earlier version of it; the row that
\* is locked is as it was read.
Fits(e) == e.does # "nothing" =>
    /\ e.version > 0 /\ e.terms <= e.version
    /\ QR!Exists => e.version <= warrant.version
    /\ e.version = warrant.version => e.old = warrant.isin
    /\ e.does \in Changes => e.version < LastVersion
    /\ e.does \in {"reviews", "records"} => e.revision < LastRevision
    /\ e.does \in {"records", "configures"} => e.version = warrant.version
Reviewed(e) == e.does = "records" =>
    warrant.isin = e.old /\ terms = e.terms /\ QR!Exists /\ Len(valuations) = e.revision
OneHolds == \A c, d \in Clients :
    edit[c].does \in {"records", "configures"} /\ edit[d].does \in {"records", "configures"} => c = d
NoneAhead == QR!Exists =>
    terms <= warrant.version /\ \A i \in 1..Len(audits) : audits[i].after <= warrant.version
New(i) == IF i = 0 THEN FirstIsin ELSE audits[i].new
AuditLine ==
    /\ New(Len(audits)) = warrant.isin
    /\ \A i \in 1..Len(audits) :
        /\ audits[i].old = New(i - 1)
        /\ audits[i].after = audits[i].before + 1
        /\ i > 1 => audits[i - 1].after <= audits[i].before
WarrantInv ==
    /\ QR!TypeOK /\ NoneAhead /\ AuditLine /\ OneHolds
    /\ \A c \in Clients : Fits(edit[c]) /\ Reviewed(edit[c])

\* The types, by variable.
LEMMA WarrantTypes ==
  QR!TypeOK <=>
    /\ warrant \in Rows /\ terms \in 1..LastVersion
    /\ audits \in Seq(Audits) /\ valuations \in Seq(Evidence) /\ Len(valuations) <= LastRevision
    /\ edit \in [Clients -> Edits]
  BY DEF QR!TypeOK, Rows, Edits, Audits, Evidence

\* A sequence and one more element.
LEMMA OneMore ==
  ASSUME NEW S, NEW s \in Seq(S), NEW x \in S, NEW t, t = Append(s, x)
  PROVE  /\ t \in Seq(S) /\ Len(t) = Len(s) + 1 /\ Len(s) \in Nat /\ t[Len(s) + 1] = x
         /\ \A i \in 1..Len(s) : t[i] = s[i]
  OBVIOUS

Written(w, v, a, s) == [w EXCEPT !.version = v, !.active = a, !.isin = s]

\* A row is written field by field.
LEMMA RowWritten ==
  ASSUME NEW w \in Rows, NEW v \in 0..LastVersion, NEW a \in BOOLEAN, NEW s \in Identifiers
  PROVE  Written(w, v, a, s) \in Rows /\ Written(w, v, a, s).version = v /\ Written(w, v, a, s).isin = s
  <1> DEFINE x == [w EXCEPT !.version = v]  y == [x EXCEPT !.active = a]  z == [y EXCEPT !.isin = s]
  <1>1. x \in Rows /\ x.version = v /\ x.isin = w.isin
    BY DEF Rows
  <1>2. Written(w, v, a, s) = z
    BY DEF Written
  <1> HIDE DEF x
  <1>3. y \in Rows /\ y.version = v /\ y.isin = w.isin
    BY <1>1 DEF Rows
  <1> HIDE DEF y
  <1>4. z \in Rows /\ z.version = v /\ z.isin = s
    BY <1>3 DEF Rows
  <1> HIDE DEF z
  <1> QED BY <1>2, <1>4

\* A request that does nothing.
LEMMA EditIdle == ASSUME QR!WarrantAssumption PROVE QR!Idle \in Edits /\ QR!Idle.does = "nothing"
  BY DEF QR!WarrantAssumption, QR!Idle, Edits

\* A product of one version, and no request.
LEMMA WarrantInit == ASSUME QR!WarrantAssumption PROVE QR!Init => WarrantInv
  <1> SUFFICES ASSUME QR!Init PROVE WarrantInv
    OBVIOUS
  <1>1. audits = <<>> /\ valuations = <<>> /\ Len(audits) = 0 /\ Len(valuations) = 0
    BY DEF QR!Init
  <1>2. QR!TypeOK
    BY <1>1, EditIdle, WarrantTypes DEF QR!Init, QR!WarrantAssumption, Rows
  <1>3. NoneAhead /\ AuditLine
    BY <1>1 DEF QR!Init, NoneAhead, AuditLine, New
  <1> QED BY <1>2, <1>3, EditIdle DEF WarrantInv, QR!Init, OneHolds, Fits, Reviewed

\* A request goes on without writing.
LEMMA EditGoesOn ==
  ASSUME WarrantInv, NEW c \in Clients, NEW e \in Edits, edit' = [edit EXCEPT ![c] = e],
         UNCHANGED <<warrant, terms, audits, valuations>>, Fits(e), Reviewed(e),
         e.does \in {"records", "configures"} => QR!Unlocked(c)
  PROVE  WarrantInv'
  <1>1. edit' \in [Clients -> Edits] /\ \A d \in Clients : edit'[d] = IF d = c THEN e ELSE edit[d]
    BY WarrantTypes DEF WarrantInv
  <1>2. QR!TypeOK'
    BY <1>1, WarrantTypes DEF WarrantInv, QR!TypeOK, Edits
  <1>3. OneHolds'
    BY <1>1 DEF WarrantInv, OneHolds, QR!Unlocked
  <1>4. \A d \in Clients : (Fits(edit[d]) /\ Reviewed(edit[d]))'
    BY <1>1 DEF WarrantInv, Fits, Reviewed, QR!Exists
  <1>5. (NoneAhead /\ AuditLine)'
    BY DEF WarrantInv, NoneAhead, AuditLine, New, QR!Exists
  <1> QED BY <1>2, <1>3, <1>4, <1>5 DEF WarrantInv

\* A request that ends without writing.
LEMMA EditEnds ==
  ASSUME QR!WarrantAssumption, WarrantInv, NEW c \in Clients, QR!Ends(c), UNCHANGED <<warrant, terms, audits, valuations>>
  PROVE  WarrantInv'
  BY EditIdle, EditGoesOn DEF QR!Ends, Fits, Reviewed

\* A request that reads the row.
LEMMA EditReads ==
  ASSUME QR!WarrantAssumption, WarrantInv, NEW c \in Clients, NEW does, NEW new \in Identifiers,
         QR!Reads(c, does, new), UNCHANGED <<warrant, terms, audits, valuations>>,
         does \in {"reviews", "configures"} \cup Changes,
         does \in Changes => warrant.version < LastVersion,
         does = "reviews" => Len(valuations) < LastRevision,
         does = "configures" => QR!Unlocked(c)
  PROVE  WarrantInv'
  <1> DEFINE e == [does |-> does, version |-> warrant.version, old |-> warrant.isin, new |-> new,
                   terms |-> terms, revision |-> Len(valuations)]
  <1>1. /\ warrant.version \in 1..LastVersion /\ warrant.isin \in Identifiers /\ terms \in 1..LastVersion
        /\ Len(valuations) \in 0..LastRevision /\ terms <= warrant.version
    BY WarrantTypes DEF WarrantInv, QR!Reads, QR!Exists, NoneAhead, QR!WarrantAssumption, Rows
  <1>2. e \in Edits
    BY <1>1 DEF Edits
  <1>3. does # "records"
    BY DEF QR!WarrantAssumption
  <1>4. Fits(e) /\ Reviewed(e) /\ e.does = does
    BY <1>1, <1>3 DEF Fits, Reviewed, QR!Exists, QR!WarrantAssumption
  <1>5. edit' = [edit EXCEPT ![c] = e]
    BY DEF QR!Reads
  <1> HIDE DEF e
  <1> QED BY <1>2, <1>3, <1>4, <1>5, EditGoesOn

\* A row that is written is of the version that was read, and nobody holds it.
LEMMA EditCommits == ASSUME QR!WarrantAssumption, WarrantInv, NEW c \in Clients, QR!Commits(c) PROVE WarrantInv'
  <1> DEFINE e == edit[c]
  <1>1. /\ e \in Edits /\ e.does \in Changes /\ e.does \notin {"nothing", "records", "configures", "reviews"}
        /\ e.version = warrant.version /\ warrant \in Rows
    BY WarrantTypes DEF WarrantInv, QR!Commits, QR!Unchanged, QR!WarrantAssumption
  <1>2. /\ e.version \in 1..LastVersion /\ e.version + 1 \in 1..LastVersion /\ e.terms <= e.version
        /\ e.old = warrant.isin /\ QR!Exists /\ e.new \in Identifiers /\ e.old \in Identifiers /\ e.terms \in 0..LastVersion
    BY <1>1 DEF WarrantInv, Fits, QR!Exists, Edits, QR!WarrantAssumption
  <1>3. /\ edit' = [edit EXCEPT ![c] = QR!Idle] /\ valuations' = valuations /\ QR!Unlocked(c)
        /\ warrant' = [warrant EXCEPT !.version = e.version + 1,
                                      !.active = IF e.does = "status" THEN ~@ ELSE @,
                                      !.isin = IF e.does = "identifiers" THEN e.new ELSE @]
        /\ terms' = IF e.does = "terms" THEN e.terms + 1 ELSE terms
        /\ audits' = IF e.does # "identifiers" THEN audits
                     ELSE Append(audits, [before |-> e.version, after |-> e.version + 1, old |-> e.old, new |-> e.new])
    BY DEF QR!Commits, QR!Applies, QR!Ends
  <1> HIDE DEF e
  <1>4. /\ warrant' \in Rows
        /\ warrant'.version = warrant.version + 1
        /\ warrant'.isin = IF e.does = "identifiers" THEN e.new ELSE warrant.isin
    <2>1. warrant.active \in BOOLEAN /\ warrant.isin \in Identifiers
      BY <1>1 DEF Rows
    <2>2. (IF e.does = "status" THEN ~warrant.active ELSE warrant.active) \in BOOLEAN
          /\ (IF e.does = "identifiers" THEN e.new ELSE warrant.isin) \in Identifiers 
      BY <1>2, <2>1
    <2>3. e.version + 1 \in 0..LastVersion /\ e.version + 1 = warrant.version + 1
      BY <1>1, <1>2 DEF QR!WarrantAssumption
    <2> DEFINE x == IF e.does = "status" THEN ~warrant.active ELSE warrant.active
               y == IF e.does = "identifiers" THEN e.new ELSE warrant.isin
               v == e.version + 1
    <2>4. warrant' = [warrant EXCEPT !.version = v, !.active = x, !.isin = y]
      BY <1>3
    <2>5. x \in BOOLEAN /\ y \in Identifiers /\ v \in 0..LastVersion /\ v = warrant.version + 1 /\ warrant \in Rows
      BY <1>1, <2>2, <2>3
    <2> HIDE DEF x, v
    <2>6. y = IF e.does = "identifiers" THEN e.new ELSE warrant.isin
      OBVIOUS
    <2> HIDE DEF y
    <2>7. warrant' = Written(warrant, v, x, y)
      BY <2>4 DEF Written
    <2> DEFINE w == Written(warrant, v, x, y)
    <2>8. w \in Rows /\ w.version = v /\ w.isin = y
      BY <2>5, RowWritten
    <2> HIDE DEF w
    <2>9. warrant' = w
      BY <2>7 DEF w
    <2> QED BY <2>5, <2>6, <2>8, <2>9, Zenon
  <1>5. terms \in 1..LastVersion /\ terms <= warrant.version
    BY <1>2, WarrantTypes DEF WarrantInv, NoneAhead
  <1>6. terms' \in 1..LastVersion /\ terms' <= warrant'.version
    BY <1>1, <1>2, <1>3, <1>4, <1>5 DEF QR!WarrantAssumption
  <1>7. edit' \in [Clients -> Edits] /\ \A d \in Clients : edit'[d] = IF d = c THEN QR!Idle ELSE edit[d]
    BY <1>3, EditIdle, WarrantTypes DEF WarrantInv
  <1>8. audits' \in Seq(Audits) /\ NoneAhead' /\ AuditLine'
    <2>0. audits \in Seq(Audits) /\ Len(audits) \in Nat
      BY WarrantTypes DEF WarrantInv
    <2>1. CASE e.does # "identifiers"
      <3>1. audits' = audits /\ warrant'.isin = warrant.isin
        BY <2>1, <1>3, <1>4
      <3>2. \A i \in 1..Len(audits) : audits[i].after <= warrant.version /\ audits[i].after \in Nat
        <4> TAKE i \in 1..Len(audits)
        <4>1. audits[i] \in Audits
          BY <2>0
        <4> QED BY <1>2, <4>1 DEF WarrantInv, NoneAhead, Audits
      <3>3. NoneAhead'
        BY <1>1, <1>2, <1>4, <1>6, <3>1, <3>2 DEF NoneAhead
      <3>4. AuditLine'
        BY <3>1 DEF WarrantInv, AuditLine, New
      <3> QED BY <2>0, <3>1, <3>3, <3>4
    <2>2. CASE e.does = "identifiers"
      <3> DEFINE a == [before |-> e.version, after |-> e.version + 1, old |-> e.old, new |-> e.new]
      <3>1. a \in Audits /\ a.after = warrant'.version /\ a.before = warrant.version /\ a.old = warrant.isin
            /\ a.new = warrant'.isin /\ a.after = a.before + 1
        BY <1>1, <1>2, <1>4, <2>2 DEF Audits
      <3>0. PICK n \in Nat : n = Len(audits)
        BY <2>0
      <3>2. audits' = Append(audits, a)
        BY <1>3, <2>2
      <3> HIDE DEF a
      <3>3. /\ audits' \in Seq(Audits) /\ Len(audits') = n + 1 /\ n \in Nat /\ audits'[n + 1] = a
            /\ \A i \in 1..n : audits'[i] = audits[i] /\ audits[i] \in Audits
        BY <2>0, <3>0, <3>1, <3>2, OneMore
      <3>4. ASSUME NEW i \in 0..n PROVE New(i)' = New(i)
        <4>1. i # 0 => audits'[i] = audits[i]
          BY <3>3
        <4> QED BY <4>1 DEF New
      <3>5. New(n + 1)' = a.new /\ New(n) = warrant.isin
        <4>1. n + 1 # 0
          BY <3>3
        <4>2. New(n + 1)' = a.new
          BY <3>3, <4>1 DEF New
        <4> QED BY <3>0, <4>2 DEF WarrantInv, AuditLine
      <3>6. \A i \in 1..n : audits[i].after <= warrant.version /\ audits[i].after \in Nat
        BY SMTT(30), <1>2, <3>0, <3>3 DEF WarrantInv, NoneAhead, Audits
      <3>7. NoneAhead'
        BY <1>1, <1>2, <1>4, <1>6, <3>1, <3>3, <3>6 DEF NoneAhead
      <3>8. ASSUME NEW i \in 1..(n + 1)
            PROVE  /\ audits'[i].old = New(i - 1)' /\ audits'[i].after = audits'[i].before + 1
                   /\ i > 1 => audits'[i - 1].after <= audits'[i].before
        <4>1. CASE i = n + 1
          <5>1. i - 1 = n /\ n \in 0..n /\ audits'[i] = a
            BY <4>1, <3>3
          <5>2. New(i - 1)' = a.old
            BY <3>1, <3>4, <3>5, <5>1
          <5>3. i > 1 => audits'[i - 1].after <= a.before
            BY <3>1, <3>3, <3>6, <5>1
          <5> QED BY <3>1, <5>1, <5>2, <5>3
        <4>2. CASE i \in 1..n
          <5>1. /\ i - 1 \in 0..n /\ audits'[i] = audits[i]
                /\ i > 1 => audits'[i - 1] = audits[i - 1]
            BY <4>2, <3>3
          <5>2. New(i - 1)' = New(i - 1)
            BY <5>1, <3>4
          <5> QED BY <3>0, <4>2, <5>1, <5>2 DEF WarrantInv, AuditLine
        <4> QED BY <3>3, <4>1, <4>2
      <3>9. AuditLine'
        <4>1. New(n + 1)' = warrant'.isin /\ Len(audits') = n + 1
          BY <3>1, <3>3, <3>5
        <4>2. (New(Len(audits)))' = New(n + 1)'
          BY <4>1 DEF New
        <4> QED BY <3>8, <4>1, <4>2 DEF AuditLine
      <3> QED BY <3>3, <3>7, <3>9
    <2> QED BY <2>1, <2>2
  <1>9. QR!TypeOK'
    BY <1>3, <1>4, <1>6, <1>7, <1>8, WarrantTypes DEF WarrantInv, QR!TypeOK, Rows, Edits, Audits, Evidence
  <1>10. OneHolds'
    BY <1>7, EditIdle DEF WarrantInv, OneHolds
  <1>11. ASSUME NEW d \in Clients PROVE (Fits(edit[d]) /\ Reviewed(edit[d]))'
    <2>1. CASE d = c
      BY <2>1, <1>7, EditIdle DEF Fits, Reviewed
    <2>2. CASE d # c
      <3>1. edit'[d] = edit[d] /\ edit[d] \in Edits /\ edit[d].does \notin {"records", "configures"}
        BY <2>2, <1>3, <1>7, WarrantTypes DEF QR!Unlocked, WarrantInv
      <3> QED BY <3>1, <1>1, <1>2, <1>4 DEF WarrantInv, Fits, Reviewed, QR!Exists, Edits
    <2> QED BY <2>1, <2>2
  <1> QED BY <1>8, <1>9, <1>10, <1>11 DEF WarrantInv

\* A product that is deleted does not come back.
LEMMA EditDeletes == ASSUME QR!WarrantAssumption, WarrantInv, NEW c \in Clients, QR!Deletes(c) PROVE WarrantInv'
  <1>1. /\ warrant' = [warrant EXCEPT !.version = 0] /\ UNCHANGED <<terms, audits, valuations, edit>>
        /\ QR!Unlocked(c) /\ edit[c] = QR!Idle /\ warrant \in Rows
    BY WarrantTypes DEF QR!Deletes, WarrantInv
  <1>2. /\ warrant' \in Rows
        /\ warrant'.isin = warrant.isin /\ warrant'.version = 0
    <2>1. 0 \in 0..LastVersion
      BY DEF QR!WarrantAssumption
    <2> QED BY <1>1, <2>1 DEF Rows
  <1>3. QR!TypeOK' /\ (NoneAhead /\ AuditLine)' /\ OneHolds'
    <2>1. QR!TypeOK'
      BY <1>1, <1>2, WarrantTypes DEF WarrantInv, QR!TypeOK, Rows, Edits, Audits, Evidence
    <2>2. NoneAhead' /\ OneHolds'
      BY <1>1, <1>2 DEF WarrantInv, NoneAhead, OneHolds, QR!Exists
    <2>3. AuditLine'
      BY <1>1, <1>2 DEF WarrantInv, AuditLine, New
    <2> QED BY <2>1, <2>2, <2>3
  <1>4. ASSUME NEW d \in Clients PROVE (Fits(edit[d]) /\ Reviewed(edit[d]))'
    <2>1. edit[d].does \notin {"records", "configures"} /\ edit[d] \in Edits
      BY <1>1, WarrantTypes DEF QR!Unlocked, QR!Idle, WarrantInv
    <2> QED BY <1>1, <1>2, <2>1 DEF WarrantInv, Fits, Reviewed, QR!Exists, Edits
  <1> QED BY <1>3, <1>4 DEF WarrantInv

\* Evidence is recorded by who holds the row.
LEMMA EditRecords == ASSUME QR!WarrantAssumption, WarrantInv, NEW c \in Clients, QR!Record(c) PROVE WarrantInv'
  <1> DEFINE v == [isin |-> edit[c].old, terms |-> edit[c].terms]
  <1>1. /\ edit[c].does = "records" /\ edit[c] \in Edits /\ valuations' = Append(valuations, v)
        /\ edit' = [edit EXCEPT ![c] = QR!Idle] /\ UNCHANGED <<warrant, terms, audits>>
        /\ valuations \in Seq(Evidence) /\ edit[c].terms \in 1..LastVersion
        /\ Len(valuations) < LastRevision
    BY WarrantTypes DEF QR!Record, QR!Ends, WarrantInv, Reviewed, Fits
  <1>2. v \in Evidence
    BY <1>1 DEF Evidence, Edits
  <1> HIDE DEF v
  <1>3. valuations' \in Seq(Evidence) /\ Len(valuations') <= LastRevision
    BY <1>1, <1>2, OneMore DEF QR!WarrantAssumption
  <1>4. edit' \in [Clients -> Edits] /\ \A d \in Clients : edit'[d] = IF d = c THEN QR!Idle ELSE edit[d]
    BY <1>1, EditIdle, WarrantTypes DEF WarrantInv
  <1>5. QR!TypeOK'
    BY <1>1, <1>3, <1>4, WarrantTypes DEF WarrantInv, QR!TypeOK, Rows, Edits, Audits, Evidence
  <1>6. (NoneAhead /\ AuditLine)' /\ OneHolds'
    BY <1>1, <1>4, EditIdle DEF WarrantInv, NoneAhead, AuditLine, New, OneHolds, QR!Exists
  <1>7. \A d \in Clients : (Fits(edit[d]) /\ Reviewed(edit[d]))'
    BY <1>1, <1>4, EditIdle DEF WarrantInv, Fits, Reviewed, OneHolds, QR!Exists
  <1> QED BY <1>5, <1>6, <1>7 DEF WarrantInv

\* Every step keeps the invariant.
LEMMA WarrantNext == ASSUME QR!WarrantAssumption, WarrantInv, [QR!Next]_(QR!warrantVars) PROVE WarrantInv'
  <1>1. CASE UNCHANGED QR!warrantVars
    <2>1. UNCHANGED <<warrant, terms, audits, valuations, edit>>
      BY <1>1 DEF QR!warrantVars
    <2>2. QR!TypeOK' /\ \A c \in Clients : (Fits(edit[c]) /\ Reviewed(edit[c]))'
      BY <2>1 DEF WarrantInv, QR!TypeOK, Fits, Reviewed, QR!Exists
    <2> QED BY <2>1, <2>2 DEF WarrantInv, NoneAhead, AuditLine, New, OneHolds, QR!Exists
  <1>2. ASSUME NEW c \in Clients, NEW change \in Changes, NEW new \in Identifiers, QR!BeginEdit(c, change, new)
        PROVE  WarrantInv'
    BY <1>2, EditReads DEF QR!BeginEdit, QR!WarrantAssumption
  <1>3. ASSUME NEW c \in Clients, QR!Commits(c) PROVE WarrantInv'
    BY <1>3, EditCommits
  <1>4. ASSUME NEW c \in Clients, QR!Refused(c) PROVE WarrantInv'
    BY <1>4, EditEnds DEF QR!Refused
  <1>5. ASSUME NEW c \in Clients, QR!BeginReview(c) PROVE WarrantInv'
    <2>1. warrant.isin \in Identifiers /\ "reviews" \notin Changes
      BY WarrantTypes DEF WarrantInv, QR!WarrantAssumption, Rows
    <2> QED BY <1>5, <2>1, EditReads DEF QR!BeginReview
  <1>6. ASSUME NEW c \in Clients, QR!LockForEvidence(c) PROVE WarrantInv'
    <2>1. CASE QR!AsReviewed(c)
      <3> DEFINE e == [edit[c] EXCEPT !.does = "records"]
      <3>1. edit[c] \in Edits /\ edit[c].does = "reviews" /\ edit' = [edit EXCEPT ![c] = e]
            /\ UNCHANGED <<warrant, terms, audits, valuations>> /\ QR!Unlocked(c)
        BY <1>6, <2>1, WarrantTypes DEF QR!LockForEvidence, WarrantInv
      <3>2. e \in Edits /\ e.does = "records" /\ e.version = edit[c].version /\ e.old = edit[c].old
            /\ e.terms = edit[c].terms /\ e.revision = edit[c].revision
        BY <3>1 DEF Edits
      <3> HIDE DEF e
      <3>3. Fits(e) /\ Reviewed(e)
        BY <2>1, <3>1, <3>2 DEF WarrantInv, Fits, Reviewed, QR!AsReviewed, QR!Unchanged, QR!Exists, Edits, QR!WarrantAssumption
      <3> QED BY <3>1, <3>2, <3>3, EditGoesOn
    <2>2. CASE ~QR!AsReviewed(c)
      BY <1>6, <2>2, EditEnds DEF QR!LockForEvidence, QR!Ends
    <2> QED BY <2>1, <2>2
  <1>7. ASSUME NEW c \in Clients, QR!Record(c) PROVE WarrantInv'
    BY <1>7, EditRecords
  <1>8. ASSUME NEW c \in Clients, QR!Deletes(c) PROVE WarrantInv'
    BY <1>8, EditDeletes
  <1> QED BY <1>1, <1>2, <1>3, <1>4, <1>5, <1>6, <1>7, <1>8 DEF QR!Next

\* The invariant implies what is promised.
LEMMA WarrantInvSuffices == WarrantInv => QR!TypeOK /\ QR!AuditTellsIdentity /\ QR!EvidenceIsAsReviewed
  <1> SUFFICES ASSUME WarrantInv PROVE QR!TypeOK /\ QR!AuditTellsIdentity /\ QR!EvidenceIsAsReviewed
    OBVIOUS
  <1>1. DOMAIN audits = 1..Len(audits)
    BY WarrantTypes DEF WarrantInv
  <1>2. QR!AuditTellsIdentity
    BY <1>1 DEF WarrantInv, AuditLine, New, QR!AuditTellsIdentity
  <1>3. QR!EvidenceIsAsReviewed
    BY DEF WarrantInv, Reviewed, QR!EvidenceIsAsReviewed
  <1> QED BY <1>2, <1>3 DEF WarrantInv

\* The audit tells the identifiers of a product in one line, and evidence is recorded for the
\* product and the terms that were reviewed, whatever is edited at the same time.
THEOREM WarrantIsAsReviewed ==
  ASSUME QR!WarrantAssumption
  PROVE  QR!Spec => [](QR!TypeOK /\ QR!AuditTellsIdentity /\ QR!EvidenceIsAsReviewed)
  BY WarrantInit, WarrantNext, WarrantInvSuffices, PTL DEF QR!Spec

-----------------------------------------------------------------------------
(* The routes that are found for it, and those its positions are bound to. *)

FoundVersions == (0..LastVersion) \X (0..2)
FoundRoutes == [status : {"none", "ACTIVE", "INVALID"}, symbol : Identifiers, seen : FoundVersions, born : 0..LastVersion]
Seekers == [does : {"nothing", "fetches", "buys", "reconciles"}, position : Positions \cup {0},
            isin : Identifiers, active : BOOLEAN, seen : FoundVersions]
CandidateRoutes == [provider : {"none"} \cup QR!Providers, isin : Identifiers, seen : FoundVersions]
Decisions == [route : CandidateRoutes, of : SUBSET CandidateRoutes, policy : {"CONTRACT", "V1"}]
RouteTypes ==
    /\ listed \in [active : BOOLEAN, version : 1..2] /\ mapping \in [QR!Providers -> FoundRoutes]
    /\ affected \in [Clients -> SUBSET QR!Providers] /\ seeker \in [Clients -> Seekers]
    /\ selections \in [Positions -> Seq(Decisions)] /\ \A p \in Positions : Len(selections[p]) <= MaxDecisions

\* Who looks for a position's route holds the position.
Looking(s) == s.does \in {"buys", "reconciles"} =>
    /\ s.position \in Positions /\ Len(selections[s.position]) < MaxDecisions
    /\ s.does = "buys" <=> selections[s.position] = <<>>
Searches ==
    /\ \A c \in Clients : Looking(seeker[c])
    /\ \A c, d \in Clients : seeker[c].position \in Positions /\ seeker[c].position = seeker[d].position => c = d

\* The identifier that the audit tells for a version.
Past(v) == {i \in DOMAIN audits : audits[i].after <= v}
IsinAt(v) == IF Past(v) = {} THEN FirstIsin ELSE audits[Cardinality(Past(v))].new
Stands(p) == mapping[p].status # "none" =>
    /\ QR!Exists /\ mapping[p].born <= warrant.version
    /\ mapping[p].symbol = IsinAt(mapping[p].born)
    /\ p = "ISSUER" => mapping[p].seen[1] = mapping[p].born
RoutesStand ==
    /\ \A p \in QR!Providers : Stands(p)
    /\ QR!Exists => \A c \in Clients : \A p \in affected[c] : mapping[p].status # "none"
RoutesInv == WarrantInv /\ RouteTypes /\ Searches /\ RoutesStand /\ QR!RouteIsKept

\* The audit tells the identifier as it is for the version that is.
LEMMA IsinNow == ASSUME QR!WarrantAssumption, WarrantInv, QR!Exists PROVE IsinAt(warrant.version) = warrant.isin
  <1>1. PICK n \in Nat : n = Len(audits) /\ DOMAIN audits = 1..n
    BY WarrantTypes DEF WarrantInv
  <1>2. Past(warrant.version) = 1..n
    BY <1>1 DEF WarrantInv, NoneAhead, Past
  <1>3. Cardinality(1..n) = n
    <2>1. 1 \in Int /\ n \in Int /\ (IF 1 > n THEN 0 ELSE n - 1 + 1) = n
      BY <1>1
    <2> QED BY <2>1, FS_Interval
  <1>4. n = 0 <=> 1..n = {}
    BY <1>1
  <1>5. New(n) = warrant.isin
    BY <1>1 DEF WarrantInv, AuditLine
  <1> QED BY <1>2, <1>3, <1>4, <1>5 DEF IsinAt, New

\* What it tells of an earlier version, it tells for good.
LEMMA IsinStays ==
  ASSUME WarrantInv, NEW v \in Nat, NEW a \in Audits, a.after > v, audits' = Append(audits, a)
  PROVE  IsinAt(v)' = IsinAt(v)
  <1>1. PICK n \in Nat : n = Len(audits) /\ DOMAIN audits = 1..n /\ audits \in Seq(Audits)
    BY WarrantTypes DEF WarrantInv
  <1>2. DOMAIN audits' = 1..(n + 1) /\ audits'[n + 1] = a /\ \A i \in 1..n : audits'[i] = audits[i]
    BY <1>1
  <1>3. ~(a.after <= v)
    BY DEF Audits
  <1>4. Past(v)' = Past(v) /\ Past(v) \subseteq 1..n
    BY <1>1, <1>2, <1>3 DEF Past
  <1>5. PICK k : k = Cardinality(Past(v)) /\ k \in 0..n /\ (k = 0 <=> Past(v) = {})
    <2>0. 1 \in Int /\ n \in Int /\ (IF 1 > n THEN 0 ELSE n - 1 + 1) = n
      BY <1>1
    <2>1. IsFiniteSet(1..n) /\ Cardinality(1..n) = n
      BY <2>0, FS_Interval
    <2>2. IsFiniteSet(Past(v)) /\ Cardinality(Past(v)) <= n
      BY <1>4, <2>1, FS_Subset
    <2> QED BY <1>1, <2>2, FS_CardinalityType, FS_EmptySet
  <1>6. k # 0 => audits'[k] = audits[k]
    BY <1>2, <1>5
  <1> QED BY <1>4, <1>5, <1>6 DEF IsinAt

\* The statement of the route's identifier in words of its own.
LEMMA AsInspected == (\A p \in QR!Providers : Stands(p)) => QR!RouteIsAsInspected
  <1>1. \A S : QR!Cardinality(S) = Cardinality(S)
    BY DEF QR!Cardinality, Cardinality
  <1> QED BY <1>1 DEF QR!RouteIsAsInspected, Stands, IsinAt, Past

\* A route that nobody touches stands, whatever the product's next version is.
LEMMA StandsOn ==
  ASSUME RouteTypes, WarrantInv, WarrantInv', NEW p \in QR!Providers, Stands(p), mapping[p].status # "none",
         mapping'[p].born = mapping[p].born, mapping'[p].symbol = mapping[p].symbol, mapping'[p].seen = mapping[p].seen,
         QR!Exists', warrant'.version >= warrant.version,
         audits' = audits \/ \E a \in Audits : a.after > warrant.version /\ audits' = Append(audits, a)
  PROVE  Stands(p)'
  <1>1. PICK v : v = mapping[p].born /\ v \in Nat /\ mapping'[p].born = v
    BY DEF RouteTypes, FoundRoutes
  <1>2. warrant.version \in Nat /\ warrant'.version \in Nat /\ v <= warrant.version
    BY <1>1, WarrantTypes DEF WarrantInv, QR!TypeOK, Stands
  <1>3. IsinAt(v)' = IsinAt(v)
    <2>1. CASE audits' = audits
      BY <2>1 DEF IsinAt, Past
    <2>2. ASSUME NEW a \in Audits, a.after > warrant.version, audits' = Append(audits, a) PROVE IsinAt(v)' = IsinAt(v)
      <3>1. a.after > v
        BY <1>1, <1>2, <2>2 DEF Audits
      <3> QED BY <1>1, <2>2, <3>1, IsinStays
    <2> QED BY <2>1, <2>2
  <1>4. IsinAt(mapping[p].born)' = IsinAt(v)'
    BY <1>1 DEF IsinAt, Past
  <1>5. mapping'[p].born <= warrant'.version
    BY <1>1, <1>2
  <1> QED BY <1>1, <1>3, <1>4, <1>5 DEF Stands

\* The product with one version, and nothing found.
LEMMA RoutesInit == ASSUME QR!RoutesAssumption PROVE QR!RoutesInit => RoutesInv
  <1> SUFFICES ASSUME QR!RoutesInit PROVE RoutesInv
    OBVIOUS
  <1>1. WarrantInv
    BY WarrantInit DEF QR!RoutesInit, QR!RoutesAssumption
  <1>2. <<0, 0>> \in FoundVersions /\ FirstIsin \in Identifiers /\ 0 \in 0..LastVersion
    BY DEF QR!RoutesAssumption, QR!WarrantAssumption, FoundVersions
  <1>3. QR!NoRoute \in FoundRoutes /\ QR!NoRoute.status = "none"
    BY <1>2 DEF FoundRoutes, QR!NoRoute
  <1>4. QR!Waiting \in Seekers /\ QR!Waiting.does = "nothing" /\ QR!Waiting.position = 0
    BY <1>2 DEF Seekers, QR!Waiting
  <1>5. Len(<<>>) = 0 /\ <<>> \in Seq(Decisions) /\ 0 <= MaxDecisions /\ DOMAIN <<>> = {}
    BY DEF QR!RoutesAssumption
  <1>6. RouteTypes
    BY <1>3, <1>4, <1>5 DEF QR!RoutesInit, RouteTypes
  <1>7. Searches
    BY <1>4 DEF QR!RoutesInit, Searches, Looking, QR!RoutesAssumption
  <1>8. RoutesStand
    BY <1>3 DEF QR!RoutesInit, RoutesStand, Stands
  <1>9. QR!RouteIsKept
    BY <1>5 DEF QR!RoutesInit, QR!RouteIsKept
  <1> QED BY <1>1, <1>6, <1>7, <1>8, <1>9 DEF RoutesInv

\* A request that waits for nothing.
LEMMA SeekerIdle ==
  ASSUME QR!RoutesAssumption
  PROVE  QR!Waiting \in Seekers /\ QR!Waiting.does = "nothing" /\ QR!Waiting.position = 0 /\ 0 \notin Positions
         /\ QR!WarrantAssumption
  <1>1. <<0, 0>> \in FoundVersions /\ FirstIsin \in Identifiers
    BY DEF QR!RoutesAssumption, QR!WarrantAssumption, FoundVersions
  <1> QED BY <1>1 DEF Seekers, QR!Waiting, QR!RoutesAssumption

\* A request that looks, or has looked, while no position gets a decision.
LEMMA SeekerGoesOn ==
  ASSUME RoutesInv, WarrantInv', NEW c \in Clients, NEW s \in Seekers, seeker' = [seeker EXCEPT ![c] = s],
         UNCHANGED <<listed, affected, selections>>, RoutesStand', mapping' \in [QR!Providers -> FoundRoutes], Looking(s),
         s.position \in Positions => \A d \in Clients : seeker[d].position # s.position
  PROVE  RoutesInv'
  <1>1. seeker' \in [Clients -> Seekers] /\ \A d \in Clients : seeker'[d] = IF d = c THEN s ELSE seeker[d]
    BY DEF RoutesInv, RouteTypes
  <1>2. RouteTypes'
    BY <1>1 DEF RoutesInv, RouteTypes
  <1>3. Searches'
    BY <1>1 DEF RoutesInv, Searches, Looking
  <1>4. QR!RouteIsKept'
    BY DEF RoutesInv, QR!RouteIsKept
  <1> QED BY <1>2, <1>3, <1>4 DEF RoutesInv

\* While neither the product nor its routes change, the routes stand.
LEMMA RoutesStandStill ==
  ASSUME RoutesStand, UNCHANGED <<warrant, audits, mapping, affected>>
  PROVE  RoutesStand'
  BY DEF RoutesStand, Stands, IsinAt, Past, QR!Exists

\* A step of the product's own, in which nobody looks for a route.
LEMMA ProductGoesOn ==
  ASSUME RoutesInv, WarrantInv', UNCHANGED <<seeker, selections>>, RoutesStand',
         listed' \in [active : BOOLEAN, version : 1..2], mapping' \in [QR!Providers -> FoundRoutes],
         affected' \in [Clients -> SUBSET QR!Providers]
  PROVE  RoutesInv'
  <1>1. Searches'
    BY DEF RoutesInv, Searches, Looking
  <1>2. RouteTypes' /\ QR!RouteIsKept'
    BY DEF RoutesInv, RouteTypes, QR!RouteIsKept
  <1> QED BY <1>1, <1>2 DEF RoutesInv

\* An edit begins: the routes that a correction has read exist.
LEMMA EditKeepsRoutes ==
  ASSUME QR!RoutesAssumption, RoutesInv, NEW c \in Clients, NEW change \in Changes, NEW new \in Identifiers,
         QR!Edit(c, change, new)
  PROVE  RoutesInv'
  <1> DEFINE read == IF change # "identifiers" THEN {} ELSE {p \in QR!Providers : mapping[p].status = "ACTIVE"}
  <1>1. /\ QR!BeginEdit(c, change, new) /\ affected' = [affected EXCEPT ![c] = read]
        /\ UNCHANGED <<listed, mapping, seeker, selections, warrant, terms, audits, valuations>>
    BY DEF QR!Edit, QR!BeginEdit
  <1>2. read \in SUBSET QR!Providers /\ \A p \in read : mapping[p].status # "none"
    OBVIOUS
  <1> HIDE DEF read
  <1>3. WarrantInv'
    BY <1>1, SeekerIdle, EditReads DEF RoutesInv, QR!BeginEdit, QR!WarrantAssumption
  <1>4. affected' \in [Clients -> SUBSET QR!Providers] /\ \A d \in Clients : affected'[d] = IF d = c THEN read ELSE affected[d]
    BY <1>1, <1>2 DEF RoutesInv, RouteTypes
  <1>5. RoutesStand'
    BY <1>1, <1>2, <1>4 DEF RoutesInv, RoutesStand, Stands, IsinAt, Past, QR!Exists
  <1> QED BY <1>1, <1>3, <1>4, <1>5, ProductGoesOn DEF RoutesInv, RouteTypes

\* An edit that is committed makes the routes it has read invalid, and leaves what they are of.
LEMMA CommitKeepsRoutes == ASSUME QR!RoutesAssumption, RoutesInv, NEW c \in Clients, QR!CommitEdit(c) PROVE RoutesInv'
  <1>1. /\ QR!Commits(c) /\ affected' = [affected EXCEPT ![c] = {}] /\ UNCHANGED <<listed, seeker, selections>>
        /\ mapping' = [p \in QR!Providers |->
              IF p \in affected[c] THEN [mapping[p] EXCEPT !.status = "INVALID"] ELSE mapping[p]]
    BY DEF QR!CommitEdit
  <1>2. WarrantInv'
    BY <1>1, SeekerIdle, EditCommits DEF RoutesInv
  <1>3. /\ QR!Exists /\ QR!Exists' /\ warrant'.version >= warrant.version
        /\ audits' = audits \/ \E a \in Audits : a.after > warrant.version /\ audits' = Append(audits, a)
    <2> DEFINE e == edit[c]
               a == [before |-> e.version, after |-> e.version + 1, old |-> e.old, new |-> e.new]
    <2>1. /\ e \in Edits /\ e.does \in Changes /\ e.does # "nothing" /\ e.version = warrant.version
          /\ warrant \in Rows /\ QR!WarrantAssumption
      BY <1>1, WarrantTypes DEF RoutesInv, WarrantInv, QR!Commits, QR!Unchanged, QR!WarrantAssumption, QR!RoutesAssumption
    <2>2. e.version > 0 /\ e.version < LastVersion /\ e.version \in Nat /\ LastVersion \in Nat
      BY <1>1, <2>1 DEF RoutesInv, WarrantInv, Fits, Edits, QR!Commits, QR!WarrantAssumption
    <2>3. warrant'.version = e.version + 1
      BY <1>1, <2>1 DEF QR!Commits, QR!Applies, Rows
    <2>4. audits' = audits \/ audits' = Append(audits, a)
      BY <1>1 DEF QR!Commits, QR!Applies
    <2>5. a \in Audits /\ a.after > warrant.version
      BY <2>1, <2>2 DEF Audits, Edits
    <2> HIDE DEF a, e
    <2>6. QR!Exists /\ QR!Exists' /\ warrant'.version >= warrant.version
      BY <2>1, <2>2, <2>3 DEF QR!Exists
    <2> QED BY <2>4, <2>5, <2>6
  <1>4. ASSUME NEW p \in QR!Providers
        PROVE  /\ mapping'[p] \in FoundRoutes
               /\ mapping'[p].status = "none" <=> mapping[p].status = "none"
               /\ mapping'[p].born = mapping[p].born /\ mapping'[p].symbol = mapping[p].symbol
               /\ mapping'[p].seen = mapping[p].seen
    <2>1. mapping[p] \in FoundRoutes /\ (p \in affected[c] => mapping[p].status # "none")
      BY <1>3 DEF RoutesInv, RouteTypes, RoutesStand
    <2>2. mapping'[p] = mapping[p] \/ (p \in affected[c] /\ mapping'[p] = [mapping[p] EXCEPT !.status = "INVALID"])
      BY <1>1
    <2> QED BY <2>1, <2>2 DEF FoundRoutes
  <1>5. mapping' \in [QR!Providers -> FoundRoutes]
    BY <1>1, <1>4
  <1>6. affected' \in [Clients -> SUBSET QR!Providers] /\ \A d \in Clients : affected'[d] \subseteq affected[d]
    BY <1>1 DEF RoutesInv, RouteTypes
  <1>7. ASSUME NEW p \in QR!Providers PROVE Stands(p)'
    <2>1. CASE mapping'[p].status = "none"
      BY <2>1 DEF Stands
    <2>2. CASE mapping'[p].status # "none"
      BY <2>2, <1>2, <1>3, <1>4, StandsOn DEF RoutesInv, RoutesStand
    <2> QED BY <2>1, <2>2
  <1>8. RoutesStand'
    <2>1. ASSUME NEW d \in Clients, NEW p \in affected'[d] PROVE mapping'[p].status # "none"
      <3>1. p \in affected[d] /\ p \in QR!Providers
        BY <1>6, <2>1
      <3> QED BY <1>3, <1>4, <3>1 DEF RoutesInv, RoutesStand
    <2> QED BY <1>7, <2>1 DEF RoutesStand
  <1>9. listed' \in [active : BOOLEAN, version : 1..2]
    BY <1>1 DEF RoutesInv, RouteTypes
  <1> QED BY <1>1, <1>2, <1>5, <1>6, <1>8, <1>9, ProductGoesOn

\* A product is deleted with its routes, and with it nothing that has been decided.
LEMMA DeleteKeepsRoutes == ASSUME QR!RoutesAssumption, RoutesInv, NEW c \in Clients, QR!Delete(c) PROVE RoutesInv'
  <1>1. /\ QR!Deletes(c) /\ mapping' = [p \in QR!Providers |-> QR!NoRoute] /\ UNCHANGED <<listed, affected, seeker, selections>>
        /\ QR!WarrantAssumption /\ WarrantInv
    BY SeekerIdle DEF QR!Delete, RoutesInv
  <1>2. WarrantInv'
    BY <1>1, EditDeletes
  <1>3. ~QR!Exists'
    BY <1>1, WarrantTypes DEF WarrantInv, Rows, QR!Deletes, QR!Exists
  <1>4. <<0, 0>> \in FoundVersions /\ FirstIsin \in Identifiers /\ 0 \in 0..LastVersion
    BY <1>1 DEF QR!WarrantAssumption, FoundVersions
  <1>5. QR!NoRoute \in FoundRoutes /\ QR!NoRoute.status = "none"
    BY <1>4 DEF FoundRoutes, QR!NoRoute
  <1>6. mapping' \in [QR!Providers -> FoundRoutes] /\ \A p \in QR!Providers : mapping'[p].status = "none"
    BY <1>1, <1>5
  <1>7. RoutesStand'
    BY <1>3, <1>6 DEF RoutesStand, Stands
  <1> QED BY <1>1, <1>2, <1>6, <1>7, ProductGoesOn DEF RoutesInv, RouteTypes

\* A route that is created is of the product as it is.
LEMMA CreatedStands ==
  ASSUME QR!RoutesAssumption, RoutesInv, WarrantInv', NEW q \in QR!Providers, NEW seen \in FoundVersions,
         QR!Exists, mapping' = [mapping EXCEPT ![q] = QR!Route(warrant.isin, seen)],
         q = "ISSUER" => seen[1] = warrant.version, UNCHANGED <<warrant, audits, affected>>
  PROVE  RoutesStand' /\ mapping' \in [QR!Providers -> FoundRoutes]
  <1> DEFINE route == QR!Route(warrant.isin, seen)
  <1>1. route \in FoundRoutes /\ route.status # "none" /\ route.born = warrant.version
        /\ route.symbol = warrant.isin /\ route.seen = seen
    BY WarrantTypes DEF RoutesInv, WarrantInv, Rows, FoundRoutes, QR!Route
  <1>2. mapping' = [mapping EXCEPT ![q] = route]
    OBVIOUS
  <1> HIDE DEF route
  <1>3. mapping' \in [QR!Providers -> FoundRoutes] /\ \A p \in QR!Providers : mapping'[p] = IF p = q THEN route ELSE mapping[p]
    BY <1>1, <1>2 DEF RoutesInv, RouteTypes
  <1>4. IsinAt(warrant.version) = warrant.isin
    BY IsinNow, SeekerIdle DEF RoutesInv
  <1>5. ASSUME NEW p \in QR!Providers PROVE Stands(p)'
    <2>1. CASE p = q
      <3>1. mapping'[p] = route
        BY <2>1, <1>3
      <3>2. IsinAt(mapping[p].born)' = IsinAt(warrant.version)
        BY <3>1, <1>1 DEF IsinAt, Past
      <3>3. warrant'.version = warrant.version /\ warrant.version \in Nat /\ QR!Exists'
        BY WarrantTypes DEF RoutesInv, WarrantInv, Rows, QR!Exists
      <3> QED BY <2>1, <3>1, <3>2, <3>3, <1>1, <1>4 DEF Stands
    <2>2. CASE p # q
      <3>1. mapping'[p] = mapping[p] /\ Stands(p)
        BY <2>2, <1>3 DEF RoutesInv, RoutesStand
      <3> QED BY <3>1 DEF Stands, IsinAt, Past, QR!Exists
    <2> QED BY <2>1, <2>2
  <1>6. RoutesStand'
    <2>1. ASSUME NEW d \in Clients, NEW p \in affected'[d] PROVE mapping'[p].status # "none"
      <3>1. p \in affected[d] /\ p \in QR!Providers
        BY <2>1 DEF RoutesInv, RouteTypes
      <3> QED BY <1>1, <1>3, <3>1 DEF RoutesInv, RoutesStand
    <2> QED BY <1>5, <2>1 DEF RoutesStand
  <1> QED BY <1>3, <1>6

\* The versions of product and listing.
LEMMA CurrentTypes ==
  ASSUME RoutesInv
  PROVE  QR!Current \in FoundVersions /\ QR!Current[1] = warrant.version /\ warrant.isin \in Identifiers
         /\ QR!Eligible \in BOOLEAN
  BY WarrantTypes DEF RoutesInv, WarrantInv, RouteTypes, Rows, QR!Current, QR!Eligible, QR!Exists, FoundVersions

\* A page is fetched, and found, or not.
LEMMA DiscoveryKeepsRoutes ==
  ASSUME QR!RoutesAssumption, RoutesInv, NEW c \in Clients, QR!Inspect(c) \/ QR!CreateRoute(c) \/ QR!FindNothing(c)
  PROVE  RoutesInv'
  <1>0. UNCHANGED <<warrant, terms, audits, valuations, edit, listed, affected, selections>>
    BY DEF QR!Inspect, QR!CreateRoute, QR!FindNothing, QR!warrantVars
  <1>1. WarrantInv'
    <2>1. QR!Next \/ UNCHANGED QR!warrantVars
      BY <1>0 DEF QR!warrantVars
    <2> QED BY <2>1, SeekerIdle, WarrantNext DEF RoutesInv
  <1>2. CASE QR!Inspect(c)
    <2> DEFINE s == [QR!Waiting EXCEPT !.does = "fetches", !.isin = warrant.isin, !.seen = QR!Current]
           x == [QR!Waiting EXCEPT !.does = "fetches"]  y == [x EXCEPT !.isin = warrant.isin]
           z == [y EXCEPT !.seen = QR!Current]
    <2>1. s = z
      OBVIOUS
    <2>2. x \in Seekers /\ x.does = "fetches" /\ x.position = 0
      BY SeekerIdle DEF Seekers
    <2> HIDE DEF x
    <2>3. y \in Seekers /\ y.does = "fetches" /\ y.position = 0
      BY <2>2, CurrentTypes DEF Seekers
    <2> HIDE DEF y
    <2>4. s \in Seekers /\ s.does = "fetches" /\ s.position = 0
      BY <2>1, <2>3, CurrentTypes DEF Seekers
    <2>5. seeker' = [seeker EXCEPT ![c] = s] /\ mapping' = mapping
      BY <1>2 DEF QR!Inspect
    <2> HIDE DEF s, z
    <2>6. RoutesStand' /\ mapping' \in [QR!Providers -> FoundRoutes]
      BY <1>0, <2>5, RoutesStandStill DEF RoutesInv, RouteTypes
    <2> QED BY <1>0, <1>1, <2>4, <2>5, <2>6, SeekerIdle, SeekerGoesOn DEF Looking
  <1>3. CASE QR!CreateRoute(c)
    <2>1. /\ seeker' = [seeker EXCEPT ![c] = QR!Waiting] /\ QR!Exists
          /\ mapping' = [mapping EXCEPT !["ISSUER"] = QR!Route(warrant.isin, QR!Current)]
      BY <1>3 DEF QR!CreateRoute, QR!SameAsBefore, QR!Another, QR!Eligible
    <2>2. RoutesStand' /\ mapping' \in [QR!Providers -> FoundRoutes]
      BY <1>0, <1>1, <2>1, CurrentTypes, CreatedStands DEF QR!Providers
    <2> QED BY <1>0, <1>1, <2>1, <2>2, SeekerIdle, SeekerGoesOn DEF Looking
  <1>4. CASE QR!FindNothing(c)
    <2>1. seeker' = [seeker EXCEPT ![c] = QR!Waiting] /\ mapping' = mapping
      BY <1>4 DEF QR!FindNothing
    <2>2. RoutesStand' /\ mapping' \in [QR!Providers -> FoundRoutes]
      BY <1>0, <2>1, RoutesStandStill DEF RoutesInv, RouteTypes
    <2> QED BY <1>0, <1>1, <2>1, <2>2, SeekerIdle, SeekerGoesOn DEF Looking
  <1> QED BY <1>2, <1>3, <1>4

\* The exchange's route is configured by who holds the row.
LEMMA ConfigureKeepsRoutes ==
  ASSUME QR!RoutesAssumption, RoutesInv, NEW c \in Clients, QR!Configure(c) \/ QR!Configured(c)
  PROVE  RoutesInv'
  <1>0. /\ UNCHANGED <<warrant, terms, audits, valuations, listed, affected, seeker, selections>>
        /\ listed \in [active : BOOLEAN, version : 1..2] /\ affected \in [Clients -> SUBSET QR!Providers]
        /\ mapping \in [QR!Providers -> FoundRoutes]
    BY DEF QR!Configure, QR!Configured, RoutesInv, RouteTypes
  <1>1. CASE QR!Configure(c)
    <2>1. WarrantInv'
      <3>1. warrant.isin \in Identifiers /\ "configures" \notin Changes /\ QR!WarrantAssumption
        BY CurrentTypes, SeekerIdle DEF QR!WarrantAssumption
      <3> QED BY <1>0, <1>1, <3>1, EditReads DEF QR!Configure, RoutesInv
    <2>2. mapping' = mapping
      BY <1>1 DEF QR!Configure
    <2>3. RoutesStand'
      BY <1>0, <2>2, RoutesStandStill DEF RoutesInv
    <2> QED BY <1>0, <2>1, <2>2, <2>3, ProductGoesOn
  <1>2. CASE QR!Configured(c)
    <2>1. WarrantInv'
      BY <1>0, <1>2, SeekerIdle, EditEnds DEF QR!Configured, RoutesInv
    <2>2. /\ edit[c].does = "configures" /\ edit[c].old = warrant.isin /\ QR!Exists
      BY <1>2 DEF QR!Configured, RoutesInv, WarrantInv, Fits, QR!Exists
    <2>3. CASE mapping' = mapping
      <3>1. RoutesStand'
        BY <1>0, <2>3, RoutesStandStill DEF RoutesInv
      <3> QED BY <1>0, <2>1, <2>3, <3>1, ProductGoesOn
    <2>4. CASE mapping' # mapping
      <3>1. mapping' = [mapping EXCEPT !["EXCHANGE"] = QR!Route(warrant.isin, <<0, 0>>)]
        BY <1>2, <2>2, <2>4 DEF QR!Configured
      <3>2. <<0, 0>> \in FoundVersions /\ "EXCHANGE" \in QR!Providers
        BY SeekerIdle DEF FoundVersions, QR!Providers, QR!WarrantAssumption
      <3>3. RoutesStand' /\ mapping' \in [QR!Providers -> FoundRoutes]
        BY <1>0, <2>1, <2>2, <3>1, <3>2, CreatedStands
      <3> QED BY <1>0, <2>1, <3>3, ProductGoesOn
    <2> QED BY <2>3, <2>4
  <1> QED BY <1>1, <1>2

\* A position is bought, or reconciled: its rows are read.
LEMMA LooksKeepsRoutes ==
  ASSUME QR!RoutesAssumption, RoutesInv, NEW c \in Clients, NEW p \in Positions, QR!Buy(c, p) \/ QR!Reconcile(c, p)
  PROVE  RoutesInv'
  <1>1. PICK does \in {"buys", "reconciles"} : QR!Looks(c, does, p) /\ (does = "buys" <=> selections[p] = <<>>)
    BY DEF QR!Buy, QR!Reconcile
  <1> DEFINE s == [does |-> does, position |-> p, isin |-> warrant.isin, active |-> QR!Eligible, seen |-> QR!Current]
  <1>2. s \in Seekers
    <2> DEFINE eligible == QR!Eligible  seen == QR!Current
    <2>1. eligible \in BOOLEAN /\ seen \in FoundVersions /\ warrant.isin \in Identifiers
      BY CurrentTypes
    <2>2. s = [does |-> does, position |-> p, isin |-> warrant.isin, active |-> eligible, seen |-> seen]
      OBVIOUS
    <2> HIDE DEF eligible, seen, s
    <2>3. CASE eligible = TRUE
      BY <2>1, <2>2, <2>3 DEF Seekers
    <2>4. CASE eligible = FALSE
      BY <2>1, <2>2, <2>4 DEF Seekers
    <2> QED BY <2>1, <2>3, <2>4
  <1>3. /\ s.does = does /\ s.position = p /\ seeker' = [seeker EXCEPT ![c] = s] /\ Len(selections[p]) < MaxDecisions
        /\ \A d \in Clients : seeker[d].position # p
        /\ UNCHANGED <<warrant, terms, audits, valuations, edit, listed, mapping, affected, selections>>
    BY <1>1 DEF QR!Looks, QR!warrantVars
  <1> HIDE DEF s
  <1>4. WarrantInv'
    BY <1>3, SeekerIdle, WarrantNext DEF RoutesInv, QR!warrantVars
  <1>5. RoutesStand' /\ mapping' \in [QR!Providers -> FoundRoutes]
    BY <1>3, RoutesStandStill DEF RoutesInv, RouteTypes
  <1>6. Looking(s)
    BY <1>1, <1>3 DEF Looking
  <1> QED BY <1>2, <1>3, <1>4, <1>5, <1>6, SeekerGoesOn

\* A decision that does not contradict what was selected before is appended.
LEMMA DecisionKeepsRoutes ==
  ASSUME QR!RoutesAssumption, RoutesInv, NEW c \in Clients, NEW d \in Decisions, QR!Appends(c, d),
         seeker[c].does \in {"buys", "reconciles"},
         UNCHANGED <<warrant, terms, audits, valuations, edit, listed, mapping, affected>>,
         \A i \in DOMAIN selections[seeker[c].position] : QR!Selected(selections[seeker[c].position][i])
             => d.route = selections[seeker[c].position][i].route
  PROVE  RoutesInv'
  <1>1. PICK p \in Positions : p = seeker[c].position /\ Len(selections[p]) < MaxDecisions
    BY DEF RoutesInv, Searches, Looking
  <1>2. PICK t \in Seq(Decisions) : t = selections[p]
    BY <1>1 DEF RoutesInv, RouteTypes
  <1> DEFINE u == Append(t, d)
  <1>3. /\ u \in Seq(Decisions) /\ Len(u) = Len(t) + 1 /\ Len(t) \in Nat /\ u[Len(t) + 1] = d
        /\ DOMAIN u = 1..(Len(t) + 1) /\ DOMAIN t = 1..Len(t) /\ \A i \in 1..Len(t) : u[i] = t[i]
    OBVIOUS
  <1>4. /\ selections' = [selections EXCEPT ![p] = u] /\ seeker' = [seeker EXCEPT ![c] = QR!Waiting]
    BY <1>1, <1>2 DEF QR!Appends
  <1> HIDE DEF u
  <1>5. /\ selections' \in [Positions -> Seq(Decisions)]
        /\ \A q \in Positions : selections'[q] = IF q = p THEN u ELSE selections[q]
    BY <1>3, <1>4 DEF RoutesInv, RouteTypes
  <1>6. seeker' \in [Clients -> Seekers] /\ \A e \in Clients : seeker'[e] = IF e = c THEN QR!Waiting ELSE seeker[e]
    BY <1>4, SeekerIdle DEF RoutesInv, RouteTypes
  <1>7. WarrantInv'
    BY SeekerIdle, WarrantNext DEF RoutesInv, QR!warrantVars
  <1>8. RouteTypes'
    <2>1. \A q \in Positions : Len(selections'[q]) <= MaxDecisions
      <3>1. Len(u) <= MaxDecisions
        BY <1>1, <1>2, <1>3 DEF QR!RoutesAssumption
      <3> QED BY <1>5, <3>1 DEF RoutesInv, RouteTypes
    <2> QED BY <1>5, <1>6, <2>1 DEF RoutesInv, RouteTypes
  <1>9. RoutesStand'
    BY RoutesStandStill DEF RoutesInv
  <1>10. Searches'
    <2>1. ASSUME NEW e \in Clients PROVE Looking(seeker[e])'
      <3>1. CASE e = c
        BY <3>1, <1>6, SeekerIdle DEF Looking
      <3>2. CASE e # c
        <4>1. seeker'[e] = seeker[e] /\ Looking(seeker[e])
          BY <3>2, <1>6 DEF RoutesInv, Searches
        <4>2. seeker[e].position # p
          BY <3>2, <1>1 DEF RoutesInv, Searches
        <4> QED BY <4>1, <4>2, <1>5 DEF Looking
      <3> QED BY <3>1, <3>2
    <2>2. \A e, f \in Clients : seeker'[e].position \in Positions /\ seeker'[e].position = seeker'[f].position => e = f
      BY <1>6, SeekerIdle DEF RoutesInv, Searches
    <2> QED BY <2>1, <2>2 DEF Searches
  <1>11. QR!RouteIsKept'
    <2>1. ASSUME NEW q \in Positions, NEW i \in DOMAIN selections'[q], NEW j \in DOMAIN selections'[q],
                 i < j, QR!Selected(selections'[q][i])
          PROVE  selections'[q][j].route = selections'[q][i].route
      <3>1. CASE q # p
        <4>1. selections'[q] = selections[q]
          BY <3>1, <1>5
        <4> QED BY <4>1, <2>1 DEF RoutesInv, QR!RouteIsKept
      <3>2. CASE q = p /\ j \in 1..Len(t)
        <4>1. selections'[q] = u /\ i \in 1..Len(t) /\ u[i] = t[i] /\ u[j] = t[j]
          BY <3>2, <2>1, <1>3, <1>5
        <4> QED BY <3>2, <4>1, <2>1, <1>2, <1>3 DEF RoutesInv, QR!RouteIsKept
      <3>3. CASE q = p /\ j = Len(t) + 1
        <4>1. selections'[q] = u /\ i \in 1..Len(t) /\ u[i] = t[i] /\ u[j] = d
          BY <3>3, <2>1, <1>3, <1>5
        <4> QED BY <4>1, <2>1, <1>1, <1>2, <1>3
      <3> QED BY <3>1, <3>2, <3>3, <2>1, <1>3, <1>5
    <2> QED BY <2>1 DEF QR!RouteIsKept, QR!Selected
  <1> QED BY <1>7, <1>8, <1>9, <1>10, <1>11 DEF RoutesInv

\* The only candidate, or none.
LEMMA ChosenTypes ==
  ASSUME QR!WarrantAssumption, NEW cs \in SUBSET CandidateRoutes
  PROVE  QR!Chosen(cs) \in CandidateRoutes /\ \A r : cs \subseteq {r} /\ QR!Cardinality(cs) = 1 => QR!Chosen(cs) = r
  <1>1. \A S : QR!Cardinality(S) = Cardinality(S)
    BY DEF QR!Cardinality, Cardinality
  <1>2. Cardinality(cs) = 1 => cs # {}
    BY FS_EmptySet
  <1>3. cs # {} => (CHOOSE r \in cs : TRUE) \in cs
    OBVIOUS
  <1>4. QR!Nowhere \in CandidateRoutes
    <2>1. <<0, 0>> \in FoundVersions /\ FirstIsin \in Identifiers
      BY DEF QR!WarrantAssumption, FoundVersions
    <2> QED BY <2>1 DEF QR!Nowhere, CandidateRoutes
  <1> QED BY <1>1, <1>2, <1>3, <1>4 DEF QR!Chosen

LEMMA DecisionTypes ==
  ASSUME QR!WarrantAssumption, NEW cs \in SUBSET CandidateRoutes, NEW policy \in {QR!Policy(QR!Chosen(cs)), "V1"}
  PROVE  QR!Decision(cs, policy) \in Decisions /\ QR!Decision(cs, policy).route = QR!Chosen(cs)
  BY ChosenTypes DEF QR!Decision, Decisions, QR!Policy

\* What is found for the rows that were read.
LEMMA CandidateTypes == ASSUME NEW sought \in Seekers PROVE QR!Candidates(sought) \in SUBSET CandidateRoutes
  BY DEF QR!Candidates, CandidateRoutes, Seekers

\* A position's first decision, and its later ones.
LEMMA SelectKeepsRoutes == ASSUME QR!RoutesAssumption, RoutesInv, NEW c \in Clients, QR!SelectOnce(c) PROVE RoutesInv'
  <1> DEFINE cs == QR!Candidates(seeker[c])
  <1>1. cs \in SUBSET CandidateRoutes
    BY CandidateTypes DEF RoutesInv, RouteTypes
  <1>2. /\ seeker[c].does = "buys" /\ \E policy \in {QR!Policy(QR!Chosen(cs)), "V1"} : QR!Appends(c, QR!Decision(cs, policy))
        /\ UNCHANGED <<warrant, terms, audits, valuations, edit, listed, mapping, affected>>
    BY DEF QR!SelectOnce, QR!warrantVars
  <1> HIDE DEF cs
  <1>3. PICK policy \in {QR!Policy(QR!Chosen(cs)), "V1"} : QR!Appends(c, QR!Decision(cs, policy))
    BY <1>2
  <1>4. QR!Decision(cs, policy) \in Decisions
    BY <1>1, SeekerIdle, DecisionTypes
  <1>5. DOMAIN selections[seeker[c].position] = {}
    BY <1>2 DEF RoutesInv, Searches, Looking
  <1> QED BY <1>2, <1>3, <1>4, <1>5, DecisionKeepsRoutes

LEMMA DecideKeepsRoutes == ASSUME QR!RoutesAssumption, RoutesInv, NEW c \in Clients, QR!Decide(c) PROVE RoutesInv'
  <1> DEFINE before == selections[seeker[c].position]
             old == before[Len(before)]
             cs == QR!Kept(old, QR!Candidates(seeker[c]))
             d == QR!Decision(cs, QR!Policy(QR!Chosen(cs)))
  <1>1. /\ seeker[c].does = "reconciles" /\ UNCHANGED <<warrant, terms, audits, valuations, edit, listed, mapping, affected>>
        /\ \/ QR!Appends(c, d) /\ (QR!Selected(old) => QR!Cardinality(cs) = 1)
           \/ seeker' = [seeker EXCEPT ![c] = QR!Waiting] /\ UNCHANGED selections
    BY DEF QR!Decide, QR!warrantVars
  <1>2. /\ seeker[c].position \in Positions /\ before # <<>> /\ before \in Seq(Decisions)
    BY <1>1 DEF RoutesInv, RouteTypes, Searches, Looking
  <1>3. Len(before) \in Nat /\ Len(before) > 0 /\ DOMAIN before = 1..Len(before) /\ Len(before) \in DOMAIN before
    BY <1>2
  <1>4. cs \in SUBSET CandidateRoutes
    <2>1. QR!Candidates(seeker[c]) \in SUBSET CandidateRoutes
      BY CandidateTypes DEF RoutesInv, RouteTypes
    <2> QED BY <2>1 DEF QR!Kept
  <1>5. QR!Selected(old) => cs \subseteq {old.route}
    BY DEF QR!Kept
  <1> HIDE DEF cs
  <1>6. d \in Decisions /\ d.route = QR!Chosen(cs)
    BY <1>4, SeekerIdle, DecisionTypes
  <1>7. QR!Selected(old) /\ QR!Cardinality(cs) = 1 => d.route = old.route
    BY <1>4, <1>5, <1>6, SeekerIdle, ChosenTypes
  <1> HIDE DEF d
  <1>8. ASSUME NEW i \in DOMAIN before, QR!Selected(before[i])
        PROVE  QR!Selected(old) /\ old.route = before[i].route
    <2>1. CASE i = Len(before)
      BY <2>1, <1>8
    <2>2. CASE i < Len(before)
      <3>1. old.route = before[i].route
        BY <2>2, <1>2, <1>3, <1>8 DEF RoutesInv, QR!RouteIsKept
      <3> QED BY <3>1, <1>8 DEF QR!Selected
    <2> QED BY <2>1, <2>2, <1>3
  <1>9. CASE QR!Appends(c, d) /\ (QR!Selected(old) => QR!Cardinality(cs) = 1)
    <2>1. \A i \in DOMAIN before : QR!Selected(before[i]) => d.route = before[i].route
      BY <1>7, <1>8, <1>9
    <2> QED BY <1>1, <1>6, <1>9, <2>1, DecisionKeepsRoutes
  <1>10. CASE seeker' = [seeker EXCEPT ![c] = QR!Waiting] /\ UNCHANGED selections
    <2>1. WarrantInv'
      BY <1>1, SeekerIdle, WarrantNext DEF RoutesInv, QR!warrantVars
    <2>2. RoutesStand' /\ mapping' \in [QR!Providers -> FoundRoutes]
      BY <1>1, RoutesStandStill DEF RoutesInv, RouteTypes
    <2> QED BY <1>1, <1>10, <2>1, <2>2, SeekerIdle, SeekerGoesOn DEF Looking
  <1> QED BY <1>1, <1>9, <1>10

\* Every step keeps the invariant.
LEMMA RoutesNext == ASSUME QR!RoutesAssumption, RoutesInv, [QR!RoutesNext]_(QR!routeVars) PROVE RoutesInv'
  <1>1. CASE UNCHANGED QR!routeVars
    <2>1. UNCHANGED <<warrant, terms, audits, valuations, edit, listed, mapping, affected, seeker, selections>>
      BY <1>1 DEF QR!routeVars, QR!warrantVars
    <2>2. WarrantInv' /\ RoutesStand'
      BY <2>1, SeekerIdle, WarrantNext, RoutesStandStill DEF RoutesInv, QR!warrantVars
    <2> QED BY <2>1, <2>2, ProductGoesOn DEF RoutesInv, RouteTypes
  <1>2. CASE QR!DeactivateListing
    <2>1. /\ UNCHANGED <<warrant, terms, audits, valuations, edit, mapping, affected, seeker, selections>>
          /\ listed' \in [active : BOOLEAN, version : 1..2]
      BY <1>2 DEF QR!DeactivateListing, QR!warrantVars
    <2>2. WarrantInv' /\ RoutesStand'
      BY <2>1, SeekerIdle, WarrantNext, RoutesStandStill DEF RoutesInv, QR!warrantVars
    <2> QED BY <2>1, <2>2, ProductGoesOn DEF RoutesInv, RouteTypes
  <1>3. ASSUME NEW c \in Clients, QR!RefuseEdit(c) PROVE RoutesInv'
    <2>1. /\ UNCHANGED <<warrant, terms, audits, valuations, listed, mapping, seeker, selections>>
          /\ affected' = [affected EXCEPT ![c] = {}] /\ QR!Ends(c)
      BY <1>3 DEF QR!RefuseEdit, QR!Refused
    <2>2. WarrantInv'
      BY <2>1, SeekerIdle, EditEnds DEF RoutesInv
    <2>3. affected' \in [Clients -> SUBSET QR!Providers] /\ \A d \in Clients : affected'[d] \subseteq affected[d]
      BY <2>1 DEF RoutesInv, RouteTypes
    <2>4. RoutesStand'
      BY <2>1, <2>3 DEF RoutesInv, RoutesStand, Stands, IsinAt, Past, QR!Exists
    <2> QED BY <2>1, <2>2, <2>3, <2>4, ProductGoesOn DEF RoutesInv, RouteTypes
  <1> QED BY <1>1, <1>2, <1>3, EditKeepsRoutes, CommitKeepsRoutes, DeleteKeepsRoutes, DiscoveryKeepsRoutes,
             ConfigureKeepsRoutes, SelectKeepsRoutes, DecideKeepsRoutes, LooksKeepsRoutes DEF QR!RoutesNext

\* The invariant implies what is promised.
LEMMA RoutesInvSuffices ==
  RoutesInv => QR!RoutesTypeOK /\ QR!AuditTellsIdentity /\ QR!EvidenceIsAsReviewed
               /\ QR!RouteIsAsInspected /\ QR!RouteIsKept
  <1> SUFFICES ASSUME RoutesInv
               PROVE  QR!RoutesTypeOK /\ QR!AuditTellsIdentity /\ QR!EvidenceIsAsReviewed
                      /\ QR!RouteIsAsInspected /\ QR!RouteIsKept
    OBVIOUS
  <1>1. QR!TypeOK /\ QR!AuditTellsIdentity /\ QR!EvidenceIsAsReviewed /\ QR!RouteIsKept
    BY WarrantInvSuffices DEF RoutesInv
  <1>2. QR!RouteIsAsInspected
    BY AsInspected DEF RoutesInv, RoutesStand
  <1>3. QR!RoutesTypeOK
    BY <1>1 DEF RoutesInv, RouteTypes, FoundRoutes, Seekers, FoundVersions, QR!RoutesTypeOK
  <1> QED BY <1>1, <1>2, <1>3

\* Whatever is edited while a page or a price is fetched: a route is of the product as it was
\* when the route was created, a position keeps the route it was bound to, the audit tells the
\* identifiers in one line, and evidence is recorded for what was reviewed.
THEOREM RoutesAreKept ==
  ASSUME QR!RoutesAssumption
  PROVE  QR!RoutesSpec => [](QR!RoutesTypeOK /\ QR!AuditTellsIdentity /\ QR!EvidenceIsAsReviewed
                             /\ QR!RouteIsAsInspected /\ QR!RouteIsKept)
  BY RoutesInit, RoutesNext, RoutesInvSuffices, PTL DEF QR!RoutesSpec

-----------------------------------------------------------------------------
(* The underlying and its listings. *)

UnderlyingRow == [version : Nat, active : BOOLEAN, quality : {"DRAFT", "COMPLETE", "VERIFIED"}]
ListingRow == [version : Nat, active : BOOLEAN, primary : BOOLEAN]
VenueRow == [version : Nat, active : BOOLEAN]
AnyRow == UnderlyingRow \cup ListingRow \cup VenueRow
IsRow(r, x) ==
    /\ r = "underlying" => x \in UnderlyingRow
    /\ r \in Listings => x \in ListingRow
    /\ r = "venue" => x \in VenueRow
Ops == {"none", "promote", "add"} \cup UN!OfUnderlying \cup UN!OfListing \cup UN!OfVenue
RowRequests == [op : Ops, target : UN!Rows, primary : BOOLEAN, seen : UNION {[S -> AnyRow] : S \in SUBSET UN!Rows},
             checked : BOOLEAN]
UnderlyingTypes ==
    /\ row \in [UN!Rows -> AnyRow] /\ \A r \in UN!Rows : IsRow(r, row[r]) /\ row[r].version \in 0..LastRowVersion
    /\ told \in [UN!Rows -> 0..(LastRowVersion + 1)] /\ used \in BOOLEAN /\ request \in [Editors -> RowRequests]

Alive == UN!Of(row, "underlying")
\* The events tell the versions of what is there; of what is gone nothing is left.
Told ==
    /\ Alive => \A r \in UN!Rows : told[r] = row[r].version
    /\ ~Alive => \A l \in Listings : row[l].version = 0
    /\ told["venue"] = row["venue"].version

AtMostOne(rows) == \A l, m \in UN!ActivePrimaries(rows) : l = m
Primaries == AtMostOne(row) /\ (Alive /\ row["underlying"].quality # "DRAFT" => UN!ActivePrimaries(row) # {})

\* What a request has read is the row as it is, or an earlier version of it.
Agrees(r, x) == x.version <= row[r].version /\ (x.version = row[r].version => x = row[r])
Aimed(q) ==
    /\ q.op \in UN!OfUnderlying => q.target = "underlying"
    /\ q.op \in UN!OfVenue => q.target = "venue"
    /\ q.op \in UN!OfListing \cup {"promote", "add"} => q.target \in Listings
\* The listings it has read with the row of its target in between are at most one primary.
SeenTogether(q) ==
    \/ q.op = "promote"
    \/ q.op \in UN!OfListing /\ q.checked = TRUE /\ Alive /\ q.seen[q.target].version = row[q.target].version
Sent(q) == IF q.op = "none" THEN q = UN!Idle ELSE
    /\ Aimed(q) /\ q.target \in DOMAIN q.seen /\ \A r \in DOMAIN q.seen : IsRow(r, q.seen[r])
    /\ q.seen[q.target].version > 0 <=> q.op # "add"
    /\ IF q.op \in UN!OfVenue THEN DOMAIN q.seen = {"venue"}
       ELSE told["underlying"] > 0 /\ "venue" \notin DOMAIN q.seen
    /\ q.op \in UN!OfVenue \/ Alive => \A r \in DOMAIN q.seen : Agrees(r, q.seen[r])
    /\ IF q.checked = TRUE THEN q.op # "delete" => UN!Allowed(q)
       ELSE UN!Listed(q.op) /\ (q.op \in UN!OfListing => DOMAIN q.seen = {q.target})
    /\ SeenTogether(q) => AtMostOne(q.seen)
UnderlyingInv == UnderlyingTypes /\ Told /\ Primaries /\ \A c \in Editors : Sent(request[c])

\* The names of the rows.
LEMMA RowNames ==
  ASSUME UN!UnderlyingsAssumption
  PROVE  /\ "underlying" \in UN!Rows /\ "venue" \in UN!Rows /\ Listings \subseteq UN!Rows
         /\ "underlying" \notin Listings /\ "venue" \notin Listings
         /\ \A r \in UN!Rows : r = "underlying" \/ r = "venue" \/ r \in Listings
  BY DEF UN!Rows, UN!UnderlyingsAssumption

\* At most one, and exactly one.
LEMMA OneOfThem ==
  ASSUME UN!UnderlyingsAssumption, NEW rows
  PROVE  /\ UN!IndexHolds(rows) <=> AtMostOne(rows)
         /\ UN!OnePrimary(rows) <=> AtMostOne(rows) /\ UN!ActivePrimaries(rows) # {}
  <1> DEFINE S == UN!ActivePrimaries(rows)
  <1>1. \A T : UN!Cardinality(T) = Cardinality(T)
    BY DEF UN!Cardinality, Cardinality
  <1>2. S \subseteq Listings /\ IsFiniteSet(Listings)
    BY DEF UN!ActivePrimaries, UN!UnderlyingsAssumption, UN!IsFiniteSet, IsFiniteSet
  <1> HIDE DEF S
  <1>3. IsFiniteSet(S) /\ Cardinality(S) \in Nat
    BY <1>2, FS_Subset, FS_CardinalityType
  <1>4. Cardinality(S) = 0 <=> S = {}
    BY <1>3, FS_EmptySet
  <1>5. ASSUME NEW l \in S, \A m \in S : m = l PROVE Cardinality(S) = 1
    <2>1. S = {l}
      BY <1>5
    <2> QED BY <2>1, FS_Singleton
  <1>6. ASSUME NEW l \in S, NEW m \in S, l # m PROVE Cardinality(S) > 1
    <2>1. {l, m} \subseteq S /\ Cardinality({l, m}) = 2
      <3>1. IsFiniteSet({l}) /\ Cardinality({l}) = 1
        BY FS_Singleton
      <3>2. Cardinality({l} \cup {m}) = 2
        BY SMTT(30), <1>6, <3>1, FS_AddElement
      <3>3. {l} \cup {m} = {l, m}
        OBVIOUS
      <3> QED BY <3>2, <3>3
    <2>2. Cardinality({l, m}) <= Cardinality(S)
      BY <1>3, <2>1, FS_Subset
    <2> QED BY <1>3, <2>1, <2>2
  <1>7. Cardinality(S) <= 1 <=> \A l, m \in S : l = m
    BY <1>3, <1>4, <1>5, <1>6
  <1>8. Cardinality(S) = 1 <=> (\A l, m \in S : l = m) /\ S # {}
    BY <1>3, <1>4, <1>5, <1>6
  <1> QED BY <1>1, <1>7, <1>8 DEF S, AtMostOne, UN!IndexHolds, UN!OnePrimary

\* A row that is written: the columns that are set, and the others.
LEMMA OverVenue ==
  ASSUME NEW n \in Nat, NEW a \in BOOLEAN, NEW x \in VenueRow, NEW y, y = UN!Over([version |-> n], UN!Over([active |-> a], x))
  PROVE  y \in VenueRow /\ y.version = n /\ y.active = a
  BY DEF VenueRow, UN!Over
LEMMA OverUnderlying ==
  ASSUME NEW n \in Nat, NEW x \in UnderlyingRow, NEW y
  PROVE  /\ \A a \in BOOLEAN : y = UN!Over([version |-> n], UN!Over([active |-> a], x)) =>
                y \in UnderlyingRow /\ y.version = n /\ y.active = a /\ y.quality = x.quality
         /\ \A k \in {"DRAFT", "COMPLETE", "VERIFIED"} : y = UN!Over([version |-> n], UN!Over([quality |-> k], x)) =>
                y \in UnderlyingRow /\ y.version = n /\ y.active = x.active /\ y.quality = k
  BY DEF UnderlyingRow, UN!Over
LEMMA OverListing ==
  ASSUME NEW n \in Nat, NEW a \in BOOLEAN, NEW x \in ListingRow, NEW y, y = UN!Over([version |-> n], UN!Over([active |-> a], x))
  PROVE  y \in ListingRow /\ y.version = n /\ y.active = a /\ y.primary = x.primary
  BY DEF ListingRow, UN!Over
LEMMA OverPrimary ==
  ASSUME NEW n \in Nat, NEW p \in BOOLEAN, NEW x \in ListingRow, NEW y, y = UN!Over([version |-> n], UN!Over([primary |-> p], x))
  PROVE  y \in ListingRow /\ y.version = n /\ y.active = x.active /\ y.primary = p
  BY DEF ListingRow, UN!Over
LEMMA OverAdded ==
  ASSUME NEW n \in Nat, NEW p \in BOOLEAN, NEW x \in ListingRow, NEW y,
         y = UN!Over([version |-> n], UN!Over([active |-> TRUE, primary |-> p], x))
  PROVE  y \in ListingRow /\ y.version = n
  BY DEF ListingRow, UN!Over

\* The parts of a request.
LEMMA RowRequestTypes ==
  ASSUME NEW q \in RowRequests
  PROVE  /\ q.op \in Ops /\ q.target \in UN!Rows /\ q.primary \in BOOLEAN /\ q.checked \in BOOLEAN
         /\ DOMAIN q.seen \subseteq UN!Rows /\ \A r \in DOMAIN q.seen : q.seen[r] \in AnyRow
  BY DEF RowRequests

\* The version of a row is a number.
LEMMA RowVersions ==
  ASSUME NEW r, NEW x, IsRow(r, x), r \in {"underlying", "venue"} \cup Listings
  PROVE  x.version \in Nat /\ x.active \in BOOLEAN /\ (r \in Listings => x.primary \in BOOLEAN)
         /\ (r = "underlying" => x.quality \in {"DRAFT", "COMPLETE", "VERIFIED"}) /\ x \in AnyRow
  BY DEF IsRow, UnderlyingRow, ListingRow, VenueRow, AnyRow

\* Nobody has written anything.
LEMMA UnderlyingInit == ASSUME UN!UnderlyingsAssumption PROVE UN!Init => UnderlyingInv
  <1> SUFFICES ASSUME UN!Init PROVE UnderlyingInv
    OBVIOUS
  <1>1. /\ row["underlying"] = [version |-> 0, active |-> TRUE, quality |-> "DRAFT"]
        /\ row["venue"] = [version |-> 1, active |-> TRUE]
        /\ \A l \in Listings : row[l] = [version |-> 0, active |-> TRUE, primary |-> FALSE]
        /\ DOMAIN row = UN!Rows /\ row = [r \in UN!Rows |-> row[r]]
    BY RowNames DEF UN!Init
  <1>2. 0 \in 0..LastRowVersion /\ 1 \in 0..LastRowVersion /\ 1 \in 0..(LastRowVersion + 1) /\ 0 \in 0..(LastRowVersion + 1)
    BY DEF UN!UnderlyingsAssumption
  <1>3. \A r \in UN!Rows : IsRow(r, row[r]) /\ row[r].version \in 0..LastRowVersion
    <2> TAKE r \in UN!Rows
    <2>1. CASE r = "underlying"
      BY <2>1, <1>1, <1>2, RowNames DEF IsRow, UnderlyingRow
    <2>2. CASE r = "venue"
      <3>1. row["venue"] \in VenueRow /\ row["venue"].version \in 0..LastRowVersion
        BY <1>1, <1>2 DEF VenueRow
      <3>2. "venue" # "underlying" /\ "venue" \notin Listings
        BY RowNames
      <3> QED BY <2>2, <3>1, <3>2 DEF IsRow
    <2>3. CASE r \in Listings
      <3>1. row[r] = [version |-> 0, active |-> TRUE, primary |-> FALSE]
        BY <2>3, <1>1
      <3>2. row[r] \in ListingRow /\ row[r].version = 0
        BY <3>1 DEF ListingRow
      <3> QED BY <2>3, <3>2, <1>2, RowNames DEF IsRow
    <2> QED BY <2>1, <2>2, <2>3, RowNames
  <1>4. row \in [UN!Rows -> AnyRow]
    BY <1>1, <1>3, RowVersions DEF UN!Rows
  <1>5. UN!Idle \in RowRequests /\ UN!Idle.op = "none" /\ UN!Idle.checked = FALSE
    <2>1. <<>> \in [{} -> AnyRow]
      OBVIOUS
    <2> QED BY <2>1, RowNames DEF RowRequests, UN!Idle, Ops
  <1>6. UnderlyingTypes
    BY <1>2, <1>3, <1>4, <1>5 DEF UN!Init, UnderlyingTypes
  <1>7. Told /\ ~Alive
    BY <1>1, RowNames DEF Told, Alive, UN!Of, UN!Init
  <1>8. UN!ActivePrimaries(row) = {}
    BY <1>1 DEF UN!ActivePrimaries
  <1>9. Primaries
    BY <1>7, <1>8 DEF Primaries, AtMostOne
  <1> QED BY <1>5, <1>6, <1>7, <1>9 DEF UnderlyingInv, UN!Init, Sent

\* A request that waits has read what it has read: rows that are written since are later ones.
LEMMA SentStays ==
  ASSUME UN!UnderlyingsAssumption, UnderlyingTypes, UnderlyingTypes', NEW d \in Editors, request'[d] = request[d], Sent(request[d]),
         Alive' => Alive \/ request[d].op \in UN!OfVenue \cup {"none"},
         \A r \in UN!Rows : r = "venue" \/ Alive' => row'[r] = row[r] \/ row'[r].version > row[r].version,
         told["underlying"] > 0 => told'["underlying"] > 0
  PROVE  Sent(request[d])'
  <1>1. PICK q \in RowRequests : q = request[d] /\ request'[d] = q /\ Sent(q)
    BY DEF UnderlyingTypes
  <1>2. CASE q.op = "none"
    BY <1>1, <1>2 DEF Sent
  <1>3. CASE q.op # "none"
    <2>1. /\ Aimed(q) /\ q.target \in DOMAIN q.seen /\ DOMAIN q.seen \subseteq UN!Rows
          /\ \A r \in DOMAIN q.seen : IsRow(r, q.seen[r]) /\ q.seen[r].version \in Nat
      BY <1>1, <1>3, RowRequestTypes, RowVersions DEF Sent, UN!Rows
    <2>2. \A r \in UN!Rows : row[r].version \in Nat /\ row'[r].version \in Nat
      BY DEF UnderlyingTypes
    <2>3. ASSUME NEW r \in DOMAIN q.seen, q.op \in UN!OfVenue \/ Alive' PROVE Agrees(r, q.seen[r])'
      <3>1. r \in UN!Rows /\ (r = "venue" \/ Alive')
        BY <1>1, <1>3, <2>1, <2>3 DEF Sent
      <3>2. Agrees(r, q.seen[r])
        BY <1>1, <1>3, <2>3 DEF Sent
      <3>3. row'[r] = row[r] \/ row'[r].version > row[r].version
        BY <3>1, <2>1
      <3> QED BY <2>1, <2>2, <3>2, <3>3 DEF Agrees
    <2>4. SeenTogether(q)' => AtMostOne(q.seen)
      <3> SUFFICES ASSUME SeenTogether(q)' PROVE AtMostOne(q.seen)
        OBVIOUS
      <3>1. CASE q.op = "promote"
        BY <3>1, <1>1, <1>3 DEF Sent, SeenTogether
      <3>2. CASE q.op # "promote"
        <4>1. Alive' /\ q.op \in UN!OfListing /\ q.checked = TRUE /\ q.seen[q.target].version = row'[q.target].version
          BY <3>2 DEF SeenTogether
        <4>2. Alive /\ q.target \in UN!Rows
          BY <1>1, <4>1, <2>1 DEF UN!OfListing, UN!OfVenue
        <4>3. Agrees(q.target, q.seen[q.target])
          BY <1>1, <1>3, <2>1, <4>2 DEF Sent
        <4>4. row'[q.target] = row[q.target]
          BY <2>1, <2>2, <4>1, <4>2, <4>3 DEF Agrees
        <4>5. SeenTogether(q)
          BY <4>1, <4>2, <4>4 DEF SeenTogether
        <4> QED BY <4>5, <1>1, <1>3 DEF Sent
      <3> QED BY <3>1, <3>2
    <2>5. Sent(q)'
      BY <1>1, <1>3, <2>1, <2>3, <2>4 DEF Sent
    <2> QED BY <1>1, <2>5 DEF Sent, SeenTogether, Agrees
  <1> QED BY <1>2, <1>3

\* A request that ends, or another one that has read rows.
LEMMA RowRequestGoesOn ==
  ASSUME UN!UnderlyingsAssumption, UnderlyingInv, NEW c \in Editors, NEW q \in RowRequests, request' = [request EXCEPT ![c] = q],
         UNCHANGED <<row, told>>, used' \in BOOLEAN, Sent(q)
  PROVE  UnderlyingInv'
  <1>1. request' \in [Editors -> RowRequests] /\ \A d \in Editors : request'[d] = IF d = c THEN q ELSE request[d]
    BY DEF UnderlyingInv, UnderlyingTypes
  <1>2. UnderlyingTypes'
    BY <1>1 DEF UnderlyingInv, UnderlyingTypes
  <1>3. ASSUME NEW d \in Editors PROVE Sent(request[d])'
    <2>1. CASE d = c
      BY <2>1, <1>1 DEF Sent, SeenTogether, Agrees, Alive, UN!Of
    <2>2. CASE d # c
      <3>1. request'[d] = request[d] /\ Sent(request[d]) /\ (Alive' => Alive)
        BY <2>2, <1>1 DEF UnderlyingInv, Alive, UN!Of
      <3> QED BY <3>1, <1>2, SentStays DEF UnderlyingInv
    <2> QED BY <2>1, <2>2
  <1>4. Told'
    BY DEF UnderlyingInv, Told, Alive, UN!Of
  <1>5. Primaries'
    BY DEF UnderlyingInv, Primaries, Alive, UN!Of, AtMostOne, UN!ActivePrimaries
  <1> QED BY <1>2, <1>3, <1>4, <1>5 DEF UnderlyingInv

\* Nothing is done.
LEMMA RequestIdle == ASSUME UN!UnderlyingsAssumption PROVE UN!Idle \in RowRequests /\ Sent(UN!Idle)
  <1>1. <<>> \in [{} -> AnyRow]
    OBVIOUS
  <1> QED BY <1>1, RowNames DEF RowRequests, UN!Idle, Ops, Sent

\* Rows are written: every other request has still read what it has read.
LEMMA RowsWritten ==
  ASSUME UN!UnderlyingsAssumption, UnderlyingInv, request' \in [Editors -> RowRequests], used' \in BOOLEAN,
         \A d \in Editors : request'[d] = UN!Idle \/ request'[d] = request[d],
         row' \in [UN!Rows -> AnyRow], \A r \in UN!Rows : IsRow(r, row'[r]) /\ row'[r].version \in 0..LastRowVersion,
         told' \in [UN!Rows -> 0..(LastRowVersion + 1)], Told', Primaries',
         \A d \in Editors : Alive' => Alive \/ request[d].op \in UN!OfVenue \cup {"none"},
         \A r \in UN!Rows : r = "venue" \/ Alive' => row'[r] = row[r] \/ row'[r].version > row[r].version,
         told["underlying"] > 0 => told'["underlying"] > 0
  PROVE  UnderlyingInv'
  <1>1. UnderlyingTypes'
    BY DEF UnderlyingInv, UnderlyingTypes
  <1>2. ASSUME NEW d \in Editors PROVE Sent(request[d])'
    <2>1. CASE request'[d] = UN!Idle
      <3>1. UN!Idle.op = "none" /\ request'[d] = UN!Idle
        BY <2>1 DEF UN!Idle
      <3> QED BY <3>1 DEF Sent, UN!Idle
    <2>2. CASE request'[d] = request[d]
      <3>1. Sent(request[d]) /\ (Alive' => Alive \/ request[d].op \in UN!OfVenue \cup {"none"})
        BY DEF UnderlyingInv
      <3> QED BY <3>1, <2>2, <1>1, SentStays DEF UnderlyingInv
    <2> QED BY <2>1, <2>2
  <1> QED BY <1>1, <1>2 DEF UnderlyingInv

\* Nothing is there: all that requests wait for is the venue.
LEMMA CreateKeeps ==
  ASSUME UN!UnderlyingsAssumption, UnderlyingInv, NEW l \in Listings, NEW primary \in BOOLEAN, UN!Create(l, primary)
  PROVE  UnderlyingInv'
  <1> DEFINE new == [version |-> 1, active |-> TRUE, quality |-> IF primary THEN "COMPLETE" ELSE "DRAFT"]
             first == [version |-> 1, active |-> TRUE, primary |-> primary]
  <1>1. /\ new \in UnderlyingRow /\ new.version = 1 /\ (new.quality # "DRAFT" => primary = TRUE)
        /\ first \in ListingRow /\ first.version = 1 /\ first.active = TRUE /\ first.primary = primary
    BY DEF UnderlyingRow, ListingRow
  <1>2. /\ row' = [row EXCEPT !["underlying"] = new, ![l] = first] /\ told' = [told EXCEPT !["underlying"] = 1, ![l] = 1]
        /\ used' = used /\ request' = request /\ \A r \in UN!Rows \ {"venue"} : told[r] = 0
    BY DEF UN!Create
  <1> HIDE DEF new, first
  <1>3. /\ row \in [UN!Rows -> AnyRow] /\ \A r \in UN!Rows : IsRow(r, row[r]) /\ row[r].version \in 0..LastRowVersion
        /\ told \in [UN!Rows -> 0..(LastRowVersion + 1)] /\ used \in BOOLEAN /\ request \in [Editors -> RowRequests]
        /\ LastRowVersion \in Nat /\ LastRowVersion >= 1
    BY DEF UnderlyingInv, UnderlyingTypes, UN!UnderlyingsAssumption
  <1>4. /\ row'["underlying"] = new /\ row'[l] = first /\ told'["underlying"] = 1 /\ told'[l] = 1
        /\ \A r \in UN!Rows : r # "underlying" /\ r # l => row'[r] = row[r] /\ told'[r] = told[r]
        /\ DOMAIN row' = UN!Rows /\ DOMAIN told' = UN!Rows
    BY <1>2, <1>3, RowNames
  <1>5. ~Alive /\ (\A m \in Listings : row[m].version = 0) /\ told["venue"] = row["venue"].version /\ row["underlying"].version = 0
    <2>1. told["underlying"] = 0 /\ row["underlying"].version \in Nat
      BY <1>2, <1>3, RowNames
    <2> QED BY <2>1, RowNames DEF UnderlyingInv, Told, Alive, UN!Of
  <1>6. \A r \in UN!Rows : IsRow(r, row'[r]) /\ row'[r].version \in 0..LastRowVersion
    <2> TAKE r \in UN!Rows
    <2>1. CASE r = "underlying"
      BY <2>1, <1>1, <1>3, <1>4, RowNames DEF IsRow
    <2>2. CASE r = l
      <3>1. r \in Listings /\ r # "underlying" /\ r # "venue"
        BY <2>2, RowNames
      <3> QED BY <2>2, <3>1, <1>1, <1>3, <1>4 DEF IsRow
    <2>3. CASE r # "underlying" /\ r # l
      BY <2>3, <1>3, <1>4
    <2> QED BY <2>1, <2>2, <2>3
  <1>7. row' \in [UN!Rows -> AnyRow]
    <2>1. \A r \in UN!Rows : row'[r] \in AnyRow
      BY <1>6, RowVersions, RowNames
    <2>2. row' = [r \in UN!Rows |-> row'[r]]
      BY <1>2, <1>3
    <2> QED BY <2>1, <2>2
  <1>8. told' \in [UN!Rows -> 0..(LastRowVersion + 1)]
    BY <1>2, <1>3, RowNames
  <1>9. Alive' /\ row'["underlying"].version = 1
    BY <1>1, <1>4 DEF Alive, UN!Of
  <1>10. Told'
    <2>1. \A r \in UN!Rows : told'[r] = row'[r].version
      <3> TAKE r \in UN!Rows
      <3>1. CASE r = "venue"
        BY <3>1, <1>4, <1>5, RowNames
      <3>2. CASE r = "underlying" \/ r = l
        BY <3>2, <1>1, <1>4
      <3>3. CASE r \in Listings /\ r # l
        BY <3>3, <1>2, <1>4, <1>5, RowNames
      <3> QED BY <3>1, <3>2, <3>3, RowNames
    <2> QED BY <2>1, <1>9, RowNames DEF Told
  <1>11. Primaries'
    <2>1. \A m \in UN!ActivePrimaries(row') : m = l
      <3> TAKE m \in UN!ActivePrimaries(row')
      <3>1. m \in Listings /\ m # "underlying" /\ row'[m].version > 0
        BY RowNames DEF UN!ActivePrimaries
      <3>2. m # l => row'[m] = row[m]
        BY <3>1, <1>4, RowNames
      <3> QED BY <3>1, <3>2, <1>5
    <2>2. primary = TRUE => l \in UN!ActivePrimaries(row')
      <3>1. l \in DOMAIN row' /\ row'[l].version > 0 /\ row'[l].active = TRUE /\ row'[l].primary = primary
        BY <1>1, <1>4, RowNames
      <3> QED BY <3>1, Zenon DEF UN!ActivePrimaries
    <2>3. AtMostOne(row')
      BY <2>1 DEF AtMostOne
    <2>4. row'["underlying"].quality # "DRAFT" => UN!ActivePrimaries(row') # {}
      BY <2>2, <1>1, <1>4
    <2>5. AtMostOne(row)' /\ (Alive' /\ row'["underlying"].quality # "DRAFT" => UN!ActivePrimaries(row') # {})
      BY <2>3, <2>4 DEF AtMostOne
    <2> QED BY <2>5 DEF Primaries
  <1>12. ASSUME NEW d \in Editors PROVE request[d].op \in UN!OfVenue \cup {"none"}
    <2>1. Sent(request[d]) /\ told["underlying"] = 0
      BY <1>2, RowNames DEF UnderlyingInv
    <2> QED BY <2>1 DEF Sent
  <1>13. \A r \in UN!Rows : row'[r] = row[r] \/ row'[r].version > row[r].version
    BY <1>1, <1>4, <1>5, RowNames
  <1> QED BY <1>2, <1>3, <1>4, <1>6, <1>7, <1>8, <1>10, <1>11, <1>12, <1>13, RowsWritten

\* Somebody refers to the underlying.
LEMMA ReferKeeps == ASSUME UN!UnderlyingsAssumption, UnderlyingInv, UN!Refer PROVE UnderlyingInv'
  <1>1. row' = row /\ told' = told /\ request' = request /\ used' = TRUE
    BY DEF UN!Refer
  <1>2. UnderlyingTypes'
    BY <1>1 DEF UnderlyingInv, UnderlyingTypes
  <1>3. Told' /\ Primaries'
    BY <1>1 DEF UnderlyingInv, Told, Primaries, Alive, UN!Of, AtMostOne
  <1>4. \A c \in Editors : Sent(request[c])'
    BY <1>1 DEF UnderlyingInv, Sent, SeenTogether, Agrees, Alive, UN!Of
  <1> QED BY <1>2, <1>3, <1>4 DEF UnderlyingInv

\* A request reads its rows: they are as they are.
LEMMA BeginKeeps ==
  ASSUME UN!UnderlyingsAssumption, UnderlyingInv, NEW c \in Editors, NEW op \in Ops \ {"none"}, NEW target \in UN!Rows,
         NEW primary \in BOOLEAN, UN!Begin(c, op, target, primary),
         op \in UN!OfUnderlying => target = "underlying", op \in UN!OfVenue => target = "venue",
         op \in UN!OfListing \cup {"promote", "add"} => target \in Listings
  PROVE  UnderlyingInv'
  <1> DEFINE seen == IF op = "promote" THEN UN!Stored(row) \cap Listings ELSE IF op = "add" THEN {target, "underlying"} ELSE {target}
             q == [op |-> op, target |-> target, primary |-> primary, seen |-> UN!Select(seen), checked |-> ~UN!Listed(op)]
  <1>1. /\ IF op = "add" THEN UN!Of(row, "underlying") /\ told[target] = 0 ELSE UN!Of(row, target)
        /\ q.checked => UN!Allowed(q)
        /\ request' = [request EXCEPT ![c] = q] /\ row' = row /\ told' = told /\ used' = used
    BY DEF UN!Begin
  <1>2. /\ q.op = op /\ q.target = target /\ q.primary = primary /\ q.seen = UN!Select(seen) /\ q.checked = (~UN!Listed(op))
        /\ q.checked \in BOOLEAN
    OBVIOUS
  <1>3. seen \subseteq UN!Rows
    BY RowNames DEF UN!Stored
  <1>4. q.seen \in [seen -> AnyRow] /\ DOMAIN q.seen = seen /\ \A r \in seen : q.seen[r] = row[r]
    BY <1>3 DEF UN!Select, UnderlyingInv, UnderlyingTypes
  <1>5. target \in seen
    BY <1>1 DEF UN!Stored
  <1>6. "venue" \in seen => op \in UN!OfVenue
    BY RowNames DEF UN!OfUnderlying, UN!OfListing, UN!OfVenue, Ops
  <1>7. op \notin UN!OfVenue => Alive /\ told["underlying"] > 0
    <2>1. CASE op = "add" \/ op \in UN!OfUnderlying
      BY <2>1, <1>1, RowNames DEF UnderlyingInv, Told, Alive, UN!Of, UN!OfUnderlying
    <2>2. CASE op \in UN!OfListing \cup {"promote"}
      <3>1. target \in Listings /\ row[target].version > 0
        BY <2>2, <1>1 DEF UN!OfListing, UN!Of
      <3>2. Alive
        BY <3>1 DEF UnderlyingInv, Told
      <3> QED BY <3>2, RowNames DEF UnderlyingInv, Told, Alive, UN!Of
    <2> QED BY <2>1, <2>2 DEF Ops
  <1>8. UN!Listed(op) <=> op \in UN!OfListing \cup {"add", "reactivate", "verify", "delete"}
    BY DEF UN!Listed
  <1>9. op \notin {"promote", "add"} => seen = {target}
    OBVIOUS
  <1>10. op = "promote" => seen = UN!Stored(row) \cap Listings
    OBVIOUS
  <1>11. q \in RowRequests
    BY <1>2, <1>3, <1>4 DEF RowRequests
  <1> HIDE DEF q, seen
  <1>12. Aimed(q)
    BY <1>2 DEF Aimed
  <1>13. \A r \in seen : IsRow(r, q.seen[r]) /\ Agrees(r, q.seen[r])
    <2>1. \A r \in UN!Rows : IsRow(r, row[r]) /\ row[r].version \in Nat
      BY DEF UnderlyingInv, UnderlyingTypes
    <2>2. \A r \in UN!Rows : Agrees(r, row[r])
      BY <2>1 DEF Agrees
    <2> QED BY <2>1, <2>2, <1>3, <1>4
  <1>14. q.seen[target].version > 0 <=> op # "add"
    <2>1. CASE op = "add"
      <3>1. target \in Listings /\ told[target] = row[target].version
        BY <2>1, <1>7, RowNames DEF UnderlyingInv, Told, UN!OfVenue
      <3> QED BY <2>1, <3>1, <1>1, <1>4, <1>5
    <2>2. CASE op # "add"
      BY <2>2, <1>1, <1>4, <1>5 DEF UN!Of
    <2> QED BY <2>1, <2>2
  <1>15. op \in UN!OfVenue => seen = {"venue"} /\ q.checked = TRUE
    BY <1>2, <1>8, <1>9 DEF UN!OfVenue, UN!OfListing
  <1>16. SeenTogether(q) => AtMostOne(q.seen)
    <2>1. SeenTogether(q) => op = "promote"
      BY <1>2, <1>8 DEF SeenTogether
    <2>2. ASSUME op = "promote" PROVE UN!ActivePrimaries(q.seen) \subseteq UN!ActivePrimaries(row)
      BY <1>3, <1>4 DEF UN!ActivePrimaries, UnderlyingInv, UnderlyingTypes
    <2> QED BY <2>1, <2>2 DEF UnderlyingInv, Primaries, AtMostOne
  <1>17. q.checked = TRUE => UN!Allowed(q)
    BY <1>1
  <1>18. q.checked # TRUE /\ op \in UN!OfListing => seen = {target}
    BY <1>9 DEF UN!OfListing
  <1>19. Sent(q)
    <2>1. op # "none" /\ target \in DOMAIN q.seen
      BY <1>4, <1>5
    <2>2. IF op \in UN!OfVenue THEN DOMAIN q.seen = {"venue"} ELSE told["underlying"] > 0 /\ "venue" \notin DOMAIN q.seen
      BY <1>4, <1>6, <1>7, <1>15
    <2>3. IF q.checked = TRUE THEN op # "delete" => UN!Allowed(q)
          ELSE UN!Listed(op) /\ (op \in UN!OfListing => DOMAIN q.seen = {target})
      BY <1>2, <1>4, <1>17, <1>18
    <2> QED BY <2>1, <2>2, <2>3, <1>2, <1>4, <1>12, <1>13, <1>14, <1>16 DEF Sent
  <1>20. used' \in BOOLEAN
    BY <1>1 DEF UnderlyingInv, UnderlyingTypes
  <1> QED BY <1>1, <1>11, <1>19, <1>20, RowRequestGoesOn

\* A request lists the listings: what it has read before it keeps.
LEMMA ListKeeps == ASSUME UN!UnderlyingsAssumption, UnderlyingInv, NEW c \in Editors, UN!List(c) PROVE UnderlyingInv'
  <1>1. PICK p \in RowRequests : p = request[c] /\ Sent(p)
    BY DEF UnderlyingInv, UnderlyingTypes
  <1> DEFINE others == UN!Select(UN!Stored(row) \cap Listings)
             seen == UN!Over(p.seen, others)
             q == [[p EXCEPT !.seen = seen] EXCEPT !.checked = TRUE]
             n == IF IF q.op = "delete" THEN ~used ELSE UN!Allowed(q) THEN q ELSE UN!Idle
  <1>2. p # UN!Idle /\ p.checked = FALSE /\ request' = [request EXCEPT ![c] = n] /\ row' = row /\ told' = told /\ used' = used
    <2>1. p.checked \in BOOLEAN
      BY RowRequestTypes
    <2>2. p # UN!Idle /\ ~p.checked /\ request' = [request EXCEPT ![c] = n] /\ row' = row /\ told' = told /\ used' = used
      BY <1>1 DEF UN!List
    <2> QED BY <2>1, <2>2
  <1>3. q.op = p.op /\ q.target = p.target /\ q.primary = p.primary /\ q.seen = seen /\ q.checked = TRUE
    BY DEF RowRequests
  <1>4. DOMAIN others = UN!Stored(row) \cap Listings /\ \A r \in DOMAIN others : others[r] = row[r] /\ r \in UN!Rows
    BY RowNames DEF UN!Select
  <1>5. /\ DOMAIN seen = DOMAIN p.seen \cup (UN!Stored(row) \cap Listings)
        /\ \A r \in DOMAIN p.seen : seen[r] = p.seen[r]
        /\ \A r \in DOMAIN seen : r \notin DOMAIN p.seen => seen[r] = row[r]
        /\ seen = [r \in DOMAIN seen |-> seen[r]]
    BY <1>4 DEF UN!Over
  <1>6. DOMAIN p.seen \subseteq UN!Rows /\ DOMAIN seen \subseteq UN!Rows /\ \A r \in DOMAIN p.seen : p.seen[r] \in AnyRow
    BY <1>5, RowRequestTypes, RowNames
  <1>7. \A r \in UN!Rows : row[r] \in AnyRow /\ IsRow(r, row[r]) /\ row[r].version \in Nat
    BY DEF UnderlyingInv, UnderlyingTypes
  <1>8. q \in RowRequests
    <2>1. seen \in [DOMAIN seen -> AnyRow]
      BY <1>5, <1>6, <1>7
    <2>2. seen \in UNION {[S -> AnyRow] : S \in SUBSET UN!Rows}
      BY <2>1, <1>6
    <2> QED BY <2>2 DEF RowRequests
  <1> HIDE DEF q, seen, others
  <1>9. p.op # "none" /\ p.op \notin UN!OfVenue /\ p.op # "promote"
    BY <1>1, <1>2 DEF Sent, UN!Listed, UN!OfVenue, UN!OfListing
  <1>10. /\ Aimed(p) /\ p.target \in DOMAIN p.seen /\ (p.seen[p.target].version > 0 <=> p.op # "add")
         /\ told["underlying"] > 0 /\ "venue" \notin DOMAIN p.seen
         /\ \A r \in DOMAIN p.seen : IsRow(r, p.seen[r])
         /\ p.op \in UN!OfListing => DOMAIN p.seen = {p.target}
    BY <1>1, <1>2, <1>9 DEF Sent
  <1>11. Alive => \A r \in DOMAIN p.seen : Agrees(r, p.seen[r])
    BY <1>1, <1>2, <1>9 DEF Sent
  <1>12. Aimed(q) /\ q.target \in DOMAIN q.seen /\ (q.seen[q.target].version > 0 <=> q.op # "add")
    BY <1>3, <1>5, <1>10 DEF Aimed
  <1>13. "venue" \notin DOMAIN q.seen
    BY <1>3, <1>5, <1>10, RowNames
  <1>14. \A r \in DOMAIN q.seen : IsRow(r, q.seen[r])
    BY <1>3, <1>5, <1>6, <1>7, <1>10
  <1>15. Alive => \A r \in DOMAIN q.seen : Agrees(r, q.seen[r])
    <2> SUFFICES ASSUME Alive, NEW r \in DOMAIN q.seen PROVE Agrees(r, q.seen[r])
      OBVIOUS
    <2>1. CASE r \in DOMAIN p.seen
      BY <2>1, <1>3, <1>5, <1>11
    <2>2. CASE r \notin DOMAIN p.seen
      <3>1. q.seen[r] = row[r] /\ row[r].version \in Nat
        BY <2>2, <1>3, <1>5, <1>6, <1>7
      <3> QED BY <3>1 DEF Agrees
    <2> QED BY <2>1, <2>2
  <1>16. SeenTogether(q) => AtMostOne(q.seen)
    <2> SUFFICES ASSUME SeenTogether(q) PROVE AtMostOne(q.seen)
      OBVIOUS
    <2>1. p.op \in UN!OfListing /\ Alive /\ p.seen[p.target].version = row[p.target].version
      BY <1>3, <1>5, <1>9, <1>10 DEF SeenTogether
    <2>2. p.seen[p.target] = row[p.target]
      BY <2>1, <1>10, <1>11 DEF Agrees
    <2>3. \A r \in DOMAIN q.seen : q.seen[r] = row[r] /\ r \in UN!Rows
      BY <2>1, <2>2, <1>3, <1>5, <1>6, <1>10
    <2>4. UN!ActivePrimaries(q.seen) \subseteq UN!ActivePrimaries(row)
      BY <2>3 DEF UN!ActivePrimaries, UnderlyingInv, UnderlyingTypes
    <2> QED BY <2>4 DEF UnderlyingInv, Primaries, AtMostOne
  <1>17. (q.op = "delete" \/ UN!Allowed(q)) => Sent(q)
    <2> SUFFICES ASSUME q.op = "delete" \/ UN!Allowed(q) PROVE Sent(q)
      OBVIOUS
    <2>1. IF q.op \in UN!OfVenue THEN DOMAIN q.seen = {"venue"} ELSE told["underlying"] > 0 /\ "venue" \notin DOMAIN q.seen
      BY <1>3, <1>9, <1>10, <1>13
    <2>2. q.op \in UN!OfVenue \/ Alive => \A r \in DOMAIN q.seen : Agrees(r, q.seen[r])
      BY <1>3, <1>9, <1>15
    <2>3. q.op # "none" /\ q.checked = TRUE
      BY <1>3, <1>9
    <2> QED BY <2>1, <2>2, <2>3, <1>12, <1>14, <1>16 DEF Sent
  <1>18. n \in RowRequests /\ Sent(n)
    <2>1. CASE n = q /\ (q.op = "delete" \/ UN!Allowed(q))
      BY <2>1, <1>8, <1>17
    <2>2. CASE n = UN!Idle
      BY <2>2, RequestIdle
    <2> QED BY <2>1, <2>2
  <1> HIDE DEF n
  <1> QED BY <1>2, <1>18, RowRequestGoesOn DEF UnderlyingInv, UnderlyingTypes

\* What a commit writes into a row that is as it was read.
LEMMA RowIsWritten ==
  ASSUME UN!UnderlyingsAssumption, UnderlyingTypes, NEW q \in RowRequests, Aimed(q), q.op \notin {"none", "delete"},
         q.target \in DOMAIN q.seen, NEW r \in UN!Changed(q), r \in UN!Rows, q.seen[r] = row[r]
  PROVE  LET w == UN!Written(q)[r]
         IN /\ IsRow(r, w) /\ w.version = row[r].version + 1
            /\ q.op = "rename" => (w.quality = "DRAFT" <=> row[r].quality = "DRAFT")
            /\ q.op \in {"deactivate", "reactivate"} => w.quality = row[r].quality
            /\ q.op \in {"edit", "revive"} => w.primary = row[r].primary /\ (row[r].active = TRUE => w.active = TRUE)
            /\ q.op = "promote" => w.active = row[r].active /\ w.primary = (r = q.target)
  <1> DEFINE w == UN!Written(q)[r]
             n == row[r].version + 1
             f == UN!Columns(q, r)
  <1>1. /\ q.target \in UN!Rows /\ IsRow(r, row[r]) /\ n \in Nat
        /\ (q.op # "promote" => r = q.target) /\ (q.op = "promote" => r \in Listings)
    BY RowRequestTypes DEF UnderlyingTypes, UN!Changed
  <1>2. w = UN!Over([version |-> n], UN!Over(f, row[r]))
    BY DEF UN!Written
  <1> HIDE DEF w, n
  <1> SUFFICES /\ IsRow(r, w) /\ w.version = n
               /\ q.op = "rename" => (w.quality = "DRAFT" <=> row[r].quality = "DRAFT")
               /\ q.op \in {"deactivate", "reactivate"} => w.quality = row[r].quality
               /\ q.op \in {"edit", "revive"} => w.primary = row[r].primary /\ (row[r].active = TRUE => w.active = TRUE)
               /\ q.op = "promote" => w.active = row[r].active /\ w.primary = (r = q.target)
    BY DEF w, n
  <1>3. CASE q.op \in UN!OfVenue
    <2>1. r = "venue" /\ row[r] \in VenueRow /\ r # "underlying" /\ r \notin Listings
      BY <1>1, <1>3, RowNames DEF Aimed, UN!OfVenue, IsRow
    <2>2. PICK a \in BOOLEAN : f = [active |-> a]
      BY <1>3 DEF UN!Columns, UN!OfVenue
    <2>3. w \in VenueRow /\ w.version = n
      BY <1>1, <1>2, <2>1, <2>2, OverVenue
    <2> QED BY <1>3, <2>1, <2>3 DEF IsRow, UN!OfVenue
  <1>4. CASE q.op \in UN!OfUnderlying
    <2>1. r = "underlying" /\ row[r] \in UnderlyingRow /\ r # "venue" /\ r \notin Listings
      BY <1>1, <1>4, RowNames DEF Aimed, UN!OfUnderlying, IsRow
    <2>2. row[r].quality \in {"DRAFT", "COMPLETE", "VERIFIED"}
      BY <2>1 DEF UnderlyingRow
    <2>3. CASE q.op \in {"deactivate", "reactivate"}
      <3>1. PICK a \in BOOLEAN : f = [active |-> a]
        BY <2>3 DEF UN!Columns
      <3>2. w \in UnderlyingRow /\ w.version = n /\ w.quality = row[r].quality
        BY <1>1, <1>2, <2>1, <3>1, OverUnderlying
      <3> QED BY <2>3, <2>1, <3>2 DEF IsRow
    <2>4. CASE q.op \in {"rename", "verify"}
      <3>1. PICK k \in {"DRAFT", "COMPLETE", "VERIFIED"} :
               f = [quality |-> k] /\ (q.op = "rename" => (k = "DRAFT" <=> row[r].quality = "DRAFT"))
        <4>1. CASE q.op = "rename"
          <5> DEFINE k == IF row[r].quality = "VERIFIED" THEN "COMPLETE" ELSE row[r].quality
          <5>1. f = [quality |-> k]
            BY <4>1 DEF UN!Columns
          <5> QED BY <5>1, <2>2
        <4>2. CASE q.op = "verify"
          BY <4>2 DEF UN!Columns
        <4> QED BY <2>4, <4>1, <4>2
      <3>2. w \in UnderlyingRow /\ w.version = n /\ w.quality = k
        BY <1>1, <1>2, <2>1, <3>1, OverUnderlying
      <3> QED BY <2>4, <2>1, <3>1, <3>2 DEF IsRow
    <2> QED BY <1>4, <2>3, <2>4 DEF UN!OfUnderlying
  <1>5. CASE q.op \in UN!OfListing \cup {"promote", "add"}
    <2>1. r \in Listings /\ row[r] \in ListingRow /\ r # "venue" /\ r # "underlying"
      BY <1>1, <1>5, RowNames DEF Aimed, IsRow
    <2>2. row[r].active \in BOOLEAN /\ row[r].primary \in BOOLEAN /\ q.primary \in BOOLEAN
      BY <2>1, RowRequestTypes DEF ListingRow
    <2>3. CASE q.op \in UN!OfListing
      <3>1. PICK a \in BOOLEAN : f = [active |-> a] /\ (q.op \in {"edit", "revive"} => (row[r].active = TRUE => a = TRUE))
        <4>1. CASE q.op = "edit"
          <5>1. f = [active |-> row[r].active]
            BY <4>1 DEF UN!Columns
          <5> QED BY <5>1, <2>2
        <4>2. CASE q.op \in {"retire", "revive"}
          BY <4>2 DEF UN!Columns
        <4> QED BY <2>3, <4>1, <4>2 DEF UN!OfListing
      <3>2. w = UN!Over([version |-> n], UN!Over([active |-> a], row[r]))
        BY <1>2, <3>1
      <3>3. w \in ListingRow /\ w.version = n /\ w.active = a /\ w.primary = row[r].primary
        <4> HIDE DEF f
        <4> QED BY <1>1, <2>1, <3>2, OverListing
      <3> QED BY <2>3, <2>1, <3>1, <3>3 DEF IsRow, UN!OfListing
    <2>4. CASE q.op = "promote"
      <3>1. f = [primary |-> r = q.target]
        BY <2>4 DEF UN!Columns
      <3>2. PICK p \in BOOLEAN : p = (r = q.target)
        OBVIOUS
      <3>3. w = UN!Over([version |-> n], UN!Over([primary |-> p], row[r]))
        BY <1>2, <3>1, <3>2
      <3>4. w \in ListingRow /\ w.version = n /\ w.active = row[r].active /\ w.primary = p
        <4> HIDE DEF f
        <4> QED BY <1>1, <2>1, <3>3, OverPrimary
      <3> QED BY <2>4, <2>1, <3>2, <3>4 DEF IsRow
    <2>5. CASE q.op = "add"
      <3>1. f = [active |-> TRUE, primary |-> q.primary]
        BY <2>5 DEF UN!Columns
      <3>2. w = UN!Over([version |-> n], UN!Over([active |-> TRUE, primary |-> q.primary], row[r]))
        BY <1>2, <3>1
      <3>3. w \in ListingRow /\ w.version = n
        <4> HIDE DEF f
        <4> QED BY <1>1, <2>1, <2>2, <3>2, OverAdded
      <3> QED BY <2>5, <2>1, <3>3 DEF IsRow
    <2> QED BY <1>5, <2>3, <2>4, <2>5
  <1> QED BY <1>3, <1>4, <1>5, RowRequestTypes DEF Ops

\* A request that commits: rows it has read and checked, as they are.
Committed(q) ==
    /\ q \in RowRequests /\ Sent(q) /\ q.op \notin {"none", "delete"} /\ q.checked = TRUE /\ UN!Allowed(q)
    /\ UN!Changed(q) \subseteq DOMAIN q.seen /\ UN!Changed(q) \subseteq UN!Rows /\ UN!Changed(q) # {}
    /\ q.op \in UN!OfVenue \/ Alive
    /\ \A r \in UN!Changed(q) : q.seen[r] = row[r]

LEMMA WhatCommits ==
  ASSUME UN!UnderlyingsAssumption, UnderlyingInv, NEW q \in RowRequests, Sent(q), q.checked = TRUE, q.op # "delete",
         \A r \in UN!Changed(q) : UN!Fresh(q, r)
  PROVE  Committed(q)
  <1>1. q.op # "none" /\ q.target \in DOMAIN q.seen /\ UN!Allowed(q) /\ Aimed(q) /\ (q.seen[q.target].version > 0 <=> q.op # "add")
    BY DEF Sent, UN!Idle
  <1>2. UN!Changed(q) \subseteq DOMAIN q.seen /\ UN!Changed(q) # {} /\ (q.op # "promote" => UN!Changed(q) = {q.target})
    BY <1>1 DEF UN!Changed, UN!Allowed, UN!Differs
  <1>3. UN!Changed(q) \subseteq UN!Rows
    BY <1>2, RowRequestTypes
  <1>4. \A r \in UN!Changed(q) : row[r].version = q.seen[r].version /\ (q.op = "add" => Alive)
    BY DEF UN!Fresh, Alive
  <1>5. q.op \in UN!OfVenue \/ Alive
    <2> SUFFICES ASSUME q.op \notin UN!OfVenue, q.op # "add" PROVE Alive
      BY <1>2, <1>4
    <2>1. PICK r \in UN!Changed(q) : TRUE
      BY <1>2
    <2>2. q.seen[r].version > 0
      BY <1>1, <1>2, <2>1 DEF UN!Changed
    <2>3. row[r].version > 0 /\ r \in UN!Rows /\ r # "venue"
      BY <1>1, <1>2, <1>3, <1>4, <2>1, <2>2 DEF Sent
    <2>4. CASE r = "underlying"
      BY <2>3, <2>4 DEF Alive, UN!Of
    <2>5. CASE r \in Listings
      BY <2>3, <2>5 DEF UnderlyingInv, Told
    <2> QED BY <2>3, <2>4, <2>5, RowNames
  <1>6. \A r \in UN!Changed(q) : q.seen[r] = row[r]
    BY <1>1, <1>2, <1>4, <1>5 DEF Sent, Agrees
  <1> QED BY <1>1, <1>2, <1>3, <1>5, <1>6 DEF Committed

\* The rows that are written.
LEMMA CommitRows ==
  ASSUME UN!UnderlyingsAssumption, UnderlyingInv, NEW q, Committed(q), row' = UN!Written(q)
  PROVE  /\ DOMAIN row' = UN!Rows /\ row' = [r \in UN!Rows |-> row'[r]]
         /\ \A r \in UN!Rows : IsRow(r, row'[r])
         /\ \A r \in UN!Rows \ UN!Changed(q) : row'[r] = row[r]
         /\ \A r \in UN!Changed(q) : row'[r].version = row[r].version + 1 /\ row[r].version \in Nat
  <1>1. row' = [r \in UN!Rows |-> UN!Written(q)[r]] /\ DOMAIN row' = UN!Rows
    BY DEF UN!Written
  <1>2. \A r \in UN!Rows : IsRow(r, row[r]) /\ row[r].version \in Nat
    BY DEF UnderlyingInv, UnderlyingTypes
  <1>3. ASSUME NEW r \in UN!Rows \ UN!Changed(q) PROVE row'[r] = row[r]
    BY <1>1 DEF UN!Written
  <1>4. ASSUME NEW r \in UN!Changed(q) PROVE IsRow(r, row'[r]) /\ row'[r].version = row[r].version + 1 /\ r \in UN!Rows
    <2>1. /\ q \in RowRequests /\ Aimed(q) /\ q.op \notin {"none", "delete"} /\ q.target \in DOMAIN q.seen
          /\ r \in UN!Rows /\ q.seen[r] = row[r] /\ UnderlyingTypes
      BY DEF Committed, Sent, UnderlyingInv
    <2>2. row'[r] = UN!Written(q)[r]
      OBVIOUS
    <2> QED BY <2>1, <2>2, RowIsWritten
  <1> QED BY <1>1, <1>2, <1>3, <1>4

\* Where the underlying is operational, an active primary listing is left.
LEMMA CommitPrimaries ==
  ASSUME UN!UnderlyingsAssumption, UnderlyingInv, NEW q, Committed(q), row' = UN!Written(q), UN!IndexHolds(row'), Alive' <=> Alive
  PROVE  Primaries'
  <1>1. /\ DOMAIN row' = UN!Rows /\ DOMAIN row = UN!Rows
        /\ \A r \in UN!Rows \ UN!Changed(q) : row'[r] = row[r]
        /\ \A r \in UN!Changed(q) : row'[r].version = row[r].version + 1 /\ row[r].version \in Nat
    BY CommitRows DEF UnderlyingInv, UnderlyingTypes
  <1>2. /\ q \in RowRequests /\ Sent(q) /\ q.op \notin {"none", "delete"} /\ q.checked = TRUE /\ UN!Allowed(q)
        /\ UN!Changed(q) \subseteq DOMAIN q.seen /\ UN!Changed(q) \subseteq UN!Rows /\ UN!Changed(q) # {}
        /\ \A r \in UN!Changed(q) : q.seen[r] = row[r]
        /\ q.op \in UN!OfVenue \/ Alive
    BY DEF Committed
  <1>3. Aimed(q) /\ q.target \in DOMAIN q.seen /\ (q.seen[q.target].version > 0 <=> q.op # "add") /\ (SeenTogether(q) => AtMostOne(q.seen))
    BY <1>2 DEF Sent
  <1>4. q.op # "promote" => UN!Changed(q) = {q.target}
    BY DEF UN!Changed
  <1>5. \A r \in UN!Changed(q) :
           /\ q.op = "rename" => (row'[r].quality = "DRAFT" <=> row[r].quality = "DRAFT")
           /\ q.op \in {"deactivate", "reactivate"} => row'[r].quality = row[r].quality
           /\ q.op \in {"edit", "revive"} => row'[r].primary = row[r].primary /\ (row[r].active = TRUE => row'[r].active = TRUE)
           /\ q.op = "promote" => row'[r].active = row[r].active /\ row'[r].primary = (r = q.target)
    <2> TAKE r \in UN!Changed(q)
    <2>1. UnderlyingTypes /\ row'[r] = UN!Written(q)[r] /\ r \in UN!Rows /\ q.seen[r] = row[r]
      BY <1>2 DEF UnderlyingInv
    <2>2. q \in RowRequests /\ Aimed(q) /\ q.op \notin {"none", "delete"} /\ q.target \in DOMAIN q.seen
      BY <1>2, <1>3
    <2> DEFINE w == UN!Written(q)[r]
    <2>3. /\ q.op = "rename" => (w.quality = "DRAFT" <=> row[r].quality = "DRAFT")
          /\ q.op \in {"deactivate", "reactivate"} => w.quality = row[r].quality
          /\ q.op \in {"edit", "revive"} => w.primary = row[r].primary /\ (row[r].active = TRUE => w.active = TRUE)
          /\ q.op = "promote" => w.active = row[r].active /\ w.primary = (r = q.target)
      BY <2>1, <2>2, RowIsWritten, Zenon
    <2>4. w = row'[r]
      BY <2>1
    <2> HIDE DEF w
    <2> QED BY <2>3, <2>4
  <1>6. AtMostOne(row')
    BY OneOfThem
  <1>7. \A r \in Listings : row[r].version \in Nat /\ row[r].active \in BOOLEAN /\ row[r].primary \in BOOLEAN /\ r \in UN!Rows
    BY RowVersions, RowNames DEF UnderlyingInv, UnderlyingTypes
  <1>8. Alive => AtMostOne(row) /\ (row["underlying"].quality # "DRAFT" => UN!ActivePrimaries(row) # {})
    BY DEF UnderlyingInv, Primaries
  <1> SUFFICES ASSUME Alive', row'["underlying"].quality # "DRAFT" PROVE UN!ActivePrimaries(row') # {}
    <2>1. AtMostOne(row)' /\ (Alive' /\ row'["underlying"].quality # "DRAFT" => UN!ActivePrimaries(row') # {})
      BY <1>6 DEF AtMostOne
    <2> QED BY <2>1 DEF Primaries
  <1>9. CASE q.op \in UN!OfVenue
    <2>1. UN!Changed(q) = {"venue"}
      BY <1>3, <1>4, <1>9 DEF Aimed, UN!OfVenue
    <2>2. row'["underlying"] = row["underlying"] /\ \A l \in Listings : row'[l] = row[l]
      BY <2>1, <1>1, RowNames
    <2>3. UN!ActivePrimaries(row') = UN!ActivePrimaries(row)
      BY <2>2, <1>1 DEF UN!ActivePrimaries
    <2> QED BY <2>2, <2>3, <1>8
  <1>10. CASE q.op \in UN!OfUnderlying
    <2>1. UN!Changed(q) = {"underlying"}
      BY <1>3, <1>4, <1>10 DEF Aimed, UN!OfUnderlying
    <2>2. \A l \in Listings : row'[l] = row[l]
      BY <2>1, <1>1, RowNames
    <2>3. UN!ActivePrimaries(row') = UN!ActivePrimaries(row)
      BY <2>2, <1>1 DEF UN!ActivePrimaries
    <2>4. q.op = "verify" => row["underlying"].quality # "DRAFT"
      BY <1>2, <2>1 DEF UN!Allowed
    <2>5. row["underlying"].quality # "DRAFT"
      BY <1>2, <1>5, <1>10, <2>1, <2>4 DEF UN!OfUnderlying
    <2> QED BY <2>3, <2>5, <1>8
  <1>11. CASE q.op = "add"
    <2>1. row[q.target].version = 0 /\ UN!Changed(q) = {q.target} /\ q.target \in Listings
      <3>1. q.seen[q.target].version = row[q.target].version /\ row[q.target].version \in Nat /\ q.target \in Listings /\ UN!Changed(q) = {q.target}
        BY <1>1, <1>2, <1>3, <1>4, <1>11 DEF Aimed
      <3> QED BY <3>1, <1>3, <1>11
    <2>2. \A l \in Listings : row[l].version > 0 => row'[l] = row[l]
      BY <2>1, <1>1, <1>7
    <2>3. UN!ActivePrimaries(row) \subseteq UN!ActivePrimaries(row')
      BY <2>2, <1>1 DEF UN!ActivePrimaries
    <2>4. row'["underlying"] = row["underlying"]
      BY <2>1, <1>1, RowNames
    <2> QED BY <2>3, <2>4, <1>8
  <1>12. CASE q.op \in UN!OfListing
    <2>1. UN!Changed(q) = {q.target} /\ q.target \in Listings /\ q.seen[q.target] = row[q.target]
      BY <1>2, <1>3, <1>4, <1>12 DEF Aimed, UN!OfListing
    <2>2. row'["underlying"] = row["underlying"]
      BY <2>1, <1>1, RowNames
    <2>3. CASE q.op \in {"edit", "revive"}
      <3>1. \A l \in UN!ActivePrimaries(row) : l \in UN!ActivePrimaries(row')
        <4> TAKE l \in UN!ActivePrimaries(row)
        <4>1. l \in Listings /\ l \in UN!Rows /\ row[l].version > 0 /\ row[l].active = TRUE /\ row[l].primary = TRUE /\ row[l].version \in Nat
          BY <1>7 DEF UN!ActivePrimaries
        <4>2. row'[l].version > 0 /\ row'[l].active = TRUE /\ row'[l].primary = TRUE /\ l \in DOMAIN row'
          <5>1. CASE l \in UN!Changed(q)
            BY <5>1, <4>1, <2>3, <1>1, <1>5
          <5>2. CASE l \notin UN!Changed(q)
            BY <5>2, <4>1, <1>1
          <5> QED BY <5>1, <5>2
        <4> QED BY <4>1, <4>2, Zenon DEF UN!ActivePrimaries
      <3> QED BY <3>1, <2>2, <1>8, <1>2, <1>12 DEF UN!OfListing, UN!OfVenue
    <2>4. CASE q.op = "retire"
      <3>1. AtMostOne(q.seen)
        BY <2>1, <2>4, <1>2, <1>3 DEF SeenTogether, UN!OfListing, UN!OfVenue
      <3>2. UN!OnePrimary(UN!After(q))
        BY <1>2, <2>4 DEF UN!Allowed, UN!OfListing
      <3>3. PICK m : m \in UN!ActivePrimaries(UN!After(q))
        BY <3>2, OneOfThem
      <3>4. m # q.target
        <4>1. ASSUME m = q.target PROVE FALSE
          <5>1. UN!After(q)[m] = UN!Over([version |-> q.seen[m].version + 1], UN!Over([active |-> FALSE], q.seen[m]))
            BY <4>1, <1>3, <2>1, <2>4 DEF UN!After, UN!Columns
          <5>2. UN!After(q)[m].active = FALSE
            BY <5>1 DEF UN!Over
          <5> QED BY <5>2, <3>3 DEF UN!ActivePrimaries
        <4> QED BY <4>1
      <3>5. m \in UN!ActivePrimaries(q.seen)
        BY <3>3, <3>4, <2>1 DEF UN!ActivePrimaries, UN!After
      <3>6. q.target \notin UN!ActivePrimaries(q.seen)
        BY <3>1, <3>4, <3>5 DEF AtMostOne
      <3>7. q.target \notin UN!ActivePrimaries(row)
        BY <3>6, <2>1, <1>3 DEF UN!ActivePrimaries
      <3>8. UN!ActivePrimaries(row) \subseteq UN!ActivePrimaries(row')
        BY <3>7, <2>1, <1>1 DEF UN!ActivePrimaries
      <3> QED BY <3>8, <2>2, <2>4, <1>2, <1>8 DEF UN!OfVenue
    <2> QED BY <1>12, <2>3, <2>4 DEF UN!OfListing
  <1>13. CASE q.op = "promote"
    <2>1. /\ UN!Changed(q) = {l \in Listings \cap DOMAIN q.seen : q.seen[l].version > 0 /\ q.seen[l].primary # (l = q.target)}
          /\ q.target \in Listings /\ q.seen[q.target].active = TRUE /\ q.seen[q.target].version > 0 /\ AtMostOne(q.seen)
      <3>1. UN!Changed(q) = {l \in Listings \cap DOMAIN q.seen : q.seen[l].version > 0 /\ q.seen[l].primary # (l = q.target)}
        BY <1>13 DEF UN!Changed
      <3>2. q.target \in Listings /\ q.seen[q.target].version > 0 /\ AtMostOne(q.seen)
        BY <1>13, <1>3 DEF Aimed, SeenTogether
      <3>3. IsRow(q.target, q.seen[q.target]) /\ q.seen[q.target].active
        BY <1>2, <1>3, <1>13 DEF Sent, UN!Allowed
      <3>4. q.seen[q.target].active = TRUE
        BY <3>2, <3>3, RowVersions
      <3> QED BY <3>1, <3>2, <3>4
    <2>2. "underlying" \notin UN!Changed(q) /\ row'["underlying"] = row["underlying"]
      BY <2>1, <1>1, RowNames
    <2>3. CASE q.target \in UN!Changed(q)
      <3>1. row'[q.target].active = TRUE /\ row'[q.target].primary = TRUE /\ row'[q.target].version > 0 /\ q.target \in DOMAIN row'
        <4>1. row'[q.target].active = row[q.target].active /\ row'[q.target].primary = (q.target = q.target) /\ q.seen[q.target] = row[q.target]
          BY <2>3, <1>2, <1>5, <1>13
        <4>2. row'[q.target].version > 0 /\ q.target \in DOMAIN row'
          BY <2>1, <2>3, <1>1, RowNames
        <4> QED BY <4>1, <4>2, <2>1
      <3>2. q.target \in UN!ActivePrimaries(row')
        BY <3>1, <2>1, Zenon DEF UN!ActivePrimaries
      <3> QED BY <3>2
    <2>4. CASE q.target \notin UN!Changed(q)
      <3>1. q.seen[q.target].primary = TRUE
        BY <2>1, <2>4, <1>3
      <3>2. q.target \in UN!ActivePrimaries(q.seen)
        BY <3>1, <2>1, <1>3, Zenon DEF UN!ActivePrimaries
      <3>3. ASSUME NEW l \in UN!ActivePrimaries(row) PROVE l \in UN!ActivePrimaries(row')
        <4>1. ASSUME l \in UN!Changed(q) PROVE FALSE
          <5>1. l \in UN!ActivePrimaries(q.seen)
            BY <4>1, <1>2 DEF UN!ActivePrimaries
          <5> QED BY <5>1, <4>1, <3>2, <2>1, <2>4 DEF AtMostOne
        <4>2. row'[l] = row[l]
          BY <4>1, <1>1 DEF UN!ActivePrimaries
        <4> QED BY <4>2, <1>1 DEF UN!ActivePrimaries
      <3> QED BY <3>3, <2>2, <1>8, <1>2, <1>13 DEF UN!OfVenue
    <2> QED BY <2>3, <2>4
  <1> QED BY <1>2, <1>9, <1>10, <1>11, <1>12, <1>13, RowRequestTypes DEF Ops

\* A request commits or is refused.
LEMMA CommitKeeps ==
  ASSUME UN!UnderlyingsAssumption, UnderlyingInv, NEW c \in Editors, UN!Commit(c), \A r \in UN!Rows : row'[r].version <= LastRowVersion
  PROVE  UnderlyingInv'
  <1>1. PICK q \in RowRequests : q = request[c] /\ Sent(q)
    BY DEF UnderlyingInv, UnderlyingTypes
  <1>2. /\ q.checked = TRUE /\ q.op # "delete" /\ request' = [request EXCEPT ![c] = UN!Idle] /\ used' = used
        /\ IF (\A r \in UN!Changed(q) : UN!Fresh(q, r)) /\ UN!IndexHolds(UN!Written(q))
           THEN /\ row' = UN!Written(q)
                /\ told' = [r \in UN!Rows |-> IF r \in UN!Changed(q) THEN told[r] + 1 ELSE told[r]]
           ELSE row' = row /\ told' = told
    <2>1. q.checked \in BOOLEAN
      BY RowRequestTypes
    <2> QED BY <1>1, <2>1 DEF UN!Commit
  <1>3. CASE row' = row /\ told' = told
    BY <1>2, <1>3, RequestIdle, RowRequestGoesOn DEF UnderlyingInv, UnderlyingTypes
  <1>4. CASE (\A r \in UN!Changed(q) : UN!Fresh(q, r)) /\ UN!IndexHolds(UN!Written(q))
    <2>1. /\ row' = UN!Written(q) /\ UN!IndexHolds(row')
          /\ told' = [r \in UN!Rows |-> IF r \in UN!Changed(q) THEN told[r] + 1 ELSE told[r]]
      BY <1>2, <1>4
    <2>2. Committed(q)
      BY <1>1, <1>2, <1>4, WhatCommits
    <2>3. /\ DOMAIN row' = UN!Rows /\ row' = [r \in UN!Rows |-> row'[r]]
          /\ \A r \in UN!Rows : IsRow(r, row'[r])
          /\ \A r \in UN!Rows \ UN!Changed(q) : row'[r] = row[r]
          /\ \A r \in UN!Changed(q) : row'[r].version = row[r].version + 1 /\ row[r].version \in Nat
      BY <2>1, <2>2, CommitRows
    <2>4. /\ UN!Changed(q) \subseteq UN!Rows /\ (q.op \in UN!OfVenue \/ Alive) /\ q.op # "none"
          /\ q.op \in UN!OfVenue => UN!Changed(q) = {"venue"}
      BY <2>2 DEF Committed, Sent, Aimed, UN!Changed, UN!OfVenue
    <2>5. /\ \A r \in UN!Rows : row[r].version \in Nat /\ row'[r].version \in Nat
          /\ told \in [UN!Rows -> 0..(LastRowVersion + 1)] /\ used \in BOOLEAN /\ request \in [Editors -> RowRequests] /\ LastRowVersion \in Nat
      BY <2>3, RowVersions, RowNames DEF UnderlyingInv, UnderlyingTypes, UN!UnderlyingsAssumption
    <2>6. row' \in [UN!Rows -> AnyRow] /\ \A r \in UN!Rows : IsRow(r, row'[r]) /\ row'[r].version \in 0..LastRowVersion
      <3>1. \A r \in UN!Rows : row'[r] \in AnyRow /\ row'[r].version \in 0..LastRowVersion
        BY <2>3, <2>5, RowVersions, RowNames
      <3> QED BY <3>1, <2>3
    <2>7. Alive' <=> Alive
      <3>1. CASE Alive
        <4>1. row["underlying"].version > 0 /\ (row'["underlying"] = row["underlying"] \/ row'["underlying"].version = row["underlying"].version + 1)
          BY <3>1, <2>3, RowNames DEF Alive, UN!Of
        <4> QED BY <3>1, <4>1, <2>5, RowNames DEF Alive, UN!Of
      <3>2. CASE ~Alive
        <4>1. row'["underlying"] = row["underlying"]
          BY <3>2, <2>3, <2>4, RowNames
        <4> QED BY <3>2, <4>1 DEF Alive, UN!Of
      <3> QED BY <3>1, <3>2
    <2>8. \A r \in UN!Rows : (Alive \/ r = "venue") => told[r] = row[r].version
      BY DEF UnderlyingInv, Told
    <2>9. \A r \in UN!Rows : (Alive \/ r = "venue") => told'[r] = row'[r].version
      BY <2>1, <2>3, <2>8
    <2>10. ~Alive => \A r \in UN!Rows \ {"venue"} : row'[r] = row[r] /\ told'[r] = told[r]
      BY <2>1, <2>3, <2>4
    <2>11. told' \in [UN!Rows -> 0..(LastRowVersion + 1)]
      <3>1. \A r \in UN!Rows : told'[r] \in 0..(LastRowVersion + 1)
        <4> TAKE r \in UN!Rows
        <4>1. CASE Alive \/ r = "venue"
          BY <4>1, <2>5, <2>6, <2>9
        <4>2. CASE ~(Alive \/ r = "venue")
          BY <4>2, <2>5, <2>10
        <4> QED BY <4>1, <4>2
      <3> QED BY <3>1, <2>1
    <2>12. Told'
      <3>1. Alive' => \A r \in UN!Rows : told'[r] = row'[r].version
        BY <2>7, <2>9
      <3>2. ~Alive' => \A l \in Listings : row'[l].version = 0
        BY <2>7, <2>10, RowNames DEF UnderlyingInv, Told
      <3>3. told'["venue"] = row'["venue"].version
        BY <2>9, RowNames
      <3> QED BY <3>1, <3>2, <3>3 DEF Told
    <2>13. Primaries'
      BY <2>1, <2>2, <2>7, CommitPrimaries
    <2>14. \A r \in UN!Rows : row'[r] = row[r] \/ row'[r].version > row[r].version
      BY <2>3
    <2>15. told["underlying"] > 0 => told'["underlying"] > 0
      BY <2>1, <2>5, RowNames
    <2>16. request' \in [Editors -> RowRequests] /\ \A d \in Editors : request'[d] = UN!Idle \/ request'[d] = request[d]
      BY <1>2, <2>5, RequestIdle
    <2> QED BY <1>2, <2>5, <2>6, <2>7, <2>11, <2>12, <2>13, <2>14, <2>15, <2>16, RowsWritten
  <1> QED BY <1>2, <1>3, <1>4

\* The underlying is deleted, its listings with it.
LEMMA DeleteKeeps == ASSUME UN!UnderlyingsAssumption, UnderlyingInv, NEW c \in Editors, UN!Delete(c) PROVE UnderlyingInv'
  <1>1. PICK q \in RowRequests : q = request[c] /\ Sent(q)
    BY DEF UnderlyingInv, UnderlyingTypes
  <1>2. /\ q.op = "delete" /\ request' = [request EXCEPT ![c] = UN!Idle] /\ used' = used
        /\ \/ /\ UN!Fresh(q, "underlying")
              /\ row' = [r \in UN!Rows |-> IF r = "venue" THEN row[r] ELSE [row[r] EXCEPT !.version = 0]]
              /\ told' = [r \in UN!Rows |-> IF r \in DOMAIN q.seen THEN told[r] + 1 ELSE told[r]]
           \/ row' = row /\ told' = told
    BY <1>1 DEF UN!Delete
  <1>3. CASE row' = row /\ told' = told
    BY <1>2, <1>3, RequestIdle, RowRequestGoesOn DEF UnderlyingInv, UnderlyingTypes
  <1>4. CASE /\ UN!Fresh(q, "underlying")
             /\ row' = [r \in UN!Rows |-> IF r = "venue" THEN row[r] ELSE [row[r] EXCEPT !.version = 0]]
             /\ told' = [r \in UN!Rows |-> IF r \in DOMAIN q.seen THEN told[r] + 1 ELSE told[r]]
    <2>1. q.target = "underlying" /\ q.target \in DOMAIN q.seen /\ q.seen[q.target].version > 0 /\ "venue" \notin DOMAIN q.seen
      BY <1>1, <1>2 DEF Sent, Aimed, UN!OfUnderlying, UN!OfVenue
    <2>2. Alive
      BY <1>4, <2>1 DEF UN!Fresh, Alive, UN!Of
    <2>3. /\ \A r \in UN!Rows : told[r] = row[r].version /\ row[r].version \in 0..LastRowVersion /\ IsRow(r, row[r])
          /\ told \in [UN!Rows -> 0..(LastRowVersion + 1)] /\ used \in BOOLEAN /\ request \in [Editors -> RowRequests] /\ LastRowVersion \in Nat
      BY <2>2 DEF UnderlyingInv, UnderlyingTypes, Told, UN!UnderlyingsAssumption
    <2>4. told' \in [UN!Rows -> 0..(LastRowVersion + 1)] /\ told'["venue"] = told["venue"] /\ (told["underlying"] > 0 => told'["underlying"] > 0)
      <3>1. \A r \in UN!Rows : told'[r] \in 0..(LastRowVersion + 1)
        BY <1>4, <2>3
      <3> QED BY <3>1, <1>4, <2>1, <2>3, RowNames
    <2>5. \A r \in UN!Rows : IsRow(r, row'[r]) /\ (r # "venue" => row'[r].version = 0)
      <3> TAKE r \in UN!Rows
      <3>1. CASE r = "venue"
        BY <3>1, <1>4, <2>3
      <3>2. CASE r = "underlying"
        <4>1. row[r] \in UnderlyingRow /\ row'[r] = [row[r] EXCEPT !.version = 0] /\ r # "venue" /\ r \notin Listings
          BY <3>2, <1>4, <2>3, RowNames DEF IsRow
        <4>2. row'[r] \in UnderlyingRow /\ row'[r].version = 0
          BY <4>1 DEF UnderlyingRow
        <4> QED BY <3>2, <4>1, <4>2 DEF IsRow
      <3>3. CASE r \in Listings
        <4>1. row[r] \in ListingRow /\ row'[r] = [row[r] EXCEPT !.version = 0] /\ r # "venue" /\ r # "underlying"
          BY <3>3, <1>4, <2>3, RowNames DEF IsRow
        <4>2. row'[r] \in ListingRow /\ row'[r].version = 0
          BY <4>1 DEF ListingRow
        <4> QED BY <3>3, <4>1, <4>2 DEF IsRow
      <3> QED BY <3>1, <3>2, <3>3, RowNames
    <2>6. row'["venue"] = row["venue"]
      BY <1>4, RowNames
    <2>7. /\ row' \in [UN!Rows -> AnyRow] /\ \A r \in UN!Rows : IsRow(r, row'[r]) /\ row'[r].version \in 0..LastRowVersion
      <3>1. \A r \in UN!Rows : row'[r] \in AnyRow /\ row'[r].version \in 0..LastRowVersion
        BY <2>3, <2>5, <2>6, RowVersions, RowNames
      <3>2. row' = [r \in UN!Rows |-> row'[r]]
        BY <1>4
      <3> QED BY <3>1, <3>2, <2>5
    <2>8. ~Alive'
      BY <2>5, RowNames DEF Alive, UN!Of
    <2>9. Told'
      BY <2>3, <2>4, <2>5, <2>6, <2>8, RowNames DEF Told
    <2>10. Primaries'
      <3>1. UN!ActivePrimaries(row') = {}
        BY <2>5, RowNames DEF UN!ActivePrimaries
      <3>2. AtMostOne(row)'
        BY <3>1 DEF AtMostOne
      <3> QED BY <3>2, <2>8 DEF Primaries
    <2>11. request' \in [Editors -> RowRequests] /\ \A d \in Editors : request'[d] = UN!Idle \/ request'[d] = request[d]
      BY <1>2, <2>3, RequestIdle
    <2> QED BY <1>2, <2>3, <2>4, <2>6, <2>7, <2>8, <2>9, <2>10, <2>11, RowsWritten
  <1> QED BY <1>2, <1>3, <1>4

\* Every step of the underlying keeps what is known of it.
LEMMA UnderlyingNext == ASSUME UN!UnderlyingsAssumption, UnderlyingInv, [UN!Next]_(UN!underlyingVars) PROVE UnderlyingInv'
  <1>1. CASE UNCHANGED UN!underlyingVars
    <2>1. row' = row /\ told' = told /\ request' = request /\ used' = used
      BY <1>1 DEF UN!underlyingVars
    <2>2. UnderlyingTypes'
      BY <2>1 DEF UnderlyingInv, UnderlyingTypes
    <2>3. Told' /\ Primaries'
      BY <2>1 DEF UnderlyingInv, Told, Primaries, Alive, UN!Of, AtMostOne
    <2>4. \A c \in Editors : Sent(request[c])'
      BY <2>1 DEF UnderlyingInv, Sent, SeenTogether, Agrees, Alive, UN!Of
    <2> QED BY <2>2, <2>3, <2>4 DEF UnderlyingInv
  <1>2. CASE UN!Next
    <2>1. \A r \in UN!Rows : row'[r].version <= LastRowVersion
      BY <1>2 DEF UN!Next, UN!Bounded
    <2>2. CASE \E l \in Listings, primary \in BOOLEAN : UN!Create(l, primary)
      BY <2>2, CreateKeeps
    <2>3. CASE UN!Refer
      BY <2>3, ReferKeeps
    <2>4. ASSUME NEW c \in Editors, NEW op \in UN!OfUnderlying, UN!Begin(c, op, "underlying", FALSE) PROVE UnderlyingInv'
      BY <2>4, BeginKeeps, RowNames DEF UN!OfUnderlying, UN!OfVenue, UN!OfListing, Ops
    <2>5. ASSUME NEW c \in Editors, NEW op \in UN!OfVenue, UN!Begin(c, op, "venue", FALSE) PROVE UnderlyingInv'
      BY <2>5, BeginKeeps, RowNames DEF UN!OfUnderlying, UN!OfVenue, UN!OfListing, Ops
    <2>6. ASSUME NEW c \in Editors, NEW op \in UN!OfListing \cup {"promote"}, NEW l \in Listings, UN!Begin(c, op, l, FALSE)
          PROVE  UnderlyingInv'
      BY <2>6, BeginKeeps, RowNames DEF UN!OfUnderlying, UN!OfVenue, UN!OfListing, Ops
    <2>7. ASSUME NEW c \in Editors, NEW l \in Listings, NEW primary \in BOOLEAN, UN!Begin(c, "add", l, primary) PROVE UnderlyingInv'
      BY <2>7, BeginKeeps, RowNames DEF UN!OfUnderlying, UN!OfVenue, UN!OfListing, Ops
    <2>8. ASSUME NEW c \in Editors, UN!List(c) \/ UN!Commit(c) \/ UN!Delete(c) PROVE UnderlyingInv'
      BY <2>8, <2>1, ListKeeps, CommitKeeps, DeleteKeeps
    <2> QED BY <1>2, <2>2, <2>3, <2>4, <2>5, <2>6, <2>7, <2>8 DEF UN!Next
  <1> QED BY <1>1, <1>2

LEMMA UnderlyingInvSuffices ==
  ASSUME UN!UnderlyingsAssumption, UnderlyingInv
  PROVE  UN!TypeOK /\ UN!OperationalHasPrimary /\ UN!AuditTellsVersions
  <1>1. UN!TypeOK
    <2>1. \A r \in UN!Rows : row[r].version \in 0..LastRowVersion /\ row[r].active \in BOOLEAN
      BY RowVersions, RowNames DEF UnderlyingInv, UnderlyingTypes
    <2>2. (\A l \in Listings : row[l].primary \in BOOLEAN) /\ row["underlying"].quality \in {"DRAFT", "COMPLETE", "VERIFIED"}
      BY RowVersions, RowNames DEF UnderlyingInv, UnderlyingTypes
    <2>3. \A c \in Editors : request[c].target \in UN!Rows /\ DOMAIN request[c].seen \subseteq UN!Rows
      BY RowRequestTypes DEF UnderlyingInv, UnderlyingTypes
    <2> QED BY <2>1, <2>2, <2>3 DEF UN!TypeOK, UnderlyingInv, UnderlyingTypes
  <1>2. UN!OperationalHasPrimary
    BY OneOfThem DEF UN!OperationalHasPrimary, UnderlyingInv, Primaries, Alive
  <1>3. UN!AuditTellsVersions
    <2>1. ASSUME NEW r \in UN!Rows, UN!Of(row, r) PROVE told[r] = row[r].version
      <3>1. CASE Alive \/ r = "venue"
        BY <3>1 DEF UnderlyingInv, Told
      <3>2. CASE ~Alive /\ r # "venue"
        BY <3>2, <2>1, RowNames DEF UnderlyingInv, Told, Alive, UN!Of
      <3> QED BY <3>1, <3>2
    <2> QED BY <2>1 DEF UN!AuditTellsVersions
  <1> QED BY <1>1, <1>2, <1>3

\* An underlying that is complete or verified has exactly one active primary listing, and the audit has one event
\* for every version of what there is.
THEOREM OperationalUnderlyingHasPrimary ==
  ASSUME UN!UnderlyingsAssumption
  PROVE  UN!Spec => [](UN!TypeOK /\ UN!OperationalHasPrimary /\ UN!AuditTellsVersions)
  <1>1. UN!Init => UnderlyingInv
    BY UnderlyingInit
  <1>2. UnderlyingInv /\ [UN!Next]_(UN!underlyingVars) => UnderlyingInv'
    BY UnderlyingNext
  <1>3. UnderlyingInv => UN!TypeOK /\ UN!OperationalHasPrimary /\ UN!AuditTellsVersions
    BY UnderlyingInvSuffices
  <1> QED BY <1>1, <1>2, <1>3, PTL DEF UN!Spec

-----------------------------------------------------------------------------
(* The runs of an analysis. *)

Runs == [status : MA!Terminal \cup {"none", "RUNNING"}, snapshot : 0..LastPrices, repeats : Versions \cup {0}]
Events == [version : Versions, type : {"STARTED", "FINISHED", "FAILED", "SUPERSEDED"}, names : Versions \cup {0}]
AnalystTasks == [does : {"nothing", "checked", "computes", "supersedes"}, snapshot : 0..LastPrices, repeats : Versions \cup {0},
             made : Versions \cup {0}]
Outcome(v) == IF run[v].status = "FAILED" THEN "FAILED" ELSE "FINISHED"

\* What each event tells of the row of its run, and each row of its events.
EventTold(e) ==
    /\ e.type = "STARTED" => run[e.version].status # "none" /\ e.names = run[e.version].repeats
    /\ e.type \in {"FINISHED", "FAILED"} =>
          run[e.version].status \in MA!Terminal /\ e.type = Outcome(e.version) /\ e.names = run[e.version].repeats
    /\ e.type = "SUPERSEDED" =>
          /\ e.names \in Versions /\ e.names > e.version
          /\ run[e.version].status \in MA!Terminal /\ run[e.names].status \in MA!Evaluated
RunTold(v) ==
    /\ run[v].status # "none" => MA!Event(v, "STARTED", run[v].repeats) \in lifecycle
    /\ run[v].status \in MA!Terminal => MA!Event(v, Outcome(v), run[v].repeats) \in lifecycle
\* What a run repeats, and that numbers have no gaps.
RunRepeats(v) ==
    /\ run[v].repeats # 0 =>
          /\ run[v].repeats < v /\ run[run[v].repeats].status \in MA!Retryable
          /\ run[run[v].repeats].snapshot = run[v].snapshot
    /\ run[v].status # "none" => \A w \in Versions : w < v => run[w].status # "none"
\* What a request has made of the run it repeats.
RequestTold(q) ==
    /\ q.does \in {"checked", "computes", "supersedes"} /\ q.repeats # 0 =>
          run[q.repeats].status \in MA!Retryable /\ run[q.repeats].snapshot = q.snapshot
    /\ q.does = "computes" =>
          q.made \in Versions /\ run[q.made].status = "RUNNING" /\ run[q.made].repeats = q.repeats
    /\ q.does = "supersedes" =>
          q.repeats # 0 /\ q.made \in Versions /\ run[q.made].status \in MA!Evaluated /\ run[q.made].repeats = q.repeats
AnalysisInv ==
    /\ MA!TypeOK
    /\ \A e \in lifecycle : EventTold(e)
    /\ \A e, f \in lifecycle : e.type = "SUPERSEDED" /\ f.type = "SUPERSEDED" /\ e.version = f.version => e = f
    /\ \A v \in Versions : RunTold(v) /\ RunRepeats(v)
    /\ \A a \in Analysts : RequestTold(analyst[a])
    /\ \A a, b \in Analysts : analyst[a].does = "computes" /\ analyst[b].does = "computes" /\ analyst[a].made = analyst[b].made => a = b

LEMMA AnalysisTypes ==
  MA!TypeOK <=> /\ prices \in 1..LastPrices /\ run \in [Versions -> Runs] /\ lifecycle \subseteq Events
                /\ analyst \in [Analysts -> AnalystTasks]
  BY DEF MA!TypeOK, Runs, Events, AnalystTasks

\* Runs that are made, or end, are later states of the same row.
Later(v) ==
    \/ run'[v] = run[v]
    \/ run[v].status = "none" /\ run'[v].status = "RUNNING"
    \/ run[v].status = "RUNNING" /\ run'[v].status \in MA!Terminal /\ run'[v].snapshot = run[v].snapshot /\ run'[v].repeats = run[v].repeats

\* What is over is not changed any more.
LEMMA EventStays ==
  ASSUME MA!AnalysisAssumption, MA!TypeOK, \A v \in Versions : Later(v), NEW e \in lifecycle, EventTold(e)
  PROVE  EventTold(e)'
  <1>1. e \in Events /\ e.version \in Versions
    BY AnalysisTypes DEF Events
  <1>2. run[e.version].status \in MA!Terminal => run'[e.version] = run[e.version]
    BY <1>1 DEF Later, MA!Terminal, MA!Evaluated
  <1>3. e.names \in Versions /\ run[e.names].status \in MA!Evaluated => run'[e.names] = run[e.names]
    BY DEF Later, MA!Terminal, MA!Evaluated
  <1>4. e.type = "STARTED" => (run[e.version].status # "none" /\ e.names = run[e.version].repeats)'
    BY <1>1 DEF Later, EventTold, MA!Terminal, MA!Evaluated
  <1> QED BY <1>1, <1>2, <1>3, <1>4 DEF EventTold, Outcome
LEMMA AnalystStays ==
  ASSUME MA!AnalysisAssumption, MA!TypeOK, \A v \in Versions : Later(v), NEW q \in AnalystTasks, RequestTold(q),
         q.does = "computes" => run'[q.made] = run[q.made]
  PROVE  RequestTold(q)'
  <1>1. q.repeats \in Versions \cup {0}
    BY DEF AnalystTasks
  <1>2. \A v \in Versions : run[v].status \in MA!Terminal => run'[v] = run[v]
    BY DEF Later, MA!Terminal, MA!Evaluated
  <1>3. \A v \in Versions : run[v].status \in MA!Retryable \/ run[v].status \in MA!Evaluated => run[v].status \in MA!Terminal
    BY DEF MA!Retryable, MA!Terminal, MA!Evaluated
  <1> QED BY <1>1, <1>2, <1>3 DEF RequestTold

\* Nothing has been analysed.
LEMMA AnalysisInit == ASSUME MA!AnalysisAssumption PROVE MA!Init => AnalysisInv
  <1> SUFFICES ASSUME MA!Init PROVE AnalysisInv
    OBVIOUS
  <1>1. MA!NoRun \in Runs /\ MA!Idle \in AnalystTasks /\ MA!NoRun.status = "none" /\ MA!NoRun.repeats = 0 /\ MA!Idle.does = "nothing"
    BY DEF MA!NoRun, MA!Idle, Runs, AnalystTasks, MA!AnalysisAssumption
  <1>2. prices = 1 /\ run = [v \in Versions |-> MA!NoRun] /\ lifecycle = {} /\ analyst = [a \in Analysts |-> MA!Idle]
    BY DEF MA!Init
  <1> HIDE DEF MA!NoRun, MA!Idle
  <1>3. MA!TypeOK
    BY <1>1, <1>2, AnalysisTypes DEF MA!AnalysisAssumption
  <1>4. "none" \notin MA!Terminal
    BY DEF MA!Terminal, MA!Evaluated
  <1> QED BY <1>1, <1>2, <1>3, <1>4 DEF AnalysisInv, RunTold, RunRepeats, RequestTold

\* A request goes on, the runs stay.
LEMMA AnalystGoesOn ==
  ASSUME MA!AnalysisAssumption, AnalysisInv, NEW a \in Analysts, NEW q \in AnalystTasks, q.does # "computes",
         analyst' = [analyst EXCEPT ![a] = q], run' = run, lifecycle' = lifecycle, prices' \in 1..LastPrices, RequestTold(q)
  PROVE  AnalysisInv'
  <1>1. analyst' \in [Analysts -> AnalystTasks] /\ \A b \in Analysts : analyst'[b] = IF b = a THEN q ELSE analyst[b]
    BY AnalysisTypes DEF AnalysisInv
  <1>2. MA!TypeOK'
    BY <1>1, AnalysisTypes DEF AnalysisInv, MA!TypeOK, AnalystTasks
  <1>3. \A b \in Analysts : RequestTold(analyst[b])'
    BY <1>1 DEF AnalysisInv, RequestTold
  <1>4. (\A e \in lifecycle : EventTold(e))' /\ (\A v \in Versions : RunTold(v) /\ RunRepeats(v))'
    BY DEF AnalysisInv, EventTold, RunTold, RunRepeats, Outcome
  <1> QED BY <1>1, <1>2, <1>3, <1>4 DEF AnalysisInv

LEMMA StartKeeps ==
  ASSUME MA!AnalysisAssumption, AnalysisInv, NEW a \in Analysts, NEW v \in Versions, MA!Start(a, v)
  PROVE  AnalysisInv'
  <1>1. PICK q \in AnalystTasks : q = analyst[a] /\ RequestTold(q)
    BY AnalysisTypes DEF AnalysisInv
  <1> DEFINE new == [status |-> "RUNNING", snapshot |-> q.snapshot, repeats |-> q.repeats]
             began == MA!Event(v, "STARTED", q.repeats)
             n == [[q EXCEPT !.does = "computes"] EXCEPT !.made = v]
  <1>2. /\ q.does = "checked" /\ MA!Next_version(v) /\ prices' = prices
        /\ run' = [run EXCEPT ![v] = new] /\ lifecycle' = lifecycle \cup {began}
    BY <1>1 DEF MA!Start
  <1>3. analyst' = [analyst EXCEPT ![a] = n]
    BY <1>1 DEF MA!Start
  <1>4. n \in AnalystTasks /\ n.does = "computes" /\ n.made = v /\ n.repeats = q.repeats /\ n.snapshot = q.snapshot
    BY DEF AnalystTasks
  <1>5. new \in Runs /\ new.status = "RUNNING" /\ new.snapshot = q.snapshot /\ new.repeats = q.repeats /\ q.repeats \in Versions \cup {0}
    BY DEF Runs, AnalystTasks
  <1>6. began \in Events /\ began.version = v /\ began.type = "STARTED" /\ began.names = q.repeats
    BY <1>5 DEF Events, MA!Event
  <1> HIDE DEF new, began, n
  <1>7. run \in [Versions -> Runs] /\ lifecycle \subseteq Events /\ analyst \in [Analysts -> AnalystTasks] /\ Versions \subseteq Nat \ {0}
    BY AnalysisTypes DEF AnalysisInv, MA!AnalysisAssumption
  <1>8. /\ run' \in [Versions -> Runs] /\ run'[v] = new /\ \A w \in Versions : w # v => run'[w] = run[w]
        /\ analyst' \in [Analysts -> AnalystTasks] /\ \A b \in Analysts : analyst'[b] = IF b = a THEN n ELSE analyst[b]
    BY <1>2, <1>3, <1>4, <1>5, <1>7
  <1>9. MA!TypeOK'
    BY <1>2, <1>6, <1>7, <1>8, AnalysisTypes DEF AnalysisInv, MA!TypeOK, AnalystTasks, Runs, Events
  <1>10. run[v].status = "none" /\ \A w \in Versions : w < v => run[w].status # "none"
    BY <1>2 DEF MA!Next_version, MA!Made
  <1>11. \A w \in Versions : Later(w)
    BY <1>5, <1>8, <1>10 DEF Later
  <1>12. ASSUME NEW e \in lifecycle' PROVE EventTold(e)'
    <2>1. CASE e \in lifecycle
      BY <2>1, <1>11, EventStays DEF AnalysisInv
    <2>2. CASE e = began
      BY <2>2, <1>5, <1>6, <1>8 DEF EventTold
    <2> QED BY <2>1, <2>2, <1>2
  <1>13. \A e, f \in lifecycle' : e.type = "SUPERSEDED" /\ f.type = "SUPERSEDED" /\ e.version = f.version => e = f
    BY <1>2, <1>6 DEF AnalysisInv
  <1>14. q.repeats # 0 => q.repeats < v /\ q.repeats # v /\ run[q.repeats].status \in MA!Retryable /\ run[q.repeats].snapshot = q.snapshot
    <2> SUFFICES ASSUME q.repeats # 0 PROVE q.repeats < v /\ q.repeats # v /\ run[q.repeats].status \in MA!Retryable /\ run[q.repeats].snapshot = q.snapshot
      OBVIOUS
    <2>1. q.repeats \in Versions /\ run[q.repeats].status \in MA!Retryable /\ run[q.repeats].snapshot = q.snapshot
      BY <1>1, <1>2, <1>5 DEF RequestTold
    <2>2. run[q.repeats].status # "none"
      BY <2>1 DEF MA!Retryable
    <2>3. q.repeats # v /\ ~(v < q.repeats)
      <3>1. RunRepeats(q.repeats)
        BY <2>1 DEF AnalysisInv
      <3>2. \A w \in Versions : w < q.repeats => run[w].status # "none"
        BY <3>1, <2>2 DEF RunRepeats
      <3>3. run[v].status = "none"
        BY <1>10
      <3>4. q.repeats # v
        BY <2>2, <3>3
      <3>5. ASSUME v < q.repeats PROVE FALSE
        BY <3>2, <3>3, <3>5, Zenon
      <3> QED BY <3>4, <3>5
    <2>4. v \in Nat /\ q.repeats \in Nat
      BY <2>1, <1>7
    <2> QED BY <2>1, <2>3, <2>4
  <1>15. ASSUME NEW w \in Versions PROVE RunTold(w)' /\ RunRepeats(w)'
    <2>1. CASE w = v
      <3>1. RunTold(w)'
        BY <2>1, <1>2, <1>5, <1>8 DEF RunTold, MA!Terminal, MA!Evaluated, began
      <3>2. RunRepeats(w)'
        BY <2>1, <1>5, <1>7, <1>8, <1>10, <1>14 DEF RunRepeats
      <3> QED BY <3>1, <3>2
    <2>2. CASE w # v
      <3>1. RunTold(w) /\ RunRepeats(w) /\ run'[w] = run[w]
        BY <2>2, <1>8 DEF AnalysisInv
      <3>2. RunTold(w)'
        BY <3>1, <1>2 DEF RunTold, Outcome
      <3>3. ASSUME run[w].repeats # 0 PROVE run[w].repeats \in Versions /\ run[w].repeats # v
        <4>1. run[w].repeats \in Versions /\ run[run[w].repeats].status # "none"
          BY <3>1, <3>3, <1>7 DEF RunRepeats, Runs, MA!Retryable
        <4> QED BY <4>1, <1>10
      <3>4. \A x \in Versions : run[x].status # "none" => run'[x].status # "none"
        BY <1>5, <1>8
      <3>5. RunRepeats(w)'
        BY <3>1, <3>3, <3>4, <1>8 DEF RunRepeats
      <3> QED BY <3>2, <3>5
    <2> QED BY <2>1, <2>2
  <1>16. \A b \in Analysts : b # a /\ analyst[b].does = "computes" => analyst[b].made # v /\ run'[analyst[b].made] = run[analyst[b].made]
    BY <1>8, <1>10 DEF AnalysisInv, RequestTold
  <1>17. ASSUME NEW b \in Analysts PROVE RequestTold(analyst[b])'
    <2>1. CASE b = a
      <3>1. q.repeats # 0 => run'[q.repeats] = run[q.repeats]
        BY <1>5, <1>8, <1>14
      <3>2. RequestTold(n)'
        BY <3>1, <1>4, <1>5, <1>8, <1>14 DEF RequestTold
      <3> QED BY <2>1, <3>2, <1>8 DEF RequestTold
    <2>2. CASE b # a
      <3>1. RequestTold(analyst[b]) /\ analyst'[b] = analyst[b] /\ analyst[b] \in AnalystTasks
        BY <2>2, <1>7, <1>8 DEF AnalysisInv
      <3>2. PICK p \in AnalystTasks : p = analyst[b]
        BY <3>1
      <3>3. RequestTold(p)'
        BY <3>1, <3>2, <2>2, <1>11, <1>16, AnalystStays DEF AnalysisInv
      <3> QED BY <3>1, <3>2, <3>3 DEF RequestTold
    <2> QED BY <2>1, <2>2
  <1>18. \A b, c \in Analysts : analyst'[b].does = "computes" /\ analyst'[c].does = "computes" /\ analyst'[b].made = analyst'[c].made => b = c
    BY <1>4, <1>8, <1>16 DEF AnalysisInv
  <1> QED BY <1>9, <1>12, <1>13, <1>15, <1>17, <1>18 DEF AnalysisInv

LEMMA FinishKeeps ==
  ASSUME MA!AnalysisAssumption, AnalysisInv, NEW a \in Analysts, NEW status \in Outcomes, MA!Finish(a, status)
  PROVE  AnalysisInv'
  <1>1. PICK q \in AnalystTasks : q = analyst[a] /\ RequestTold(q)
    BY AnalysisTypes DEF AnalysisInv
  <1>2. PICK v \in Versions : v = q.made /\ q.does = "computes" /\ run[v].status = "RUNNING" /\ run[v].repeats = q.repeats
    BY <1>1 DEF MA!Finish, RequestTold
  <1>3. PICK r \in Runs : r = run[v]
    BY AnalysisTypes DEF AnalysisInv
  <1> DEFINE new == [r EXCEPT !.status = status]
             outcome == IF status = "FAILED" THEN "FAILED" ELSE "FINISHED"
             ended == MA!Event(v, outcome, q.repeats)
             n == IF status = "FAILED" \/ q.repeats = 0 THEN MA!Idle ELSE [q EXCEPT !.does = "supersedes"]
  <1>4. /\ prices' = prices /\ run' = [run EXCEPT ![v] = new] /\ lifecycle' = lifecycle \cup {ended}
        /\ analyst' = [analyst EXCEPT ![a] = n]
    <2>1. /\ prices' = prices /\ run' = [run EXCEPT ![v].status = status]
          /\ IF status = "FAILED"
             THEN lifecycle' = lifecycle \cup {MA!Event(v, "FAILED", q.repeats)} /\ analyst' = [analyst EXCEPT ![a] = MA!Idle]
             ELSE /\ lifecycle' = lifecycle \cup {MA!Event(v, "FINISHED", q.repeats)}
                  /\ analyst' = IF q.repeats = 0 THEN [analyst EXCEPT ![a] = MA!Idle] ELSE [analyst EXCEPT ![a].does = "supersedes"]
      BY <1>1, <1>2 DEF MA!Finish, MA!Ends
    <2> QED BY <2>1, <1>1, <1>3
  <1>5. /\ new \in Runs /\ new.status = status /\ new.snapshot = r.snapshot /\ new.repeats = r.repeats
        /\ status \in MA!Terminal /\ r.repeats = q.repeats /\ q.repeats \in Versions \cup {0} /\ (status # "FAILED" => status \in MA!Evaluated)
    BY <1>2, <1>3 DEF Runs, AnalystTasks, MA!AnalysisAssumption, MA!Terminal, MA!Evaluated
  <1>6. /\ ended \in Events /\ ended.version = v /\ ended.type = outcome /\ ended.names = q.repeats
        /\ outcome \in {"FAILED", "FINISHED"}
    BY <1>5 DEF Events, MA!Event
  <1>7. /\ n \in AnalystTasks /\ n.does \in {"nothing", "supersedes"}
        /\ n.does = "supersedes" => n.repeats = q.repeats /\ n.repeats # 0 /\ n.made = v /\ n.snapshot = q.snapshot /\ status # "FAILED"
    <2>1. MA!Idle \in AnalystTasks /\ MA!Idle.does = "nothing"
      BY DEF MA!Idle, AnalystTasks, MA!AnalysisAssumption
    <2>2. CASE status = "FAILED" \/ q.repeats = 0
      BY <2>1, <2>2
    <2>3. CASE ~(status = "FAILED" \/ q.repeats = 0)
      <3>1. n = [q EXCEPT !.does = "supersedes"]
        BY <2>3
      <3>2. n \in AnalystTasks /\ n.does = "supersedes" /\ n.repeats = q.repeats /\ n.made = q.made /\ n.snapshot = q.snapshot
        BY <3>1 DEF AnalystTasks
      <3> HIDE DEF n
      <3> QED BY <3>2, <2>3, <1>2
    <2> QED BY <2>2, <2>3
  <1>8. outcome = IF status = "FAILED" THEN "FAILED" ELSE "FINISHED"
    OBVIOUS
  <1>8a. ended = MA!Event(v, outcome, q.repeats)
    OBVIOUS
  <1> HIDE DEF new, ended, n, outcome
  <1>9. run \in [Versions -> Runs] /\ lifecycle \subseteq Events /\ analyst \in [Analysts -> AnalystTasks] /\ Versions \subseteq Nat \ {0}
    BY AnalysisTypes DEF AnalysisInv, MA!AnalysisAssumption
  <1>10. /\ run' \in [Versions -> Runs] /\ run'[v] = new /\ \A w \in Versions : w # v => run'[w] = run[w]
         /\ analyst' \in [Analysts -> AnalystTasks] /\ \A b \in Analysts : analyst'[b] = IF b = a THEN n ELSE analyst[b]
    BY <1>4, <1>5, <1>7, <1>9
  <1>11. MA!TypeOK'
    BY <1>4, <1>6, <1>9, <1>10, AnalysisTypes DEF AnalysisInv, MA!TypeOK, AnalystTasks, Runs, Events
  <1>12. "RUNNING" \notin MA!Terminal
    BY DEF MA!Terminal, MA!Evaluated
  <1>13. \A w \in Versions : Later(w)
    BY <1>2, <1>3, <1>5, <1>10 DEF Later
  <1>14. ASSUME NEW e \in lifecycle' PROVE EventTold(e)'
    <2>1. CASE e \in lifecycle
      BY <2>1, <1>13, EventStays DEF AnalysisInv
    <2>2. CASE e = ended
      BY <2>2, <1>5, <1>6, <1>8, <1>10 DEF EventTold, Outcome
    <2> QED BY <2>1, <2>2, <1>4
  <1>15. \A e, f \in lifecycle' : e.type = "SUPERSEDED" /\ f.type = "SUPERSEDED" /\ e.version = f.version => e = f
    BY <1>4, <1>6 DEF AnalysisInv
  <1>16. ASSUME NEW w \in Versions PROVE RunTold(w)' /\ RunRepeats(w)'
    <2>1. RunTold(w) /\ RunRepeats(w) /\ RunTold(v) /\ RunRepeats(v)
      BY DEF AnalysisInv
    <2>2. \A x \in Versions : (run[x].status # "none" => run'[x].status # "none") /\ run'[x].snapshot = run[x].snapshot /\ run'[x].repeats = run[x].repeats
      BY <1>2, <1>3, <1>5, <1>10 DEF MA!Terminal, MA!Evaluated
    <2>3. \A x \in Versions : run[x].status \in MA!Retryable => run'[x].status \in MA!Retryable
      BY <1>2, <1>10 DEF MA!Retryable
    <2>4. run'[w].status # "none" => run[w].status # "none"
      BY <1>2, <1>10
    <2>5. RunRepeats(w)'
      <3>1. run[w].repeats \in Versions \cup {0}
        BY <1>9 DEF Runs
      <3> QED BY <2>1, <2>2, <2>3, <2>4, <3>1 DEF RunRepeats
    <2>6. RunTold(w)'
      <3>1. CASE w = v
        <4>1. MA!Event(v, "STARTED", run[v].repeats) \in lifecycle
          BY <2>1, <1>2 DEF RunTold
        <4>2. (Outcome(v))' = outcome /\ run'[v].repeats = q.repeats
          BY <1>5, <1>8, <1>10 DEF Outcome
        <4> QED BY <3>1, <4>1, <4>2, <2>2, <1>4, <1>8a DEF RunTold
      <3>2. CASE w # v
        BY <3>2, <2>1, <1>4, <1>10 DEF RunTold, Outcome
      <3> QED BY <3>1, <3>2
    <2> QED BY <2>5, <2>6
  <1>17. ASSUME NEW b \in Analysts PROVE RequestTold(analyst[b])'
    <2>1. CASE b = a
      <3>1. q.repeats # 0 => q.repeats # v /\ run'[q.repeats] = run[q.repeats] /\ run[q.repeats].status \in MA!Retryable /\ run[q.repeats].snapshot = q.snapshot
        <4> SUFFICES ASSUME q.repeats # 0 PROVE q.repeats # v /\ run'[q.repeats] = run[q.repeats] /\ run[q.repeats].status \in MA!Retryable /\ run[q.repeats].snapshot = q.snapshot
          OBVIOUS
        <4>1. q.repeats \in Versions /\ run[q.repeats].status \in MA!Retryable /\ run[q.repeats].snapshot = q.snapshot
          BY <1>1, <1>2, <1>5 DEF RequestTold
        <4>2. q.repeats # v
          BY <4>1, <1>2 DEF MA!Retryable
        <4> QED BY <4>1, <4>2, <1>10
      <3>2. RequestTold(n)'
        BY <3>1, <1>2, <1>3, <1>5, <1>7, <1>10 DEF RequestTold
      <3> QED BY <2>1, <3>2, <1>10 DEF RequestTold
    <2>2. CASE b # a
      <3>1. PICK p \in AnalystTasks : p = analyst[b] /\ analyst'[b] = p /\ RequestTold(p)
        BY <2>2, <1>9, <1>10 DEF AnalysisInv
      <3>2. p.does = "computes" => p.made # v /\ run'[p.made] = run[p.made]
        BY <3>1, <2>2, <1>1, <1>2, <1>10 DEF AnalysisInv, RequestTold
      <3>3. RequestTold(p)'
        BY <3>1, <3>2, <1>13, AnalystStays DEF AnalysisInv
      <3> QED BY <3>1, <3>3 DEF RequestTold
    <2> QED BY <2>1, <2>2
  <1>18. \A b, c \in Analysts : analyst'[b].does = "computes" /\ analyst'[c].does = "computes" /\ analyst'[b].made = analyst'[c].made => b = c
    BY <1>7, <1>10 DEF AnalysisInv
  <1> QED BY <1>11, <1>14, <1>15, <1>16, <1>17, <1>18 DEF AnalysisInv

\* A run is superseded, by one that was evaluated after it.
LEMMA SupersededKeeps ==
  ASSUME MA!AnalysisAssumption, AnalysisInv, NEW v \in Versions, NEW w \in Versions, w > v, MA!Supersedes(v, w),
         run[v].status \in MA!Terminal, run[w].status \in MA!Evaluated, prices' = prices, run' = run,
         analyst' \in [Analysts -> AnalystTasks], \A a \in Analysts : analyst'[a] = analyst[a] \/ analyst'[a] = MA!Idle
  PROVE  AnalysisInv'
  <1> DEFINE telling == MA!Event(v, "SUPERSEDED", w)
  <1>1. lifecycle' = lifecycle \cup {telling} /\ \A e \in lifecycle : ~(e.version = v /\ e.type = "SUPERSEDED")
    BY DEF MA!Supersedes, MA!Superseded
  <1>2. telling \in Events /\ telling.version = v /\ telling.type = "SUPERSEDED" /\ telling.names = w
    BY DEF Events, MA!Event
  <1> HIDE DEF telling
  <1>3. MA!TypeOK'
    BY <1>1, <1>2, AnalysisTypes DEF AnalysisInv, MA!TypeOK, AnalystTasks, Events
  <1>4. (\A e \in lifecycle : EventTold(e))'
    BY <1>1, <1>2 DEF AnalysisInv, EventTold, Outcome
  <1>5. \A e, f \in lifecycle' : e.type = "SUPERSEDED" /\ f.type = "SUPERSEDED" /\ e.version = f.version => e = f
    BY <1>1, <1>2 DEF AnalysisInv
  <1>6. (\A x \in Versions : RunTold(x) /\ RunRepeats(x))'
    BY <1>1 DEF AnalysisInv, RunTold, RunRepeats, Outcome
  <1>7. MA!Idle.does = "nothing"
    BY DEF MA!Idle
  <1>8. (\A a \in Analysts : RequestTold(analyst[a]))'
    BY <1>7 DEF AnalysisInv, RequestTold
  <1>9. \A a, b \in Analysts : analyst'[a].does = "computes" /\ analyst'[b].does = "computes" /\ analyst'[a].made = analyst'[b].made => a = b
    BY <1>7 DEF AnalysisInv
  <1> QED BY <1>3, <1>4, <1>5, <1>6, <1>8, <1>9 DEF AnalysisInv

\* Every step of the analysis keeps what is known of it.
LEMMA AnalysisNext == ASSUME MA!AnalysisAssumption, AnalysisInv, [MA!Next]_(MA!analysisVars) PROVE AnalysisInv'
  <1>0. MA!Idle \in AnalystTasks /\ MA!Idle.does = "nothing"
    BY DEF MA!Idle, AnalystTasks, MA!AnalysisAssumption
  <1>1. /\ prices \in 1..LastPrices /\ run \in [Versions -> Runs] /\ lifecycle \subseteq Events /\ analyst \in [Analysts -> AnalystTasks]
        /\ Versions \subseteq Nat \ {0} /\ LastPrices \in Nat \ {0}
    BY AnalysisTypes DEF AnalysisInv, MA!AnalysisAssumption
  <1>2. CASE UNCHANGED MA!analysisVars \/ MA!ImportPrices
    <2>1. run' = run /\ lifecycle' = lifecycle /\ analyst' = analyst /\ prices' \in 1..LastPrices
      BY <1>1, <1>2 DEF MA!analysisVars, MA!ImportPrices
    <2>2. MA!TypeOK'
      BY <2>1 DEF AnalysisInv, MA!TypeOK
    <2> QED BY <2>1, <2>2 DEF AnalysisInv, EventTold, RunTold, RunRepeats, RequestTold, Outcome
  <1>3. ASSUME NEW a \in Analysts, MA!Run(a) PROVE AnalysisInv'
    <2> DEFINE n == [does |-> "checked", snapshot |-> prices, repeats |-> 0, made |-> 0]
    <2>1. n \in AnalystTasks /\ n.does = "checked" /\ n.repeats = 0
      BY <1>1 DEF AnalystTasks
    <2>2. analyst' = [analyst EXCEPT ![a] = n] /\ run' = run /\ lifecycle' = lifecycle /\ prices' = prices
      BY <1>3 DEF MA!Run, MA!Sets
    <2> HIDE DEF n
    <2>3. RequestTold(n)
      BY <2>1 DEF RequestTold
    <2> QED BY <2>1, <2>2, <2>3, <1>1, AnalystGoesOn
  <1>4. ASSUME NEW a \in Analysts, NEW v \in Versions, MA!Retry(a, v) PROVE AnalysisInv'
    <2> DEFINE n == [does |-> "checked", snapshot |-> run[v].snapshot, repeats |-> v, made |-> 0]
    <2>1. n \in AnalystTasks /\ n.does = "checked" /\ n.repeats = v /\ n.snapshot = run[v].snapshot
      BY <1>1 DEF AnalystTasks, Runs
    <2>2. analyst' = [analyst EXCEPT ![a] = n] /\ run' = run /\ lifecycle' = lifecycle /\ prices' = prices /\ run[v].status \in MA!Retryable
      BY <1>4 DEF MA!Retry, MA!Sets, MA!Snapshot
    <2> HIDE DEF n
    <2>3. RequestTold(n)
      BY <2>1, <2>2 DEF RequestTold
    <2> QED BY <2>1, <2>2, <2>3, <1>1, AnalystGoesOn
  <1>5. ASSUME NEW a \in Analysts, MA!GiveUp(a) PROVE AnalysisInv'
    <2>1. analyst' = [analyst EXCEPT ![a] = MA!Idle] /\ run' = run /\ lifecycle' = lifecycle /\ prices' = prices
      BY <1>5 DEF MA!GiveUp, MA!Ends
    <2>2. RequestTold(MA!Idle)
      BY <1>0 DEF RequestTold
    <2> QED BY <2>1, <2>2, <1>0, <1>1, AnalystGoesOn
  <1>6. ASSUME NEW a \in Analysts, MA!SupersedeSource(a) PROVE AnalysisInv'
    <2>1. PICK q \in AnalystTasks : q = analyst[a] /\ RequestTold(q) /\ q.does = "supersedes"
      BY <1>1, <1>6 DEF AnalysisInv, MA!SupersedeSource
    <2>2. /\ MA!Supersedes(q.repeats, q.made) /\ prices' = prices /\ run' = run /\ analyst' = [analyst EXCEPT ![a] = MA!Idle]
      BY <1>6, <2>1 DEF MA!SupersedeSource, MA!Ends
    <2>3. q.repeats \in Versions /\ q.made \in Versions /\ run[q.made].status \in MA!Evaluated /\ run[q.made].repeats = q.repeats /\ q.repeats # 0
      BY <1>1, <2>1 DEF RequestTold, AnalystTasks
    <2>4. q.made > q.repeats /\ run[q.repeats].status \in MA!Retryable
      BY <1>1, <2>3 DEF AnalysisInv, RunRepeats
    <2>5. run[q.repeats].status \in MA!Terminal
      BY <2>4 DEF MA!Retryable, MA!Terminal, MA!Evaluated
    <2>6. analyst' \in [Analysts -> AnalystTasks] /\ \A b \in Analysts : analyst'[b] = analyst[b] \/ analyst'[b] = MA!Idle
      BY <2>2, <1>0, <1>1
    <2> QED BY <2>2, <2>3, <2>4, <2>5, <2>6, SupersededKeeps
  <1>7. ASSUME NEW v \in Versions, NEW w \in Versions, MA!Supersede(v, w) PROVE AnalysisInv'
    BY <1>1, <1>7, SupersededKeeps DEF MA!Supersede, MA!Replaces
  <1> QED BY <1>2, <1>3, <1>4, <1>5, <1>6, <1>7, StartKeeps, FinishKeeps DEF MA!Next

LEMMA AnalysisInvSuffices == ASSUME MA!AnalysisAssumption, AnalysisInv PROVE MA!TypeOK /\ MA!EventsTellRuns
  <1> DEFINE telling(v, type) == {e.names : e \in {f \in lifecycle : f.version = v /\ f.type = type}}
  <1>1. lifecycle \subseteq Events /\ run \in [Versions -> Runs]
    BY AnalysisTypes DEF AnalysisInv
  <1>2. ASSUME NEW v \in Versions PROVE telling(v, "STARTED") = IF run[v].status = "none" THEN {} ELSE {run[v].repeats}
    <2>1. \A n \in telling(v, "STARTED") : run[v].status # "none" /\ n = run[v].repeats
      BY DEF AnalysisInv, EventTold
    <2>2. run[v].status # "none" => run[v].repeats \in telling(v, "STARTED")
      <3>1. run[v].status # "none" => MA!Event(v, "STARTED", run[v].repeats) \in lifecycle
        BY DEF AnalysisInv, RunTold
      <3> QED BY <3>1 DEF MA!Event
    <2> HIDE DEF telling
    <2> QED BY <2>1, <2>2
  <1>3. ASSUME NEW v \in Versions, NEW type \in {"FINISHED", "FAILED"}
        PROVE  telling(v, type) = IF run[v].status \in MA!Terminal /\ type = Outcome(v) THEN {run[v].repeats} ELSE {}
    <2>1. \A n \in telling(v, type) : run[v].status \in MA!Terminal /\ type = Outcome(v) /\ n = run[v].repeats
      BY DEF AnalysisInv, EventTold
    <2>2. run[v].status \in MA!Terminal /\ type = Outcome(v) => run[v].repeats \in telling(v, type)
      <3>1. run[v].status \in MA!Terminal => MA!Event(v, Outcome(v), run[v].repeats) \in lifecycle
        BY DEF AnalysisInv, RunTold
      <3> QED BY <3>1 DEF MA!Event
    <2> HIDE DEF telling
    <2> QED BY <2>1, <2>2
  <1>4. ASSUME NEW v \in Versions, NEW w \in telling(v, "SUPERSEDED")
        PROVE  telling(v, "SUPERSEDED") = {w} /\ w > v /\ run[v].status \in MA!Terminal /\ run[w].status \in MA!Evaluated
    <2>1. w > v /\ run[v].status \in MA!Terminal /\ run[w].status \in MA!Evaluated
      BY DEF AnalysisInv, EventTold
    <2>2. \A x \in telling(v, "SUPERSEDED") : x = w
      BY DEF AnalysisInv
    <2> HIDE DEF telling
    <2> QED BY <2>1, <2>2
  <1>5. \A v \in Versions : run[v].repeats # 0 =>
            /\ run[v].repeats < v /\ run[run[v].repeats].status \in MA!Retryable
            /\ run[run[v].repeats].snapshot = run[v].snapshot
    BY DEF AnalysisInv, RunRepeats
  <1> HIDE DEF telling
  <1>6. \A v \in Versions :
           /\ telling(v, "STARTED") = IF run[v].status = "none" THEN {} ELSE {run[v].repeats}
           /\ \A type \in {"FINISHED", "FAILED"} : telling(v, type) = IF run[v].status \in MA!Terminal /\ type = Outcome(v) THEN {run[v].repeats} ELSE {}
           /\ \A w \in telling(v, "SUPERSEDED") :
                 telling(v, "SUPERSEDED") = {w} /\ w > v /\ run[v].status \in MA!Terminal /\ run[w].status \in MA!Evaluated
    BY <1>2, <1>3, <1>4
  <1> QED BY <1>5, <1>6, Zenon DEF MA!EventsTellRuns, telling, Outcome, AnalysisInv

\* The events of a run tell its row, whatever requests overlap or die.
THEOREM EventsTellAnalysis == ASSUME MA!AnalysisAssumption PROVE MA!Spec => [](MA!TypeOK /\ MA!EventsTellRuns)
  <1>1. MA!Init => AnalysisInv
    BY AnalysisInit
  <1>2. AnalysisInv /\ [MA!Next]_(MA!analysisVars) => AnalysisInv'
    BY AnalysisNext
  <1>3. AnalysisInv => MA!TypeOK /\ MA!EventsTellRuns
    BY AnalysisInvSuffices
  <1> QED BY <1>1, <1>2, <1>3, PTL DEF MA!Spec

-----------------------------------------------------------------------------
(* The catalog of currencies. *)

Currencies == [active : BOOLEAN, unit : 0..6, change : 0..(LastEvent + 1)]
Logged == [what : CC!Catalogs \cup Codes, catalog : CC!Catalogs \cup {CC!None}, unit : 0..6]

CatalogTypes ==
    /\ current \in CC!Catalogs \cup {CC!None} /\ releases \subseteq CC!Catalogs /\ currency \in [Codes -> Currencies]
    /\ log \in Seq(Logged) /\ Len(log) <= LastEvent /\ lock \in Admins \cup {CC!Nobody} /\ DOMAIN admin = Admins

\* What is read under the lock is so until it is released.
Reads(a, q) ==
    /\ q.does \in {"nothing", "previewed", "shown", "imports", "switches"}
    /\ q.what \in CC!Catalogs \cup Codes \cup {CC!None}
    /\ q.does \in {"previewed", "imports"} => q.what \in CC!Catalogs
    /\ q.does \in {"shown", "switches"} => q.what \in Codes /\ q.active \in BOOLEAN
    /\ q.does = "imports" => lock = a /\ q.read = <<current>>
    /\ q.does = "switches" => lock = a /\ q.read = <<currency[q.what], current>>

\* An audit is written about currencies that exist, as often as they change at most.
Audited ==
    /\ \A i \in 1..Len(log) : log[i].what \in Codes => currency[log[i].what].change > 0 /\ log[i].unit = currency[log[i].what].unit
    /\ \A k \in Codes : currency[k].change <= Len(log) + 1

\* The imports until then have a last one.
HasLatest == \A n \in 0..Len(log) : CC!Imports(n) = {} \/ \E i \in CC!Imports(n) : \A j \in CC!Imports(n) : j <= i
CatalogInv == CatalogTypes /\ HasLatest /\ CC!AuditTellsCatalog /\ Audited /\ \A a \in Admins : Reads(a, admin[a])

\* The catalog in force after some events of an audit that goes on, and after the next.
LEMMA AfterNextEvent ==
  ASSUME CC!CatalogAssumption, CatalogTypes, HasLatest, NEW e \in Logged, NEW m \in Nat, m = Len(log), log' = Append(log, e)
  PROVE  /\ Len(log') = m + 1 /\ log'[m + 1] = e /\ \A i \in 1..m : log'[i] = log[i]
         /\ \A n \in 0..m : CC!AfterEvents(n)' = CC!AfterEvents(n)
         /\ CC!AfterEvents(m + 1)' = IF e.what \in CC!Catalogs THEN e.what ELSE CC!AfterEvents(m)
         /\ HasLatest'
  <1>1. Len(log') = m + 1 /\ log'[m + 1] = e /\ \A i \in 1..m : log'[i] = log[i]
    BY DEF CatalogTypes
  <1>2. \A n \in 0..m : CC!Imports(n)' = CC!Imports(n)
    BY <1>1 DEF CC!Imports
  <1>3. CC!Imports(m + 1)' = CC!Imports(m) \cup {i \in {m + 1} : e.what \in CC!Catalogs} /\ CC!Imports(m) \subseteq 1..m
    BY <1>1 DEF CC!Imports
  <1>4. ASSUME NEW n \in 0..m PROVE CC!AfterEvents(n)' = CC!AfterEvents(n)
    <2>1. CASE CC!Imports(n) = {}
      BY <2>1, <1>2 DEF CC!AfterEvents
    <2>2. CASE CC!Imports(n) # {}
      <3> DEFINE Top(i) == \A j \in CC!Imports(n) : j <= i
                 top == CHOOSE i \in CC!Imports(n) : Top(i)
      <3>1. \E i \in CC!Imports(n) : Top(i)
        BY <2>2 DEF HasLatest
      <3>2. top \in CC!Imports(n)
        BY <3>1
      <3>3. top \in 1..m
        BY <3>2 DEF CC!Imports
      <3>4. CC!AfterEvents(n) = log[top].what
        BY <2>2 DEF CC!AfterEvents
      <3>5. CC!AfterEvents(n)' = log'[top].what
        BY <2>2, <1>2 DEF CC!AfterEvents
      <3> HIDE DEF top
      <3> QED BY <3>3, <3>4, <3>5, <1>1
    <2> QED BY <2>1, <2>2
  <1>5. CASE e.what \in CC!Catalogs
    <2>1. CC!Imports(m + 1)' = CC!Imports(m) \cup {m + 1}
      BY <1>3, <1>5
    <2>2. \A i \in CC!Imports(m + 1)' : i <= m + 1 /\ i \in Nat
      BY <2>1, <1>3
    <2> DEFINE Top(i) == \A j \in CC!Imports(m + 1)' : j <= i
               top == CHOOSE i \in CC!Imports(m + 1)' : Top(i)
    <2>3. m + 1 \in CC!Imports(m + 1)' /\ Top(m + 1)
      BY <2>1, <2>2
    <2>4. top \in CC!Imports(m + 1)' /\ Top(top)
      BY <2>3
    <2>5. top = m + 1
      <3>1. m + 1 <= top /\ top <= m + 1 /\ top \in Nat
        BY <2>2, <2>3, <2>4
      <3> QED BY <3>1
    <2>6. CC!AfterEvents(m + 1)' = log'[top].what
      BY <2>3 DEF CC!AfterEvents
    <2>7. CC!AfterEvents(m + 1)' = e.what
      BY <2>5, <2>6, <1>1
    <2>8. HasLatest'
      <3>1. \A n \in 0..m : CC!Imports(n)' = {} \/ \E i \in CC!Imports(n)' : \A j \in CC!Imports(n)' : j <= i
        BY <1>2 DEF HasLatest
      <3>2. 0..Len(log') = 0..m \cup {m + 1}
        BY <1>1
      <3> QED BY <3>1, <3>2, <2>3 DEF HasLatest
    <2> QED BY <1>1, <1>4, <1>5, <2>7, <2>8
  <1>6. CASE e.what \notin CC!Catalogs
    <2>1. CC!Imports(m + 1)' = CC!Imports(m) /\ CC!Imports(m)' = CC!Imports(m)
      <3>1. m \in 0..m /\ {i \in {m + 1} : e.what \in CC!Catalogs} = {}
        BY <1>6
      <3> QED BY <1>2, <1>3, <3>1
    <2> DEFINE Top(S) == CHOOSE i \in S : \A j \in S : j <= i
    <2>a. /\ CC!AfterEvents(m + 1)' = IF CC!Imports(m + 1)' = {} THEN CC!None ELSE log'[Top(CC!Imports(m + 1)')].what
          /\ CC!AfterEvents(m)' = IF CC!Imports(m)' = {} THEN CC!None ELSE log'[Top(CC!Imports(m)')].what
      BY DEF CC!AfterEvents, CC!None
    <2> HIDE DEF Top
    <2>2. CC!AfterEvents(m + 1)' = CC!AfterEvents(m)'
      BY <2>1, <2>a
    <2>3. HasLatest'
      <3>1. \A n \in 0..m : CC!Imports(n)' = {} \/ \E i \in CC!Imports(n)' : \A j \in CC!Imports(n)' : j <= i
        BY <1>2 DEF HasLatest
      <3>2. 0..Len(log') = 0..m \cup {m + 1} /\ m \in 0..m
        BY <1>1
      <3> QED BY <3>1, <3>2, <2>1 DEF HasLatest
    <2> QED BY <1>1, <1>4, <1>6, <2>2, <2>3
  <1> QED BY <1>5, <1>6

\* A part of the audit is as before.
LEMMA AuditGoesOn ==
  ASSUME CC!CatalogAssumption, CatalogInv, NEW e \in Logged, log' = Append(log, e), e.catalog = current,
         current' = IF e.what \in CC!Catalogs THEN e.what ELSE current,
         e.what \in CC!Catalogs /\ e.catalog # CC!None => Document[e.catalog].published <= Document[e.what].published
  PROVE  CC!AuditTellsCatalog' /\ HasLatest'
  <1>1. PICK m \in Nat : m = Len(log)
    BY DEF CatalogInv, CatalogTypes
  <1>2. /\ Len(log') = m + 1 /\ log'[m + 1] = e /\ \A i \in 1..m : log'[i] = log[i]
        /\ \A n \in 0..m : CC!AfterEvents(n)' = CC!AfterEvents(n)
        /\ CC!AfterEvents(m + 1)' = IF e.what \in CC!Catalogs THEN e.what ELSE CC!AfterEvents(m)
        /\ HasLatest'
    BY <1>1, AfterNextEvent DEF CatalogInv
  <1>3. /\ current = CC!AfterEvents(m) /\ \A i \in 1..m : log[i].catalog = CC!AfterEvents(i - 1)
        /\ \A i \in 1..m : log[i].what \in CC!Catalogs /\ log[i].catalog # CC!None =>
              Document[log[i].catalog].published <= Document[log[i].what].published
    BY <1>1 DEF CatalogInv, CC!AuditTellsCatalog, CC!Imports
  <1>4. current' = CC!AfterEvents(m + 1)'
    BY <1>2, <1>3
  <1>5. ASSUME NEW i \in 1..(m + 1) PROVE log'[i].catalog = CC!AfterEvents(i - 1)'
    <2>1. CASE i \in 1..m
      <3>1. i - 1 \in 0..m /\ log'[i] = log[i]
        BY <2>1, <1>2
      <3> QED BY <2>1, <3>1, <1>2, <1>3
    <2>2. CASE i = m + 1
      <3>1. i - 1 = m /\ m \in 0..m
        BY <2>2
      <3>2. log'[i] = e /\ current = CC!AfterEvents(m)'
        BY <2>2, <3>1, <1>2, <1>3
      <3> QED BY <3>1, <3>2
    <2> QED BY <1>1, <2>1, <2>2
  <1>6. ASSUME NEW i \in 1..(m + 1), log'[i].what \in CC!Catalogs, log'[i].catalog # CC!None
        PROVE  Document[log'[i].catalog].published <= Document[log'[i].what].published
    <2>1. CASE i \in 1..m
      <3>1. log'[i] = log[i]
        BY <2>1, <1>2
      <3> QED BY <2>1, <3>1, <1>3, <1>6
    <2>2. CASE i = m + 1
      <3>1. log'[i] = e
        BY <2>2, <1>2
      <3> QED BY <3>1, <1>6
    <2> QED BY <1>1, <2>1, <2>2
  <1>7. CC!AuditTellsCatalog'
    <2>1. \A n \in Nat : n = Len(log') => current' = CC!AfterEvents(n)'
      BY <1>2, <1>4
    <2>2. Len(log') = m + 1
      BY <1>2
    <2> QED BY <2>2, <1>4, <1>5, <1>6 DEF CC!AuditTellsCatalog, CC!Imports
  <1> QED BY <1>2, <1>7

\* Nothing was imported: the seeded currencies are permitted.
LEMMA CatalogInit == ASSUME CC!CatalogAssumption PROVE CC!Init => CatalogInv
  <1> SUFFICES ASSUME CC!Init PROVE CatalogInv
    OBVIOUS
  <1>1. /\ current = CC!None /\ releases = {} /\ log = <<>> /\ lock = CC!Nobody /\ admin = [a \in Admins |-> CC!Idle]
        /\ currency = [k \in Codes |-> IF k \in DOMAIN Seeded THEN [active |-> TRUE, unit |-> Seeded[k], change |-> 1] ELSE CC!Missing]
    BY DEF CC!Init
  <1>2. ASSUME NEW k \in Codes PROVE currency[k] \in Currencies /\ currency[k].change <= 1
    <2>1. CASE k \in DOMAIN Seeded
      <3>1. currency[k] = [active |-> TRUE, unit |-> Seeded[k], change |-> 1] /\ Seeded[k] \in 0..6
        BY <1>1, <2>1 DEF CC!CatalogAssumption
      <3> QED BY <3>1 DEF Currencies, CC!CatalogAssumption
    <2>2. CASE k \notin DOMAIN Seeded
      BY <1>1, <2>2 DEF CC!Missing, Currencies, CC!CatalogAssumption
    <2> QED BY <2>1, <2>2
  <1>3. currency \in [Codes -> Currencies]
    BY <1>1, <1>2
  <1>4. CatalogTypes
    BY <1>1, <1>3 DEF CatalogTypes, CC!CatalogAssumption
  <1>5. Len(log) = 0 /\ \A n \in 0..0 : CC!Imports(n) = {}
    BY <1>1 DEF CC!Imports
  <1>6. HasLatest
    BY <1>5 DEF HasLatest
  <1>7. CC!AuditTellsCatalog
    <2>1. CC!Imports(Len(log)) = {} /\ 1..Len(log) = {}
      BY <1>5
    <2> QED BY <1>1, <2>1 DEF CC!AuditTellsCatalog, CC!AfterEvents
  <1>8. Audited
    BY <1>2, <1>5 DEF Audited
  <1>9. \A a \in Admins : Reads(a, admin[a])
    BY <1>1 DEF Reads, CC!Idle
  <1> QED BY <1>4, <1>6, <1>7, <1>8, <1>9 DEF CatalogInv

\* The audit is as before.
LEMMA AuditStays ==
  ASSUME CatalogInv, current' = current, currency' = currency, log' = log
  PROVE  HasLatest' /\ CC!AuditTellsCatalog' /\ Audited'
  <1>1. \A n \in Nat : CC!Imports(n)' = CC!Imports(n) /\ CC!AfterEvents(n)' = CC!AfterEvents(n)
    BY DEF CC!Imports, CC!AfterEvents
  <1>2. HasLatest'
    BY DEF CatalogInv, HasLatest, CC!Imports
  <1>3. Audited'
    BY DEF CatalogInv, Audited
  <1>4. PICK m \in Nat : m = Len(log) /\ m = Len(log')
    BY DEF CatalogInv, CatalogTypes
  <1>5. current' = CC!AfterEvents(m)' /\ \A i \in 1..m : log'[i].catalog = CC!AfterEvents(i - 1)'
    <2>1. current = CC!AfterEvents(m) /\ \A i \in 1..m : log[i].catalog = CC!AfterEvents(i - 1)
      BY <1>4 DEF CatalogInv, CC!AuditTellsCatalog
    <2>2. \A i \in 1..m : i - 1 \in Nat
      OBVIOUS
    <2> QED BY <1>1, <1>4, <2>1, <2>2
  <1>6. CC!AuditTellsCatalog'
    <2>1. \A i \in CC!Imports(m) : log[i].catalog # CC!None => Document[log[i].catalog].published <= Document[log[i].what].published
      BY <1>4 DEF CatalogInv, CC!AuditTellsCatalog
    <2> QED BY <1>1, <1>4, <1>5, <2>1 DEF CC!AuditTellsCatalog
  <1> QED BY <1>2, <1>3, <1>6

\* Somebody reads, with the lock or before it.
LEMMA AdminGoesOn ==
  ASSUME CC!CatalogAssumption, CatalogInv, NEW a \in Admins, DOMAIN admin' = Admins, \A b \in Admins \ {a} : admin'[b] = admin[b],
         UNCHANGED <<current, releases, currency, log>>, lock' \in Admins \cup {CC!Nobody}, lock' = lock \/ lock = CC!Nobody \/ lock = a,
         Reads(a, admin[a])'
  PROVE  CatalogInv'
  <1>1. CatalogTypes'
    BY DEF CatalogInv, CatalogTypes
  <1>2. HasLatest' /\ CC!AuditTellsCatalog' /\ Audited'
    BY AuditStays
  <1>3. ASSUME NEW b \in Admins PROVE Reads(b, admin[b])'
    <2>1. CASE b = a
      BY <2>1
    <2>2. CASE b # a
      <3>1. Reads(b, admin[b]) /\ admin'[b] = admin[b] /\ b # CC!Nobody
        BY <2>2 DEF CatalogInv, CC!CatalogAssumption, CC!Nobody
      <3> QED BY <3>1, <2>2 DEF Reads
    <2> QED BY <2>1, <2>2
  <1> QED BY <1>1, <1>2, <1>3 DEF CatalogInv

\* Whoever holds the lock writes and releases it: nobody else has read with it.
LEMMA AdminWrites ==
  ASSUME CC!CatalogAssumption, CatalogInv, NEW a \in Admins, lock = a, CC!Release(a), CatalogTypes',
         HasLatest', CC!AuditTellsCatalog', Audited'
  PROVE  CatalogInv'
  <1>1. /\ \A b \in Admins \ {a} : admin'[b] = admin[b] /\ admin[b].does \notin {"imports", "switches"}
        /\ admin'[a] = CC!Idle
    BY DEF CC!Release, CatalogInv, CatalogTypes, Reads
  <1>2. ASSUME NEW b \in Admins PROVE Reads(b, admin[b])'
    <2>1. CASE b = a
      BY <2>1, <1>1 DEF Reads, CC!Idle
    <2>2. CASE b # a
      <3>1. Reads(b, admin[b])
        BY DEF CatalogInv
      <3> QED BY <2>2, <3>1, <1>1 DEF Reads
    <2> QED BY <2>1, <2>2
  <1> QED BY <1>2 DEF CatalogInv

\* A catalog comes into force.
LEMMA ImportKeeps == ASSUME CC!CatalogAssumption, CatalogInv, NEW a \in Admins, CC!Import(a) PROVE CatalogInv'
  <1>1. PICK q : q = admin[a]
    OBVIOUS
  <1>2. /\ q.does = "imports" /\ q.what \in CC!Catalogs /\ lock = a /\ q.read = <<current>> /\ CC!Release(a) /\ currency' = currency
        /\ lock' \in Admins \cup {CC!Nobody} /\ DOMAIN admin' = Admins
    BY <1>1 DEF CC!Import, CC!Release, CatalogInv, CatalogTypes, Reads
  <1> DEFINE e == [what |-> q.what, catalog |-> current, unit |-> 0]
  <1>3. \/ current' = current /\ releases' = releases /\ log' = log
        \/ /\ CC!Previewable(q.what, current, releases) /\ Len(log) < LastEvent
           /\ current' = q.what /\ releases' = releases \cup {q.what} /\ log' = Append(log, e)
    BY <1>1, <1>2 DEF CC!Import
  <1>4. CASE current' = current /\ releases' = releases /\ log' = log
    <2>1. Reads(a, admin[a])' /\ \A b \in Admins \ {a} : admin'[b] = admin[b]
      BY <1>2 DEF CC!Release, Reads, CC!Idle, CatalogInv, CatalogTypes
    <2> QED BY <1>2, <1>4, <2>1, AdminGoesOn
  <1>5. CASE /\ CC!Previewable(q.what, current, releases) /\ Len(log) < LastEvent
             /\ current' = q.what /\ releases' = releases \cup {q.what} /\ log' = Append(log, e)
    <2>1. e \in Logged /\ e.what = q.what /\ e.catalog = current
      BY <1>2 DEF Logged, CatalogInv, CatalogTypes
    <2>2. current # CC!None => Document[current].published <= Document[q.what].published
      <3>1. current # CC!None => current \in DOMAIN Document /\ ~(Document[q.what].published < Document[current].published)
        BY <1>5 DEF CatalogInv, CatalogTypes, CC!Previewable, CC!Older, CC!Catalogs
      <3> QED BY <3>1, <1>2 DEF CC!CatalogAssumption, CC!Catalogs
    <2> HIDE DEF e
    <2>3. CC!AuditTellsCatalog' /\ HasLatest'
      BY <1>2, <1>5, <2>1, <2>2, AuditGoesOn
    <2>4. log \in Seq(Logged) /\ Len(log) \in Nat /\ Len(log') = Len(log) + 1 /\ log' \in Seq(Logged)
          /\ log'[Len(log) + 1] = e /\ \A i \in 1..Len(log) : log'[i] = log[i]
      BY <1>5, <2>1 DEF CatalogInv, CatalogTypes
    <2>5. CatalogTypes'
      BY <1>2, <1>5, <2>4 DEF CatalogInv, CatalogTypes, CC!CatalogAssumption
    <2>6. Audited'
      <3>1. ASSUME NEW i \in 1..Len(log'), log'[i].what \in Codes
            PROVE  currency[log'[i].what].change > 0 /\ log'[i].unit = currency[log'[i].what].unit
        <4>1. CASE i \in 1..Len(log)
          <5>1. log'[i] = log[i]
            BY <4>1, <2>4
          <5> QED BY <4>1, <5>1, <3>1 DEF CatalogInv, Audited
        <4>2. CASE i = Len(log) + 1
          <5>1. log'[i] = e
            BY <4>2, <2>4
          <5> QED BY <5>1, <3>1, <2>1, <1>2 DEF CC!CatalogAssumption, CC!Catalogs
        <4> QED BY <4>1, <4>2, <2>4
      <3>2. \A k \in Codes : currency[k].change <= Len(log) + 1 /\ currency[k].change \in Nat
        BY DEF CatalogInv, Audited, CatalogTypes, Currencies, CC!CatalogAssumption
      <3>3. \A k \in Codes : currency[k].change <= Len(log') + 1
        BY <3>2, <2>4
      <3> QED BY <3>1, <3>3, <1>2 DEF Audited
    <2> QED BY <1>2, <2>3, <2>5, <2>6, AdminWrites
  <1> QED BY <1>3, <1>4, <1>5

\* A currency is permitted or forbidden.
LEMMA SwitchKeeps == ASSUME CC!CatalogAssumption, CatalogInv, NEW a \in Admins, CC!Switch(a) PROVE CatalogInv'
  <1>1. PICK q : q = admin[a]
    OBVIOUS
  <1>2. /\ q.does = "switches" /\ q.what \in Codes /\ q.active \in BOOLEAN /\ lock = a /\ q.read = <<currency[q.what], current>>
        /\ CC!Release(a) /\ current' = current /\ releases' = releases /\ lock' \in Admins \cup {CC!Nobody} /\ DOMAIN admin' = Admins
    BY <1>1 DEF CC!Switch, CC!Release, CatalogInv, CatalogTypes, Reads
  <1>3. PICK local \in Currencies : local = currency[q.what]
    BY <1>2 DEF CatalogInv, CatalogTypes
  <1> DEFINE unit == IF local.change = 0 THEN Document[current].units[q.what] ELSE local.unit
             new == [active |-> q.active, change |-> local.change + 1, unit |-> unit]
  <1>4. \/ currency' = currency /\ log' = log
        \/ /\ IF q.active THEN CC!Activatable(q.what, local, current) ELSE local.change > 0
           /\ Len(log) < LastEvent /\ currency' = [currency EXCEPT ![q.what] = new]
           /\ log' = Append(log, [what |-> q.what, catalog |-> current, unit |-> currency'[q.what].unit])
    <2>1. q.read[1] = local /\ q.read[2] = current
      BY <1>2, <1>3
    <2> QED BY <1>1, <1>2, <1>3, <2>1 DEF CC!Switch
  <1>5. CASE currency' = currency /\ log' = log
    <2>1. Reads(a, admin[a])' /\ \A b \in Admins \ {a} : admin'[b] = admin[b]
      BY <1>2 DEF CC!Release, Reads, CC!Idle, CatalogInv, CatalogTypes
    <2> QED BY <1>2, <1>5, <2>1, AdminGoesOn
  <1>6. CASE /\ IF q.active THEN CC!Activatable(q.what, local, current) ELSE local.change > 0
             /\ Len(log) < LastEvent /\ currency' = [currency EXCEPT ![q.what] = new]
             /\ log' = Append(log, [what |-> q.what, catalog |-> current, unit |-> currency'[q.what].unit])
    <2>1. local.change \in Nat /\ local.unit \in 0..6 /\ local.change <= Len(log) + 1 /\ Len(log) \in Nat /\ log \in Seq(Logged) /\ LastEvent \in Nat
      BY <1>2, <1>3 DEF CatalogInv, CatalogTypes, Audited, Currencies, CC!CatalogAssumption
    <2>2. unit \in 0..6
      <3>1. CASE local.change = 0
        <4>1. q.active /\ current \in DOMAIN Document /\ q.what \in DOMAIN Document[current].units
          BY <3>1, <1>6 DEF CC!Activatable, CatalogInv, CatalogTypes, CC!Catalogs
        <4> QED BY <3>1, <4>1 DEF CC!CatalogAssumption
      <3>2. CASE local.change # 0
        BY <3>2, <2>1
      <3> QED BY <3>1, <3>2
    <2>3. local.change # 0 => unit = local.unit
      OBVIOUS
    <2> HIDE DEF unit
    <2>4. new \in Currencies /\ new.change = local.change + 1 /\ new.unit = unit
      BY <1>2, <1>6, <2>1, <2>2 DEF Currencies
    <2> HIDE DEF new
    <2>5. currency' \in [Codes -> Currencies] /\ currency'[q.what] = new /\ \A k \in Codes : k # q.what => currency'[k] = currency[k]
      BY <1>2, <1>6, <2>4 DEF CatalogInv, CatalogTypes
    <2> DEFINE e == [what |-> q.what, catalog |-> current, unit |-> unit]
    <2>6. e \in Logged /\ e.what = q.what /\ e.catalog = current /\ e.unit = unit /\ log' = Append(log, e)
      BY <1>2, <1>6, <2>2, <2>4, <2>5 DEF Logged, CatalogInv, CatalogTypes
    <2> HIDE DEF e
    <2>7. q.what \notin CC!Catalogs
      BY <1>2 DEF CC!CatalogAssumption, CC!Catalogs
    <2>8. CC!AuditTellsCatalog' /\ HasLatest'
      BY <1>2, <2>6, <2>7, AuditGoesOn
    <2>9. /\ Len(log') = Len(log) + 1 /\ log' \in Seq(Logged) /\ log'[Len(log) + 1] = e /\ \A i \in 1..Len(log) : log'[i] = log[i]
      BY <2>1, <2>6
    <2>10. CatalogTypes'
      BY <1>2, <1>6, <2>1, <2>5, <2>9 DEF CatalogInv, CatalogTypes
    <2>11. Audited'
      <3>1. ASSUME NEW i \in 1..Len(log'), log'[i].what \in Codes
            PROVE  currency'[log'[i].what].change > 0 /\ log'[i].unit = currency'[log'[i].what].unit
        <4>1. CASE i \in 1..Len(log)
          <5>1. log'[i] = log[i] /\ currency[log[i].what].change > 0 /\ log[i].unit = currency[log[i].what].unit
            BY <4>1, <2>9, <3>1 DEF CatalogInv, Audited
          <5>2. CASE log[i].what = q.what
            BY <5>1, <5>2, <1>3, <2>1, <2>3, <2>4, <2>5
          <5>3. CASE log[i].what # q.what
            BY <5>1, <5>3, <2>5, <3>1
          <5> QED BY <5>2, <5>3
        <4>2. CASE i = Len(log) + 1
          <5>1. log'[i] = e
            BY <4>2, <2>9
          <5> QED BY <5>1, <2>1, <2>4, <2>5, <2>6
        <4> QED BY <4>1, <4>2, <2>1, <2>9
      <3>2. ASSUME NEW k \in Codes PROVE currency'[k].change <= Len(log') + 1
        <4>1. currency[k].change <= Len(log) + 1 /\ currency[k].change \in Nat
          BY DEF CatalogInv, Audited, CatalogTypes, Currencies, CC!CatalogAssumption
        <4>2. CASE k = q.what
          BY <4>2, <2>1, <2>4, <2>5, <2>9
        <4>3. CASE k # q.what
          BY <4>1, <4>3, <2>1, <2>5, <2>9
        <4> QED BY <4>2, <4>3
      <3> QED BY <3>1, <3>2 DEF Audited
    <2> QED BY <1>2, <2>8, <2>10, <2>11, AdminWrites
  <1> QED BY <1>4, <1>5, <1>6

\* Every step keeps what is known of the catalog.
LEMMA CatalogNext == ASSUME CC!CatalogAssumption, CatalogInv, [CC!Next]_(CC!catalogVars) PROVE CatalogInv'
  <1>1. CASE UNCHANGED CC!catalogVars
    <2>1. UNCHANGED <<current, releases, currency, log, lock, admin>>
      BY <1>1 DEF CC!catalogVars
    <2>2. HasLatest' /\ CC!AuditTellsCatalog' /\ Audited'
      BY <2>1, AuditStays
    <2>3. CatalogTypes' /\ \A a \in Admins : Reads(a, admin[a])'
      BY <2>1 DEF CatalogInv, CatalogTypes, Reads
    <2> QED BY <2>2, <2>3 DEF CatalogInv
  <1>2. ASSUME NEW a \in Admins, NEW catalog \in CC!Catalogs, CC!Preview(a, catalog) PROVE CatalogInv'
    <2> DEFINE n == [CC!Idle EXCEPT !.does = "previewed", !.what = catalog, !.seen = <<current>>]
    <2>1. n.does = "previewed" /\ n.what = catalog
      BY DEF CC!Idle
    <2>2. admin' = [admin EXCEPT ![a] = n] /\ UNCHANGED <<current, releases, currency, log, lock>> /\ DOMAIN admin = Admins
      BY <1>2 DEF CC!Preview, CatalogInv, CatalogTypes
    <2> HIDE DEF n
    <2>3. DOMAIN admin' = Admins /\ admin'[a] = n /\ \A b \in Admins \ {a} : admin'[b] = admin[b]
      BY <2>2
    <2>4. Reads(a, admin[a])'
      BY <2>1, <2>3 DEF Reads
    <2> QED BY <2>2, <2>3, <2>4, AdminGoesOn DEF CatalogInv, CatalogTypes
  <1>3. ASSUME NEW a \in Admins, NEW code \in Codes, NEW yes \in BOOLEAN, CC!Show(a, code, yes) PROVE CatalogInv'
    <2> DEFINE n == [CC!Idle EXCEPT !.does = "shown", !.what = code, !.active = yes, !.seen = <<currency[code], current>>]
    <2>1. n.does = "shown" /\ n.what = code /\ n.active = yes
      BY DEF CC!Idle
    <2>2. admin' = [admin EXCEPT ![a] = n] /\ UNCHANGED <<current, releases, currency, log, lock>> /\ DOMAIN admin = Admins
      BY <1>3 DEF CC!Show, CatalogInv, CatalogTypes
    <2> HIDE DEF n
    <2>3. DOMAIN admin' = Admins /\ admin'[a] = n /\ \A b \in Admins \ {a} : admin'[b] = admin[b]
      BY <2>2
    <2>4. Reads(a, admin[a])'
      BY <2>1, <2>3 DEF Reads
    <2> QED BY <2>2, <2>3, <2>4, AdminGoesOn DEF CatalogInv, CatalogTypes
  <1>4. ASSUME NEW a \in Admins, CC!Lock(a) PROVE CatalogInv'
    <2>1. PICK q : q = admin[a] /\ Reads(a, q)
      BY DEF CatalogInv
    <2> DEFINE n == [q EXCEPT !.does = IF @ = "previewed" THEN "imports" ELSE "switches",
                              !.read = IF q.does = "previewed" THEN <<current>> ELSE <<currency[q.what], current>>]
    <2>2. /\ q.does \in {"previewed", "shown"} /\ lock = CC!Nobody /\ lock' = a /\ UNCHANGED <<current, releases, currency, log>>
          /\ DOMAIN admin' = Admins /\ \A b \in Admins \ {a} : admin'[b] = admin[b]
      BY <1>4, <2>1 DEF CC!Lock, CC!Lockable, CatalogInv, CatalogTypes
    <2>3. /\ admin'[a].does = IF q.does = "previewed" THEN "imports" ELSE "switches"
          /\ admin'[a].read = IF q.does = "previewed" THEN <<current>> ELSE <<currency[q.what], current>>
          /\ admin'[a].what = q.what /\ admin'[a].active = q.active
      BY <1>4, <2>1 DEF CC!Lock, CatalogInv, CatalogTypes
    <2>4. Reads(a, admin[a])'
      BY <2>1, <2>2, <2>3 DEF Reads
    <2> QED BY <2>2, <2>4, AdminGoesOn
  <1> QED BY <1>1, <1>2, <1>3, <1>4, ImportKeeps, SwitchKeeps DEF CC!Next

LEMMA CatalogInvSuffices == ASSUME CC!CatalogAssumption, CatalogInv PROVE CC!TypeOK /\ CC!AuditTellsCatalog /\ CC!UnitsStay
  <1>1. CC!TypeOK
    BY DEF CC!TypeOK, CatalogInv, CatalogTypes, Reads, Currencies
  <1>2. CC!UnitsStay
    BY DEF CC!UnitsStay, CatalogInv, Audited
  <1> QED BY <1>1, <1>2 DEF CatalogInv

\* The audit tells which catalog was in force when, and a minor unit never changes.
THEOREM AuditTellsTheCatalog == ASSUME CC!CatalogAssumption PROVE CC!Spec => [](CC!TypeOK /\ CC!AuditTellsCatalog /\ CC!UnitsStay)
  <1>1. CC!Init => CatalogInv
    BY CatalogInit
  <1>2. CatalogInv /\ [CC!Next]_(CC!catalogVars) => CatalogInv'
    BY CatalogNext
  <1>3. CatalogInv => CC!TypeOK /\ CC!AuditTellsCatalog /\ CC!UnitsStay
    BY CatalogInvSuffices
  <1> QED BY <1>1, <1>2, <1>3, PTL DEF CC!Spec

-----------------------------------------------------------------------------
(* The currency of the executions of a trade. *)

\* Rows have the numbers from 1 on.
Numbered(rows) == \E n \in Nat : DOMAIN rows = 1..n
MoneyInv ==
    /\ MS!TypeOK
    /\ Numbered(executions) /\ Numbered(confirmations) /\ Numbered(sources)

\* A row that is added has the next number, and leaves the others alone.
LEMMA RowIsAdded ==
  ASSUME NEW rows, NEW item, NEW n \in Nat, DOMAIN rows = 1..n
  PROVE  /\ MS!NewId(rows) = n + 1 /\ DOMAIN MS!Add(rows, item) = 1..n + 1 /\ Numbered(MS!Add(rows, item))
         /\ MS!Add(rows, item)[n + 1] = item /\ \A r \in 1..n : MS!Add(rows, item)[r] = rows[r]
  <1>1. MS!Cardinality(DOMAIN rows) = n
    <2>1. Cardinality(1..n) = n
      BY FS_Interval
    <2>2. MS!Cardinality(DOMAIN rows) = Cardinality(DOMAIN rows)
      BY DEF MS!Cardinality, Cardinality
    <2> QED BY <2>1, <2>2
  <1>2. MS!NewId(rows) = n + 1
    BY <1>1 DEF MS!NewId
  <1>3. MS!Add(rows, item) = [r \in 1..n + 1 |-> IF r \in 1..n THEN rows[r] ELSE item]
    <2>1. 1..n \cup {n + 1} = 1..n + 1
      OBVIOUS
    <2> QED BY <1>2, <2>1 DEF MS!Add
  <1>4. DOMAIN MS!Add(rows, item) = 1..n + 1 /\ n + 1 \in Nat
    BY <1>3
  <1> QED BY <1>2, <1>3, <1>4 DEF Numbered

\* What stands is there.
LEMMA StandsIsThere == ASSUME NEW rows PROVE MS!R!Standing(rows) \subseteq DOMAIN rows
  BY DEF MS!R!Standing

\* The first purchase.
LEMMA MoneyInit == ASSUME MS!SourcesAssumption, MS!Init PROVE MoneyInv
  <1> DEFINE t == CHOOSE t \in Moments : \A u \in Moments : t <= u
  <1>1. t \in Moments
    BY DEF MS!SourcesAssumption
  <1> HIDE DEF t
  <1>2. /\ executions = [x \in {1} |-> MS!Execution("BUY", t, FALSE, 0)]
        /\ confirmations = <<>> /\ sources = <<>> /\ withdrawn = FALSE /\ desk = [c \in Clients |-> "nothing"]
    BY DEF MS!Init, t
  <1>3. DOMAIN executions = 1..1 /\ DOMAIN confirmations = 1..0 /\ DOMAIN sources = 1..0
    BY <1>2
  <1>4. Numbered(executions) /\ Numbered(confirmations) /\ Numbered(sources)
    BY <1>3 DEF Numbered
  <1>5. \A x \in DOMAIN executions :
           executions[x] \in [side : {"BUY", "SELL"}, at : Moments, day : BOOLEAN, replaces : 0..x - 1]
    BY <1>1, <1>2 DEF MS!Execution
  <1>6. \A c \in 1..0 : FALSE
    OBVIOUS
  <1> QED BY <1>2, <1>3, <1>4, <1>5, <1>6 DEF MoneyInv, MS!TypeOK

\* What is recorded has the form of its row.
ExecutionForm(x, e) == e \in [side : {"BUY", "SELL"}, at : Moments, day : BOOLEAN, replaces : 0..x - 1]
ConfirmationForm(c, e) == e \in [of : DOMAIN executions', currency : Denominations, replaces : 0..c - 1]
SourceForm(s, e) ==
    \/ \E x \in DOMAIN executions', d \in Documents, p \in 0..s - 1, r \in BOOLEAN : e = MS!Document(x, d, p, r)
    \/ \E l \in Sheets, p \in 0..s - 1, r \in BOOLEAN : e = MS!Listing(l, p, r)
LEMMA RowsStay ==
  ASSUME MoneyInv, withdrawn' \in BOOLEAN, desk' \in [Clients -> {"nothing", "document", "execution"}],
         executions' = executions \/
             \E e : executions' = MS!Add(executions, e) /\ ExecutionForm(MS!NewId(executions), e),
         confirmations' = confirmations \/
             \E e : confirmations' = MS!Add(confirmations, e) /\ ConfirmationForm(MS!NewId(confirmations), e),
         sources' = sources \/
             \E e : sources' = MS!Add(sources, e) /\ SourceForm(MS!NewId(sources), e)
  PROVE  MoneyInv'
  <1> USE DEF MoneyInv
  <1>1. Numbered(executions) /\ Numbered(confirmations) /\ Numbered(sources)
    OBVIOUS
  <1>2. PICK n \in Nat : DOMAIN executions = 1..n
    BY DEF Numbered
  <1>3. PICK m \in Nat : DOMAIN confirmations = 1..m
    BY DEF Numbered
  <1>4. PICK k \in Nat : DOMAIN sources = 1..k
    BY DEF Numbered
  <1>5. /\ Numbered(executions)' /\ DOMAIN executions \subseteq DOMAIN executions'
        /\ \A x \in DOMAIN executions' : ExecutionForm(x, executions'[x])
    <2>1. \A x \in DOMAIN executions : ExecutionForm(x, executions[x])
      BY DEF MS!TypeOK, ExecutionForm
    <2>2. CASE executions' = executions
      BY <1>1, <2>1, <2>2 DEF Numbered
    <2>3. CASE \E e : executions' = MS!Add(executions, e) /\ ExecutionForm(MS!NewId(executions), e)
      <3>1. PICK e : executions' = MS!Add(executions, e) /\ ExecutionForm(MS!NewId(executions), e)
        BY <2>3
      <3>2. /\ MS!NewId(executions) = n + 1 /\ DOMAIN executions' = 1..n + 1
            /\ executions'[n + 1] = e /\ \A r \in 1..n : executions'[r] = executions[r]
        BY <1>2, <3>1, RowIsAdded
      <3>3. \A x \in 1..n + 1 : x = n + 1 \/ x \in 1..n
        OBVIOUS
      <3>4. n + 1 \in Nat /\ 1..n \subseteq 1..n + 1
        OBVIOUS
      <3> QED BY <1>2, <2>1, <3>1, <3>2, <3>3, <3>4 DEF Numbered
    <2> QED BY <2>2, <2>3
  <1>6. Numbered(confirmations)' /\ \A c \in DOMAIN confirmations' : ConfirmationForm(c, confirmations'[c])
    <2>1. \A c \in DOMAIN confirmations : ConfirmationForm(c, confirmations[c])
      BY <1>5 DEF MS!TypeOK, ConfirmationForm
    <2>2. CASE confirmations' = confirmations
      BY <1>1, <2>1, <2>2 DEF Numbered
    <2>3. CASE \E e : confirmations' = MS!Add(confirmations, e) /\ ConfirmationForm(MS!NewId(confirmations), e)
      <3>1. PICK e : confirmations' = MS!Add(confirmations, e) /\ ConfirmationForm(MS!NewId(confirmations), e)
        BY <2>3
      <3>2. /\ MS!NewId(confirmations) = m + 1 /\ DOMAIN confirmations' = 1..m + 1
            /\ confirmations'[m + 1] = e /\ \A r \in 1..m : confirmations'[r] = confirmations[r]
        BY <1>3, <3>1, RowIsAdded
      <3>3. \A x \in 1..m + 1 : x = m + 1 \/ x \in 1..m
        OBVIOUS
      <3> QED BY <1>3, <2>1, <3>1, <3>2, <3>3 DEF Numbered
    <2> QED BY <2>2, <2>3
  <1>7. Numbered(sources)' /\ \A s \in DOMAIN sources' : SourceForm(s, sources'[s])
    <2>1. \A s \in DOMAIN sources : SourceForm(s, sources[s])
      BY <1>5 DEF MS!TypeOK, SourceForm
    <2>2. CASE sources' = sources
      BY <1>1, <2>1, <2>2 DEF Numbered
    <2>3. CASE \E e : sources' = MS!Add(sources, e) /\ SourceForm(MS!NewId(sources), e)
      <3>1. PICK e : sources' = MS!Add(sources, e) /\ SourceForm(MS!NewId(sources), e)
        BY <2>3
      <3>2. /\ MS!NewId(sources) = k + 1 /\ DOMAIN sources' = 1..k + 1
            /\ sources'[k + 1] = e /\ \A r \in 1..k : sources'[r] = sources[r]
        BY <1>4, <3>1, RowIsAdded
      <3>3. \A x \in 1..k + 1 : x = k + 1 \/ x \in 1..k
        OBVIOUS
      <3> QED BY <1>4, <2>1, <3>1, <3>2, <3>3 DEF Numbered
    <2> QED BY <2>2, <2>3
  <1> QED BY <1>5, <1>6, <1>7
      DEF MS!TypeOK, ExecutionForm, ConfirmationForm, SourceForm, MS!Document, MS!Listing, MS!R!Unknown

\* Executions, declarations and sources are added in their form.
LEMMA MoneyNext == ASSUME MS!SourcesAssumption, MoneyInv, [MS!Next]_(MS!currencyVars) PROVE MoneyInv'
  <1> USE DEF MoneyInv
  <1>1. PICK n \in Nat, m \in Nat, k \in Nat :
           DOMAIN executions = 1..n /\ DOMAIN confirmations = 1..m /\ DOMAIN sources = 1..k
    BY DEF Numbered
  <1>2. MS!NewId(executions) = n + 1 /\ MS!NewId(confirmations) = m + 1 /\ MS!NewId(sources) = k + 1
    BY <1>1, RowIsAdded
  <1>3. withdrawn \in BOOLEAN /\ desk \in [Clients -> {"nothing", "document", "execution"}]
    BY DEF MS!TypeOK
  <1>4. ASSUME NEW c \in Clients, MS!FinishExecution(c) PROVE MoneyInv'
    <2>1. PICK side \in {"BUY", "SELL"}, t \in Moments, day \in BOOLEAN, p \in MS!R!Standing(executions) \cup {0} :
             executions' = MS!Add(executions, MS!Execution(side, t, day, p))
      BY <1>4 DEF MS!FinishExecution
    <2>2. p \in 0..n
      BY <1>1, <2>1, StandsIsThere
    <2>3. ExecutionForm(n + 1, MS!Execution(side, t, day, p))
      BY <2>2 DEF ExecutionForm, MS!Execution
    <2>4. n + 1 \in DOMAIN executions'
      BY <1>1, <2>1, RowIsAdded
    <2>5. confirmations' = confirmations \/ \E e : confirmations' = MS!Add(confirmations, e) /\ ConfirmationForm(m + 1, e)
      <3>1. CASE confirmations' # confirmations
        <4>1. PICK code \in Denominations :
                 confirmations' = MS!Add(confirmations, [of |-> n + 1, currency |-> code, replaces |-> 0])
          BY <1>2, <1>4, <3>1 DEF MS!FinishExecution
        <4>2. ConfirmationForm(m + 1, [of |-> n + 1, currency |-> code, replaces |-> 0])
          BY <2>4 DEF ConfirmationForm
        <4> QED BY <4>1, <4>2
      <3> QED BY <3>1
    <2>6. UNCHANGED <<sources, withdrawn>> /\ desk' = [desk EXCEPT ![c] = "nothing"]
      BY <1>4 DEF MS!FinishExecution
    <2>7. desk' \in [Clients -> {"nothing", "document", "execution"}]
      BY <1>3, <2>6
    <2> HIDE DEF MoneyInv
    <2> QED BY <1>2, <1>3, <2>1, <2>3, <2>5, <2>6, <2>7, RowsStay
  <1>5. CASE MS!Confirm
    <2>1. PICK x \in DOMAIN executions, code \in Denominations, p \in DOMAIN confirmations \cup {0} :
             confirmations' = MS!Add(confirmations, [of |-> x, currency |-> code, replaces |-> p])
      BY <1>5 DEF MS!Confirm
    <2>2. UNCHANGED <<executions, sources, withdrawn, desk>>
      BY <1>5 DEF MS!Confirm
    <2>3. ConfirmationForm(m + 1, [of |-> x, currency |-> code, replaces |-> p])
      BY <1>1, <2>2 DEF ConfirmationForm
    <2> HIDE DEF MoneyInv
    <2> QED BY <1>2, <1>3, <2>1, <2>2, <2>3, RowsStay
  <1>6. CASE MS!RecordListing
    <2>1. PICK l \in Sheets, p \in DOMAIN sources \cup {0}, r \in BOOLEAN : sources' = MS!Add(sources, MS!Listing(l, p, r))
      BY <1>6 DEF MS!RecordListing
    <2>2. UNCHANGED <<executions, confirmations, withdrawn, desk>>
      BY <1>6 DEF MS!RecordListing
    <2>3. p \in 0..k + 1 - 1
      BY <1>1
    <2>4. SourceForm(k + 1, MS!Listing(l, p, r))
      BY <2>3 DEF SourceForm
    <2> HIDE DEF MoneyInv
    <2> QED BY <1>2, <1>3, <2>1, <2>2, <2>4, RowsStay
  <1>7. ASSUME NEW c \in Clients, MS!FinishDocument(c) PROVE MoneyInv'
    <2>1. UNCHANGED <<executions, confirmations, withdrawn>> /\ desk' = [desk EXCEPT ![c] = "nothing"]
      BY <1>7 DEF MS!FinishDocument
    <2>2. sources' = sources \/ \E e : sources' = MS!Add(sources, e) /\ SourceForm(k + 1, e)
      <3>1. CASE sources' # sources
        <4>1. PICK x \in DOMAIN executions, d \in Documents, p \in DOMAIN sources \cup {0}, r \in BOOLEAN :
                 sources' = MS!Add(sources, MS!Document(x, d, p, r))
          BY <1>7, <3>1 DEF MS!FinishDocument
        <4>2. p \in 0..k + 1 - 1 /\ x \in DOMAIN executions'
          BY <1>1, <2>1
        <4>3. SourceForm(k + 1, MS!Document(x, d, p, r))
          BY <4>2 DEF SourceForm
        <4> QED BY <4>1, <4>3
      <3> QED BY <3>1
    <2>3. desk' \in [Clients -> {"nothing", "document", "execution"}]
      BY <1>3, <2>1
    <2> HIDE DEF MoneyInv
    <2> QED BY <1>2, <1>3, <2>1, <2>2, <2>3, RowsStay
  <1>8. ASSUME NEW c \in Clients, MS!BeginExecution(c) \/ MS!BeginDocument(c) PROVE MoneyInv'
    <2>1. UNCHANGED <<executions, confirmations, sources, withdrawn>>
      BY <1>8 DEF MS!BeginExecution, MS!BeginDocument
    <2>2. desk' \in [Clients -> {"nothing", "document", "execution"}]
      BY <1>3, <1>8 DEF MS!BeginExecution, MS!BeginDocument
    <2> HIDE DEF MoneyInv
    <2> QED BY <1>3, <2>1, <2>2, RowsStay
  <1>9. CASE MS!Deadlock \/ MS!CancelTrade \/ UNCHANGED MS!currencyVars
    <2>1. UNCHANGED <<executions, confirmations, sources>> /\ withdrawn' \in BOOLEAN
      BY <1>3, <1>9 DEF MS!Deadlock, MS!CancelTrade, MS!currencyVars
    <2>2. desk' \in [Clients -> {"nothing", "document", "execution"}]
      BY <1>3, <1>9 DEF MS!Deadlock, MS!CancelTrade, MS!currencyVars
    <2> HIDE DEF MoneyInv
    <2> QED BY <2>1, <2>2, RowsStay
  <1> QED BY <1>4, <1>5, <1>6, <1>7, <1>8, <1>9 DEF MS!Next

\* What is recorded has its type.
LEMMA MoneySuffices == MoneyInv => MS!TypeOK
  BY DEF MoneyInv

-----------------------------------------------------------------------------
(* The page of a trade. *)

Kinds == {"none", "sale", "purchase", "correct", "stop"}
Entries == [kind : Kinds, key : Nat, input : Nat, of : Nat]
FormTasks == [phase : {"idle", "sent", "booked", "refused", "reads"}, entry : Entries, ok : BOOLEAN]
Shows == [shown : Nat, ready : BOOLEAN, basis : Nat, draft : Nat, typed : Nat, count : Nat]
Panels == [entries : Nat, failed : BOOLEAN, editor : Nat, recovery : [target : Nat, confirmed : BOOLEAN]]
PageReads == [of : {"page", "panel"}, since : Nat, awaits : {"page", "purchase", "bookings", "lookup", "nobody"}]
Inputs == [input : Nat, payload : {"p", "q"}, stored : {"none", "p", "q"}, key : Nat]
TradeTypes ==
    /\ logbook \in Seq(Entries) /\ lost \subseteq Entries /\ page \in Shows /\ panel \in Panels
    /\ tasks \in [TP!Forms -> FormTasks] /\ reads \subseteq PageReads /\ capture \in [Captures -> Inputs]
    /\ submits \in Nat /\ heard \in Nat

\* A stop that may be written is one that was typed, or another tab's.
Stops == 0..page.count \cup {TP!Elsewhere}
\* What was asked of the server.
InWork(f) == tasks[f].phase \in {"sent", "booked", "refused"}
Asked(e) ==
    \/ e \in lost
    \/ \E i \in 1..Len(logbook) : logbook[i] = e
    \/ \E f \in TP!Forms : InWork(f) /\ tasks[f].entry = e
Keyed(e) == e.kind \in Captures /\ e.key # 0

\* The entries of one writing: it has a last one, and so have the stops of what was read.
Alike(e, d) == e.kind = d.kind /\ e.key = d.key /\ e.of = d.of
LastInv ==
    /\ \A m \in 1..Len(logbook) : \E i \in 1..Len(logbook) :
          Alike(logbook[i], logbook[m]) /\ \A j \in i + 1..Len(logbook) : ~Alike(logbook[j], logbook[m])
    /\ \A n \in 1..Len(logbook) : (\E m \in 1..n : logbook[m].kind = "stop") =>
          \E i \in 1..n : logbook[i].kind = "stop" /\ \A j \in 1..n : logbook[j].kind = "stop" => j <= i
\* What the server is asked has its form, and what it has answered is there.
AskedInv ==
    /\ \A e \in Entries : Asked(e) =>
          /\ e.kind # "none" /\ e.of <= Len(logbook)
          /\ e.key # 0 => e.kind \in Captures /\ e.of = 0
          /\ e.kind = "stop" => e.input \in Stops
    /\ \A f \in TP!Forms : InWork(f) => TP!FormOf(tasks[f].entry.kind) = f
    /\ \A f \in TP!Forms : tasks[f].phase = "booked" => \E i \in 1..Len(logbook) : Alike(logbook[i], tasks[f].entry)
\* All that was asked of one input has one key.
KeyInv ==
    /\ \A k \in Captures :
          /\ capture[k].key <= submits /\ (capture[k].stored # "none" => capture[k].key # 0)
          /\ capture[k].input <= MaxInputs + 1
          /\ \A f \in TP!Forms : InWork(f) /\ tasks[f].entry.kind = k =>
                capture[k].input = tasks[f].entry.input /\ capture[k].input <= MaxInputs
    /\ \A e \in Entries : Asked(e) /\ Keyed(e) =>
          /\ e.key <= submits /\ e.input <= capture[e.kind].input
          /\ e.input = capture[e.kind].input =>
                capture[e.kind].stored = capture[e.kind].payload /\ e.key = capture[e.kind].key
    /\ \A e, d \in Entries :
          Asked(e) /\ Asked(d) /\ Keyed(e) /\ Keyed(d) /\ e.kind = d.kind /\ e.input = d.input => e.key = d.key
    /\ \A i, j \in 1..Len(logbook) : logbook[i].key # 0 /\ logbook[i].kind = logbook[j].kind /\ logbook[i].key = logbook[j].key => i = j
\* One form writes, and none of them while the outcome of a correction is not known.
LockInv ==
    /\ \A f, g \in TP!Forms : TP!Locked(f) /\ TP!Locked(g) => f = g
    /\ panel.recovery # TP!Clear => \A f \in TP!Forms : ~TP!Writes(f)
    /\ panel.editor <= Len(logbook) /\ panel.recovery.target <= Len(logbook)
\* A stop that was typed is not the one that was read.
StopInv ==
    /\ page.typed # 0 => page.draft = page.typed /\ page.draft # page.basis
    /\ page.count <= MaxTyped /\ page.typed <= page.count /\ page.basis \in Stops /\ page.draft \in Stops
\* What was read, and what will be, is not older than what was confirmed.
ReadInv ==
    /\ heard <= Len(logbook) /\ Len(logbook) \in 1..MaxWrites /\ submits <= MaxSubmits
    /\ page.shown <= Len(logbook) /\ panel.entries <= Len(logbook)
    /\ \A r \in reads : r.since \in heard..Len(logbook) /\ r.since # 0
    /\ page.ready = TRUE => page.shown >= heard
    /\ panel.failed = FALSE /\ ~TP!Loading("panel") => panel.entries >= heard
TradeInv == TradeTypes /\ LastInv /\ AskedInv /\ KeyInv /\ LockInv /\ StopInv /\ ReadInv

\* What there is at first.
LEMMA TradeValues ==
  /\ TP!NoEntry \in Entries /\ TP!NoEntry.kind = "none" /\ TP!Idle \in FormTasks /\ TP!Idle.phase = "idle" /\ TP!Idle.entry = TP!NoEntry
  /\ TP!Clear \in [target : Nat, confirmed : BOOLEAN] /\ TP!Clear.target = 0
  /\ TP!Blank \in Shows /\ TP!Blank.ready = FALSE /\ TP!Blank.shown = 0 /\ TP!Blank.typed = 0 /\ TP!Blank.draft = 0 /\ TP!Blank.basis = 0
  /\ TP!Empty \in Panels /\ TP!Empty.recovery = TP!Clear /\ TP!Empty.editor = 0 /\ TP!Empty.entries = 0
  <1>1. TP!NoEntry \in Entries /\ TP!NoEntry.kind = "none"
    BY DEF TP!NoEntry, TP!Entry, Entries, Kinds
  <1>2. TP!Idle \in FormTasks /\ TP!Idle.phase = "idle" /\ TP!Idle.entry = TP!NoEntry
    BY <1>1 DEF TP!Idle, FormTasks
  <1>3. TP!Clear \in [target : Nat, confirmed : BOOLEAN] /\ TP!Clear.target = 0
    BY DEF TP!Clear
  <1>4. TP!Empty \in Panels /\ TP!Empty.recovery = TP!Clear /\ TP!Empty.editor = 0 /\ TP!Empty.entries = 0
    BY <1>3 DEF TP!Empty, Panels
  <1> QED BY <1>1, <1>2, <1>3, <1>4 DEF TP!Blank, Shows

\* A read that begins takes the place of the one of its kind.
LEMMA BothReads ==
  ASSUME TradeTypes, NEW x \in {"page", "purchase", "bookings", "lookup", "nobody"},
         NEW y \in {"page", "purchase", "bookings", "lookup", "nobody"}
  PROVE  LET rs == TP!Begin(TP!Begin(reads, "panel", x), "page", y)
         IN  /\ rs \subseteq PageReads /\ \A r \in rs : r.since = Len(logbook)
             /\ \E r \in rs : r.of = "panel"
  <1> DEFINE a == TP!Read("panel", Len(logbook), x)
             b == TP!Read("page", Len(logbook), y)
             rs == TP!Begin(TP!Begin(reads, "panel", x), "page", y)
  <1>1. Len(logbook) \in Nat /\ reads \subseteq PageReads
    BY DEF TradeTypes
  <1>2. /\ a \in PageReads /\ a.since = Len(logbook) /\ a.of = "panel"
        /\ b \in PageReads /\ b.since = Len(logbook) /\ b.of = "page"
    BY <1>1 DEF TP!Read, PageReads
  <1>3. rs = {r \in {r \in reads : r.of # "panel"} \cup {a} : r.of # "page"} \cup {b}
    BY DEF TP!Begin, TP!Outlasting
  <1> HIDE DEF a, b, rs
  <1>4. \A r \in reads : r.of = "panel" \/ r.of = "page"
    BY <1>1 DEF PageReads
  <1>5. rs = {a, b}
    BY <1>2, <1>3, <1>4
  <1> QED BY <1>2, <1>5 DEF rs

\* The list reads alone.
LEMMA PanelReads ==
  ASSUME TradeTypes, NEW x \in {"page", "purchase", "bookings", "lookup", "nobody"}
  PROVE  LET rs == TP!Begin(reads, "panel", x)
         IN  rs \subseteq PageReads /\ \A r \in rs : r \in reads \/ (r.since = Len(logbook) /\ r.of = "panel")
  <1>1. TP!Read("panel", Len(logbook), x) \in PageReads /\ TP!Read("panel", Len(logbook), x).since = Len(logbook)
        /\ TP!Read("panel", Len(logbook), x).of = "panel"
    BY DEF TradeTypes, TP!Read, PageReads
  <1> QED BY <1>1 DEF TradeTypes, TP!Begin, TP!Outlasting

\* A page that is loaded reads both.
LEMMA FirstReadsAre ==
  ASSUME NEW n \in Nat
  PROVE  TP!FirstReads(n) \subseteq PageReads /\ (\A r \in TP!FirstReads(n) : r.since = n) /\ \E r \in TP!FirstReads(n) : r.of = "panel"
  <1>1. /\ TP!Read("page", n, "lookup") \in PageReads /\ TP!Read("page", n, "lookup").since = n
        /\ TP!Read("panel", n, "nobody") \in PageReads /\ TP!Read("panel", n, "nobody").since = n
        /\ TP!Read("panel", n, "nobody").of = "panel"
    BY DEF TP!Read, PageReads
  <1> QED BY <1>1 DEF TP!FirstReads

\* The stop of what was read is one that was typed, or chosen elsewhere.
LEMMA StopIsTyped ==
  ASSUME TP!PageAssumption, TradeInv, NEW n \in 1..Len(logbook) PROVE TP!StopAt(n) \in Stops /\ TP!StopAt(n) \in Nat
  <1> USE DEF TradeInv
  <1>1. Stops \subseteq Nat /\ 0 \in Stops
    BY DEF TradeTypes, Shows, Stops, TP!Elsewhere, TP!PageAssumption
  <1>2. \A i \in 1..n : i \in 1..Len(logbook) /\ logbook[i] \in Entries
    BY DEF TradeTypes
  <1>3. CASE \A m \in 1..n : logbook[m].kind # "stop"
    BY <1>1, <1>3 DEF TP!StopAt
  <1>4. CASE \E m \in 1..n : logbook[m].kind = "stop"
    <2> DEFINE stops == {i \in 1..n : logbook[i].kind = "stop"}
               i == CHOOSE i \in stops : \A j \in stops : j <= i
    <2>1. \E k \in stops : \A j \in stops : j <= k
      BY <1>4 DEF LastInv
    <2>2. i \in stops
      BY <2>1
    <2>3. TP!StopAt(n) = logbook[i].input
      BY <1>4 DEF TP!StopAt
    <2> HIDE DEF i
    <2>4. Asked(logbook[i]) /\ logbook[i].kind = "stop" /\ logbook[i] \in Entries
      BY <1>2, <2>2 DEF Asked
    <2> QED BY <1>1, <2>3, <2>4 DEF AskedInv
  <1> QED BY <1>3, <1>4

\* What is confirmed is in the log.
LEMMA LastIsThere ==
  ASSUME TradeTypes, LastInv, NEW e \in Entries, \E m \in 1..Len(logbook) : Alike(logbook[m], e)
  PROVE  TP!LastOf(e) \in 1..Len(logbook)
  <1>1. PICK m \in 1..Len(logbook) : Alike(logbook[m], e)
    OBVIOUS
  <1>2. PICK i \in 1..Len(logbook) : Alike(logbook[i], logbook[m]) /\ \A j \in i + 1..Len(logbook) : ~Alike(logbook[j], logbook[m])
    BY <1>1 DEF LastInv
  <1>3. /\ logbook[i].kind = e.kind /\ logbook[i].key = e.key /\ logbook[i].of = e.of
        /\ \A j \in i + 1..Len(logbook) : logbook[j].kind # e.kind \/ logbook[j].key # e.key \/ logbook[j].of # e.of
    BY <1>1, <1>2 DEF Alike
  <1> QED BY <1>3 DEF TP!LastOf

\* What is written is written at the end, and once if it has a key.
LEMMA WriteGoesOn ==
  ASSUME TP!PageAssumption, TradeInv, NEW e \in Entries, e.key # 0 => Asked(e), TP!Written(e)
  PROVE  /\ logbook' \in Seq(Entries) /\ Len(logbook) <= Len(logbook') /\ Len(logbook') \in 1..MaxWrites
         /\ \A i \in 1..Len(logbook) : logbook'[i] = logbook[i]
         /\ \A i \in 1..Len(logbook') : logbook'[i] = e \/ i \in 1..Len(logbook)
         /\ \E i \in 1..Len(logbook') : Alike(logbook'[i], e)
         /\ \A i, j \in 1..Len(logbook') : logbook'[i].key # 0 /\ logbook'[i].kind = logbook'[j].kind /\ logbook'[i].key = logbook'[j].key => i = j
         /\ LastInv'
  <1> USE DEF TradeInv
  <1>1. PICK n \in Nat : n = Len(logbook) /\ n \in 1..MaxWrites /\ \A i \in 1..n : logbook[i] \in Entries
    BY DEF TradeTypes, ReadInv
  <1>2. \A i, j \in 1..n : logbook[i].key # 0 /\ logbook[i].kind = logbook[j].kind /\ logbook[i].key = logbook[j].key => i = j
    BY <1>1 DEF KeyInv
  <1>3. CASE TP!Known(e)
    <2>1. PICK i \in 1..n : logbook[i].kind = e.kind /\ logbook[i].key = e.key /\ e.key # 0
      BY <1>1, <1>3 DEF TP!Known
    <2>2. Asked(logbook[i]) /\ Asked(e)
      BY <1>1, <2>1 DEF Asked
    <2>3. logbook[i].of = 0 /\ e.of = 0
      BY <1>1, <2>1, <2>2 DEF AskedInv
    <2>4. logbook' = logbook
      BY <1>3 DEF TP!Written
    <2>5. \E k \in 1..Len(logbook') : Alike(logbook'[k], e)
      BY <1>1, <2>1, <2>3, <2>4 DEF Alike
    <2>6. LastInv'
      <3>1. LastInv
        OBVIOUS
      <3>2. \A m \in 1..Len(logbook') : \E l \in 1..Len(logbook') :
               Alike(logbook'[l], logbook'[m]) /\ \A j \in l + 1..Len(logbook') : ~Alike(logbook'[j], logbook'[m])
        BY <2>4, <3>1 DEF LastInv
      <3>3. \A k \in 1..Len(logbook') : (\E m \in 1..k : logbook'[m].kind = "stop") =>
               \E l \in 1..k : logbook'[l].kind = "stop" /\ \A j \in 1..k : logbook'[j].kind = "stop" => j <= l
        BY <2>4, <3>1 DEF LastInv
      <3> QED BY <3>2, <3>3 DEF LastInv, Alike
    <2>7. logbook' \in Seq(Entries) /\ Len(logbook') = n
      BY <1>1, <2>4 DEF TradeTypes
    <2> QED BY <1>1, <1>2, <2>4, <2>5, <2>6, <2>7
  <1>4. CASE ~TP!Known(e)
    <2>1. Len(logbook) < MaxWrites /\ logbook' = Append(logbook, e)
      BY <1>4 DEF TP!Written
    <2>2. /\ logbook' \in Seq(Entries) /\ Len(logbook') = n + 1 /\ logbook'[n + 1] = e /\ \A i \in 1..n : logbook'[i] = logbook[i]
          /\ n + 1 \in 1..MaxWrites
      BY <1>1, <2>1 DEF TradeTypes, TP!PageAssumption
    <2>3. \A i \in 1..n : e.key # 0 => logbook[i].kind # e.kind \/ logbook[i].key # e.key
      BY <1>1, <1>4 DEF TP!Known
    <2>4. \A i \in 1..n + 1 : i \in 1..n \/ i = n + 1
      BY <1>1
    <2>5. ASSUME NEW i \in 1..n + 1, NEW j \in 1..n + 1,
                 logbook'[i].key # 0, logbook'[i].kind = logbook'[j].kind, logbook'[i].key = logbook'[j].key
          PROVE  i = j
      <3>1. CASE i \in 1..n /\ j \in 1..n
        BY <1>2, <2>2, <2>5, <3>1
      <3>2. CASE i \in 1..n /\ j = n + 1
        BY <2>2, <2>3, <2>5, <3>2
      <3>3. CASE i = n + 1 /\ j \in 1..n
        BY <2>2, <2>3, <2>5, <3>3
      <3> QED BY <2>4, <3>1, <3>2, <3>3
    <2>6. ASSUME NEW m \in 1..n + 1
          PROVE  \E i \in 1..n + 1 : Alike(logbook'[i], logbook'[m]) /\ \A j \in i + 1..n + 1 : ~Alike(logbook'[j], logbook'[m])
      <3>1. CASE Alike(e, logbook'[m])
        BY <1>1, <2>2, <3>1
      <3>2. CASE ~Alike(e, logbook'[m])
        <4>1. m \in 1..n /\ logbook'[m] = logbook[m]
          BY <2>2, <2>4, <3>2 DEF Alike
        <4>2. PICK i \in 1..n : Alike(logbook[i], logbook[m]) /\ \A j \in i + 1..n : ~Alike(logbook[j], logbook[m])
          BY <1>1, <4>1 DEF LastInv
        <4>3. ASSUME NEW j \in i + 1..n + 1 PROVE ~Alike(logbook'[j], logbook'[m])
          <5>1. j \in i + 1..n \/ j = n + 1
            BY <1>1
          <5>2. j \in i + 1..n => j \in 1..n
            BY <1>1
          <5> QED BY <2>2, <3>2, <4>1, <4>2, <5>1, <5>2
        <4>4. i \in 1..n + 1 /\ logbook'[i] = logbook[i]
          BY <1>1, <2>2
        <4> QED BY <4>1, <4>2, <4>3, <4>4
      <3> QED BY <3>1, <3>2
    <2>7. ASSUME NEW k \in 1..n + 1, NEW m \in 1..k, logbook'[m].kind = "stop"
          PROVE  \E i \in 1..k : logbook'[i].kind = "stop" /\ \A j \in 1..k : logbook'[j].kind = "stop" => j <= i
      <3>1. CASE k \in 1..n
        <4>1. \A j \in 1..k : j \in 1..n /\ logbook'[j] = logbook[j]
          BY <1>1, <2>2, <3>1
        <4>2. \E i \in 1..k : logbook[i].kind = "stop" /\ \A j \in 1..k : logbook[j].kind = "stop" => j <= i
          BY <1>1, <2>7, <3>1, <4>1 DEF LastInv
        <4> QED BY <4>1, <4>2
      <3>2. CASE k = n + 1 /\ e.kind = "stop"
        BY <1>1, <2>2, <3>2
      <3>3. CASE k = n + 1 /\ e.kind # "stop"
        <4>1. m \in 1..n /\ logbook[m].kind = "stop" /\ n \in 1..n
          BY <1>1, <2>2, <2>4, <2>7, <3>3
        <4>2. PICK i \in 1..n : logbook[i].kind = "stop" /\ \A j \in 1..n : logbook[j].kind = "stop" => j <= i
          BY <1>1, <4>1 DEF LastInv
        <4>3. i \in 1..k /\ logbook'[i].kind = "stop"
          BY <1>1, <2>2, <3>3, <4>2
        <4>4. \A j \in 1..k : logbook'[j].kind = "stop" => j <= i
          BY <2>2, <2>4, <3>3, <4>2
        <4> QED BY <4>3, <4>4
      <3> QED BY <2>4, <3>1, <3>2, <3>3
    <2>8. LastInv'
      <3>1. \A m \in 1..Len(logbook') : \E i \in 1..Len(logbook') :
               Alike(logbook'[i], logbook'[m]) /\ \A j \in i + 1..Len(logbook') : ~Alike(logbook'[j], logbook'[m])
        BY <2>2, <2>6
      <3>2. \A k \in 1..Len(logbook') : (\E m \in 1..k : logbook'[m].kind = "stop") =>
               \E i \in 1..k : logbook'[i].kind = "stop" /\ \A j \in 1..k : logbook'[j].kind = "stop" => j <= i
        BY <2>2, <2>7
      <3> QED BY <3>1, <3>2 DEF LastInv, Alike
    <2>9. \E i \in 1..Len(logbook') : Alike(logbook'[i], e)
      BY <1>1, <2>2 DEF Alike
    <2> QED BY <1>1, <2>2, <2>4, <2>5, <2>8, <2>9
  <1> QED BY <1>3, <1>4

\* The form of what is asked.
Formed(e) ==
    /\ e.kind # "none" /\ e.of <= Len(logbook)
    /\ e.key # 0 => e.kind \in Captures /\ e.of = 0
    /\ e.kind = "stop" => e.input \in Stops
\* The form of what needs no key, as of the next state.
Plain(e) == e.key = 0 /\ e.kind # "none" /\ e.of <= Len(logbook') /\ (e.kind = "stop" => e.input \in Stops')
\* Nothing is asked but what was, or what no key is needed for.
AskedMoves ==
    /\ logbook' \in Seq(Entries) /\ Len(logbook) <= Len(logbook') /\ \A i \in 1..Len(logbook) : logbook'[i] = logbook[i]
    /\ \A i \in 1..Len(logbook') : i \in 1..Len(logbook) \/ Asked(logbook'[i]) \/ Plain(logbook'[i])
    /\ lost' \subseteq Entries /\ \A e \in lost' : Asked(e)
    /\ tasks' \in [TP!Forms -> FormTasks] /\ page'.count \in Nat /\ page'.count >= page.count
    /\ \A f \in TP!Forms : InWork(f)' =>
          \/ InWork(f) /\ tasks'[f].entry = tasks[f].entry
          \/ /\ Plain(tasks'[f].entry) /\ tasks'[f].entry.kind \notin Captures
             /\ TP!FormOf(tasks'[f].entry.kind) = f
    /\ \A f \in TP!Forms : tasks'[f].phase = "booked" =>
          \/ tasks[f].phase = "booked" /\ tasks'[f].entry = tasks[f].entry
          \/ \E i \in 1..Len(logbook') : Alike(logbook'[i], tasks'[f].entry)
KeysMove ==
    /\ capture' \in [Captures -> Inputs] /\ submits' \in Nat /\ submits <= submits'
    /\ \A k \in Captures :
          \/ capture'[k] = capture[k]
          \/ /\ capture'[k].input = capture[k].input + 1 /\ capture[k].input <= MaxInputs
             /\ capture'[k].key \in {0, capture[k].key}
             /\ capture'[k].stored # "none" => capture'[k].stored = capture[k].stored /\ capture'[k].key = capture[k].key
             /\ \A f \in TP!Forms : ~(InWork(f)' /\ tasks'[f].entry.kind = k)
    /\ \A i, j \in 1..Len(logbook') : logbook'[i].key # 0 /\ logbook'[i].kind = logbook'[j].kind /\ logbook'[i].key = logbook'[j].key => i = j

\* What is asked keeps its form.
LEMMA AskedGoesOn == ASSUME TP!PageAssumption, TradeInv, AskedMoves PROVE AskedInv'
  <1> USE DEF TradeInv
  <1>1. \A e \in Entries : Asked(e)' => Asked(e) \/ Plain(e)
    <2> SUFFICES ASSUME NEW e \in Entries, Asked(e)' PROVE Asked(e) \/ Plain(e)
      OBVIOUS
    <2>1. CASE e \in lost'
      BY <2>1 DEF AskedMoves
    <2>2. CASE \E i \in 1..Len(logbook') : logbook'[i] = e
      <3>1. PICK i \in 1..Len(logbook') : logbook'[i] = e
        BY <2>2
      <3>2. i \in 1..Len(logbook) => Asked(e)
        BY <3>1 DEF AskedMoves, Asked
      <3> QED BY <3>1, <3>2 DEF AskedMoves, Plain
    <2>3. CASE \E f \in TP!Forms : InWork(f)' /\ tasks'[f].entry = e
      <3>1. PICK f \in TP!Forms : InWork(f)' /\ tasks'[f].entry = e
        BY <2>3
      <3>2. InWork(f) /\ tasks'[f].entry = tasks[f].entry => Asked(e)
        BY <3>1 DEF Asked
      <3> QED BY <3>1, <3>2 DEF AskedMoves, Plain
    <2> QED BY <2>1, <2>2, <2>3 DEF Asked
  <1>2. \A e \in Entries : Asked(e) => Formed(e)
    BY DEF AskedInv, Formed
  <1>3. \A x \in Stops : x \in Stops'
    BY DEF Stops, AskedMoves, TradeTypes, Shows
  <1>4. \A e \in Entries : Formed(e) => Formed(e)'
    <2>1. Len(logbook) \in Nat /\ Len(logbook') \in Nat /\ Len(logbook) <= Len(logbook')
      BY DEF AskedMoves, TradeTypes
    <2> QED BY <1>3, <2>1 DEF Formed, Entries
  <1>8. \A e \in Entries : Plain(e) => Formed(e)'
    BY DEF Plain, Formed
  <1>5. \A e \in Entries : Asked(e)' => Formed(e)'
    BY <1>1, <1>2, <1>4, <1>8
  <1>6. ASSUME NEW f \in TP!Forms, InWork(f)' PROVE TP!FormOf(tasks'[f].entry.kind) = f
    BY <1>6 DEF AskedMoves, AskedInv
  <1>7. ASSUME NEW f \in TP!Forms, tasks'[f].phase = "booked" PROVE \E i \in 1..Len(logbook') : Alike(logbook'[i], tasks'[f].entry)
    <2>1. CASE tasks[f].phase = "booked" /\ tasks'[f].entry = tasks[f].entry
      <3>1. PICK i \in 1..Len(logbook) : Alike(logbook[i], tasks[f].entry)
        BY <2>1 DEF AskedInv
      <3>2. i \in 1..Len(logbook') /\ logbook'[i] = logbook[i]
        BY DEF AskedMoves, TradeTypes
      <3> QED BY <2>1, <3>1, <3>2
    <2> QED BY <1>7, <2>1 DEF AskedMoves
  <1> QED BY <1>5, <1>6, <1>7 DEF AskedInv, Formed, Alike

\* The keys go on as well.
LEMMA KeysGoOn == ASSUME TP!PageAssumption, TradeInv, AskedMoves, KeysMove PROVE KeyInv'
  <1> USE DEF TradeInv
  <1>1. \A e \in Entries : Asked(e)' /\ e.key # 0 => Asked(e)
    <2> SUFFICES ASSUME NEW e \in Entries, Asked(e)', e.key # 0 PROVE Asked(e)
      OBVIOUS
    <2>1. CASE e \in lost'
      BY <2>1 DEF AskedMoves
    <2>2. CASE \E i \in 1..Len(logbook') : logbook'[i] = e
      <3>1. PICK i \in 1..Len(logbook') : logbook'[i] = e
        BY <2>2
      <3>2. i \in 1..Len(logbook) => Asked(e)
        BY <3>1 DEF AskedMoves, Asked
      <3> QED BY <3>1, <3>2 DEF AskedMoves, Plain
    <2>3. CASE \E f \in TP!Forms : InWork(f)' /\ tasks'[f].entry = e
      <3>1. PICK f \in TP!Forms : InWork(f)' /\ tasks'[f].entry = e
        BY <2>3
      <3>2. InWork(f) /\ tasks'[f].entry = tasks[f].entry => Asked(e)
        BY <3>1 DEF Asked
      <3> QED BY <3>1, <3>2 DEF AskedMoves, Plain
    <2> QED BY <2>1, <2>2, <2>3 DEF Asked
  <1>2. \A k \in Captures : capture[k] \in Inputs /\ capture'[k] \in Inputs
    BY DEF TradeTypes, KeysMove
  <1>3. ASSUME NEW k \in Captures
        PROVE  /\ capture'[k].key <= submits' /\ (capture'[k].stored # "none" => capture'[k].key # 0)
               /\ capture'[k].input <= MaxInputs + 1
    <2>1. capture[k].key <= submits /\ (capture[k].stored # "none" => capture[k].key # 0) /\ capture[k].input <= MaxInputs + 1
      BY DEF KeyInv
    <2>2. submits \in Nat /\ submits' \in Nat /\ submits <= submits' /\ MaxInputs \in Nat
      BY DEF TradeTypes, KeysMove, TP!PageAssumption
    <2> QED BY <1>2, <2>1, <2>2 DEF KeysMove, Inputs
  <1>4. ASSUME NEW k \in Captures, NEW f \in TP!Forms, InWork(f)', tasks'[f].entry.kind = k
        PROVE  capture'[k].input = tasks'[f].entry.input /\ capture'[k].input <= MaxInputs
    <2>1. InWork(f) /\ tasks'[f].entry = tasks[f].entry
      BY <1>4 DEF AskedMoves
    <2>2. capture'[k] = capture[k]
      BY <1>4 DEF KeysMove
    <2> QED BY <1>4, <2>1, <2>2 DEF KeyInv
  <1>5. ASSUME NEW e \in Entries, Asked(e)', Keyed(e)
        PROVE  /\ e.key <= submits' /\ e.input <= capture'[e.kind].input
               /\ e.input = capture'[e.kind].input =>
                     capture'[e.kind].stored = capture'[e.kind].payload /\ e.key = capture'[e.kind].key
    <2>1. PICK k \in Captures : k = e.kind
      BY <1>5 DEF Keyed
    <2>2. /\ e.key <= submits /\ e.input <= capture[k].input
          /\ e.input = capture[k].input => capture[k].stored = capture[k].payload /\ e.key = capture[k].key
      BY <1>1, <1>5, <2>1 DEF KeyInv, Keyed
    <2>3. submits \in Nat /\ submits' \in Nat /\ submits <= submits'
      BY DEF TradeTypes, KeysMove
    <2>4. capture'[k] = capture[k] \/ capture'[k].input = capture[k].input + 1
      BY DEF KeysMove
    <2>5. e.input \in Nat /\ e.key \in Nat /\ capture[k].input \in Nat
      BY <1>2 DEF Entries, Inputs
    <2> QED BY <2>1, <2>2, <2>3, <2>4, <2>5
  <1>6. ASSUME NEW e \in Entries, NEW d \in Entries, Asked(e)', Asked(d)', Keyed(e), Keyed(d), e.kind = d.kind, e.input = d.input
        PROVE  e.key = d.key
    BY <1>1, <1>6 DEF KeyInv, Keyed
  <1> QED BY <1>3, <1>4, <1>5, <1>6 DEF KeyInv, KeysMove, Keyed

\* A log that is left alone has its last entries.
LEMMA SameLog == ASSUME LastInv, logbook' = logbook PROVE LastInv'
  <1>1. \A m \in 1..Len(logbook') : \E i \in 1..Len(logbook') :
           Alike(logbook'[i], logbook'[m]) /\ \A j \in i + 1..Len(logbook') : ~Alike(logbook'[j], logbook'[m])
    BY DEF LastInv
  <1>2. \A n \in 1..Len(logbook') : (\E m \in 1..n : logbook'[m].kind = "stop") =>
           \E i \in 1..n : logbook'[i].kind = "stop" /\ \A j \in 1..n : logbook'[j].kind = "stop" => j <= i
    BY DEF LastInv
  <1> QED BY <1>1, <1>2 DEF LastInv, Alike

\* A form that goes on.
Phases == {"idle", "sent", "booked", "refused", "reads"}
LEMMA TaskMoves ==
  ASSUME TradeTypes, NEW f \in TP!Forms, NEW p \in Phases, tasks' = [tasks EXCEPT ![f].phase = p]
  PROVE  /\ tasks' \in [TP!Forms -> FormTasks] /\ tasks'[f].phase = p /\ tasks'[f].entry = tasks[f].entry
         /\ \A g \in TP!Forms : g # f => tasks'[g] = tasks[g]
  <1>1. tasks[f] \in FormTasks /\ tasks'[f] = [tasks[f] EXCEPT !.phase = p]
    BY DEF TradeTypes
  <1>2. tasks'[f] \in FormTasks /\ tasks'[f].phase = p /\ tasks'[f].entry = tasks[f].entry
    BY <1>1 DEF FormTasks, Phases
  <1> QED BY <1>2 DEF TradeTypes

\* What is in work is locked, and its form is that of its kind.
LEMMA WorkIsLocked ==
  ASSUME TradeInv, NEW f \in TP!Forms, InWork(f)
  PROVE  TP!Locked(f) /\ Asked(tasks[f].entry) /\ tasks[f].entry \in Entries /\ tasks[f].entry.kind # "none"
  <1>1. tasks[f].entry \in Entries /\ Asked(tasks[f].entry)
    BY DEF TradeInv, TradeTypes, FormTasks, Asked
  <1>2. tasks[f].entry.kind # "none"
    BY <1>1 DEF TradeInv, AskedInv
  <1> QED BY <1>1, <1>2, TradeValues DEF TP!Locked, InWork

\* A read that is under way, and what was read, lose nothing when more is written.
LEMMA ReadsGoOn ==
  ASSUME TP!PageAssumption, TradeInv, UNCHANGED <<page, panel, reads, heard>>, submits' \in Nat, submits' <= MaxSubmits,
         logbook' \in Seq(Entries), Len(logbook) <= Len(logbook'), Len(logbook') \in 1..MaxWrites
  PROVE  ReadInv' /\ StopInv' /\ panel'.editor <= Len(logbook') /\ panel'.recovery.target <= Len(logbook')
  <1> USE DEF TradeInv
  <1>1. PICK n \in Nat, m \in Nat : n = Len(logbook) /\ m = Len(logbook') /\ n <= m /\ m \in 1..MaxWrites
    BY DEF TradeTypes, TP!PageAssumption
  <1>2. /\ page \in Shows /\ panel \in Panels /\ heard \in Nat /\ reads \subseteq PageReads
        /\ page' = page /\ panel' = panel /\ reads' = reads /\ heard' = heard
    BY DEF TradeTypes
  <1>3. StopInv'
    BY <1>2 DEF StopInv, Stops, TP!Elsewhere
  <1>4. panel.editor <= m /\ panel.recovery.target <= m
    BY <1>1, <1>2 DEF LockInv, Panels
  <1>5. heard <= m /\ page.shown <= m /\ panel.entries <= m
    BY <1>1, <1>2 DEF ReadInv, Shows, Panels
  <1>6. \A r \in reads : r.since \in heard..m /\ r.since # 0
    BY <1>1, <1>2 DEF ReadInv, PageReads
  <1>7. panel.failed = FALSE /\ ~TP!Loading("panel") => panel.entries >= heard
    BY DEF ReadInv
  <1>8. TP!Loading("panel")' <=> TP!Loading("panel")
    BY <1>2 DEF TP!Loading
  <1>9. page.ready = TRUE => page.shown >= heard
    BY DEF ReadInv
  <1> QED BY <1>1, <1>2, <1>3, <1>4, <1>5, <1>6, <1>7, <1>8, <1>9 DEF ReadInv

\* The server answers a form that waits.
LEMMA TradeServe == ASSUME TP!PageAssumption, TradeInv, NEW f \in TP!Forms, TP!Serve(f) PROVE TradeInv'
  <1> USE DEF TradeInv
  <1>1. /\ tasks[f].phase = "sent" /\ tasks' = [tasks EXCEPT ![f].phase = "booked"] /\ TP!Written(tasks[f].entry)
        /\ UNCHANGED <<lost, page, panel, reads, capture, submits, heard>>
    BY DEF TP!Serve
  <1>2. InWork(f) /\ TP!Locked(f) /\ Asked(tasks[f].entry) /\ tasks[f].entry \in Entries
    BY <1>1, WorkIsLocked DEF InWork
  <1>3. /\ tasks' \in [TP!Forms -> FormTasks] /\ tasks'[f].phase = "booked" /\ tasks'[f].entry = tasks[f].entry
        /\ \A g \in TP!Forms : g # f => tasks'[g] = tasks[g]
    BY <1>1, TaskMoves DEF Phases
  <1> DEFINE e == tasks[f].entry
  <1>4. /\ logbook' \in Seq(Entries) /\ Len(logbook) <= Len(logbook') /\ Len(logbook') \in 1..MaxWrites
        /\ \A i \in 1..Len(logbook) : logbook'[i] = logbook[i]
        /\ \A i \in 1..Len(logbook') : logbook'[i] = e \/ i \in 1..Len(logbook)
        /\ \E i \in 1..Len(logbook') : Alike(logbook'[i], e)
        /\ \A i, j \in 1..Len(logbook') : logbook'[i].key # 0 /\ logbook'[i].kind = logbook'[j].kind /\ logbook'[i].key = logbook'[j].key => i = j
        /\ LastInv'
    BY <1>1, <1>2, WriteGoesOn
  <1>5. AskedMoves
    <2>1. \A i \in 1..Len(logbook') : i \in 1..Len(logbook) \/ Asked(logbook'[i])
      BY <1>2, <1>4
    <2>2. lost' \subseteq Entries /\ \A d \in lost' : Asked(d)
      BY <1>1 DEF TradeTypes, Asked
    <2>3. page'.count \in Nat /\ page'.count >= page.count
      BY <1>1 DEF TradeTypes, Shows
    <2>4. \A g \in TP!Forms : InWork(g)' => InWork(g) /\ tasks'[g].entry = tasks[g].entry
      BY <1>2, <1>3 DEF InWork
    <2>5. \A g \in TP!Forms : tasks'[g].phase = "booked" =>
             \/ tasks[g].phase = "booked" /\ tasks'[g].entry = tasks[g].entry
             \/ \E i \in 1..Len(logbook') : Alike(logbook'[i], tasks'[g].entry)
      BY <1>3, <1>4
    <2> QED BY <1>3, <1>4, <2>1, <2>2, <2>3, <2>4, <2>5 DEF AskedMoves
  <1>6. KeysMove
    BY <1>1, <1>4 DEF KeysMove, TradeTypes
  <1>7. ReadInv' /\ StopInv' /\ panel'.editor <= Len(logbook') /\ panel'.recovery.target <= Len(logbook')
    BY <1>1, <1>4, ReadsGoOn DEF TradeTypes, ReadInv
  <1>8. TradeTypes'
    BY <1>1, <1>3, <1>4 DEF TradeTypes
  <1>9. LockInv'
    <2>1. \A g \in TP!Forms : TP!Locked(g)' => TP!Locked(g)
      BY <1>2, <1>3 DEF TP!Locked
    <2>2. \A g \in TP!Forms : TP!Writes(g)' => TP!Writes(g)
      BY <1>1, <1>3 DEF TP!Writes
    <2> QED BY <1>1, <1>7, <2>1, <2>2 DEF LockInv
  <1> QED BY <1>4, <1>5, <1>6, <1>7, <1>8, <1>9, AskedGoesOn, KeysGoOn

\* The server, or another tab, writes an entry that no form waits for.
LEMMA TradeWritten ==
  ASSUME TP!PageAssumption, TradeInv, NEW e \in Entries, Asked(e) \/ (e.key = 0 /\ Formed(e)), TP!Written(e),
         lost' \subseteq lost, UNCHANGED <<page, panel, tasks, reads, capture, submits, heard>>
  PROVE  TradeInv'
  <1> USE DEF TradeInv
  <1>1. lost' \subseteq lost /\ UNCHANGED <<page, panel, tasks, reads, capture, submits, heard>>
    OBVIOUS
  <1>4. /\ logbook' \in Seq(Entries) /\ Len(logbook) <= Len(logbook') /\ Len(logbook') \in 1..MaxWrites
        /\ \A i \in 1..Len(logbook) : logbook'[i] = logbook[i]
        /\ \A i \in 1..Len(logbook') : logbook'[i] = e \/ i \in 1..Len(logbook)
        /\ \A i, j \in 1..Len(logbook') : logbook'[i].key # 0 /\ logbook'[i].kind = logbook'[j].kind /\ logbook'[i].key = logbook'[j].key => i = j
        /\ LastInv'
    BY WriteGoesOn
  <1>5. AskedMoves
    <2>1. Formed(e) /\ e.key = 0 => Plain(e)
      <3>1. Len(logbook) \in Nat /\ Len(logbook') \in Nat /\ Len(logbook) <= Len(logbook') /\ Stops' = Stops
        BY <1>1, <1>4 DEF TradeTypes, Stops
      <3> QED BY <3>1 DEF Formed, Plain, Entries
    <2>2. \A i \in 1..Len(logbook') : i \in 1..Len(logbook) \/ Asked(logbook'[i]) \/ Plain(logbook'[i])
      BY <1>4, <2>1
    <2>3. lost' \subseteq Entries /\ \A d \in lost' : Asked(d)
      BY <1>1 DEF TradeTypes, Asked
    <2>4. page'.count \in Nat /\ page'.count >= page.count
      BY <1>1 DEF TradeTypes, Shows
    <2>5. \A g \in TP!Forms : (InWork(g)' => InWork(g)) /\ tasks'[g] = tasks[g]
      BY <1>1 DEF InWork
    <2> QED BY <1>1, <1>4, <2>2, <2>3, <2>4, <2>5 DEF AskedMoves, TradeTypes
  <1>6. KeysMove
    BY <1>1, <1>4 DEF KeysMove, TradeTypes
  <1>7. ReadInv' /\ StopInv' /\ panel'.editor <= Len(logbook') /\ panel'.recovery.target <= Len(logbook')
    BY <1>1, <1>4, ReadsGoOn DEF TradeTypes, ReadInv
  <1>8. TradeTypes'
    BY <1>1, <1>4 DEF TradeTypes
  <1>9. LockInv'
    <2>1. \A g \in TP!Forms : tasks'[g] = tasks[g] /\ (TP!Locked(g)' => TP!Locked(g)) /\ (TP!Writes(g)' => TP!Writes(g))
      BY <1>1 DEF TP!Locked, TP!Writes
    <2> QED BY <1>1, <1>7, <2>1 DEF LockInv
  <1> QED BY <1>4, <1>5, <1>6, <1>7, <1>8, <1>9, AskedGoesOn, KeysGoOn

\* A request that nobody waits for arrives.
LEMMA TradeServeLost == ASSUME TP!PageAssumption, TradeInv, NEW e \in lost, TP!ServeLost(e) PROVE TradeInv'
  <1>1. e \in Entries /\ Asked(e)
    BY DEF TradeInv, TradeTypes, Asked
  <1> QED BY <1>1, TradeWritten DEF TP!ServeLost

\* Another tab writes.
LEMMA TradeOtherTab == ASSUME TP!PageAssumption, TradeInv, NEW e, TP!OtherTab(e) PROVE TradeInv'
  <1> USE DEF TradeInv
  <1>1. /\ e \in {TP!Entry("purchase", 0, 0, 0), TP!Entry("stop", 0, TP!Elsewhere, 0)}
                 \cup {TP!Entry("correct", 0, 0, i) : i \in TP!Effective(Len(logbook))}
        /\ TP!Written(e) /\ UNCHANGED <<lost, page, panel, tasks, reads, capture, submits, heard>>
    BY DEF TP!OtherTab
  <1>2. Len(logbook) \in Nat /\ TP!Effective(Len(logbook)) \subseteq 1..Len(logbook) /\ TP!Elsewhere \in Nat /\ TP!Elsewhere \in Stops
    BY DEF TradeTypes, TP!Effective, TP!Elsewhere, TP!PageAssumption, Stops
  <1>3. e \in Entries /\ e.key = 0 /\ e.kind # "none" /\ e.of <= Len(logbook) /\ (e.kind = "stop" => e.input = TP!Elsewhere)
    BY <1>1, <1>2 DEF TP!Entry, Entries, Kinds
  <1> QED BY <1>1, <1>2, <1>3, TradeWritten DEF Formed

\* A step at which nothing more is written or asked.
Quiet ==
    /\ logbook' = logbook /\ capture' = capture /\ submits' = submits /\ lost' \subseteq Entries /\ \A e \in lost' : Asked(e)
    /\ tasks' \in [TP!Forms -> FormTasks] /\ page' \in Shows /\ page'.count >= page.count
    /\ \A f \in TP!Forms : InWork(f)' => InWork(f) /\ tasks'[f].entry = tasks[f].entry
    /\ \A f \in TP!Forms : tasks'[f].phase = "booked" => tasks[f].phase = "booked"
LEMMA QuietGoesOn == ASSUME TP!PageAssumption, TradeInv, Quiet PROVE AskedInv' /\ KeyInv' /\ LastInv'
  <1> USE DEF TradeInv
  <1>1. AskedMoves
    <2>1. \A i \in 1..Len(logbook') : i \in 1..Len(logbook)
      BY DEF Quiet
    <2>2. logbook' \in Seq(Entries) /\ Len(logbook) <= Len(logbook') /\ \A i \in 1..Len(logbook) : logbook'[i] = logbook[i]
      BY DEF Quiet, TradeTypes
    <2>3. \A f \in TP!Forms : tasks'[f].phase = "booked" => tasks[f].phase = "booked" /\ tasks'[f].entry = tasks[f].entry
      BY DEF Quiet, InWork
    <2>4. page'.count \in Nat
      BY DEF Quiet, Shows
    <2> QED BY <2>1, <2>2, <2>3, <2>4 DEF Quiet, AskedMoves
  <1>2. KeysMove
    BY DEF Quiet, KeysMove, TradeTypes, KeyInv
  <1> QED BY <1>1, <1>2, AskedGoesOn, KeysGoOn, SameLog DEF Quiet

\* A page whose read begins anew.
LEMMA InvalidatedIs ==
  ASSUME TradeTypes
  PROVE  /\ TP!Invalidated \in Shows /\ TP!Invalidated.ready = FALSE /\ TP!Invalidated.shown = page.shown
         /\ TP!Invalidated.draft = page.draft /\ TP!Invalidated.basis = page.basis
         /\ TP!Invalidated.typed = page.typed /\ TP!Invalidated.count = page.count
  BY DEF TradeTypes, Shows, TP!Invalidated
LEMMA StopStays ==
  ASSUME StopInv, page'.draft = page.draft, page'.basis = page.basis, page'.typed = page.typed, page'.count = page.count
  PROVE  StopInv'
  <1>1. Stops' = Stops
    BY DEF Stops, TP!Elsewhere
  <1> QED BY <1>1 DEF StopInv
LEMMA ReadsBegin ==
  ASSUME TP!PageAssumption, TradeInv, logbook' = logbook, submits' = submits, heard' \in Nat, heard' <= Len(logbook),
         NEW x \in {"page", "purchase", "bookings", "lookup", "nobody"},
         NEW y \in {"page", "purchase", "bookings", "lookup", "nobody"},
         reads' = TP!Begin(TP!Begin(reads, "panel", x), "page", y),
         page' \in Shows, page'.ready = FALSE, page'.shown = page.shown, panel' \in Panels, panel'.entries = panel.entries
  PROVE  ReadInv' /\ reads' \subseteq PageReads
  <1> USE DEF TradeInv
  <1>1. reads' \subseteq PageReads /\ (\A r \in reads' : r.since = Len(logbook)) /\ \E r \in reads' : r.of = "panel"
    BY BothReads
  <1>2. TP!Loading("panel")'
    BY <1>1 DEF TP!Loading
  <1>3. PICK n \in Nat : n = Len(logbook) /\ n \in 1..MaxWrites /\ submits <= MaxSubmits /\ page.shown <= n /\ panel.entries <= n
    BY DEF ReadInv, TradeTypes
  <1>4. \A r \in reads' : r.since \in heard'..n /\ r.since # 0
    BY <1>1, <1>3
  <1> QED BY <1>1, <1>2, <1>3, <1>4 DEF ReadInv

\* A request that was refused or has no answer; one that is refused.
LEMMA TradeRefuse == ASSUME TP!PageAssumption, TradeInv, NEW f \in TP!Forms, TP!Refuse(f) PROVE TradeInv'
  <1> USE DEF TradeInv
  <1>1. /\ tasks[f].phase = "sent" /\ tasks' = [tasks EXCEPT ![f].phase = "refused"]
        /\ UNCHANGED <<logbook, lost, page, panel, reads, capture, submits, heard>>
    BY DEF TP!Refuse
  <1>2. /\ tasks' \in [TP!Forms -> FormTasks] /\ tasks'[f].phase = "refused" /\ tasks'[f].entry = tasks[f].entry
        /\ \A g \in TP!Forms : g # f => tasks'[g] = tasks[g]
    BY <1>1, TaskMoves DEF Phases
  <1>3. Quiet
    <2>1. \A g \in TP!Forms : InWork(g)' => InWork(g) /\ tasks'[g].entry = tasks[g].entry
      BY <1>1, <1>2 DEF InWork
    <2>2. \A g \in TP!Forms : tasks'[g].phase = "booked" => tasks[g].phase = "booked"
      BY <1>2
    <2>3. lost' \subseteq Entries /\ (\A d \in lost' : Asked(d)) /\ page' \in Shows /\ page'.count >= page.count
      BY <1>1 DEF TradeTypes, Asked, Shows
    <2> QED BY <1>1, <1>2, <2>1, <2>2, <2>3 DEF Quiet
  <1>4. ReadInv' /\ StopInv' /\ panel'.editor <= Len(logbook') /\ panel'.recovery.target <= Len(logbook')
    <2>1. /\ submits' \in Nat /\ submits' <= MaxSubmits /\ logbook' \in Seq(Entries) /\ Len(logbook') \in 1..MaxWrites
          /\ Len(logbook) <= Len(logbook')
      BY <1>1 DEF TradeTypes, ReadInv
    <2> QED BY <1>1, <2>1, ReadsGoOn
  <1>5. LockInv'
    <2>1. \A g \in TP!Forms : TP!Locked(g)' => TP!Locked(g)
      BY <1>1, <1>2 DEF TP!Locked
    <2>2. \A g \in TP!Forms : TP!Writes(g)' => TP!Writes(g)
      BY <1>1, <1>2 DEF TP!Writes
    <2> QED BY <1>1, <1>4, <2>1, <2>2 DEF LockInv
  <1>6. TradeTypes'
    BY <1>1, <1>2 DEF TradeTypes
  <1> QED BY <1>3, <1>4, <1>5, <1>6, QuietGoesOn

\* A form that is done with its request.
LEMMA TaskIsIdle ==
  ASSUME TradeTypes, NEW f \in TP!Forms, tasks' = [tasks EXCEPT ![f] = TP!Idle]
  PROVE  /\ tasks' \in [TP!Forms -> FormTasks] /\ tasks'[f] = TP!Idle /\ tasks'[f].phase = "idle"
         /\ \A g \in TP!Forms : g # f => tasks'[g] = tasks[g]
  BY TradeValues DEF TradeTypes
LEMMA IdleLocks ==
  ASSUME TradeInv, NEW f \in TP!Forms, tasks' = [tasks EXCEPT ![f] = TP!Idle]
  PROVE  /\ \A g \in TP!Forms : TP!Locked(g)' => TP!Locked(g)
         /\ \A g \in TP!Forms : TP!Writes(g)' => TP!Writes(g)
         /\ \A g \in TP!Forms : InWork(g)' => InWork(g) /\ tasks'[g].entry = tasks[g].entry
         /\ \A g \in TP!Forms : tasks'[g].phase = "booked" => tasks[g].phase = "booked"
  <1>1. /\ tasks' \in [TP!Forms -> FormTasks] /\ tasks'[f].phase = "idle" /\ tasks'[f] = TP!Idle
        /\ \A g \in TP!Forms : g # f => tasks'[g] = tasks[g]
    BY TaskIsIdle DEF TradeInv
  <1> QED BY <1>1 DEF TP!Locked, TP!Writes, InWork, TradeInv, LockInv
LEMMA TradeDone ==
  ASSUME TP!PageAssumption, TradeInv, NEW f \in TP!Forms, tasks' = [tasks EXCEPT ![f] = TP!Idle],
         lost' \subseteq Entries, \A e \in lost' : Asked(e), UNCHANGED <<logbook, page, panel, reads, capture, submits, heard>>
  PROVE  TradeInv'
  <1> USE DEF TradeInv
  <1>1. UNCHANGED <<logbook, page, panel, reads, capture, submits, heard>>
    OBVIOUS
  <1>2. tasks' \in [TP!Forms -> FormTasks]
    BY TaskIsIdle
  <1>3. Quiet
    <2>1. page' \in Shows /\ page'.count >= page.count
      BY <1>1 DEF TradeTypes, Shows
    <2> QED BY <1>1, <1>2, <2>1, IdleLocks DEF Quiet
  <1>4. ReadInv' /\ StopInv' /\ panel'.editor <= Len(logbook') /\ panel'.recovery.target <= Len(logbook')
    <2>1. /\ submits' \in Nat /\ submits' <= MaxSubmits /\ logbook' \in Seq(Entries) /\ Len(logbook') \in 1..MaxWrites
          /\ Len(logbook) <= Len(logbook')
      BY <1>1 DEF TradeTypes, ReadInv
    <2> QED BY <1>1, <2>1, ReadsGoOn
  <1>5. LockInv'
    BY <1>1, <1>4, IdleLocks DEF LockInv
  <1>6. TradeTypes'
    BY <1>1, <1>2 DEF TradeTypes
  <1> QED BY <1>3, <1>4, <1>5, <1>6, QuietGoesOn

\* The list of bookings goes on to read: at a refusal, or when the outcome is not known.
LEMMA ListReads ==
  ASSUME TradeInv, NEW f \in TP!Forms, InWork(f), tasks' = [tasks EXCEPT ![f].phase = "reads"]
  PROVE  /\ tasks' \in [TP!Forms -> FormTasks] /\ \A g \in TP!Forms : TP!Locked(g)' => TP!Locked(g)
         /\ \A g \in TP!Forms : ~TP!Writes(g)'
         /\ \A g \in TP!Forms : InWork(g)' => InWork(g) /\ tasks'[g].entry = tasks[g].entry
         /\ \A g \in TP!Forms : tasks'[g].phase = "booked" => tasks[g].phase = "booked"
         /\ ~InWork(f)'
  <1>1. /\ tasks' \in [TP!Forms -> FormTasks] /\ tasks'[f].phase = "reads" /\ tasks'[f].entry = tasks[f].entry
        /\ \A g \in TP!Forms : g # f => tasks'[g] = tasks[g]
    BY TaskMoves DEF TradeInv, Phases
  <1>2. TP!Locked(f)
    BY WorkIsLocked
  <1>3. \A g \in TP!Forms : g # f => ~InWork(g)
    BY <1>2, WorkIsLocked DEF TradeInv, LockInv
  <1>4. \A g \in TP!Forms : ~TP!Writes(g)'
    BY <1>1, <1>3 DEF TP!Writes, InWork
  <1>5. \A g \in TP!Forms : TP!Locked(g)' => TP!Locked(g)
    BY <1>1, <1>2 DEF TP!Locked
  <1> QED BY <1>1, <1>4, <1>5 DEF InWork, TradeInv, LockInv
LEMMA TradeRefused == ASSUME TP!PageAssumption, TradeInv, NEW f \in TP!Forms, TP!Refused(f) PROVE TradeInv'
  <1> USE DEF TradeInv
  <1>1. tasks[f].phase = "refused" /\ UNCHANGED <<logbook, lost, page, capture, submits, heard>>
    BY DEF TP!Refused
  <1>2. CASE f # "bookings"
    <2>1. tasks' = [tasks EXCEPT ![f] = TP!Idle] /\ UNCHANGED <<panel, reads>>
      BY <1>2 DEF TP!Refused
    <2>2. lost' \subseteq Entries /\ \A e \in lost' : Asked(e)
      BY <1>1 DEF TradeTypes, Asked
    <2> QED BY <1>1, <2>1, <2>2, TradeDone
  <1>3. CASE f = "bookings"
    <2>1. /\ reads' = TP!Begin(reads, "panel", "bookings") /\ panel' = [panel EXCEPT !.failed = FALSE]
          /\ tasks' = [tasks EXCEPT ![f].phase = "reads"] /\ InWork(f)
      BY <1>1, <1>3 DEF TP!Refused, TP!AwaitReads, InWork
    <2>2. /\ panel' \in Panels /\ panel'.entries = panel.entries /\ panel'.editor = panel.editor
          /\ panel'.recovery = panel.recovery
      BY <2>1 DEF TradeTypes, Panels
    <2>3. Quiet
      <3>1. page' \in Shows /\ page'.count >= page.count /\ lost' \subseteq Entries /\ \A e \in lost' : Asked(e)
        BY <1>1 DEF TradeTypes, Shows, Asked
      <3> QED BY <1>1, <2>1, <3>1, ListReads DEF Quiet
    <2>4. /\ reads' \subseteq PageReads /\ (\A r \in reads' : r \in reads \/ (r.since = Len(logbook) /\ r.of = "panel"))
          /\ TP!Loading("panel")'
      <3>1. reads' \subseteq PageReads /\ \A r \in reads' : r \in reads \/ (r.since = Len(logbook) /\ r.of = "panel")
        BY <2>1, PanelReads
      <3>2. TP!Read("panel", Len(logbook), "bookings") \in reads' /\ TP!Read("panel", Len(logbook), "bookings").of = "panel"
        BY <2>1 DEF TP!Begin, TP!Read
      <3> QED BY <3>1, <3>2 DEF TP!Loading
    <2>5. ReadInv'
      <3>1. Len(logbook) \in Nat /\ heard \in Nat /\ heard <= Len(logbook) /\ Len(logbook) # 0
        BY DEF TradeTypes, ReadInv
      <3>2. \A r \in reads' : r.since \in heard..Len(logbook) /\ r.since # 0
        BY <2>4, <3>1 DEF ReadInv
      <3> QED BY <1>1, <2>2, <2>4, <3>2 DEF ReadInv
    <2>6. StopInv'
      BY <1>1, StopStays
    <2>7. LockInv'
      BY <1>1, <2>1, <2>2, ListReads DEF LockInv
    <2>8. TradeTypes'
      BY <1>1, <2>1, <2>2, <2>4, ListReads DEF TradeTypes
    <2> QED BY <2>3, <2>5, <2>6, <2>7, <2>8, QuietGoesOn
  <1> QED BY <1>2, <1>3
LEMMA TradeNoAnswer == ASSUME TP!PageAssumption, TradeInv, NEW f \in TP!Forms, TP!NoAnswer(f) PROVE TradeInv'
  <1> USE DEF TradeInv
  <1>1. /\ tasks[f].phase \in {"sent", "booked"} /\ lost' = lost \cup TP!Orphans({f})
        /\ UNCHANGED <<logbook, capture, submits, heard>>
    BY DEF TP!NoAnswer
  <1>2. InWork(f)
    BY <1>1 DEF InWork
  <1>3. lost' \subseteq Entries /\ \A e \in lost' : Asked(e)
    <2>1. TP!Orphans({f}) \subseteq {tasks[f].entry}
      BY DEF TP!Orphans
    <2> QED BY <1>1, <1>2, <2>1, WorkIsLocked DEF TradeTypes, Asked
  <1>4. CASE f # "bookings"
    <2>1. tasks' = [tasks EXCEPT ![f] = TP!Idle] /\ UNCHANGED <<page, panel, reads>>
      BY <1>4 DEF TP!NoAnswer
    <2> QED BY <1>1, <1>3, <2>1, TradeDone
  <1>5. CASE f = "bookings"
    <2>1. /\ reads' = TP!Begin(TP!Begin(reads, "panel", f), "page", f) /\ page' = TP!Invalidated
          /\ panel' = [panel EXCEPT !.failed = FALSE, !.recovery = [target |-> tasks[f].entry.of, confirmed |-> FALSE]]
          /\ tasks' = [tasks EXCEPT ![f].phase = "reads"]
      BY <1>5 DEF TP!NoAnswer, TP!AwaitReads
    <2>2. tasks[f].entry.of \in Nat /\ tasks[f].entry.of <= Len(logbook)
      BY <1>2, WorkIsLocked DEF AskedInv, Entries
    <2>3. /\ panel' \in Panels /\ panel'.entries = panel.entries /\ panel'.editor = panel.editor
          /\ panel'.recovery.target = tasks[f].entry.of
      BY <2>1, <2>2 DEF TradeTypes, Panels
    <2>4. page' \in Shows /\ page'.ready = FALSE /\ page'.shown = page.shown /\ page'.count = page.count /\ StopInv'
      BY <2>1, InvalidatedIs, StopStays
    <2>5. ReadInv' /\ reads' \subseteq PageReads
      BY <1>1, <1>5, <2>1, <2>3, <2>4, ReadsBegin DEF TradeTypes, ReadInv
    <2>6. Quiet
      <3>1. page'.count >= page.count
        BY <2>4 DEF Shows
      <3> QED BY <1>1, <1>2, <1>3, <2>1, <2>4, <3>1, ListReads DEF Quiet
    <2>7. LockInv'
      BY <1>1, <1>2, <2>1, <2>2, <2>3, ListReads DEF LockInv
    <2>8. TradeTypes'
      BY <1>1, <1>2, <1>3, <2>1, <2>3, <2>4, <2>5, ListReads DEF TradeTypes
    <2> QED BY <2>4, <2>5, <2>6, <2>7, <2>8, QuietGoesOn
  <1> QED BY <1>4, <1>5

\* A form that sends is the only one at work.
LEMMA SendIs ==
  ASSUME TP!PageAssumption, TradeInv, NEW f \in TP!Forms, NEW e \in Entries, e.kind # "none",
         ~TP!IsBusy, panel.recovery = TP!Clear, TP!Send(f, e), UNCHANGED <<logbook, panel>>
  PROVE  /\ tasks' \in [TP!Forms -> FormTasks] /\ tasks'[f].phase = "sent" /\ tasks'[f].entry = e
         /\ \A g \in TP!Forms : ~InWork(g) /\ (InWork(g)' => g = f)
         /\ \A g \in TP!Forms : tasks'[g].phase # "booked"
         /\ LockInv' /\ submits' = submits + 1 /\ submits \in Nat /\ submits' \in Nat /\ submits' <= MaxSubmits
  <1> USE DEF TradeInv
  <1> DEFINE t == [TP!Idle EXCEPT !.phase = "sent", !.entry = e]
  <1>1. t \in FormTasks /\ t.phase = "sent" /\ t.entry = e
    BY TradeValues DEF FormTasks
  <1>2. submits < MaxSubmits /\ submits' = submits + 1 /\ tasks' = [tasks EXCEPT ![f] = t]
    BY DEF TP!Send
  <1> HIDE DEF t
  <1>3. tasks' \in [TP!Forms -> FormTasks] /\ tasks'[f] = t /\ \A g \in TP!Forms : g # f => tasks'[g] = tasks[g]
    BY <1>1, <1>2 DEF TradeTypes
  <1>4. \A g \in TP!Forms : ~TP!Locked(g) /\ ~InWork(g)
    BY WorkIsLocked DEF TP!IsBusy
  <1>5. \A g \in TP!Forms : InWork(g)' => g = f
    BY <1>3, <1>4 DEF InWork
  <1>6. \A g \in TP!Forms : tasks'[g].phase # "booked"
    BY <1>1, <1>3, <1>4 DEF InWork
  <1>7. \A g \in TP!Forms : TP!Locked(g)' => g = f
    BY <1>3, <1>4 DEF TP!Locked
  <1>9. submits \in Nat /\ submits' \in Nat /\ submits' <= MaxSubmits
    BY <1>2 DEF TradeTypes, TP!PageAssumption
  <1>10. LockInv'
    BY <1>7 DEF LockInv
  <1> QED BY <1>1, <1>2, <1>3, <1>4, <1>5, <1>6, <1>9, <1>10

\* A stop or a correction is sent, which has no key.
LEMMA TradeSendsPlain ==
  ASSUME TP!PageAssumption, TradeInv, NEW f \in TP!Forms, NEW e \in Entries,
         e.key = 0, e.kind \in {"stop", "correct"}, TP!FormOf(e.kind) = f, Formed(e),
         ~TP!IsBusy, panel.recovery = TP!Clear, TP!Send(f, e), UNCHANGED <<logbook, lost, page, panel, reads, capture, heard>>
  PROVE  TradeInv'
  <1> USE DEF TradeInv
  <1>1. UNCHANGED <<logbook, lost, page, panel, reads, capture, heard>>
    OBVIOUS
  <1>2. /\ tasks' \in [TP!Forms -> FormTasks] /\ tasks'[f].phase = "sent" /\ tasks'[f].entry = e
        /\ \A g \in TP!Forms : ~InWork(g) /\ (InWork(g)' => g = f)
        /\ \A g \in TP!Forms : tasks'[g].phase # "booked"
        /\ LockInv' /\ submits' = submits + 1 /\ submits \in Nat /\ submits' \in Nat /\ submits' <= MaxSubmits
    <2>1. e.kind # "none"
      OBVIOUS
    <2> QED BY <1>1, <2>1, SendIs
  <1>3. Plain(e) /\ e.kind \notin Captures
    <2>1. Stops' = Stops
      BY <1>1 DEF Stops
    <2> QED BY <1>1, <2>1 DEF Plain, Formed, TP!PageAssumption
  <1>4. AskedMoves
    <2>1. logbook' \in Seq(Entries) /\ Len(logbook) <= Len(logbook') /\ \A i \in 1..Len(logbook') : logbook'[i] = logbook[i] /\ i \in 1..Len(logbook)
      BY <1>1 DEF TradeTypes
    <2>2. lost' \subseteq Entries /\ \A d \in lost' : Asked(d)
      BY <1>1 DEF TradeTypes, Asked
    <2>3. page'.count \in Nat /\ page'.count >= page.count
      BY <1>1 DEF TradeTypes, Shows
    <2>4. \A g \in TP!Forms : InWork(g)' =>
             /\ Plain(tasks'[g].entry) /\ tasks'[g].entry.kind \notin Captures /\ TP!FormOf(tasks'[g].entry.kind) = g
      BY <1>2, <1>3
    <2> QED BY <1>1, <1>2, <2>1, <2>2, <2>3, <2>4 DEF AskedMoves
  <1>5. KeysMove
    BY <1>1, <1>2 DEF KeysMove, TradeTypes, KeyInv
  <1>6. ReadInv' /\ StopInv'
    <2>1. logbook' \in Seq(Entries) /\ Len(logbook') \in 1..MaxWrites /\ Len(logbook) <= Len(logbook')
      BY <1>1 DEF TradeTypes, ReadInv
    <2> QED BY <1>1, <1>2, <2>1, ReadsGoOn
  <1>7. TradeTypes'
    BY <1>1, <1>2 DEF TradeTypes
  <1> QED BY <1>1, <1>2, <1>4, <1>5, <1>6, <1>7, AskedGoesOn, KeysGoOn, SameLog
LEMMA TradeSubmitStop == ASSUME TP!PageAssumption, TradeInv, TP!SubmitStop PROVE TradeInv'
  <1> USE DEF TradeInv
  <1> DEFINE e == TP!Entry("stop", 0, page.draft, 0)
  <1>1. /\ ~TP!IsBusy /\ panel.recovery = TP!Clear /\ TP!Send("page", e)
        /\ UNCHANGED <<logbook, lost, page, panel, reads, capture, heard>>
    BY DEF TP!SubmitStop, TP!Blocked
  <1>2. e \in Entries /\ e.key = 0 /\ e.kind = "stop" /\ e.of = 0 /\ e.input = page.draft
    BY DEF TP!Entry, Entries, Kinds, TradeTypes, Shows
  <1>3. "page" \in TP!Forms /\ TP!FormOf("stop") = "page" /\ page.draft \in Stops
    BY DEF TP!Forms, TP!FormOf, StopInv
  <1>4. Formed(e)
    BY <1>2, <1>3 DEF Formed, TradeTypes
  <1> HIDE DEF e
  <1> QED BY <1>1, <1>2, <1>3, <1>4, TradeSendsPlain
LEMMA TradeSubmitCorrection == ASSUME TP!PageAssumption, TradeInv, TP!SubmitCorrection PROVE TradeInv'
  <1> USE DEF TradeInv
  <1> DEFINE e == TP!Entry("correct", 0, 0, panel.editor)
  <1>1. /\ ~TP!IsBusy /\ panel.recovery = TP!Clear /\ TP!Send("bookings", e)
        /\ UNCHANGED <<logbook, lost, page, panel, reads, capture, heard>>
    BY DEF TP!SubmitCorrection
  <1>2. e \in Entries /\ e.key = 0 /\ e.kind = "correct" /\ e.of = panel.editor
    BY DEF TP!Entry, Entries, Kinds, TradeTypes, Panels
  <1>3. "bookings" \in TP!Forms /\ TP!FormOf("correct") = "bookings" /\ panel.editor <= Len(logbook)
    BY DEF TP!Forms, TP!FormOf, LockInv
  <1>4. Formed(e)
    BY <1>2, <1>3 DEF Formed
  <1> HIDE DEF e
  <1> QED BY <1>1, <1>2, <1>3, <1>4, TradeSendsPlain

\* A sale or a purchase is sent, with the key that is stored for its payload.
LEMMA TradeSubmitCapture ==
  ASSUME TP!PageAssumption, TradeInv, NEW k \in Captures, TP!SubmitCapture(k) PROVE TradeInv'
  <1> USE DEF TradeInv
  <1> DEFINE c == capture[k]
             key == TP!KeyOf(c)
             e == TP!Entry(k, key, c.input, 0)
             f == TP!FormOf(k)
             w == [c EXCEPT !.stored = c.payload, !.key = key]
  <1>1. /\ ~TP!IsBusy /\ panel.recovery = TP!Clear /\ TP!Send(f, e) /\ c.input <= MaxInputs
        /\ capture' = [capture EXCEPT ![k] = w]
        /\ UNCHANGED <<logbook, lost, page, panel, reads, heard>>
    BY DEF TP!SubmitCapture, TP!Blocked
  <1>2. c \in Inputs /\ c.key <= submits /\ (c.stored # "none" => c.key # 0) /\ submits \in Nat
    BY DEF TradeTypes, KeyInv
  <1>3. key \in Nat /\ key # 0 /\ key <= submits + 1 /\ (c.stored = c.payload => key = c.key)
    BY <1>2 DEF TP!KeyOf, Inputs
  <1> HIDE DEF key
  <1>4. k \in {"sale", "purchase"} /\ f \in TP!Forms
    BY DEF TP!PageAssumption, TP!FormOf, TP!Forms
  <1>5. e \in Entries /\ e.key = key /\ e.kind = k /\ e.input = c.input /\ e.of = 0
    BY <1>2, <1>3, <1>4 DEF TP!Entry, Entries, Kinds, Inputs
  <1>6. w \in Inputs /\ w.stored = w.payload /\ w.key = key /\ w.input = c.input /\ w.stored # "none"
    BY <1>2, <1>3 DEF Inputs
  <1> HIDE DEF e, w
  <1>7. /\ capture' \in [Captures -> Inputs] /\ capture'[k] = w
        /\ \A j \in Captures : j # k => capture'[j] = capture[j]
    BY <1>1, <1>6 DEF TradeTypes
  <1>8. /\ tasks' \in [TP!Forms -> FormTasks] /\ tasks'[f].phase = "sent" /\ tasks'[f].entry = e
        /\ \A g \in TP!Forms : ~InWork(g) /\ (InWork(g)' => g = f)
        /\ \A g \in TP!Forms : tasks'[g].phase # "booked"
        /\ LockInv' /\ submits' = submits + 1 /\ submits' \in Nat /\ submits' <= MaxSubmits
    <2>1. e.kind # "none"
      BY <1>4, <1>5
    <2> HIDE DEF f
    <2> QED BY <1>1, <1>4, <1>5, <2>1, SendIs
  <1>9. \A d \in Entries : Asked(d)' => Asked(d) \/ d = e
    BY <1>1, <1>8 DEF Asked
  <1>10. AskedInv'
    <2>1. Len(logbook) \in Nat /\ logbook' = logbook /\ Stops' = Stops
      BY <1>1 DEF TradeTypes, Stops
    <2>2. \A d \in Entries : Asked(d)' =>
             /\ d.kind # "none" /\ d.of <= Len(logbook')
             /\ d.key # 0 => d.kind \in Captures /\ d.of = 0
             /\ d.kind = "stop" => d.input \in Stops'
      BY <1>4, <1>5, <1>9, <2>1 DEF AskedInv
    <2>3. \A g \in TP!Forms : InWork(g)' => TP!FormOf(tasks'[g].entry.kind) = g
      BY <1>5, <1>8
    <2> QED BY <1>8, <2>2, <2>3 DEF AskedInv
  <1>11. KeyInv'
    <2>1. ASSUME NEW j \in Captures
          PROVE  /\ capture'[j].key <= submits' /\ (capture'[j].stored # "none" => capture'[j].key # 0)
                 /\ capture'[j].input <= MaxInputs + 1
      <3>1. CASE j = k
        BY <1>1, <1>2, <1>3, <1>6, <1>7, <1>8, <3>1 DEF TP!PageAssumption, Inputs
      <3>2. CASE j # k
        BY <1>2, <1>7, <1>8, <3>2 DEF KeyInv, TradeTypes, Inputs
      <3> QED BY <3>1, <3>2
    <2>2. ASSUME NEW j \in Captures, NEW g \in TP!Forms, InWork(g)', tasks'[g].entry.kind = j
          PROVE  capture'[j].input = tasks'[g].entry.input /\ capture'[j].input <= MaxInputs
      BY <1>1, <1>5, <1>6, <1>7, <1>8, <2>2
    <2>3. ASSUME NEW d \in Entries, Asked(d), Keyed(d), d.kind = k
          PROVE  d.key <= submits /\ d.input <= c.input /\ (d.input = c.input => d.key = key)
      BY <1>3, <2>3 DEF KeyInv
    <2>4. ASSUME NEW d \in Entries, Asked(d)', Keyed(d)
          PROVE  /\ d.key <= submits' /\ d.input <= capture'[d.kind].input
                 /\ d.input = capture'[d.kind].input =>
                       capture'[d.kind].stored = capture'[d.kind].payload /\ d.key = capture'[d.kind].key
      <3>1. CASE d = e
        BY <1>2, <1>3, <1>5, <1>6, <1>7, <1>8, <3>1 DEF Inputs
      <3>2. CASE Asked(d) /\ d.kind = k
        BY <1>2, <1>6, <1>7, <1>8, <2>3, <2>4, <3>2 DEF Entries
      <3>3. CASE Asked(d) /\ d.kind # k
        <4>1. d.kind \in Captures /\ capture'[d.kind] = capture[d.kind]
          BY <1>7, <2>4, <3>3 DEF Keyed
        <4>2. d.key <= submits
          BY <2>4, <3>3 DEF KeyInv
        <4>3. d.key <= submits'
          BY <1>2, <1>8, <4>2 DEF Entries
        <4> QED BY <2>4, <3>3, <4>1, <4>3 DEF KeyInv
      <3> QED BY <1>9, <2>4, <3>1, <3>2, <3>3
    <2>5. ASSUME NEW a \in Entries, NEW d \in Entries, Asked(a)', Asked(d)', Keyed(a), Keyed(d),
                 a.kind = d.kind, a.input = d.input
          PROVE  a.key = d.key
      <3>1. CASE Asked(a) /\ Asked(d)
        BY <2>5, <3>1 DEF KeyInv
      <3>2. CASE a = e /\ Asked(d)
        BY <1>5, <2>3, <2>5, <3>2
      <3>3. CASE d = e /\ Asked(a)
        BY <1>5, <2>3, <2>5, <3>3
      <3> QED BY <1>9, <2>5, <3>1, <3>2, <3>3
    <2>6. \A i, j \in 1..Len(logbook') : logbook'[i].key # 0 /\ logbook'[i].kind = logbook'[j].kind /\ logbook'[i].key = logbook'[j].key => i = j
      BY <1>1 DEF KeyInv
    <2> QED BY <2>1, <2>2, <2>4, <2>5, <2>6 DEF KeyInv, Keyed
  <1>12. ReadInv' /\ StopInv'
    <2>1. logbook' \in Seq(Entries) /\ Len(logbook') \in 1..MaxWrites /\ Len(logbook) <= Len(logbook')
      BY <1>1 DEF TradeTypes, ReadInv
    <2> QED BY <1>1, <1>8, <2>1, ReadsGoOn
  <1>13. TradeTypes'
    BY <1>1, <1>7, <1>8 DEF TradeTypes
  <1> QED BY <1>1, <1>8, <1>10, <1>11, <1>12, <1>13, SameLog

\* A booking is opened to be corrected.
LEMMA TradeOpenEditor == ASSUME TP!PageAssumption, TradeInv, NEW t \in 1..Len(logbook), TP!OpenEditor(t) PROVE TradeInv'
  <1> USE DEF TradeInv
  <1>1. panel' = [panel EXCEPT !.editor = t] /\ UNCHANGED <<logbook, lost, page, tasks, reads, capture, submits, heard>>
    BY DEF TP!OpenEditor
  <1>2. /\ panel' \in Panels /\ panel'.entries = panel.entries /\ panel'.editor = t /\ panel'.failed = panel.failed
        /\ panel'.recovery = panel.recovery
    BY <1>1 DEF TradeTypes, Panels
  <1>3. Quiet
    BY <1>1 DEF Quiet, TradeTypes, Shows, Asked, InWork
  <1>4. ReadInv'
    BY <1>1, <1>2 DEF ReadInv, TP!Loading
  <1>5. StopInv'
    BY <1>1, StopStays
  <1>6. LockInv'
    <2>1. t <= Len(logbook')
      BY <1>1 DEF TradeTypes
    <2> QED BY <1>1, <1>2, <2>1 DEF LockInv, TP!Locked, TP!Writes
  <1>7. TradeTypes'
    BY <1>1, <1>2 DEF TradeTypes
  <1> QED BY <1>3, <1>4, <1>5, <1>6, <1>7, QuietGoesOn

\* What is confirmed has been written.
LEMMA ToldIsWritten ==
  ASSUME TP!PageAssumption, TradeInv, NEW f \in TP!Forms, tasks[f].phase = "booked", TP!Told(tasks[f].entry)
  PROVE  heard' \in Nat /\ heard' <= Len(logbook)
  <1> USE DEF TradeInv
  <1>1. tasks[f].entry \in Entries /\ \E m \in 1..Len(logbook) : Alike(logbook[m], tasks[f].entry)
    BY WorkIsLocked DEF InWork, AskedInv
  <1>2. TP!LastOf(tasks[f].entry) \in 1..Len(logbook)
    BY <1>1, LastIsThere
  <1> QED BY <1>2 DEF TP!Told, TradeTypes, ReadInv

\* A booking that is confirmed: its input is done, and the page reads again.
LEMMA TradeCaptureBooked ==
  ASSUME TP!PageAssumption, TradeInv, NEW k \in Captures, TP!CaptureBooked(k) PROVE TradeInv'
  <1> USE DEF TradeInv
  <1> DEFINE f == TP!FormOf(k)
             c == capture[k]
             i == c.input + 1
             w == [c EXCEPT !.stored = "none", !.key = 0, !.input = i]
  <1>1. /\ tasks[f].phase = "booked" /\ tasks[f].entry.kind = k /\ TP!Told(tasks[f].entry)
        /\ reads' = TP!Begin(TP!Begin(reads, "panel", "nobody"), "page", f)
        /\ tasks' = [tasks EXCEPT ![f].phase = "reads"] /\ panel' = [panel EXCEPT !.failed = FALSE]
        /\ UNCHANGED <<logbook, lost, submits>> /\ page' = TP!Invalidated
    BY DEF TP!CaptureBooked, TP!Booked, TP!AwaitReads
  <1>2. capture' = [capture EXCEPT ![k] = w]
    BY DEF TP!CaptureBooked
  <1>3. k \in {"sale", "purchase"} /\ f \in TP!Forms /\ f \in {"page", "purchase", "bookings", "lookup", "nobody"}
    BY DEF TP!PageAssumption, TP!FormOf, TP!Forms
  <1>4. c \in Inputs /\ c.input \in Nat
    BY DEF TradeTypes, Inputs
  <1>5. i \in Nat
    BY <1>4
  <1> HIDE DEF i
  <1>6. w \in Inputs /\ w.stored = "none" /\ w.key = 0 /\ w.input = i
    BY <1>4, <1>5 DEF Inputs
  <1> HIDE DEF w, f
  <1>7. /\ capture' \in [Captures -> Inputs] /\ capture'[k] = w
        /\ \A j \in Captures : j # k => capture'[j] = capture[j]
    BY <1>2, <1>6 DEF TradeTypes
  <1>8. InWork(f) /\ c.input <= MaxInputs
    BY <1>1, <1>3 DEF InWork, KeyInv
  <1>9. /\ tasks' \in [TP!Forms -> FormTasks] /\ \A g \in TP!Forms : TP!Locked(g)' => TP!Locked(g)
        /\ \A g \in TP!Forms : ~TP!Writes(g)'
        /\ \A g \in TP!Forms : InWork(g)' => InWork(g) /\ tasks'[g].entry = tasks[g].entry
        /\ \A g \in TP!Forms : tasks'[g].phase = "booked" => tasks[g].phase = "booked"
        /\ ~InWork(f)'
    BY <1>1, <1>3, <1>8, ListReads
  <1>10. page' \in Shows /\ page'.ready = FALSE /\ page'.shown = page.shown /\ page'.count = page.count /\ StopInv'
    BY <1>1, InvalidatedIs, StopStays
  <1>11. panel' \in Panels /\ panel'.entries = panel.entries /\ panel'.editor = panel.editor /\ panel'.recovery = panel.recovery
    BY <1>1 DEF TradeTypes, Panels
  <1>12. heard' \in Nat /\ heard' <= Len(logbook)
    BY <1>1, <1>3, ToldIsWritten
  <1>13. ReadInv' /\ reads' \subseteq PageReads
    BY <1>1, <1>3, <1>10, <1>11, <1>12, ReadsBegin
  <1>14. AskedMoves
    <2>1. logbook' \in Seq(Entries) /\ Len(logbook) <= Len(logbook') /\ \A m \in 1..Len(logbook') : logbook'[m] = logbook[m] /\ m \in 1..Len(logbook)
      BY <1>1 DEF TradeTypes
    <2>2. lost' \subseteq Entries /\ \A d \in lost' : Asked(d)
      BY <1>1 DEF TradeTypes, Asked
    <2>3. page'.count \in Nat /\ page'.count >= page.count
      BY <1>10 DEF TradeTypes, Shows
    <2>4. \A g \in TP!Forms : tasks'[g].phase = "booked" => tasks[g].phase = "booked" /\ tasks'[g].entry = tasks[g].entry
      BY <1>9 DEF InWork
    <2> QED BY <1>1, <1>9, <2>1, <2>2, <2>3, <2>4 DEF AskedMoves
  <1>15. KeysMove
    <2>1. ASSUME NEW g \in TP!Forms, InWork(g)', tasks'[g].entry.kind = k PROVE FALSE
      <3>1. InWork(g) /\ tasks[g].entry.kind = k
        BY <1>9, <2>1
      <3>2. f = g
        BY <3>1 DEF AskedInv, f
      <3> QED BY <1>9, <2>1, <3>2
    <2>2. capture'[k].input = capture[k].input + 1 /\ capture'[k].key = 0 /\ capture'[k].stored = "none"
      BY <1>6, <1>7 DEF i
    <2>3. \A m, j \in 1..Len(logbook') : logbook'[m].key # 0 /\ logbook'[m].kind = logbook'[j].kind /\ logbook'[m].key = logbook'[j].key => m = j
      BY <1>1 DEF KeyInv
    <2>4. submits' \in Nat /\ submits <= submits'
      BY <1>1 DEF TradeTypes
    <2> QED BY <1>7, <1>8, <2>1, <2>2, <2>3, <2>4 DEF KeysMove
  <1>16. LockInv'
    BY <1>1, <1>9, <1>11 DEF LockInv
  <1>17. TradeTypes'
    BY <1>1, <1>7, <1>9, <1>10, <1>11, <1>12, <1>13 DEF TradeTypes
  <1> QED BY <1>1, <1>10, <1>13, <1>14, <1>15, <1>16, <1>17, AskedGoesOn, KeysGoOn, SameLog

\* A stop that is confirmed: what was typed since stays.
LEMMA TradeStopBooked == ASSUME TP!PageAssumption, TradeInv, TP!StopBooked PROVE TradeInv'
  <1> USE DEF TradeInv
  <1> DEFINE f == "page"
             x == tasks[f].entry.input
  <1>1. /\ tasks[f].phase = "booked" /\ tasks[f].entry.kind = "stop" /\ TP!Told(tasks[f].entry)
        /\ reads' = TP!Begin(TP!Begin(reads, "panel", "nobody"), "page", f)
        /\ tasks' = [tasks EXCEPT ![f].phase = "reads"] /\ panel' = [panel EXCEPT !.failed = FALSE]
        /\ UNCHANGED <<logbook, lost, submits, capture>>
        /\ page' = [TP!Invalidated EXCEPT !.basis = x, !.typed = IF page.draft = x THEN 0 ELSE @]
    <2>1. TP!FormOf("stop") = f
      BY DEF TP!FormOf
    <2> QED BY <2>1 DEF TP!StopBooked, TP!Booked, TP!AwaitReads
  <1>2. f \in TP!Forms /\ InWork(f)
    BY <1>1 DEF TP!Forms, InWork
  <1>3. x \in Nat /\ x \in Stops
    BY <1>1, <1>2, WorkIsLocked DEF AskedInv, Entries
  <1> HIDE DEF x
  <1>4. /\ page' \in Shows /\ page'.ready = FALSE /\ page'.shown = page.shown /\ page'.count = page.count
        /\ page'.draft = page.draft /\ page'.basis = x /\ page'.typed = IF page.draft = x THEN 0 ELSE page.typed
    BY <1>1, <1>3, InvalidatedIs DEF Shows
  <1>5. StopInv'
    <2>1. Stops' = Stops
      BY <1>4 DEF Stops, TP!Elsewhere
    <2>2. page'.typed \in {0, page.typed} /\ page.count \in Nat
      BY <1>4 DEF TradeTypes, Shows
    <2> QED BY <1>3, <1>4, <2>1, <2>2 DEF StopInv
  <1>6. /\ tasks' \in [TP!Forms -> FormTasks] /\ \A g \in TP!Forms : TP!Locked(g)' => TP!Locked(g)
        /\ \A g \in TP!Forms : ~TP!Writes(g)'
        /\ \A g \in TP!Forms : InWork(g)' => InWork(g) /\ tasks'[g].entry = tasks[g].entry
        /\ \A g \in TP!Forms : tasks'[g].phase = "booked" => tasks[g].phase = "booked"
    BY <1>1, <1>2, ListReads
  <1>7. panel' \in Panels /\ panel'.entries = panel.entries /\ panel'.editor = panel.editor /\ panel'.recovery = panel.recovery
    BY <1>1 DEF TradeTypes, Panels
  <1>8. heard' \in Nat /\ heard' <= Len(logbook)
    BY <1>1, <1>2, ToldIsWritten
  <1>9. ReadInv' /\ reads' \subseteq PageReads
    BY <1>1, <1>4, <1>7, <1>8, ReadsBegin
  <1>10. Quiet
    <2>1. lost' \subseteq Entries /\ \A d \in lost' : Asked(d)
      BY <1>1 DEF TradeTypes, Asked
    <2>2. page'.count >= page.count
      BY <1>4 DEF TradeTypes, Shows
    <2> QED BY <1>1, <1>4, <1>6, <2>1, <2>2 DEF Quiet
  <1>11. LockInv'
    BY <1>1, <1>6, <1>7 DEF LockInv
  <1>12. TradeTypes'
    BY <1>1, <1>4, <1>6, <1>7, <1>8, <1>9 DEF TradeTypes
  <1> QED BY <1>5, <1>9, <1>10, <1>11, <1>12, QuietGoesOn

\* A correction that is confirmed has to be seen before more is written.
LEMMA TradeCorrectionBooked == ASSUME TP!PageAssumption, TradeInv, TP!CorrectionBooked PROVE TradeInv'
  <1> USE DEF TradeInv
  <1> DEFINE f == "bookings"
             x == tasks[f].entry.of
  <1>1. /\ tasks[f].phase = "booked" /\ TP!Told(tasks[f].entry)
        /\ reads' = TP!Begin(TP!Begin(reads, "panel", f), "page", f)
        /\ tasks' = [tasks EXCEPT ![f].phase = "reads"]
        /\ panel' = [panel EXCEPT !.editor = 0, !.failed = FALSE, !.recovery = [target |-> x, confirmed |-> TRUE]]
        /\ UNCHANGED <<logbook, lost, submits, capture>> /\ page' = TP!Invalidated
    BY DEF TP!CorrectionBooked, TP!AwaitReads
  <1>2. f \in TP!Forms /\ InWork(f)
    BY <1>1 DEF TP!Forms, InWork
  <1>3. x \in Nat /\ x <= Len(logbook)
    BY <1>1, <1>2, WorkIsLocked DEF AskedInv, Entries
  <1> HIDE DEF x
  <1>4. page' \in Shows /\ page'.ready = FALSE /\ page'.shown = page.shown /\ page'.count = page.count /\ StopInv'
    BY <1>1, InvalidatedIs, StopStays
  <1>6. /\ tasks' \in [TP!Forms -> FormTasks] /\ \A g \in TP!Forms : TP!Locked(g)' => TP!Locked(g)
        /\ \A g \in TP!Forms : ~TP!Writes(g)'
        /\ \A g \in TP!Forms : InWork(g)' => InWork(g) /\ tasks'[g].entry = tasks[g].entry
        /\ \A g \in TP!Forms : tasks'[g].phase = "booked" => tasks[g].phase = "booked"
    BY <1>1, <1>2, ListReads
  <1>7. panel' \in Panels /\ panel'.entries = panel.entries /\ panel'.editor = 0 /\ panel'.recovery.target = x
    BY <1>1, <1>3 DEF TradeTypes, Panels
  <1>8. heard' \in Nat /\ heard' <= Len(logbook)
    BY <1>1, <1>2, ToldIsWritten
  <1>9. ReadInv' /\ reads' \subseteq PageReads
    BY <1>1, <1>4, <1>7, <1>8, ReadsBegin
  <1>10. Quiet
    <2>1. lost' \subseteq Entries /\ \A d \in lost' : Asked(d)
      BY <1>1 DEF TradeTypes, Asked
    <2>2. page'.count >= page.count
      BY <1>4 DEF TradeTypes, Shows
    <2> QED BY <1>1, <1>4, <1>6, <2>1, <2>2 DEF Quiet
  <1>11. LockInv'
    <2>1. 0 <= Len(logbook')
      BY <1>1 DEF TradeTypes
    <2> QED BY <1>1, <1>3, <1>6, <1>7, <2>1 DEF LockInv
  <1>12. TradeTypes'
    BY <1>1, <1>4, <1>6, <1>7, <1>8, <1>9 DEF TradeTypes
  <1> QED BY <1>4, <1>9, <1>10, <1>11, <1>12, QuietGoesOn

\* A read arrives, or fails.
LEMMA TradeArrive ==
  ASSUME TP!PageAssumption, TradeInv, NEW r \in reads, NEW n \in 1..Len(logbook), TP!Arrive(r, n) PROVE TradeInv'
  <1> USE DEF TradeInv
  <1>1. /\ n \in r.since..Len(logbook) /\ reads' = reads \ {r} /\ UNCHANGED <<logbook, lost, tasks, capture, submits, heard>>
        /\ r.of = "page" => page' = TP!Shown(n) /\ panel' = panel
        /\ r.of # "page" => panel' = [panel EXCEPT !.entries = n] /\ page' = page
    BY DEF TP!Arrive
  <1>2. heard \in Nat /\ Len(logbook) \in Nat /\ n \in Nat /\ n <= Len(logbook) /\ n >= heard
    BY <1>1 DEF TradeTypes, ReadInv, PageReads
  <1> DEFINE s == TP!StopAt(n)
  <1>3. s \in Stops /\ s \in Nat
    BY StopIsTyped
  <1> HIDE DEF s
  <1>4. /\ page' \in Shows /\ page'.count = page.count
        /\ r.of = "page" =>
              /\ page'.shown = n /\ page'.basis = s
              /\ page'.draft = (IF page.draft # page.basis THEN page.draft ELSE s)
              /\ page'.typed = (IF page.typed = s THEN 0 ELSE page.typed)
        /\ r.of # "page" => page' = page
    <2>1. CASE r.of = "page"
      <3>1. page' = [page EXCEPT !.shown = n, !.ready = TRUE, !.basis = s,
                     !.draft = IF page.draft # page.basis THEN @ ELSE s, !.typed = IF @ = s THEN 0 ELSE @]
        BY <1>1, <2>1 DEF TP!Shown, TP!Kept, s
      <3> QED BY <1>2, <1>3, <2>1, <3>1 DEF TradeTypes, Shows
    <2>2. CASE r.of # "page"
      BY <1>1, <2>2 DEF TradeTypes
    <2> QED BY <2>1, <2>2
  <1>5. /\ panel' \in Panels /\ panel'.editor = panel.editor /\ panel'.recovery = panel.recovery
        /\ panel'.failed = panel.failed
        /\ panel'.entries = IF r.of = "page" THEN panel.entries ELSE n
    BY <1>1, <1>2 DEF TradeTypes, Panels
  <1>6. Quiet
    <2>1. lost' \subseteq Entries /\ \A d \in lost' : Asked(d)
      BY <1>1 DEF TradeTypes, Asked
    <2>2. page'.count >= page.count
      BY <1>4 DEF TradeTypes, Shows
    <2> QED BY <1>1, <1>4, <2>1, <2>2 DEF Quiet, TradeTypes, InWork
  <1>7. StopInv'
    <2>1. Stops' = Stops
      BY <1>4 DEF Stops, TP!Elsewhere
    <2>2. CASE r.of # "page"
      BY <1>4, <2>2, StopStays
    <2>3. CASE r.of = "page"
      <3>1. page'.draft \in Stops
        BY <1>3, <1>4, <2>3 DEF StopInv
      <3>2. page'.typed # 0 => page'.draft = page'.typed /\ page'.draft # page'.basis
        BY <1>3, <1>4, <2>3 DEF StopInv
      <3>3. page'.typed <= page.count
        BY <1>4, <2>3 DEF StopInv, TradeTypes, Shows
      <3> QED BY <1>3, <1>4, <2>1, <2>3, <3>1, <3>2, <3>3 DEF StopInv
    <2> QED BY <2>2, <2>3
  <1>8. ReadInv'
    <2>1. page'.shown <= Len(logbook) /\ (page'.ready = TRUE => page'.shown >= heard)
      BY <1>2, <1>4 DEF ReadInv
    <2>2. panel'.entries <= Len(logbook)
      BY <1>2, <1>5 DEF ReadInv
    <2>3. panel'.failed = FALSE /\ ~TP!Loading("panel")' => panel'.entries >= heard
      BY <1>1, <1>2, <1>5 DEF ReadInv, TP!Loading
    <2>4. \A q \in reads' : q.since \in heard..Len(logbook) /\ q.since # 0
      BY <1>1 DEF ReadInv
    <2> QED BY <1>1, <2>1, <2>2, <2>3, <2>4 DEF ReadInv
  <1>9. LockInv'
    BY <1>1, <1>5 DEF LockInv, TP!Locked, TP!Writes
  <1>10. TradeTypes'
    BY <1>1, <1>4, <1>5 DEF TradeTypes
  <1> QED BY <1>6, <1>7, <1>8, <1>9, <1>10, QuietGoesOn

\* What is told of a read that failed.
LEMMA FailsIs ==
  ASSUME TradeTypes, NEW x, tasks' = TP!Fails(x) \/ tasks' = tasks
  PROVE  /\ tasks' \in [TP!Forms -> FormTasks]
         /\ \A g \in TP!Forms : tasks'[g].phase = tasks[g].phase /\ tasks'[g].entry = tasks[g].entry
         /\ \A g \in TP!Forms : (TP!Locked(g)' <=> TP!Locked(g)) /\ (TP!Writes(g)' <=> TP!Writes(g)) /\ (InWork(g)' <=> InWork(g))
  <1>1. CASE x \in TP!Forms /\ tasks' = TP!Fails(x)
    <2>1. tasks' = [tasks EXCEPT ![x].ok = FALSE] /\ tasks[x] \in FormTasks
      BY <1>1 DEF TP!Fails, TradeTypes
    <2>2. [tasks[x] EXCEPT !.ok = FALSE] \in FormTasks
      BY <2>1 DEF FormTasks
    <2>3. tasks'[x] = [tasks[x] EXCEPT !.ok = FALSE] /\ \A g \in TP!Forms : g # x => tasks'[g] = tasks[g]
      BY <1>1, <2>1 DEF TradeTypes
    <2>4. tasks'[x].phase = tasks[x].phase /\ tasks'[x].entry = tasks[x].entry
      BY <2>1, <2>3 DEF FormTasks
    <2>5. tasks' \in [TP!Forms -> FormTasks]
      BY <1>1, <2>1, <2>2 DEF TradeTypes
    <2>6. \A g \in TP!Forms : tasks'[g].phase = tasks[g].phase /\ tasks'[g].entry = tasks[g].entry
      BY <2>3, <2>4
    <2> QED BY <2>5, <2>6 DEF TP!Locked, TP!Writes, InWork
  <1>2. CASE tasks' = tasks
    BY <1>2 DEF TradeTypes, TP!Locked, TP!Writes, InWork
  <1> QED BY <1>1, <1>2 DEF TP!Fails
LEMMA TradeReadFails == ASSUME TP!PageAssumption, TradeInv, NEW r \in reads, TP!ReadFails(r) PROVE TradeInv'
  <1> USE DEF TradeInv
  <1>1. /\ reads' = reads \ {r} /\ tasks' = TP!Fails(r.awaits) /\ UNCHANGED <<logbook, lost, page, capture, submits, heard>>
        /\ panel' = IF r.of = "panel" THEN [panel EXCEPT !.failed = TRUE] ELSE panel
    BY DEF TP!ReadFails
  <1>2. /\ tasks' \in [TP!Forms -> FormTasks]
        /\ \A g \in TP!Forms : tasks'[g].phase = tasks[g].phase /\ tasks'[g].entry = tasks[g].entry
        /\ \A g \in TP!Forms : (TP!Locked(g)' <=> TP!Locked(g)) /\ (TP!Writes(g)' <=> TP!Writes(g)) /\ (InWork(g)' <=> InWork(g))
    BY <1>1, FailsIs
  <1>3. /\ panel' \in Panels /\ panel'.editor = panel.editor /\ panel'.recovery = panel.recovery
        /\ panel'.entries = panel.entries /\ (r.of = "panel" => panel'.failed = TRUE) /\ (r.of # "panel" => panel' = panel)
    BY <1>1 DEF TradeTypes, Panels
  <1>4. Quiet
    <2>1. page' \in Shows /\ page'.count >= page.count /\ lost' \subseteq Entries /\ \A e \in lost' : Asked(e)
      BY <1>1 DEF TradeTypes, Shows, Asked
    <2> QED BY <1>1, <1>2, <2>1 DEF Quiet
  <1>5. StopInv'
    BY <1>1, StopStays
  <1>6. ReadInv'
    BY <1>1, <1>3 DEF ReadInv, TP!Loading
  <1>7. LockInv'
    BY <1>1, <1>2, <1>3 DEF LockInv
  <1>8. TradeTypes'
    BY <1>1, <1>2, <1>3 DEF TradeTypes
  <1> QED BY <1>4, <1>5, <1>6, <1>7, <1>8, QuietGoesOn

\* A form has read what it waited for.
LEMMA TradeFinish == ASSUME TP!PageAssumption, TradeInv, NEW f \in TP!Forms, TP!Finish(f) PROVE TradeInv'
  <1> USE DEF TradeInv
  <1>1. /\ tasks' = [tasks EXCEPT ![f] = TP!Idle] /\ UNCHANGED <<logbook, lost, page, reads, capture, submits, heard>>
        /\ panel' = panel \/ panel' = [panel EXCEPT !.recovery = TP!Clear]
    BY DEF TP!Finish
  <1>2. tasks' \in [TP!Forms -> FormTasks]
    BY <1>1, TaskIsIdle
  <1>3. /\ panel' \in Panels /\ panel'.entries = panel.entries /\ panel'.editor = panel.editor
        /\ panel'.failed = panel.failed /\ (panel'.recovery = panel.recovery \/ panel'.recovery = TP!Clear)
    BY <1>1, TradeValues DEF TradeTypes, Panels
  <1>4. Quiet
    <2>1. page' \in Shows /\ page'.count >= page.count /\ lost' \subseteq Entries /\ \A e \in lost' : Asked(e)
      BY <1>1 DEF TradeTypes, Shows, Asked
    <2> QED BY <1>1, <1>2, <2>1, IdleLocks DEF Quiet
  <1>5. StopInv'
    BY <1>1, StopStays
  <1>6. ReadInv'
    BY <1>1, <1>3 DEF ReadInv, TP!Loading
  <1>7. LockInv'
    <2>1. panel'.recovery.target <= Len(logbook')
      BY <1>1, <1>3, TradeValues DEF LockInv, TradeTypes
    <2> QED BY <1>1, <1>3, <2>1, IdleLocks DEF LockInv
  <1>8. TradeTypes'
    BY <1>1, <1>2, <1>3 DEF TradeTypes
  <1> QED BY <1>4, <1>5, <1>6, <1>7, <1>8, QuietGoesOn

\* The bookings are reviewed, or the trade is looked up.
LEMMA TradeReview == ASSUME TP!PageAssumption, TradeInv, TP!Review PROVE TradeInv'
  <1> USE DEF TradeInv
  <1> DEFINE f == "bookings"
             t == [TP!Idle EXCEPT !.phase = "reads"]
  <1>1. /\ reads' = TP!Begin(TP!Begin(reads, "panel", f), "page", f) /\ page' = TP!Invalidated
        /\ panel' = [panel EXCEPT !.failed = FALSE] /\ tasks' = [tasks EXCEPT ![f] = t]
        /\ panel.recovery # TP!Clear /\ UNCHANGED <<logbook, lost, capture, submits, heard>>
    BY DEF TP!Review
  <1>2. t \in FormTasks /\ t.phase = "reads" /\ t.entry = TP!NoEntry
    BY TradeValues DEF FormTasks
  <1> HIDE DEF t
  <1>3. f \in TP!Forms /\ tasks' \in [TP!Forms -> FormTasks] /\ tasks'[f] = t /\ \A g \in TP!Forms : g # f => tasks'[g] = tasks[g]
    BY <1>1, <1>2 DEF TradeTypes, TP!Forms
  <1>4. /\ panel' \in Panels /\ panel'.entries = panel.entries /\ panel'.editor = panel.editor
        /\ panel'.recovery = panel.recovery
    BY <1>1 DEF TradeTypes, Panels
  <1>5. page' \in Shows /\ page'.ready = FALSE /\ page'.shown = page.shown /\ page'.count = page.count /\ StopInv'
    BY <1>1, InvalidatedIs, StopStays
  <1>6. ReadInv' /\ reads' \subseteq PageReads
    <2>1. heard' \in Nat /\ heard' <= Len(logbook)
      BY <1>1 DEF TradeTypes, ReadInv
    <2> QED BY <1>1, <1>4, <1>5, <2>1, ReadsBegin
  <1>7. Quiet
    <2>1. page'.count >= page.count /\ lost' \subseteq Entries /\ \A e \in lost' : Asked(e)
      BY <1>1, <1>5 DEF TradeTypes, Shows, Asked
    <2>2. \A g \in TP!Forms : InWork(g)' => InWork(g) /\ tasks'[g].entry = tasks[g].entry
      BY <1>2, <1>3 DEF InWork
    <2>3. \A g \in TP!Forms : tasks'[g].phase = "booked" => tasks[g].phase = "booked"
      BY <1>2, <1>3
    <2> QED BY <1>1, <1>3, <1>5, <2>1, <2>2, <2>3 DEF Quiet
  <1>8. LockInv'
    <2>1. \A g \in TP!Forms : TP!Locked(g)' => TP!Locked(g)
      BY <1>2, <1>3 DEF TP!Locked
    <2>2. \A g \in TP!Forms : TP!Writes(g)' => TP!Writes(g)
      BY <1>2, <1>3 DEF TP!Writes
    <2> QED BY <1>1, <1>4, <2>1, <2>2 DEF LockInv
  <1>9. TradeTypes'
    BY <1>1, <1>3, <1>4, <1>5, <1>6 DEF TradeTypes
  <1> QED BY <1>5, <1>6, <1>7, <1>8, <1>9, QuietGoesOn
LEMMA TradeLookup == ASSUME TP!PageAssumption, TradeInv, TP!Lookup PROVE TradeInv'
  <1> USE DEF TradeInv
  <1>1. /\ reads' = TP!Begin(TP!Begin(reads, "panel", "nobody"), "page", "lookup") /\ page' = TP!Invalidated
        /\ panel' = [panel EXCEPT !.failed = FALSE] /\ UNCHANGED <<logbook, lost, capture, submits, heard>>
        /\ tasks' = TP!Fails("bookings") \/ tasks' = tasks
    BY DEF TP!Lookup
  <1>2. /\ tasks' \in [TP!Forms -> FormTasks]
        /\ \A g \in TP!Forms : tasks'[g].phase = tasks[g].phase /\ tasks'[g].entry = tasks[g].entry
        /\ \A g \in TP!Forms : (TP!Locked(g)' <=> TP!Locked(g)) /\ (TP!Writes(g)' <=> TP!Writes(g)) /\ (InWork(g)' <=> InWork(g))
    BY <1>1, FailsIs
  <1>4. /\ panel' \in Panels /\ panel'.entries = panel.entries /\ panel'.editor = panel.editor
        /\ panel'.recovery = panel.recovery
    BY <1>1 DEF TradeTypes, Panels
  <1>5. page' \in Shows /\ page'.ready = FALSE /\ page'.shown = page.shown /\ page'.count = page.count /\ StopInv'
    BY <1>1, InvalidatedIs, StopStays
  <1>6. ReadInv' /\ reads' \subseteq PageReads
    <2>1. heard' \in Nat /\ heard' <= Len(logbook)
      BY <1>1 DEF TradeTypes, ReadInv
    <2> QED BY <1>1, <1>4, <1>5, <2>1, ReadsBegin
  <1>7. Quiet
    <2>1. page'.count >= page.count /\ lost' \subseteq Entries /\ \A e \in lost' : Asked(e)
      BY <1>1, <1>5 DEF TradeTypes, Shows, Asked
    <2> QED BY <1>1, <1>2, <1>5, <2>1 DEF Quiet
  <1>8. LockInv'
    BY <1>1, <1>2, <1>4 DEF LockInv
  <1>9. TradeTypes'
    BY <1>1, <1>2, <1>4, <1>5, <1>6 DEF TradeTypes
  <1> QED BY <1>5, <1>6, <1>7, <1>8, <1>9, QuietGoesOn

\* The user edits a form, types a stop, or loads the tab anew.
LEMMA TradeEditCapture == ASSUME TP!PageAssumption, TradeInv, NEW k \in Captures, TP!EditCapture(k) PROVE TradeInv'
  <1> USE DEF TradeInv
  <1> DEFINE c == capture[k]
             i == c.input + 1
             p == IF c.payload = "p" THEN "q" ELSE "p"
             w == [c EXCEPT !.input = i, !.payload = p]
  <1>1. /\ ~TP!Locked(TP!FormOf(k)) /\ c.input < MaxInputs /\ capture' = [capture EXCEPT ![k] = w]
        /\ UNCHANGED <<logbook, lost, page, panel, tasks, reads, submits, heard>>
    BY DEF TP!EditCapture
  <1>2. c \in Inputs /\ c.input \in Nat /\ MaxInputs \in Nat
    BY DEF TradeTypes, Inputs, TP!PageAssumption
  <1>3. i \in Nat /\ c.input <= MaxInputs /\ p \in {"p", "q"}
    BY <1>1, <1>2
  <1> HIDE DEF i, p
  <1>4. w \in Inputs /\ w.stored = c.stored /\ w.key = c.key /\ w.input = i
    BY <1>2, <1>3 DEF Inputs
  <1> HIDE DEF w
  <1>5. /\ capture' \in [Captures -> Inputs] /\ capture'[k] = w
        /\ \A j \in Captures : j # k => capture'[j] = capture[j]
    BY <1>1, <1>4 DEF TradeTypes
  <1>6. \A g \in TP!Forms : (InWork(g)' => InWork(g)) /\ tasks'[g] = tasks[g]
    BY <1>1 DEF InWork
  <1>7. AskedMoves
    <2>1. logbook' \in Seq(Entries) /\ Len(logbook) <= Len(logbook') /\ \A m \in 1..Len(logbook') : logbook'[m] = logbook[m] /\ m \in 1..Len(logbook)
      BY <1>1 DEF TradeTypes
    <2>2. lost' \subseteq Entries /\ \A d \in lost' : Asked(d)
      BY <1>1 DEF TradeTypes, Asked
    <2>3. page'.count \in Nat /\ page'.count >= page.count
      BY <1>1 DEF TradeTypes, Shows
    <2> QED BY <1>1, <1>6, <2>1, <2>2, <2>3 DEF AskedMoves, TradeTypes
  <1>8. KeysMove
    <2>1. ASSUME NEW g \in TP!Forms, InWork(g)', tasks'[g].entry.kind = k PROVE FALSE
      <3>1. InWork(g) /\ tasks[g].entry.kind = k
        BY <1>6, <2>1
      <3>2. TP!FormOf(k) = g /\ TP!Locked(g)
        BY <3>1, WorkIsLocked DEF AskedInv
      <3> QED BY <1>1, <3>2
    <2>2. capture'[k].input = capture[k].input + 1 /\ capture'[k].key = capture[k].key /\ capture'[k].stored = capture[k].stored
      BY <1>4, <1>5 DEF i
    <2>3. \A m, j \in 1..Len(logbook') : logbook'[m].key # 0 /\ logbook'[m].kind = logbook'[j].kind /\ logbook'[m].key = logbook'[j].key => m = j
      BY <1>1 DEF KeyInv
    <2>4. submits' \in Nat /\ submits <= submits'
      BY <1>1 DEF TradeTypes
    <2> QED BY <1>3, <1>5, <2>1, <2>2, <2>3, <2>4 DEF KeysMove
  <1>9. ReadInv' /\ StopInv'
    <2>1. /\ submits' \in Nat /\ submits' <= MaxSubmits /\ logbook' \in Seq(Entries) /\ Len(logbook') \in 1..MaxWrites
          /\ Len(logbook) <= Len(logbook')
      BY <1>1 DEF TradeTypes, ReadInv
    <2> QED BY <1>1, <2>1, ReadsGoOn
  <1>10. LockInv'
    BY <1>1 DEF LockInv, TP!Locked, TP!Writes
  <1>11. TradeTypes'
    BY <1>1, <1>5 DEF TradeTypes
  <1> QED BY <1>1, <1>7, <1>8, <1>9, <1>10, <1>11, AskedGoesOn, KeysGoOn, SameLog
LEMMA TradeTypeStop == ASSUME TP!PageAssumption, TradeInv, TP!TypeStop PROVE TradeInv'
  <1> USE DEF TradeInv
  <1> DEFINE i == page.count + 1
  <1>1. /\ page.count < MaxTyped /\ page' = [page EXCEPT !.count = i, !.draft = i, !.typed = i]
        /\ UNCHANGED <<logbook, lost, panel, tasks, reads, capture, submits, heard>>
    BY DEF TP!TypeStop
  <1>2. page \in Shows /\ page.count \in Nat /\ MaxTyped \in Nat
    BY DEF TradeTypes, Shows, TP!PageAssumption
  <1>3. i \in Nat /\ i <= MaxTyped /\ i > page.count /\ i # TP!Elsewhere /\ i # 0
    BY <1>1, <1>2 DEF TP!Elsewhere
  <1> HIDE DEF i
  <1>4. /\ page' \in Shows /\ page'.count = i /\ page'.draft = i /\ page'.typed = i /\ page'.basis = page.basis
        /\ page'.ready = page.ready /\ page'.shown = page.shown
    BY <1>1, <1>2, <1>3 DEF Shows
  <1>5. Quiet
    <2>1. lost' \subseteq Entries /\ \A d \in lost' : Asked(d)
      BY <1>1 DEF TradeTypes, Asked
    <2>2. page'.count >= page.count
      BY <1>2, <1>3, <1>4
    <2> QED BY <1>1, <1>4, <2>1, <2>2 DEF Quiet, TradeTypes, InWork
  <1>6. StopInv'
    <2>1. page.basis \in 0..page.count \cup {TP!Elsewhere}
      BY DEF StopInv, Stops
    <2>2. i # page.basis
      BY <1>2, <1>3, <2>1
    <2>3. page.basis \in 0..i \cup {TP!Elsewhere} /\ i \in 0..i
      BY <1>2, <1>3, <2>1
    <2>4. TP!Elsewhere' = TP!Elsewhere
      BY DEF TP!Elsewhere
    <2>5. Stops' = 0..i \cup {TP!Elsewhere}
      BY <1>4, <2>4 DEF Stops
    <2> QED BY <1>3, <1>4, <2>2, <2>3, <2>5 DEF StopInv
  <1>7. ReadInv'
    BY <1>1, <1>4 DEF ReadInv, TP!Loading
  <1>8. LockInv'
    BY <1>1 DEF LockInv, TP!Locked, TP!Writes
  <1>9. TradeTypes'
    BY <1>1, <1>4 DEF TradeTypes
  <1> QED BY <1>5, <1>6, <1>7, <1>8, <1>9, QuietGoesOn
LEMMA TradeReload == ASSUME TP!PageAssumption, TradeInv, TP!Reload PROVE TradeInv'
  <1> USE DEF TradeInv
  <1>1. /\ lost' = lost \cup TP!Orphans(TP!Forms) /\ page' = [TP!Blank EXCEPT !.count = page.count] /\ panel' = TP!Empty
        /\ reads' = TP!FirstReads(Len(logbook)) /\ tasks' = [f \in TP!Forms |-> TP!Idle]
        /\ UNCHANGED <<logbook, capture, submits, heard>>
    BY DEF TP!Reload
  <1>2. lost' \subseteq Entries /\ \A e \in lost' : Asked(e)
    <2>1. \A e \in TP!Orphans(TP!Forms) : \E f \in TP!Forms : InWork(f) /\ e = tasks[f].entry
      BY DEF TP!Orphans, InWork
    <2> QED BY <1>1, <2>1, WorkIsLocked DEF TradeTypes, Asked
  <1>3. /\ page' \in Shows /\ page'.count = page.count /\ page'.draft = 0 /\ page'.typed = 0 /\ page'.basis = 0
        /\ page'.ready = FALSE /\ page'.shown = 0
    <2>1. page.count \in Nat
      BY DEF TradeTypes, Shows
    <2> QED BY <1>1, <2>1, TradeValues DEF Shows
  <1>4. Len(logbook) \in Nat /\ Len(logbook) \in 1..MaxWrites /\ heard \in Nat /\ heard <= Len(logbook)
    BY DEF TradeTypes, ReadInv
  <1>5. reads' \subseteq PageReads /\ (\A r \in reads' : r.since = Len(logbook)) /\ \E r \in reads' : r.of = "panel"
    BY <1>1, <1>4, FirstReadsAre
  <1>6. tasks' \in [TP!Forms -> FormTasks] /\ \A g \in TP!Forms : tasks'[g].phase = "idle"
    BY <1>1, TradeValues
  <1>7. \A g \in TP!Forms : ~InWork(g)' /\ ~TP!Locked(g)' /\ ~TP!Writes(g)'
    BY <1>6 DEF InWork, TP!Locked, TP!Writes
  <1>8. Quiet
    <2>1. page'.count >= page.count
      BY <1>3 DEF TradeTypes, Shows
    <2> QED BY <1>1, <1>2, <1>3, <1>6, <1>7, <2>1 DEF Quiet
  <1>9. StopInv'
    <2>1. page'.count \in Nat /\ page'.count <= MaxTyped
      BY <1>3 DEF StopInv, Shows
    <2> QED BY <1>3, <2>1 DEF StopInv, Stops
  <1>10. ReadInv'
    <2>1. TP!Loading("panel")'
      BY <1>5 DEF TP!Loading
    <2>2. panel'.entries = 0
      BY <1>1, TradeValues
    <2>3. \A r \in reads' : r.since \in heard..Len(logbook) /\ r.since # 0
      BY <1>4, <1>5
    <2> QED BY <1>1, <1>3, <1>4, <2>1, <2>2, <2>3 DEF ReadInv
  <1>11. LockInv'
    <2>1. panel'.editor = 0 /\ panel'.recovery.target = 0
      BY <1>1, TradeValues
    <2> QED BY <1>1, <1>4, <1>7, <2>1 DEF LockInv
  <1>12. TradeTypes'
    BY <1>1, <1>2, <1>3, <1>5, <1>6, TradeValues DEF TradeTypes
  <1> QED BY <1>8, <1>9, <1>10, <1>11, <1>12, QuietGoesOn

\* The page is mounted when the trade has its first booking.
LEMMA TradeStarts == ASSUME TP!PageAssumption, TP!Init PROVE TradeInv
  <1> DEFINE e == TP!Entry("purchase", 0, 0, 0)
  <1>1. /\ logbook = <<e>> /\ lost = {} /\ submits = 0 /\ heard = 0 /\ page = TP!Blank /\ panel = TP!Empty
        /\ reads = TP!FirstReads(1) /\ tasks = [f \in TP!Forms |-> TP!Idle]
        /\ capture = [k \in Captures |-> [input |-> 0, payload |-> "p", stored |-> "none", key |-> 0]]
    BY DEF TP!Init
  <1>2. e \in Entries /\ e.key = 0 /\ e.kind = "purchase" /\ e.of = 0
    BY DEF TP!Entry, Entries, Kinds
  <1> HIDE DEF e
  <1>3. logbook \in Seq(Entries) /\ Len(logbook) = 1 /\ logbook[1] = e /\ 1..1 = {1}
    BY <1>1, <1>2
  <1>4. /\ reads \subseteq PageReads /\ (\A r \in reads : r.since = 1) /\ TP!Loading("panel")
    BY <1>1, FirstReadsAre DEF TP!Loading
  <1>5. \A f \in TP!Forms : tasks[f] = TP!Idle /\ ~InWork(f) /\ ~TP!Locked(f) /\ ~TP!Writes(f)
    BY <1>1, TradeValues DEF InWork, TP!Locked, TP!Writes
  <1>6. \A k \in Captures : capture[k] \in Inputs /\ capture[k].key = 0 /\ capture[k].stored = "none" /\ capture[k].input = 0
    BY <1>1 DEF Inputs
  <1>7. TradeTypes
    BY <1>1, <1>3, <1>4, TradeValues DEF TradeTypes, Inputs
  <1>8. \A d \in Entries : Asked(d) => d = e
    BY <1>1, <1>3, <1>5 DEF Asked
  <1>9. LastInv
    <2>1. Alike(logbook[1], logbook[1])
      BY DEF Alike
    <2>2. \A m \in 1..Len(logbook) : \E i \in 1..Len(logbook) :
             Alike(logbook[i], logbook[m]) /\ \A j \in i + 1..Len(logbook) : ~Alike(logbook[j], logbook[m])
      BY <1>3, <2>1
    <2>3. \A n \in 1..Len(logbook) : ~\E m \in 1..n : logbook[m].kind = "stop"
      BY <1>2, <1>3
    <2> QED BY <2>2, <2>3 DEF LastInv
  <1>10. AskedInv
    <2>1. \A f \in TP!Forms : tasks[f].phase # "booked"
      BY <1>5, TradeValues
    <2> QED BY <1>2, <1>3, <1>5, <1>8, <2>1 DEF AskedInv
  <1>11. KeyInv
    <2>1. \A i, j \in 1..Len(logbook) : i = j
      BY <1>3
    <2>2. \A d \in Entries : Asked(d) => ~Keyed(d)
      BY <1>2, <1>8 DEF Keyed
    <2>3. \A k \in Captures : capture[k].key <= submits /\ capture[k].stored = "none" /\ capture[k].input <= MaxInputs + 1
      BY <1>1, <1>6 DEF TP!PageAssumption
    <2> QED BY <1>5, <2>1, <2>2, <2>3 DEF KeyInv
  <1>12. LockInv
    BY <1>1, <1>3, <1>5, TradeValues DEF LockInv
  <1>13. StopInv
    <2>1. page.count = 0 /\ page.typed = 0 /\ page.basis = 0 /\ page.draft = 0
      BY <1>1 DEF TP!Blank
    <2> QED BY <2>1 DEF StopInv, Stops, TP!PageAssumption
  <1>14. ReadInv
    <2>1. page.ready = FALSE /\ page.shown = 0 /\ panel.entries = 0
      BY <1>1, TradeValues
    <2>2. 1 \in 1..MaxWrites /\ 0 <= MaxSubmits
      BY DEF TP!PageAssumption
    <2> QED BY <1>1, <1>3, <1>4, <2>1, <2>2 DEF ReadInv
  <1> QED BY <1>7, <1>9, <1>10, <1>11, <1>12, <1>13, <1>14 DEF TradeInv

\* A step of the page keeps what is true of it.
LEMMA TradeKeeps == ASSUME TP!PageAssumption, TradeInv, [TP!Next]_(TP!pageVars) PROVE TradeInv'
  <1>1. CASE TP!Next
    <2>1. ASSUME NEW k \in Captures, TP!SubmitCapture(k) \/ TP!CaptureBooked(k) \/ TP!EditCapture(k) PROVE TradeInv'
      BY <2>1, TradeSubmitCapture, TradeCaptureBooked, TradeEditCapture
    <2>2. ASSUME NEW t \in 1..Len(logbook), TP!OpenEditor(t) PROVE TradeInv'
      BY <2>2, TradeOpenEditor
    <2>3. ASSUME NEW f \in TP!Forms, TP!Serve(f) \/ TP!Refuse(f) \/ TP!Refused(f) \/ TP!NoAnswer(f) \/ TP!Finish(f)
          PROVE  TradeInv'
      BY <2>3, TradeServe, TradeRefuse, TradeRefused, TradeNoAnswer, TradeFinish
    <2>4. ASSUME NEW e \in lost, TP!ServeLost(e) PROVE TradeInv'
      BY <2>4, TradeServeLost
    <2>5. ASSUME NEW e, TP!OtherTab(e) PROVE TradeInv'
      BY <2>5, TradeOtherTab
    <2>6. ASSUME NEW r \in reads, TP!ReadFails(r) PROVE TradeInv'
      BY <2>6, TradeReadFails
    <2>7. ASSUME NEW r \in reads, NEW n \in 1..Len(logbook), TP!Arrive(r, n) PROVE TradeInv'
      BY <2>7, TradeArrive
    <2>8. CASE TP!SubmitStop \/ TP!SubmitCorrection \/ TP!StopBooked \/ TP!CorrectionBooked
      BY <2>8, TradeSubmitStop, TradeSubmitCorrection, TradeStopBooked, TradeCorrectionBooked
    <2>9. CASE TP!Review \/ TP!Lookup \/ TP!TypeStop \/ TP!Reload
      BY <2>9, TradeReview, TradeLookup, TradeTypeStop, TradeReload
    <2> QED BY <1>1, <2>1, <2>2, <2>3, <2>4, <2>5, <2>6, <2>7, <2>8, <2>9 DEF TP!Next
  <1>2. CASE UNCHANGED TP!pageVars
    <2> USE DEF TradeInv
    <2>1. UNCHANGED <<logbook, lost, page, panel, tasks, reads, capture, submits, heard>>
      BY <1>2 DEF TP!pageVars
    <2>2. Quiet
      BY <2>1 DEF Quiet, TradeTypes, Shows, Asked, InWork
    <2>3. ReadInv' /\ StopInv'
      BY <2>1, StopStays DEF ReadInv, TP!Loading
    <2>4. LockInv'
      BY <2>1 DEF LockInv, TP!Locked, TP!Writes
    <2>5. TradeTypes'
      BY <2>1 DEF TradeTypes
    <2> QED BY <2>2, <2>3, <2>4, <2>5, QuietGoesOn
  <1> QED BY <1>1, <1>2

\* What the page makes sure of.
LEMMA TradeSays ==
  ASSUME TP!PageAssumption, TradeInv
  PROVE  TP!TypeOK /\ TP!InputBookedOnce /\ TP!ShownIsCurrent /\ TP!DoubtBlocksWrites /\ TP!TypedIsKept
  <1> USE DEF TradeInv
  <1>1. TP!TypeOK
    <2>1. MaxWrites \in Nat /\ MaxTyped \in Nat /\ MaxSubmits \in Nat /\ MaxInputs \in Nat /\ Len(logbook) \in 1..MaxWrites
      BY DEF TP!PageAssumption, ReadInv
    <2>2. page \in [shown : 0..MaxWrites, ready : BOOLEAN, basis : 0..TP!Elsewhere, draft : 0..TP!Elsewhere,
                    typed : 0..MaxTyped, count : 0..MaxTyped]
      <3>1. page \in Shows /\ page.shown <= Len(logbook) /\ page.count <= MaxTyped /\ page.typed <= page.count
            /\ page.basis \in Stops /\ page.draft \in Stops
        BY DEF TradeTypes, StopInv, ReadInv
      <3>2. \A x \in Stops : x \in 0..TP!Elsewhere
        BY <2>1, <3>1 DEF Stops, TP!Elsewhere, Shows
      <3> QED BY <2>1, <3>1, <3>2 DEF Shows
    <2>3. panel \in [entries : 0..MaxWrites, failed : BOOLEAN, editor : 0..MaxWrites,
                     recovery : [target : 0..MaxWrites, confirmed : BOOLEAN]]
      <3>1. panel \in Panels /\ panel.entries <= Len(logbook) /\ panel.editor <= Len(logbook) /\ panel.recovery.target <= Len(logbook)
        BY DEF TradeTypes, LockInv, ReadInv
      <3> QED BY <2>1, <3>1 DEF Panels
    <2>4. \A f \in TP!Forms : tasks[f].phase \in {"idle", "sent", "booked", "refused", "reads"}
      BY DEF TradeTypes, FormTasks
    <2>5. \A r \in reads : r.of \in {"page", "panel"} /\ r.since \in 1..MaxWrites
      <3>1. \A r \in reads : r \in PageReads /\ r.since \in heard..Len(logbook) /\ r.since # 0
        BY DEF TradeTypes, ReadInv
      <3> QED BY <2>1, <3>1 DEF PageReads
    <2>6. capture \in [Captures -> [input : 0..MaxInputs + 1, payload : {"p", "q"},
                                    stored : {"none", "p", "q"}, key : 0..MaxSubmits]]
      <3>1. \A k \in Captures : capture[k] \in Inputs /\ capture[k].key <= submits /\ capture[k].input <= MaxInputs + 1
        BY DEF TradeTypes, KeyInv
      <3>2. submits \in Nat /\ submits <= MaxSubmits
        BY DEF TradeTypes, ReadInv
      <3>3. \A k \in Captures : capture[k] \in [input : 0..MaxInputs + 1, payload : {"p", "q"},
                                                stored : {"none", "p", "q"}, key : 0..MaxSubmits]
        BY <2>1, <3>1, <3>2 DEF Inputs
      <3> QED BY <3>3 DEF TradeTypes
    <2> QED BY <2>1, <2>2, <2>3, <2>4, <2>5, <2>6 DEF TP!TypeOK
  <1>2. TP!InputBookedOnce
    <2> SUFFICES ASSUME NEW i \in 1..Len(logbook), NEW j \in 1..Len(logbook), logbook[i].key # 0, logbook[i].kind = logbook[j].kind,
                        logbook[i].input = logbook[j].input, logbook[j].key # 0
                 PROVE  i = j
      BY DEF TP!InputBookedOnce
    <2>1. PICK a \in Entries, d \in Entries : a = logbook[i] /\ d = logbook[j] /\ Asked(a) /\ Asked(d)
      BY DEF TradeTypes, Asked
    <2>2. Keyed(a) /\ Keyed(d)
      BY <2>1 DEF AskedInv, Keyed
    <2>3. a.key = d.key
      BY <2>1, <2>2 DEF KeyInv
    <2> QED BY <2>1, <2>3 DEF KeyInv
  <1>3. TP!ShownIsCurrent
    BY DEF TP!ShownIsCurrent, ReadInv, TradeTypes, Shows, Panels
  <1>4. TP!DoubtBlocksWrites
    <2>1. \A f \in TP!Forms : TP!Writes(f) => TP!Locked(f)
      BY WorkIsLocked DEF TP!Writes, InWork
    <2> QED BY <2>1 DEF TP!DoubtBlocksWrites, LockInv
  <1>5. TP!TypedIsKept
    BY DEF TP!TypedIsKept, StopInv
  <1> QED BY <1>1, <1>2, <1>3, <1>4, <1>5

\* The page of a trade, whose writes are lost, retried and made in other tabs: it is of
\* its type, an input is booked once, what is shown is not older than what was told to be
\* written, nothing is written in doubt, and a stop that was typed is kept.
THEOREM TradePageIsCurrent ==
  ASSUME TP!PageAssumption
  PROVE  TP!Spec => [](/\ TP!TypeOK /\ TP!InputBookedOnce /\ TP!ShownIsCurrent
                       /\ TP!DoubtBlocksWrites /\ TP!TypedIsKept)
  <1>1. TP!Init => TradeInv
    BY TradeStarts
  <1>2. TradeInv /\ [TP!Next]_(TP!pageVars) => TradeInv'
    BY TradeKeeps
  <1>3. TradeInv => /\ TP!TypeOK /\ TP!InputBookedOnce /\ TP!ShownIsCurrent
                    /\ TP!DoubtBlocksWrites /\ TP!TypedIsKept
    BY TradeSays
  <1> QED BY <1>1, <1>2, <1>3, PTL DEF TP!Spec
=============================================================================
