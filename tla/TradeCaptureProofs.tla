-------------------------- MODULE TradeCaptureProofs --------------------------
(***************************************************************************)
(* Theorems about TradeCapture, for every number of clients, trades and    *)
(* warrants, any set of request keys, quantities and times, and every      *)
(* bound on the histories.                                                 *)
(*                                                                         *)
(* The argument is about locks. Inv says, session by session, what a       *)
(* session has read under its locks and may still rely on: SessionOK(s)    *)
(* mentions the database and the state of s only, and what it says of the  *)
(* database concerns rows, keys and products that s has locked (or a trade *)
(* nobody else can name yet). No lock is held twice (LocksExclusive), so   *)
(* a commit of another session leaves SessionOK(s) alone, and the commit   *)
(* of s may be judged by what s has read.                                  *)
(***************************************************************************)
EXTENDS TradeCapture, FiniteSetTheorems, TLAPS

----------------------------------------------------------------------------
(* The projection of a trade's first execution.                            *)

\* The recursive function in Projection has the value of any function that is
\* the only solution of its equation.
LEMMA ProjectionUnfolds ==
    ASSUME NEW history,
           NEW f, f = [k \in 0..Cardinality(Effective(history)) |->
                 IF k = 0 THEN Nothing ELSE Apply(f[k - 1], Nth(history, k))],
           \A g : g = [k \in 0..Cardinality(Effective(history)) |->
                 IF k = 0 THEN Nothing ELSE Apply(g[k - 1], Nth(history, k))] => g = f
    PROVE  Projection(history) = f[Cardinality(Effective(history))]
<1> DEFINE count == Cardinality(Effective(history))
           Step(g) == [k \in 0..count |-> IF k = 0 THEN Nothing ELSE Apply(g[k - 1], Nth(history, k))]
           c == CHOOSE g : g = Step(g)
<1>1. Projection(history) = c[count]
  BY Zenon DEF Projection
<1>2. c = Step(c)
  BY Zenon
<1>3. c = f
  BY <1>2
<1>4. QED
  BY <1>1, <1>3

\* Before anything is recorded nothing is open.
LEMMA EmptyProjection == Projection(<<>>) = Nothing
<1>1. Effective(<<>>) = {}
  BY DEF Effective
<1>2. Cardinality(Effective(<<>>)) = 0
  BY <1>1, FS_EmptySet
<1> DEFINE f == [k \in {0} |-> Nothing]
           g(h) == [k \in 0..0 |-> IF k = 0 THEN Nothing ELSE Apply(h[k - 1], Nth(<<>>, k))]
<1>3. 0..0 = {0}
  OBVIOUS
<1>4. ASSUME NEW h PROVE g(h) = f
  BY <1>3
<1>5. f[0] = Nothing
  OBVIOUS
<1> HIDE DEF f
<1>6. QED
  BY <1>2, <1>4, <1>5, ProjectionUnfolds

\* A purchase is always possible as the first execution.
LEMMA SinglePurchase ==
    ASSUME NEW e, e.side = "BUY", e.replaces = 0, e.quantity \in Nat, e.at \in Nat
    PROVE  /\ Projection(<<e>>) = [open |-> e.quantity, begun |-> TRUE, ended |-> FALSE,
                                   possible |-> TRUE]
           /\ OpenQuantity(<<e>>) = e.quantity
           /\ Possible(<<e>>)
<1> DEFINE b == <<e>>
           p == [open |-> e.quantity, begun |-> TRUE, ended |-> FALSE, possible |-> TRUE]
           f == [k \in {0, 1} |-> IF k = 0 THEN Nothing ELSE p]
           g(h) == [k \in 0..1 |-> IF k = 0 THEN Nothing ELSE Apply(h[k - 1], Nth(b, k))]
<1>1. DOMAIN b = {1} /\ b[1] = e
  OBVIOUS
<1>2. Effective(b) = {1}
  BY <1>1 DEF Effective, Superseded
<1>3. Cardinality(Effective(b)) = 1
  BY <1>2, FS_Singleton
<1>4. {j \in {1} : Before(b, j, 1)} = {}
  BY <1>1 DEF Before
<1>5. Cardinality({j \in Effective(b) : Before(b, j, 1)}) = 0
  BY <1>2, <1>4, FS_EmptySet
<1>6. (CHOOSE i \in Effective(b) :
          Cardinality({j \in Effective(b) : Before(b, j, i)}) = 1 - 1) = 1
  BY <1>2, <1>5
<1>7. Nth(b, 1) = e
  BY <1>1, <1>6 DEF Nth
<1>8. Apply(Nothing, e) = p
  <2>1. Apply(Nothing, e) = [Nothing EXCEPT !.open = Nothing.open + e.quantity, !.begun = TRUE,
                               !.possible = Nothing.possible /\ ~Nothing.ended]
    BY DEF Apply, Buy
  <2>2. Nothing.open + e.quantity = e.quantity
    BY DEF Nothing
  <2>3. (Nothing.possible /\ ~Nothing.ended) = TRUE
    BY Zenon DEF Nothing
  <2>4. Apply(Nothing, e) = [Nothing EXCEPT !.open = e.quantity, !.begun = TRUE, !.possible = TRUE]
    BY Zenon, <2>1, <2>2, <2>3
  <2>5. QED
    BY <2>4 DEF Nothing
<1>9. 0..1 = {0, 1}
  OBVIOUS
<1>10. f = g(f)
  <2>1. f[1 - 1] = Nothing
    OBVIOUS
  <2>2. \A k \in {0, 1} : f[k] = IF k = 0 THEN Nothing ELSE Apply(f[k - 1], Nth(b, k))
    BY <1>7, <1>8, <2>1
  <2>3. QED
    BY <1>9, <2>2
<1>11. ASSUME NEW h, h = g(h) PROVE h = f
  <2>1. h[0] = Nothing
    BY <1>9, <1>11
  <2>2. h[1] = p
    <3>1. h[1] = Apply(h[1 - 1], Nth(b, 1))
      BY <1>9, <1>11
    <3>2. h[1 - 1] = h[0]
      OBVIOUS
    <3>3. QED
      BY Zenon, <1>7, <1>8, <2>1, <3>1, <3>2
  <2>3. QED
    BY <1>9, <1>11, <2>1, <2>2
<1>12. f[1] = p
  OBVIOUS
<1> HIDE DEF f, b
<1>13. Projection(b) = p
  <2> DEFINE G(h) == [k \in 0..Cardinality(Effective(b)) |->
                        IF k = 0 THEN Nothing ELSE Apply(h[k - 1], Nth(b, k))]
  <2>1. f = G(f)
    BY Zenon, <1>3, <1>10
  <2>2. \A h : h = G(h) => h = f
    BY Zenon, <1>3, <1>11
  <2>3. Projection(b) = f[Cardinality(Effective(b))]
    BY Zenon, <2>1, <2>2, ProjectionUnfolds
  <2>4. QED
    BY Zenon, <1>3, <1>12, <2>3
<1>14. QED
  BY <1>13 DEF OpenQuantity, Possible, b
----------------------------------------------------------------------------
(* The inductive invariant.                                                *)

Writing(s) == pc[s] \in {"ready", "flushed"}
History(s) == Append(book[job[s].trade], job[s].next)

\* No lock has two holders.
LocksExclusive == \A s, o \in Sessions : s # o => locks[s] \cap locks[o] = {}

\* A trade that is being opened is known to one session only.
FreshIsPrivate ==
    \A s, o \in Sessions :
        s # o /\ Writing(s) /\ ~Exists(job[s].trade) => job[o].trade # job[s].trade

\* What a request names is there.
RequestOK(s) ==
    /\ pc[s] = "idle" => job[s] = NoJob
    /\ pc[s] = "begun" => job[s].key \in Keys
    /\ pc[s] \in {"begun", "keyed"} =>
         IF job[s].trade = 0 THEN job[s].product \in Products ELSE Exists(job[s].trade)
    /\ pc[s] \in {"previewed", "cancelling", "confirmed"} =>
         /\ job[s].trade # 0
         /\ Exists(job[s].trade)
         /\ job[s].dup # 0 => Exists(job[s].dup)

\* Past find_request, the key is locked and not used.
KeyIsHeld(s) ==
    (pc[s] = "keyed" \/ Writing(s)) /\ job[s].key # NoKey =>
        job[s].key \in locks[s] /\ ~KeyIsUsed(job[s].key)

\* What is about to be written fits the rows that are locked.
WriteIsValid(s) ==
    Writing(s) =>
        /\ job[s].trade \in Trades \ cancelled
        /\ Exists(job[s].trade) => job[s].trade \in locks[s]
        /\ job[s].next \in Execution
        /\ job[s].next.key = job[s].key
        /\ job[s].next.replaces # 0 => job[s].next.replaces \in Effective(book[job[s].trade])
        /\ job[s].next.side = "SELL" /\ job[s].next.replaces = 0 => position[job[s].trade] > 0
        /\ Len(book[job[s].trade]) < MaxHistory
        /\ Possible(History(s))
        /\ job[s].open = OpenQuantity(History(s))

\* Past the trigger, a position that becomes open has no rival.
OpeningIsAlone(s) ==
    pc[s] = "flushed" /\ Opens(s) =>
        /\ ProductOf[job[s].trade] \in locks[s]
        /\ Rivals(job[s].trade) = {}

\* Past the checks, a cancellation holds its rows and they are as checked.
CancelIsValid(s) ==
    pc[s] = "confirmed" =>
        /\ CancelRows(s) \subseteq locks[s]
        /\ Cancellable(s)
        /\ job[s].token.length = Len(book[job[s].trade])

SessionOK(s) ==
    /\ RequestOK(s)
    /\ KeyIsHeld(s)
    /\ WriteIsValid(s)
    /\ OpeningIsAlone(s)
    /\ CancelIsValid(s)

\* Only a trade that exists is cancelled.
CancelledExist == \A t \in cancelled : Exists(t)

Inv ==
    /\ TypeOK
    /\ LocksExclusive
    /\ FreshIsPrivate
    /\ PositionIsProjection
    /\ CancelledExist
    /\ \A s \in Sessions : SessionOK(s)

Statuses == {"idle", "begun", "replay", "keyed", "ready", "flushed",
             "previewed", "cancelling", "confirmed"}

----------------------------------------------------------------------------
(* Typing facts.                                                           *)

\* The records of the sessions.
LEMMA JobFacts ==
    ASSUME TypeOK, NEW s \in Sessions
    PROVE  /\ job[s] \in Job
           /\ job[s].key \in Keys \cup {NoKey}
           /\ job[s].product \in Products \cup {0}
           /\ job[s].trade \in Trades \cup {0}
           /\ job[s].next \in Execution \cup {NoExecution}
           /\ job[s].open \in Nat
           /\ job[s].dup \in Trades \cup {0}
           /\ job[s].token \in Token
<1>1. job[s] \in Job
  BY DEF TypeOK
<1>2. QED
  BY <1>1 DEF Job

\* The request of an idle session is a request.
LEMMA NoJobIsJob == ASSUME CaptureAssumption PROVE NoJob \in Job
<1>1. NoToken \in Token
  BY DEF NoToken, Token, CaptureAssumption
<1>2. QED
  BY <1>1 DEF NoJob, Job

\* Id 0 stands for no trade.
LEMMA TradeIds == ASSUME CaptureAssumption PROVE 0 \notin Trades /\ Trades \subseteq Nat
  BY DEF CaptureAssumption

\* A history that exists has an effective execution only at a place it has.
LEMMA EffectiveFacts ==
    ASSUME TypeOK, NEW t \in Trades
    PROVE  /\ book[t] \in Seq(Execution)
           /\ Len(book[t]) \in 0..MaxHistory
           /\ DOMAIN book[t] = 1..Len(book[t])
           /\ Effective(book[t]) \subseteq DOMAIN book[t]
           /\ Effective(book[t]) \subseteq 0..MaxHistory
<1>1. book[t] \in Seq(Execution) /\ Len(book[t]) <= MaxHistory
  BY DEF TypeOK
<1>2. Effective(book[t]) \subseteq DOMAIN book[t]
  BY DEF Effective
<1>3. DOMAIN book[t] = 1..Len(book[t]) /\ Len(book[t]) \in Nat
  BY <1>1
<1>4. QED
  BY <1>1, <1>2, <1>3, CaptureAssumption DEF CaptureAssumption

\* What a session may lock.
LEMMA WantsFacts ==
    ASSUME Inv, NEW s \in Sessions
    PROVE  Wants(s) \subseteq Keys \cup Trades \cup Products
<1>1. KeyWanted(s) \subseteq Keys
  BY DEF KeyWanted, Inv, SessionOK, RequestOK
<1>2. CancelRows(s) \subseteq Trades
  BY JobFacts DEF Inv, CancelRows
<1>3. TradeWanted(s) \subseteq Trades
  BY <1>2, JobFacts DEF Inv, TradeWanted, NextRow
<1>4. ProductWanted(s) \subseteq Products
  <2>1. ASSUME pc[s] = "keyed", job[s].trade = 0 PROVE job[s].product \in Products
    BY <2>1 DEF Inv, SessionOK, RequestOK
  <2>2. ASSUME pc[s] = "ready" PROVE ProductOf[job[s].trade] \in Products
    BY <2>2, CaptureAssumption
    DEF Inv, SessionOK, WriteIsValid, Writing, CaptureAssumption
  <2>3. QED
    BY <2>1, <2>2 DEF ProductWanted
<1>5. QED
  BY <1>1, <1>3, <1>4 DEF Wants

\* A granted lock has no other holder.
LEMMA GrantedFacts ==
    ASSUME Inv, NEW s \in Sessions, Granted(s), NEW o \in Sessions, o # s
    PROVE  (locks[s] \cup Wants(s)) \cap locks[o] = {}
<1>1. locks[s] \cap locks[o] = {}
  BY DEF Inv, LocksExclusive
<1>2. Wants(s) \cap locks[o] = {}
  BY DEF Granted
<1>3. QED
  BY <1>1, <1>2

----------------------------------------------------------------------------
(* Steps that leave the database alone.                                    *)

\* What a session relies on does not depend on the other sessions.
LEMMA SameSession ==
    ASSUME NEW s \in Sessions, SessionOK(s), UNCHANGED database,
           pc'[s] = pc[s], locks'[s] = locks[s], job'[s] = job[s]
    PROVE  SessionOK(s)'
<1> USE DEF database
<1>1. RequestOK(s)'
  BY DEF SessionOK, RequestOK, Exists
<1>2. KeyIsHeld(s)'
  BY DEF SessionOK, KeyIsHeld, Writing, KeyIsUsed
<1>3. WriteIsValid(s)'
  BY DEF SessionOK, WriteIsValid, Writing, Exists, History
<1>4. OpeningIsAlone(s)'
  BY DEF SessionOK, OpeningIsAlone, Opens, Rivals, Held
<1>5. CancelIsValid(s)'
  BY DEF SessionOK, CancelIsValid, CancelRows, Cancellable, HasSale, Rivals, Held
<1>6. QED
  BY <1>1, <1>2, <1>3, <1>4, <1>5 DEF SessionOK

\* A session without a request relies on nothing.
LEMMA IdleSession ==
    ASSUME NEW s \in Sessions, pc'[s] = "idle", job'[s] = NoJob
    PROVE  SessionOK(s)'
  BY DEF SessionOK, RequestOK, KeyIsHeld, WriteIsValid, Writing, OpeningIsAlone, CancelIsValid

\* A step of s that writes nothing keeps the invariant if it takes only free
\* locks, names no trade that another session is opening, and leaves s right.
LEMMA SessionStep ==
    ASSUME Inv, NEW s \in Sessions, UNCHANGED database,
           NEW p \in Statuses, pc' = [pc EXCEPT ![s] = p],
           NEW L \in SUBSET (Keys \cup Trades \cup Products), locks' = [locks EXCEPT ![s] = L],
           NEW J \in Job, job' = [job EXCEPT ![s] = J],
           \A o \in Sessions \ {s} : L \cap locks[o] = {},
           p \in {"ready", "flushed"} /\ ~Exists(J.trade) =>
               \A o \in Sessions \ {s} : job[o].trade # J.trade,
           J.trade = 0 \/ J.trade = job[s].trade \/ Exists(J.trade)
               \/ \A o \in Sessions \ {s} : job[o].trade # J.trade,
           SessionOK(s)'
    PROVE  Inv'
<1>1. TypeOK'
  <2>1. pc' \in [Sessions -> Statuses] /\ locks' \in [Sessions -> SUBSET (Keys \cup Trades \cup Products)]
        /\ job' \in [Sessions -> Job]
    BY DEF Inv, TypeOK, Statuses
  <2>2. QED
    BY <2>1 DEF Inv, TypeOK, database, Statuses
<1>2. /\ pc'[s] = p /\ locks'[s] = L /\ job'[s] = J
      /\ \A o \in Sessions \ {s} : pc'[o] = pc[o] /\ locks'[o] = locks[o] /\ job'[o] = job[o]
  BY DEF Inv, TypeOK
<1>3. LocksExclusive'
  <2>1. ASSUME NEW a \in Sessions, NEW b \in Sessions, a # b
        PROVE  locks'[a] \cap locks'[b] = {}
    <3>1. CASE a = s
      BY <1>2, <2>1, <3>1
    <3>2. CASE b = s
      BY <1>2, <2>1, <3>2
    <3>3. CASE a # s /\ b # s
      BY <1>2, <2>1, <3>3 DEF Inv, LocksExclusive
    <3>4. QED
      BY <3>1, <3>2, <3>3
  <2>2. QED
    BY <2>1 DEF LocksExclusive
<1>4. FreshIsPrivate'
  <2>1. ASSUME NEW a \in Sessions, NEW b \in Sessions, a # b,
               Writing(a)', ~Exists(job[a].trade)'
        PROVE  job'[b].trade # job'[a].trade
    <3>1. CASE a = s
      <4>1. p \in {"ready", "flushed"} /\ ~Exists(J.trade)
        BY <1>2, <2>1, <3>1 DEF Writing, Exists, database
      <4>2. job'[b] = job[b]
        BY <1>2, <2>1, <3>1
      <4>3. QED
        BY <1>2, <2>1, <3>1, <4>1, <4>2
    <3>2. CASE a # s
      <4>1. Writing(a) /\ ~Exists(job[a].trade) /\ job'[a] = job[a]
        BY <1>2, <2>1, <3>2 DEF Writing, Exists, database
      <4>2. CASE b # s
        BY <1>2, <2>1, <3>2, <4>1, <4>2 DEF Inv, FreshIsPrivate
      <4>3. CASE b = s
        <5>1. job[s].trade # job[a].trade
          BY <2>1, <4>1, <4>3 DEF Inv, FreshIsPrivate
        <5>2. job[a].trade # 0
          BY <4>1, CaptureAssumption DEF Inv, SessionOK, WriteIsValid, CaptureAssumption
        <5>3. QED
          BY <1>2, <3>2, <4>1, <4>3, <5>1, <5>2
      <4>4. QED
        BY <4>2, <4>3
    <3>3. QED
      BY <3>1, <3>2
  <2>2. QED
    BY <2>1 DEF FreshIsPrivate
<1>5. PositionIsProjection'
  BY DEF Inv, PositionIsProjection, Exists, database
<1>6. CancelledExist'
  BY DEF Inv, CancelledExist, Exists, database
<1>7. \A o \in Sessions : SessionOK(o)'
  <2>1. ASSUME NEW o \in Sessions, o # s PROVE SessionOK(o)'
    BY <1>2, <2>1, SameSession DEF Inv
  <2>2. QED
    BY <2>1
<1>8. QED
  BY <1>1, <1>3, <1>4, <1>5, <1>6, <1>7 DEF Inv

\* The end of a transaction that has written nothing, or nothing any more.
LEMMA EndStep ==
    ASSUME Inv, NEW s \in Sessions, End(s), UNCHANGED database
    PROVE  Inv'
<1>1. pc'[s] = "idle" /\ job'[s] = NoJob
  BY DEF End, Inv, TypeOK
<1>2. SessionOK(s)'
  BY <1>1, IdleSession
<1>3. NoJob.trade = 0
  BY DEF NoJob
<1>4. "idle" \in Statuses /\ "idle" \notin {"ready", "flushed"}
  BY DEF Statuses
<1>5. NoJob \in Job
  BY NoJobIsJob, CaptureAssumption
<1>6. {} \in SUBSET (Keys \cup Trades \cup Products) /\ \A o \in Sessions \ {s} : {} \cap locks[o] = {}
  OBVIOUS
<1>7. /\ pc' = [pc EXCEPT ![s] = "idle"]
      /\ locks' = [locks EXCEPT ![s] = {}]
      /\ job' = [job EXCEPT ![s] = NoJob]
  BY DEF End
<1>8. QED
  BY <1>2, <1>3, <1>4, <1>5, <1>6, <1>7, SessionStep

\* The lock part of a step.
LEMMA AdvanceFacts ==
    ASSUME Inv, NEW s \in Sessions, NEW p, Granted(s), Advance(s, p)
    PROVE  /\ pc' = [pc EXCEPT ![s] = p]
           /\ locks' = [locks EXCEPT ![s] = locks[s] \cup Wants(s)]
           /\ locks[s] \cup Wants(s) \in SUBSET (Keys \cup Trades \cup Products)
           /\ \A o \in Sessions \ {s} : (locks[s] \cup Wants(s)) \cap locks[o] = {}
           /\ pc'[s] = p
           /\ locks'[s] = locks[s] \cup Wants(s)
<1>1. locks[s] \in SUBSET (Keys \cup Trades \cup Products)
  BY DEF Inv, TypeOK
<1>2. locks[s] \cup Wants(s) \in SUBSET (Keys \cup Trades \cup Products)
  BY <1>1, WantsFacts
<1>3. QED
  BY <1>2, GrantedFacts DEF Advance, Inv, TypeOK

\* The lock part of a step that locks nothing.
LEMMA StayFacts ==
    ASSUME Inv, NEW s \in Sessions, UNCHANGED locks
    PROVE  /\ locks' = [locks EXCEPT ![s] = locks[s]]
           /\ locks[s] \in SUBSET (Keys \cup Trades \cup Products)
           /\ \A o \in Sessions \ {s} : locks[s] \cap locks[o] = {}
  BY DEF Inv, TypeOK, LocksExclusive

----------------------------------------------------------------------------
(* The steps of a capture up to its commit.                                *)

\* A request comes in.
LEMMA BeginStep == ASSUME Inv, NEW s \in Sessions, Begin(s) PROVE Inv'
<1>1. PICK k \in Keys \cup {NoKey} :
        /\ \/ \E p \in Products : job' = [job EXCEPT ![s].key = k, ![s].product = p]
           \/ \E t \in Trades : Exists(t) /\ job' = [job EXCEPT ![s].key = k, ![s].trade = t]
        /\ pc' = [pc EXCEPT ![s] = IF k = NoKey THEN "keyed" ELSE "begun"]
  BY DEF Begin
<1> DEFINE p == IF k = NoKey THEN "keyed" ELSE "begun"
<1>2. job[s] = NoJob /\ UNCHANGED database /\ UNCHANGED locks
  BY DEF Begin, Inv, SessionOK, RequestOK
<1>3. NoJob.trade = 0 /\ NoJob \in Job
  BY NoJobIsJob, CaptureAssumption DEF NoJob
<1>4. p \in {"begun", "keyed"} /\ (p = "begun" => k \in Keys) /\ (p = "keyed" => k = NoKey)
  OBVIOUS
<1> HIDE DEF p
<1> p \in Statuses /\ p \notin {"ready", "flushed"}
  BY <1>4 DEF Statuses
<1>5. pc' = [pc EXCEPT ![s] = p] /\ pc'[s] = p
  BY <1>1 DEF Inv, TypeOK, p
<1>6. CASE \E q \in Products : job' = [job EXCEPT ![s].key = k, ![s].product = q]
  <2>1. PICK q \in Products : job' = [job EXCEPT ![s].key = k, ![s].product = q]
    BY <1>6
  <2> DEFINE J == [NoJob EXCEPT !.key = k, !.product = q]
  <2>2. J \in Job /\ J.key = k /\ J.product = q /\ J.trade = 0
    BY <1>3 DEF Job, NoJob
  <2>3. job' = [job EXCEPT ![s] = J] /\ job'[s] = J
    BY <1>2, <2>1 DEF Inv, TypeOK
  <2>4. SessionOK(s)'
    <3>1. RequestOK(s)'
      BY <1>4, <1>5, <2>2, <2>3 DEF RequestOK
    <3>2. KeyIsHeld(s)'
      BY <1>4, <1>5, <2>2, <2>3 DEF KeyIsHeld, Writing
    <3>3. QED
      BY <1>4, <1>5, <3>1, <3>2 DEF SessionOK, WriteIsValid, Writing, OpeningIsAlone, CancelIsValid
  <2> HIDE DEF J
  <2>5. QED
    BY <1>2, <1>4, <1>5, <2>2, <2>3, <2>4, StayFacts, SessionStep
<1>7. CASE \E t \in Trades : Exists(t) /\ job' = [job EXCEPT ![s].key = k, ![s].trade = t]
  <2>1. PICK t \in Trades : Exists(t) /\ job' = [job EXCEPT ![s].key = k, ![s].trade = t]
    BY <1>7
  <2> DEFINE J == [NoJob EXCEPT !.key = k, !.trade = t]
  <2>2. J \in Job /\ J.key = k /\ J.trade = t
    BY <1>3 DEF Job, NoJob
  <2>3. job' = [job EXCEPT ![s] = J] /\ job'[s] = J
    BY <1>2, <2>1 DEF Inv, TypeOK
  <2>4. SessionOK(s)'
    <3>1. RequestOK(s)'
      BY <1>2, <1>4, <1>5, <2>1, <2>2, <2>3, TradeIds, CaptureAssumption
      DEF RequestOK, Exists, database
    <3>2. KeyIsHeld(s)'
      BY <1>4, <1>5, <2>2, <2>3 DEF KeyIsHeld, Writing
    <3>3. QED
      BY <1>4, <1>5, <3>1, <3>2 DEF SessionOK, WriteIsValid, Writing, OpeningIsAlone, CancelIsValid
  <2> HIDE DEF J
  <2>5. Exists(J.trade)
    BY <2>1, <2>2
  <2>6. QED
    BY <1>2, <1>5, <2>2, <2>3, <2>4, <2>5, StayFacts, SessionStep
<1>8. QED
  BY <1>1, <1>6, <1>7

\* The session locks its key and finds no execution with it, or one.
LEMMA FindRequestStep == ASSUME Inv, NEW s \in Sessions, FindRequest(s) PROVE Inv'
<1>1. UNCHANGED database /\ pc[s] = "begun" /\ Granted(s)
  BY DEF FindRequest
<1>2. job[s] \in Job /\ job = [job EXCEPT ![s] = job[s]]
  BY DEF Inv, TypeOK
<1>3. CASE ~KeyIsUsed(job[s].key) /\ Advance(s, "keyed") /\ UNCHANGED job
  <2>1. pc'[s] = "keyed" /\ job[s].key \in locks'[s]
    BY <1>1, <1>3, AdvanceFacts DEF Wants, KeyWanted
  <2>2. "keyed" \in Statuses /\ "keyed" \notin {"ready", "flushed"}
    BY DEF Statuses
  <2>3. SessionOK(s)'
    <3>1. RequestOK(s)'
      BY <1>1, <1>3, <2>1 DEF Inv, SessionOK, RequestOK, Exists, database
    <3>2. KeyIsHeld(s)'
      BY <1>1, <1>3, <2>1 DEF KeyIsHeld, KeyIsUsed, database
    <3>3. QED
      BY <2>1, <3>1, <3>2 DEF SessionOK, WriteIsValid, Writing, OpeningIsAlone, CancelIsValid
  <2>4. job' = [job EXCEPT ![s] = job[s]]
    BY <1>2, <1>3
  <2> DEFINE L == locks[s] \cup Wants(s)
  <2>5. /\ pc' = [pc EXCEPT ![s] = "keyed"] /\ locks' = [locks EXCEPT ![s] = L]
        /\ L \in SUBSET (Keys \cup Trades \cup Products)
        /\ \A o \in Sessions \ {s} : L \cap locks[o] = {}
    BY <1>1, <1>3, AdvanceFacts
  <2> HIDE DEF L
  <2>6. QED
    BY <1>1, <1>2, <2>2, <2>3, <2>4, <2>5, SessionStep
<1>4. ASSUME NEW t \in Trades, \E i \in DOMAIN book[t] : book[t][i].key = job[s].key,
             Advance(s, "replay"),
             job' = [job EXCEPT ![s] = [NoJob EXCEPT !.key = job[s].key, !.trade = t]]
      PROVE  Inv'
  <2> DEFINE J == [NoJob EXCEPT !.key = job[s].key, !.trade = t]
  <2>1. Exists(t)
    BY <1>4 DEF Exists
  <2>2. J \in Job /\ J.trade = t
    BY NoJobIsJob, JobFacts, CaptureAssumption DEF Inv, NoJob, Job
  <2>3. "replay" \in Statuses /\ "replay" \notin {"ready", "flushed"}
    BY DEF Statuses
  <2>4. SessionOK(s)'
    BY <1>1, <1>4, AdvanceFacts
    DEF SessionOK, RequestOK, KeyIsHeld, WriteIsValid, Writing, OpeningIsAlone, CancelIsValid
  <2> HIDE DEF J
  <2>5. job' = [job EXCEPT ![s] = J]
    BY <1>4 DEF J
  <2> DEFINE L == locks[s] \cup Wants(s)
  <2>6. /\ pc' = [pc EXCEPT ![s] = "replay"] /\ locks' = [locks EXCEPT ![s] = L]
        /\ L \in SUBSET (Keys \cup Trades \cup Products)
        /\ \A o \in Sessions \ {s} : L \cap locks[o] = {}
    BY <1>1, <1>4, AdvanceFacts
  <2> HIDE DEF L
  <2>7. QED
    BY <1>1, <2>1, <2>2, <2>3, <2>4, <2>5, <2>6, SessionStep
<1>5. QED
  BY <1>3, <1>4 DEF FindRequest

\* A replay writes nothing.
LEMMA ReplayStep == ASSUME Inv, NEW s \in Sessions, Replay(s) PROVE Inv'
  BY EndStep DEF Replay

\* The executions a session can be asked to record.
LEMMA CapturedFacts ==
    ASSUME Inv, NEW s \in Sessions, NEW side \in {"BUY", "SELL"}, NEW i \in 0..MaxHistory,
           NEW e \in Captured(s, side, i)
    PROVE  /\ e \in Execution
           /\ e.key = job[s].key /\ e.side = side /\ e.replaces = i
           /\ e.quantity \in Quantities /\ e.at \in Times
  BY JobFacts DEF Inv, Captured, Execution

\* A new trade: its first execution can always be projected, and nobody knows it.
LEMMA OpenTradeStep == ASSUME Inv, NEW s \in Sessions, OpenTrade(s) PROVE Inv'
<1>1. UNCHANGED database /\ pc[s] = "keyed" /\ job[s].trade = 0 /\ Granted(s)
  BY DEF OpenTrade
<1>2. CASE End(s)
  BY <1>1, <1>2, EndStep
<1>3. ASSUME NEW t \in Trades, NEW e \in Captured(s, "BUY", 0), ~Exists(t),
             \A o \in Sessions : job[o].trade # t, Advance(s, "ready"),
             job' = [job EXCEPT ![s].trade = t, ![s].next = e, ![s].open = e.quantity]
      PROVE  Inv'
  <2> DEFINE J == [job[s] EXCEPT !.trade = t, !.next = e, !.open = e.quantity]
             L == locks[s] \cup Wants(s)
  <2>1. /\ e \in Execution /\ e.key = job[s].key /\ e.side = "BUY" /\ e.replaces = 0
        /\ e.quantity \in Nat /\ e.at \in Nat
    BY <1>3, CapturedFacts, CaptureAssumption DEF CaptureAssumption
  <2>2. /\ J \in Job /\ J.trade = t /\ J.next = e /\ J.open = e.quantity /\ J.key = job[s].key
    BY <2>1, JobFacts DEF Inv, Job
  <2>3. job' = [job EXCEPT ![s] = J] /\ job'[s] = J
    BY <1>3 DEF Inv, TypeOK
  <2>4. /\ pc' = [pc EXCEPT ![s] = "ready"] /\ locks' = [locks EXCEPT ![s] = L]
        /\ L \in SUBSET (Keys \cup Trades \cup Products)
        /\ \A o \in Sessions \ {s} : L \cap locks[o] = {}
        /\ pc'[s] = "ready" /\ locks'[s] = L
    BY <1>1, <1>3, AdvanceFacts
  <2>5. locks[s] \subseteq L
    OBVIOUS
  <2> HIDE DEF J, L
  <2>6. book[t] = <<>> /\ Append(book[t], e) = <<e>> /\ t \notin cancelled
    <3>1. book[t] = <<>> /\ t \notin cancelled
      BY <1>3 DEF Exists, Inv, CancelledExist
    <3>2. Append(<<>>, e) = <<e>>
      OBVIOUS
    <3>3. QED
      BY <3>1, <3>2
  <2>7. SessionOK(s)'
    <3>1. RequestOK(s)'
      BY <2>4 DEF RequestOK
    <3>2. KeyIsHeld(s)'
      BY <1>1, <2>2, <2>3, <2>4, <2>5 DEF Inv, SessionOK, KeyIsHeld, KeyIsUsed, database
    <3>3. WriteIsValid(s)'
      <4>1. Possible(<<e>>) /\ OpenQuantity(<<e>>) = e.quantity
        BY <2>1, SinglePurchase
      <4>2. History(s)' = <<e>>
        BY <1>1, <2>2, <2>3, <2>6 DEF History, database
      <4>3. Len(book[t]) < MaxHistory
        BY <2>6, CaptureAssumption DEF CaptureAssumption
      <4>4. QED
        BY <1>1, <1>3, <2>1, <2>2, <2>3, <2>4, <2>6, <4>1, <4>2, <4>3
        DEF WriteIsValid, Exists, database
    <3>4. QED
      BY <2>4, <3>1, <3>2, <3>3 DEF SessionOK, OpeningIsAlone, CancelIsValid
  <2>8. "ready" \in Statuses /\ \A o \in Sessions \ {s} : job[o].trade # J.trade
    BY <1>3, <2>2 DEF Statuses
  <2>9. QED
    BY <1>1, <2>2, <2>3, <2>4, <2>7, <2>8, SessionStep
<1>4. QED
  BY <1>2, <1>3 DEF OpenTrade

\* What ReadTrade lets through fits the trade.
LEMMA AllowedFacts ==
    ASSUME Inv, NEW s \in Sessions, job[s].trade \in Trades, NEW e \in Allowed(s)
    PROVE  /\ e \in Execution
           /\ e.key = job[s].key
           /\ e.replaces # 0 => e.replaces \in Effective(book[job[s].trade])
           /\ e.side = "SELL" /\ e.replaces = 0 => position[job[s].trade] > 0
           /\ Possible(Append(book[job[s].trade], e))
<1> DEFINE t == job[s].trade
           corrections == IF job[s].key = NoKey THEN Correctable(t) ELSE {}
<1>1. Possible(Append(book[t], e))
  BY DEF Allowed
<1>2. corrections \subseteq Effective(book[t])
  BY DEF Correctable
<1>3. Effective(book[t]) \subseteq 0..MaxHistory /\ 0 \notin Effective(book[t])
  <2>1. /\ Effective(book[t]) \subseteq 0..MaxHistory
        /\ Effective(book[t]) \subseteq DOMAIN book[t]
        /\ DOMAIN book[t] = 1..Len(book[t]) /\ Len(book[t]) \in 0..MaxHistory
    BY EffectiveFacts DEF Inv
  <2>2. 0 \notin 1..Len(book[t])
    BY <2>1
  <2>3. QED
    BY <2>1, <2>2
<1>4. \/ e \in Captured(s, "BUY", 0)
      \/ position[t] > 0 /\ e \in Captured(s, "SELL", 0)
      \/ \E side \in {"BUY", "SELL"}, i \in corrections : e \in Captured(s, side, i)
  BY DEF Allowed
<1> HIDE DEF t, corrections
<1>5. 0 \in 0..MaxHistory
  BY CaptureAssumption DEF CaptureAssumption
<1>6. CASE e \in Captured(s, "BUY", 0)
  BY <1>1, <1>5, <1>6, CapturedFacts DEF t
<1>7. CASE position[t] > 0 /\ e \in Captured(s, "SELL", 0)
  BY <1>1, <1>5, <1>7, CapturedFacts DEF t
<1>8. ASSUME NEW side \in {"BUY", "SELL"}, NEW i \in corrections, e \in Captured(s, side, i)
      PROVE  /\ e \in Execution /\ e.key = job[s].key
             /\ e.replaces \in Effective(book[t]) /\ e.replaces # 0
  <2>1. i \in 0..MaxHistory /\ i \in Effective(book[t]) /\ i # 0
    BY <1>2, <1>3
  <2>2. QED
    BY <1>8, <2>1, CapturedFacts
<1>9. QED
  BY <1>1, <1>4, <1>6, <1>7, <1>8 DEF t

\* An execution in a trade: it was projected from what is read under the lock.
LEMMA ReadTradeStep == ASSUME Inv, NEW s \in Sessions, ReadTrade(s) PROVE Inv'
<1>1. UNCHANGED database /\ pc[s] = "keyed" /\ job[s].trade # 0 /\ Granted(s)
  BY DEF ReadTrade
<1>2. CASE End(s)
  BY <1>1, <1>2, EndStep
<1> DEFINE t == job[s].trade
<1>3. ASSUME t \notin cancelled, Len(book[t]) < MaxHistory, NEW e \in Allowed(s),
             job' = [job EXCEPT ![s].next = e, ![s].open = OpenQuantity(Append(book[t], e))],
             Advance(s, "ready")
      PROVE  Inv'
  <2> DEFINE h == Append(book[t], e)
             J == [job[s] EXCEPT !.next = e, !.open = OpenQuantity(h)]
             L == locks[s] \cup Wants(s)
  <2>1. t \in Trades /\ Exists(t)
    BY <1>1, JobFacts DEF Inv, SessionOK, RequestOK
  <2>2. /\ e \in Execution /\ e.key = job[s].key
        /\ e.replaces # 0 => e.replaces \in Effective(book[t])
        /\ e.side = "SELL" /\ e.replaces = 0 => position[t] > 0
        /\ Possible(h)
    BY <2>1, AllowedFacts
  <2>3. OpenQuantity(h) \in Nat
    BY <2>2 DEF Possible
  <2>4. /\ J \in Job /\ J.trade = t /\ J.next = e /\ J.open = OpenQuantity(h)
        /\ J.key = job[s].key
    BY <2>2, <2>3, JobFacts DEF Inv, Job
  <2>5. job' = [job EXCEPT ![s] = J] /\ job'[s] = J
    BY <1>3 DEF Inv, TypeOK
  <2>6. /\ pc' = [pc EXCEPT ![s] = "ready"] /\ locks' = [locks EXCEPT ![s] = L]
        /\ L \in SUBSET (Keys \cup Trades \cup Products)
        /\ \A o \in Sessions \ {s} : L \cap locks[o] = {}
        /\ pc'[s] = "ready" /\ locks'[s] = L
    BY <1>1, <1>3, AdvanceFacts
  <2>7. locks[s] \subseteq L /\ t \in L
    BY <1>1 DEF Wants, TradeWanted
  <2> HIDE DEF J, L
  <2>8. SessionOK(s)'
    <3>1. RequestOK(s)'
      BY <2>6 DEF RequestOK
    <3>2. KeyIsHeld(s)'
      BY <1>1, <2>4, <2>5, <2>6, <2>7 DEF Inv, SessionOK, KeyIsHeld, KeyIsUsed, database
    <3>3. WriteIsValid(s)'
      <4>1. History(s)' = h
        BY <1>1, <2>4, <2>5 DEF History, database
      <4> HIDE DEF h, t
      <4>2. QED
        BY <1>1, <1>3, <2>1, <2>2, <2>4, <2>5, <2>6, <2>7, <4>1
        DEF WriteIsValid, database
    <3>4. QED
      BY <2>6, <3>1, <3>2, <3>3 DEF SessionOK, OpeningIsAlone, CancelIsValid
  <2>9. "ready" \in Statuses /\ Exists(J.trade)
    BY <2>1, <2>4 DEF Statuses
  <2> HIDE DEF t, h
  <2>10. QED
    BY <1>1, <2>4, <2>5, <2>6, <2>8, <2>9, SessionStep
<1>4. QED
  BY <1>2, <1>3 DEF ReadTrade

\* The triggers: a position that becomes open has locked its product and has no
\* rival.
LEMMA FlushStep == ASSUME Inv, NEW s \in Sessions, Flush(s) PROVE Inv'
<1>1. UNCHANGED database /\ pc[s] = "ready" /\ Granted(s)
  BY DEF Flush
<1>2. CASE End(s)
  BY <1>1, <1>2, EndStep
<1>3. CASE /\ ~(job[s].trade \in cancelled \/ (Opens(s) /\ Rivals(job[s].trade) # {}))
           /\ Advance(s, "flushed")
           /\ UNCHANGED job
  <2> DEFINE L == locks[s] \cup Wants(s)
  <2>1. /\ pc' = [pc EXCEPT ![s] = "flushed"] /\ locks' = [locks EXCEPT ![s] = L]
        /\ L \in SUBSET (Keys \cup Trades \cup Products)
        /\ \A o \in Sessions \ {s} : L \cap locks[o] = {}
        /\ pc'[s] = "flushed" /\ locks'[s] = L
    BY <1>1, <1>3, AdvanceFacts
  <2>2. locks[s] \subseteq L /\ (Opens(s) => ProductOf[job[s].trade] \in L)
    BY <1>1 DEF Wants, ProductWanted
  <2> HIDE DEF L
  <2>3. job' = [job EXCEPT ![s] = job[s]] /\ job'[s] = job[s] /\ job[s] \in Job
    BY <1>3 DEF Inv, TypeOK
  <2>4. SessionOK(s)'
    <3>1. RequestOK(s)'
      BY <2>1 DEF RequestOK
    <3>2. KeyIsHeld(s)'
      BY <1>1, <2>1, <2>2, <2>3 DEF Inv, SessionOK, KeyIsHeld, Writing, KeyIsUsed, database
    <3>3. WriteIsValid(s)'
      BY <1>1, <2>1, <2>2, <2>3
      DEF Inv, SessionOK, WriteIsValid, Writing, Exists, History, database
    <3>4. OpeningIsAlone(s)'
      BY <1>1, <1>3, <2>1, <2>2, <2>3 DEF OpeningIsAlone, Opens, Rivals, Held, database
    <3>5. QED
      BY <2>1, <3>1, <3>2, <3>3, <3>4 DEF SessionOK, CancelIsValid
  <2>5. ~Exists(job[s].trade) => \A o \in Sessions \ {s} : job[o].trade # job[s].trade
    BY <1>1 DEF Inv, FreshIsPrivate, Writing
  <2>6. "flushed" \in Statuses
    BY DEF Statuses
  <2>7. QED
    BY <1>1, <2>1, <2>3, <2>4, <2>5, <2>6, SessionStep
<1>4. QED
  BY <1>2, <1>3 DEF Flush

----------------------------------------------------------------------------
(* The steps of a cancellation up to its commit.                           *)

\* A state token is one.
LEMMA TokenFacts ==
    ASSUME Inv, NEW t \in Trades
    PROVE  TokenOf(t) \in Token /\ TokenOf(t).length = Len(book[t])
<1>1. Len(book[t]) \in 0..MaxHistory
  BY EffectiveFacts DEF Inv
<1>2. Rivals(t) \in SUBSET Trades
  BY DEF Rivals
<1>3. (t \in reviewed \cup cancelled) \in BOOLEAN
  OBVIOUS
<1>4. QED
  BY <1>1, <1>2, <1>3 DEF TokenOf, Token

\* The preview remembers how long the history is.
LEMMA ShowPreviewStep ==
    ASSUME Inv, NEW s \in Sessions, NEW t \in Trades, ShowPreview(s, t)
    PROVE  Inv'
<1>1. /\ UNCHANGED database /\ UNCHANGED locks /\ pc[s] = "idle" /\ Exists(t)
      /\ pc' = [pc EXCEPT ![s] = "previewed"]
      /\ job' = [job EXCEPT ![s].trade = t, ![s].token = TokenOf(t)]
  BY DEF ShowPreview
<1>2. job[s] = NoJob
  BY <1>1 DEF Inv, SessionOK, RequestOK
<1> DEFINE J == [NoJob EXCEPT !.trade = t, !.token = TokenOf(t)]
<1>3. J \in Job /\ J.trade = t /\ J.dup = 0
  BY TokenFacts, NoJobIsJob, CaptureAssumption DEF NoJob, Job
<1>4. job' = [job EXCEPT ![s] = J] /\ job'[s] = J /\ pc'[s] = "previewed"
  BY <1>1, <1>2 DEF Inv, TypeOK
<1> HIDE DEF J
<1>5. Exists(J.trade) /\ t # 0
  BY <1>1, <1>3, TradeIds, CaptureAssumption
<1>6. SessionOK(s)'
  <2>1. RequestOK(s)'
    BY <1>1, <1>3, <1>4, <1>5 DEF RequestOK, Exists, database
  <2>2. QED
    BY <1>4, <2>1 DEF SessionOK, KeyIsHeld, WriteIsValid, Writing, OpeningIsAlone, CancelIsValid
<1>7. "previewed" \in Statuses /\ "previewed" \notin {"ready", "flushed"}
  BY DEF Statuses
<1>8. UNCHANGED database /\ UNCHANGED locks /\ pc' = [pc EXCEPT ![s] = "previewed"]
  BY <1>1
<1>9. QED
  BY <1>3, <1>4, <1>5, <1>6, <1>7, <1>8, StayFacts, SessionStep

\* The client confirms, and may name the trade to be retained.
LEMMA BeginCancelStep == ASSUME Inv, NEW s \in Sessions, BeginCancel(s) PROVE Inv'
<1>1. /\ UNCHANGED database /\ UNCHANGED locks /\ pc[s] = "previewed"
      /\ pc' = [pc EXCEPT ![s] = "cancelling"]
  BY DEF BeginCancel
<1>2. PICK d \in {0} \cup {t \in Trades \ {job[s].trade} : Exists(t)} :
        job' = [job EXCEPT ![s].dup = d]
  BY DEF BeginCancel
<1> DEFINE J == [job[s] EXCEPT !.dup = d]
<1>3. J \in Job /\ J.trade = job[s].trade /\ J.dup = d
  BY <1>2, JobFacts DEF Inv, Job
<1>4. job' = [job EXCEPT ![s] = J] /\ job'[s] = J /\ pc'[s] = "cancelling"
  BY <1>1, <1>2 DEF Inv, TypeOK
<1> HIDE DEF J
<1>5. SessionOK(s)'
  <2>1. RequestOK(s)'
    BY <1>1, <1>2, <1>3, <1>4 DEF Inv, SessionOK, RequestOK, Exists, database
  <2>2. QED
    BY <1>4, <2>1 DEF SessionOK, KeyIsHeld, WriteIsValid, Writing, OpeningIsAlone, CancelIsValid
<1>6. "cancelling" \in Statuses /\ "cancelling" \notin {"ready", "flushed"}
  BY DEF Statuses
<1>7. QED
  BY <1>1, <1>3, <1>4, <1>5, <1>6, StayFacts, SessionStep

\* One row more is locked.
LEMMA LockRowStep == ASSUME Inv, NEW s \in Sessions, LockRow(s) PROVE Inv'
<1>1. /\ UNCHANGED database /\ pc[s] = "cancelling" /\ Granted(s)
      /\ Advance(s, "cancelling") /\ UNCHANGED job
  BY DEF LockRow
<1> DEFINE L == locks[s] \cup Wants(s)
<1>2. /\ pc' = [pc EXCEPT ![s] = "cancelling"] /\ locks' = [locks EXCEPT ![s] = L]
      /\ L \in SUBSET (Keys \cup Trades \cup Products)
      /\ \A o \in Sessions \ {s} : L \cap locks[o] = {}
      /\ pc'[s] = "cancelling"
  BY <1>1, AdvanceFacts
<1> HIDE DEF L
<1>3. job' = [job EXCEPT ![s] = job[s]] /\ job[s] \in Job
  BY <1>1 DEF Inv, TypeOK
<1>4. SessionOK(s)'
  <2>1. RequestOK(s)'
    BY <1>1, <1>2 DEF Inv, SessionOK, RequestOK, Exists, database
  <2>2. QED
    BY <1>2, <2>1 DEF SessionOK, KeyIsHeld, WriteIsValid, Writing, OpeningIsAlone, CancelIsValid
<1>5. "cancelling" \in Statuses /\ "cancelling" \notin {"ready", "flushed"}
  BY DEF Statuses
<1>6. QED
  BY <1>1, <1>2, <1>3, <1>4, <1>5, SessionStep

\* A cancellation that wants no further row holds all of them.
LEMMA AllRowsHeld ==
    ASSUME Inv, NEW s \in Sessions, pc[s] = "cancelling", TradeWanted(s) = {}
    PROVE  CancelRows(s) \subseteq locks[s]
<1> DEFINE rows == CancelRows(s) \ locks[s]
           a == job[s].trade
           d == job[s].dup
<1>1. rows \subseteq {a, d} /\ rows \subseteq Nat
  BY JobFacts, TradeIds, CaptureAssumption DEF Inv, CancelRows
<1>2. NextRow(s, rows) = {}
  BY DEF TradeWanted
<1>3. ~ \E r \in rows : \A q \in rows : r <= q
  BY <1>2 DEF NextRow
<1> HIDE DEF rows, a, d
<1>4. rows = {}
  BY <1>1, <1>3
<1>5. QED
  BY <1>4 DEF rows

\* The checks: all rows are held, so what they found stays.
LEMMA CheckCancelStep == ASSUME Inv, NEW s \in Sessions, CheckCancel(s) PROVE Inv'
<1>1. UNCHANGED database /\ pc[s] = "cancelling" /\ TradeWanted(s) = {}
  BY DEF CheckCancel
<1>2. CASE End(s)
  BY <1>1, <1>2, EndStep
<1>3. CASE TokenIsCurrent(s) /\ Cancellable(s) /\ Advance(s, "confirmed") /\ UNCHANGED job
  <2>1. Wants(s) = {}
    BY <1>1 DEF Wants, KeyWanted, ProductWanted
  <2>2. Granted(s)
    BY <2>1 DEF Granted
  <2> DEFINE L == locks[s] \cup Wants(s)
  <2>3. /\ pc' = [pc EXCEPT ![s] = "confirmed"] /\ locks' = [locks EXCEPT ![s] = L]
        /\ L \in SUBSET (Keys \cup Trades \cup Products)
        /\ \A o \in Sessions \ {s} : L \cap locks[o] = {}
        /\ pc'[s] = "confirmed" /\ locks'[s] = L
    BY <1>3, <2>2, AdvanceFacts
  <2>4. CancelRows(s) \subseteq L
    BY <1>1, AllRowsHeld
  <2> HIDE DEF L
  <2>5. job' = [job EXCEPT ![s] = job[s]] /\ job'[s] = job[s] /\ job[s] \in Job
    BY <1>3 DEF Inv, TypeOK
  <2>6. job[s].trade \in Trades /\ job[s].token.length = Len(book[job[s].trade])
    BY <1>1, <1>3, JobFacts, TokenFacts DEF Inv, SessionOK, RequestOK, TokenIsCurrent
  <2>7. SessionOK(s)'
    <3>1. RequestOK(s)'
      BY <1>1, <2>3, <2>5 DEF Inv, SessionOK, RequestOK, Exists, database
    <3>2. CancelIsValid(s)'
      BY <1>1, <1>3, <2>3, <2>4, <2>5, <2>6
      DEF CancelIsValid, CancelRows, Cancellable, Held, HasSale, Rivals, database
    <3>3. QED
      BY <2>3, <3>1, <3>2 DEF SessionOK, KeyIsHeld, WriteIsValid, Writing, OpeningIsAlone
  <2>8. "confirmed" \in Statuses /\ "confirmed" \notin {"ready", "flushed"}
    BY DEF Statuses
  <2>9. QED
    BY <1>1, <2>3, <2>5, <2>7, <2>8, SessionStep
<1>4. QED
  BY <1>2, <1>3 DEF CheckCancel

\* An error writes nothing.
LEMMA FailStep == ASSUME Inv, NEW s \in Sessions, Fail(s) PROVE Inv'
  BY EndStep DEF Fail

----------------------------------------------------------------------------
(* The commits.                                                            *)

\* Two sessions that write, or cancel, do so in different trades.
LEMMA Apart ==
    ASSUME Inv, NEW s \in Sessions, NEW o \in Sessions, s # o,
           Writing(s) \/ pc[s] = "confirmed"
    PROVE  /\ Writing(o) => job[o].trade # job[s].trade
           /\ pc[o] = "confirmed" => job[s].trade \notin CancelRows(o)
<1>1. locks[s] \cap locks[o] = {}
  BY DEF Inv, LocksExclusive
<1>2. CASE Writing(s) /\ ~Exists(job[s].trade)
  <2>1. job[o].trade # job[s].trade
    BY <1>2 DEF Inv, FreshIsPrivate
  <2>2. pc[o] = "confirmed" => job[s].trade \notin CancelRows(o)
    BY <1>2 DEF Inv, SessionOK, RequestOK, CancelRows
  <2>3. QED
    BY <2>1, <2>2
<1>3. CASE job[s].trade \in locks[s] /\ Exists(job[s].trade)
  <2>1. Writing(o) => job[o].trade # job[s].trade
    BY <1>1, <1>3 DEF Inv, SessionOK, WriteIsValid
  <2>2. pc[o] = "confirmed" => job[s].trade \notin CancelRows(o)
    BY <1>1, <1>3 DEF Inv, SessionOK, CancelIsValid
  <2>3. QED
    BY <2>1, <2>2
<1>4. pc[s] = "confirmed" => job[s].trade \in locks[s] /\ Exists(job[s].trade)
  BY DEF Inv, SessionOK, RequestOK, CancelIsValid, CancelRows
<1>5. Writing(s) /\ Exists(job[s].trade) => job[s].trade \in locks[s]
  BY DEF Inv, SessionOK, WriteIsValid
<1>6. QED
  BY <1>2, <1>3, <1>4, <1>5

\* The rest of the invariant at the end of a transaction, whatever it wrote.
LEMMA EndFacts ==
    ASSUME Inv, NEW s \in Sessions, End(s),
           \A t \in Trades : Exists(t) => Exists(t)'
    PROVE  /\ pc' \in [Sessions -> Statuses]
           /\ locks' \in [Sessions -> SUBSET (Keys \cup Trades \cup Products)]
           /\ job' \in [Sessions -> Job]
           /\ \A o \in Sessions \ {s} : pc'[o] = pc[o] /\ locks'[o] = locks[o] /\ job'[o] = job[o]
           /\ pc'[s] = "idle" /\ locks'[s] = {} /\ job'[s] = NoJob
           /\ LocksExclusive'
           /\ FreshIsPrivate'
           /\ SessionOK(s)'
<1>1. NoJob \in Job /\ NoJob.trade = 0
  BY NoJobIsJob, CaptureAssumption DEF NoJob
<1>2. pc \in [Sessions -> Statuses] /\ job \in [Sessions -> Job]
      /\ locks \in [Sessions -> SUBSET (Keys \cup Trades \cup Products)]
  BY DEF Inv, TypeOK, Statuses
<1>3. "idle" \in Statuses
  BY DEF Statuses
<1>4. /\ pc' \in [Sessions -> Statuses]
      /\ locks' \in [Sessions -> SUBSET (Keys \cup Trades \cup Products)]
      /\ job' \in [Sessions -> Job]
  BY <1>1, <1>2, <1>3 DEF End
<1>5. /\ \A o \in Sessions \ {s} : pc'[o] = pc[o] /\ locks'[o] = locks[o] /\ job'[o] = job[o]
      /\ pc'[s] = "idle" /\ locks'[s] = {} /\ job'[s] = NoJob
  BY <1>2 DEF End
<1>6. LocksExclusive'
  BY <1>5 DEF Inv, LocksExclusive
<1>7. FreshIsPrivate'
  <2>1. ASSUME NEW a \in Sessions, NEW b \in Sessions, a # b,
               Writing(a)', ~Exists(job[a].trade)'
        PROVE  job'[b].trade # job'[a].trade
    <3>1. a # s /\ Writing(a) /\ job'[a] = job[a]
      BY <1>5, <2>1 DEF Writing
    <3>2. job[a].trade \in Trades
      BY <3>1 DEF Inv, SessionOK, WriteIsValid
    <3>3. ~Exists(job[a].trade)
      BY <2>1, <3>1, <3>2 DEF Exists
    <3>4. CASE b = s
      BY <1>1, <1>5, <3>1, <3>2, <3>4, TradeIds, CaptureAssumption
    <3>5. CASE b # s
      BY <1>5, <2>1, <3>1, <3>3, <3>5 DEF Inv, FreshIsPrivate
    <3>6. QED
      BY <3>4, <3>5
  <2>2. QED
    BY <2>1 DEF FreshIsPrivate
<1>8. SessionOK(s)'
  BY <1>5, IdleSession
<1>9. QED
  BY <1>4, <1>5, <1>6, <1>7, <1>8

\* What a commit writes.
LEMMA CommitFacts ==
    ASSUME Inv, NEW s \in Sessions, Commit(s)
    PROVE  LET t == job[s].trade
               e == job[s].next
           IN  /\ pc[s] = "flushed" /\ t \in Trades \ cancelled /\ e \in Execution
               /\ book' \in [Trades -> Seq(Execution)]
               /\ book'[t] = Append(book[t], e)
               /\ Len(book'[t]) = Len(book[t]) + 1
               /\ DOMAIN book'[t] = DOMAIN book[t] \cup {Len(book[t]) + 1}
               /\ \A i \in DOMAIN book[t] : book'[t][i] = book[t][i]
               /\ book'[t][Len(book[t]) + 1] = e
               /\ \A o \in Trades \ {t} : book'[o] = book[o] /\ position'[o] = position[o]
               /\ position' \in [Trades -> Nat]
               /\ position'[t] = job[s].open
               /\ job[s].open = OpenQuantity(book'[t])
               /\ Possible(book'[t])
               /\ End(s)
               /\ UNCHANGED <<cancelled, duplicateOf, reviewed>>
<1> DEFINE t == job[s].trade
           e == job[s].next
<1>1. /\ pc[s] = "flushed" /\ End(s) /\ UNCHANGED <<cancelled, duplicateOf, reviewed>>
      /\ book' = [book EXCEPT ![t] = Append(@, e)]
      /\ position' = [position EXCEPT ![t] = job[s].open]
  BY DEF Commit
<1>2. /\ t \in Trades \ cancelled /\ e \in Execution /\ job[s].open \in Nat
      /\ Possible(Append(book[t], e)) /\ job[s].open = OpenQuantity(Append(book[t], e))
  BY <1>1, JobFacts DEF Inv, SessionOK, WriteIsValid, Writing, History
<1>3. book \in [Trades -> Seq(Execution)] /\ position \in [Trades -> Nat]
  BY DEF Inv, TypeOK
<1> HIDE DEF t, e
<1>4. book[t] \in Seq(Execution)
  BY <1>2, <1>3
<1>5. /\ Append(book[t], e) \in Seq(Execution)
      /\ Len(Append(book[t], e)) = Len(book[t]) + 1
      /\ DOMAIN Append(book[t], e) = DOMAIN book[t] \cup {Len(book[t]) + 1}
      /\ \A i \in DOMAIN book[t] : Append(book[t], e)[i] = book[t][i]
      /\ Append(book[t], e)[Len(book[t]) + 1] = e
  BY <1>2, <1>4
<1>6. book'[t] = Append(book[t], e) /\ position'[t] = job[s].open
      /\ \A o \in Trades \ {t} : book'[o] = book[o] /\ position'[o] = position[o]
  BY <1>1, <1>2, <1>3
<1>7. book' \in [Trades -> Seq(Execution)] /\ position' \in [Trades -> Nat]
  BY <1>1, <1>2, <1>3, <1>5
<1>8. QED
  BY <1>1, <1>2, <1>5, <1>6, <1>7 DEF t, e

\* A commit of s leaves what another session relies on: it writes to a row,
\* uses a key, and opens a trade of a product, that s has locked.
LEMMA CommitOthers ==
    ASSUME Inv, NEW s \in Sessions, Commit(s), NEW o \in Sessions, o # s
    PROVE  SessionOK(o)'
<1> DEFINE t == job[s].trade
           e == job[s].next
<1>1. /\ pc[s] = "flushed" /\ t \in Trades \ cancelled
      /\ book'[t] = Append(book[t], e)
      /\ Len(book'[t]) = Len(book[t]) + 1
      /\ DOMAIN book'[t] = DOMAIN book[t] \cup {Len(book[t]) + 1}
      /\ \A i \in DOMAIN book[t] : book'[t][i] = book[t][i]
      /\ book'[t][Len(book[t]) + 1] = e
      /\ \A r \in Trades \ {t} : book'[r] = book[r] /\ position'[r] = position[r]
      /\ position'[t] = job[s].open
      /\ UNCHANGED <<cancelled, duplicateOf, reviewed>>
  BY CommitFacts
<1>2. \A r \in Trades : Exists(r) => Exists(r)'
  BY <1>1 DEF Exists
<1>3. pc'[o] = pc[o] /\ locks'[o] = locks[o] /\ job'[o] = job[o]
  BY <1>2, CommitFacts, EndFacts
<1>4. SessionOK(o) /\ SessionOK(s) /\ Writing(s) /\ locks[s] \cap locks[o] = {}
  BY <1>1 DEF Inv, LocksExclusive, Writing
<1>5. /\ Writing(o) => job[o].trade \in Trades /\ job[o].trade # t
      /\ pc[o] = "confirmed" => t \notin CancelRows(o)
  BY <1>4, Apart DEF SessionOK, WriteIsValid
<1>6. RequestOK(o)'
  <2>1. job[o].trade \in Trades \cup {0} /\ job[o].dup \in Trades \cup {0}
    BY JobFacts DEF Inv
  <2>2. job[o].trade # 0 /\ book[job[o].trade] # <<>> => book'[job[o].trade] # <<>>
    BY <1>2, <2>1 DEF Exists
  <2>3. job[o].dup # 0 /\ book[job[o].dup] # <<>> => book'[job[o].dup] # <<>>
    BY <1>2, <2>1 DEF Exists
  <2>4. RequestOK(o)
    BY <1>4 DEF SessionOK
  <2>5. QED
    BY <1>3, <2>2, <2>3, <2>4 DEF RequestOK, Exists
<1>7. KeyIsHeld(o)'
  <2>1. ASSUME pc[o] = "keyed" \/ Writing(o), job[o].key # NoKey
        PROVE  job[o].key \in locks[o] /\ ~KeyIsUsed(job[o].key)'
    <3>1. job[o].key \in locks[o] /\ ~KeyIsUsed(job[o].key)
      BY <1>4, <2>1 DEF SessionOK, KeyIsHeld
    <3>2. e.key = job[s].key
      BY <1>4 DEF SessionOK, WriteIsValid
    <3>3. e.key # job[o].key
      BY <1>4, <2>1, <3>1, <3>2 DEF SessionOK, KeyIsHeld
    <3>4. ASSUME NEW r \in Trades, NEW i \in DOMAIN book'[r]
          PROVE  book'[r][i].key # job[o].key
      <4>1. \A j \in DOMAIN book[r] : book[r][j].key # job[o].key
        BY <2>1, <3>1 DEF KeyIsUsed
      <4>2. CASE r # t
        BY <1>1, <4>1, <4>2
      <4>3. CASE r = t
        BY <1>1, <3>3, <4>1, <4>3
      <4>4. QED
        BY <4>2, <4>3
    <3>5. ~KeyIsUsed(job[o].key)'
      BY <1>3, <3>4 DEF KeyIsUsed
    <3>6. QED
      BY <3>1, <3>5
  <2>2. QED
    BY <1>3, <2>1 DEF KeyIsHeld, Writing
<1>8. WriteIsValid(o)'
  BY <1>1, <1>3, <1>4, <1>5 DEF SessionOK, WriteIsValid, Writing, Exists, History
<1>9. OpeningIsAlone(o)'
  <2>1. ASSUME pc[o] = "flushed", Opens(o)'
        PROVE  ProductOf[job[o].trade] \in locks[o] /\ Rivals(job[o].trade)' = {}
    <3> DEFINE u == job[o].trade
    <3>1. u \in Trades /\ u # t /\ Opens(o)
      BY <1>1, <1>3, <1>5, <2>1 DEF Writing, Opens
    <3>2. ProductOf[u] \in locks[o] /\ Rivals(u) = {}
      BY <1>4, <2>1, <3>1 DEF SessionOK, OpeningIsAlone
    <3>3. ASSUME NEW r \in Trades \ {u}, ProductOf[r] = ProductOf[u], Held(r)' PROVE FALSE
      <4>1. CASE r # t
        BY <1>1, <3>2, <3>3, <4>1 DEF Rivals, Held
      <4>2. CASE r = t
        <5>1. ~Held(t)
          BY <3>2, <3>3, <4>2 DEF Rivals
        <5>2. Opens(s)
          <6>1. job[s].open > 0
            BY <1>1, <3>3, <4>2 DEF Held
          <6>2. position[t] = 0
            BY <1>1, <5>1 DEF Held, Inv, TypeOK
          <6>3. QED
            BY <6>1, <6>2 DEF Opens
        <5>3. ProductOf[t] \in locks[s]
          BY <1>1, <1>4, <5>2 DEF SessionOK, OpeningIsAlone
        <5>4. QED
          BY <1>4, <3>2, <3>3, <4>2, <5>3
      <4>3. QED
        BY <4>1, <4>2
    <3>4. job'[o].trade = u
      BY <1>3
    <3>5. QED
      BY <3>2, <3>3, <3>4 DEF Rivals
  <2>2. QED
    BY <1>3, <2>1 DEF OpeningIsAlone
<1>10. CancelIsValid(o)'
  <2>1. ASSUME pc[o] = "confirmed"
        PROVE  /\ CancelRows(o)' \subseteq locks'[o]
               /\ Cancellable(o)'
               /\ job'[o].token.length = Len(book'[job'[o].trade])
    <3>1. /\ CancelRows(o) \subseteq locks[o] /\ Cancellable(o)
          /\ job[o].token.length = Len(book[job[o].trade])
          /\ job[o].trade # 0
      BY <1>4, <2>1 DEF SessionOK, CancelIsValid, RequestOK
    <3>2. job[o].trade \in Trades \ {t} /\ job[o].dup \in (Trades \ {t}) \cup {0}
      BY <1>5, <2>1, <3>1, JobFacts, CaptureAssumption, TradeIds DEF Inv, CancelRows
    <3>3. Held(job[o].trade)' /\ HasSale(job[o].trade)' = HasSale(job[o].trade)
      BY <1>1, <1>3, <3>1, <3>2 DEF Held, HasSale, Cancellable
    <3>4. job[o].dup # 0 => job[o].dup \in Rivals(job[o].trade)'
      BY <1>1, <1>3, <3>1, <3>2 DEF Held, Rivals, Cancellable
    <3>5. QED
      BY <1>1, <1>3, <3>1, <3>2, <3>3, <3>4 DEF CancelRows, Cancellable
  <2>2. QED
    BY <1>3, <2>1 DEF CancelIsValid
<1>11. QED
  BY <1>6, <1>7, <1>8, <1>9, <1>10 DEF SessionOK

\* The commit of a capture.
LEMMA CommitStep == ASSUME Inv, NEW s \in Sessions, Commit(s) PROVE Inv'
<1> DEFINE t == job[s].trade
<1>1. /\ t \in Trades \ cancelled /\ End(s) /\ UNCHANGED <<cancelled, duplicateOf, reviewed>>
      /\ book' \in [Trades -> Seq(Execution)] /\ position' \in [Trades -> Nat]
      /\ Len(book'[t]) = Len(book[t]) + 1
      /\ DOMAIN book'[t] = DOMAIN book[t] \cup {Len(book[t]) + 1}
      /\ position'[t] = OpenQuantity(book'[t]) /\ Possible(book'[t])
      /\ \A o \in Trades \ {t} : book'[o] = book[o] /\ position'[o] = position[o]
  BY CommitFacts
<1>2. \A r \in Trades : Exists(r) => Exists(r)'
  BY <1>1 DEF Exists
<1>3. Len(book[t]) < MaxHistory /\ Len(book[t]) \in 0..MaxHistory
  BY <1>1, CommitFacts, EffectiveFacts DEF Inv, SessionOK, WriteIsValid, Writing
<1>4. TypeOK'
  <2>1. \A r \in Trades : Len(book'[r]) <= MaxHistory
    BY <1>1, <1>3, CaptureAssumption DEF Inv, TypeOK, CaptureAssumption
  <2>2. QED
    BY <1>1, <1>2, <2>1, EndFacts DEF Inv, TypeOK, Statuses
<1>5. PositionIsProjection'
  BY <1>1 DEF Inv, PositionIsProjection, Exists
<1>6. CancelledExist'
  BY <1>1, <1>2 DEF Inv, CancelledExist, TypeOK
<1>7. LocksExclusive' /\ FreshIsPrivate' /\ SessionOK(s)'
  BY <1>1, <1>2, EndFacts
<1>8. QED
  BY <1>4, <1>5, <1>6, <1>7, CommitOthers DEF Inv

\* What the commit of a cancellation writes.
LEMMA CommitCancelFacts ==
    ASSUME Inv, NEW s \in Sessions, CommitCancel(s)
    PROVE  /\ pc[s] = "confirmed" /\ End(s) /\ UNCHANGED <<book, position, reviewed>>
           /\ cancelled' = cancelled \cup {job[s].trade}
           /\ job[s].trade \in Trades /\ job[s].trade \in locks[s]
           /\ Exists(job[s].trade) /\ Cancellable(s)
           /\ duplicateOf' \in [Trades -> Trades \cup {0}]
           /\ duplicateOf'[job[s].trade] = job[s].dup
           /\ \A t \in Trades \ {job[s].trade} : duplicateOf'[t] = duplicateOf[t]
           /\ job[s].token.length = Len(book[job[s].trade])
<1>1. /\ pc[s] = "confirmed" /\ End(s) /\ UNCHANGED <<book, position, reviewed>>
      /\ cancelled' = cancelled \cup {job[s].trade}
      /\ duplicateOf' = [duplicateOf EXCEPT ![job[s].trade] = job[s].dup]
  BY DEF CommitCancel
<1>2. /\ job[s].trade \in Trades /\ job[s].trade \in locks[s]
      /\ Exists(job[s].trade) /\ Cancellable(s)
      /\ job[s].token.length = Len(book[job[s].trade])
      /\ job[s].dup \in Trades \cup {0}
  BY <1>1, JobFacts DEF Inv, SessionOK, RequestOK, CancelIsValid, CancelRows
<1>3. duplicateOf \in [Trades -> Trades \cup {0}]
  BY DEF Inv, TypeOK
<1>4. QED
  BY <1>1, <1>2, <1>3

\* A cancellation by s leaves what another session relies on: its row is locked,
\* and one trade less is open.
LEMMA CommitCancelOthers ==
    ASSUME Inv, NEW s \in Sessions, CommitCancel(s), NEW o \in Sessions, o # s
    PROVE  SessionOK(o)'
<1> DEFINE t == job[s].trade
<1>1. /\ pc[s] = "confirmed" /\ End(s) /\ UNCHANGED <<book, position, reviewed>>
      /\ cancelled' = cancelled \cup {t} /\ t \in Trades
  BY CommitCancelFacts
<1>2. pc'[o] = pc[o] /\ locks'[o] = locks[o] /\ job'[o] = job[o]
  BY <1>1, EndFacts DEF Exists
<1>3. SessionOK(o)
  BY DEF Inv
<1>4. /\ Writing(o) => job[o].trade # t
      /\ pc[o] = "confirmed" => t \notin CancelRows(o)
  BY <1>1, Apart
<1>5. RequestOK(o)' /\ KeyIsHeld(o)'
  BY <1>1, <1>2, <1>3 DEF SessionOK, RequestOK, KeyIsHeld, Writing, Exists, KeyIsUsed
<1>6. WriteIsValid(o)'
  BY <1>1, <1>2, <1>3, <1>4 DEF SessionOK, WriteIsValid, Writing, Exists, History
<1>7. OpeningIsAlone(o)'
  BY <1>1, <1>2, <1>3 DEF SessionOK, OpeningIsAlone, Opens, Rivals, Held
<1>8. CancelIsValid(o)'
  <2>1. pc[o] = "confirmed" =>
          job[o].trade # t /\ (job[o].dup # 0 => job[o].dup # t)
    BY <1>3, <1>4 DEF SessionOK, RequestOK, CancelRows
  <2>2. QED
    BY <1>1, <1>2, <1>3, <2>1
    DEF SessionOK, CancelIsValid, CancelRows, Cancellable, Held, HasSale, Rivals
<1>9. QED
  BY <1>5, <1>6, <1>7, <1>8 DEF SessionOK

\* The commit of a cancellation.
LEMMA CommitCancelStep == ASSUME Inv, NEW s \in Sessions, CommitCancel(s) PROVE Inv'
<1>1. /\ End(s) /\ UNCHANGED <<book, position, reviewed>>
      /\ cancelled' = cancelled \cup {job[s].trade} /\ job[s].trade \in Trades
      /\ Exists(job[s].trade) /\ duplicateOf' \in [Trades -> Trades \cup {0}]
  BY CommitCancelFacts
<1>2. \A r \in Trades : Exists(r) => Exists(r)'
  BY <1>1 DEF Exists
<1>3. TypeOK'
  BY <1>1, <1>2, EndFacts DEF Inv, TypeOK, Statuses
<1>4. PositionIsProjection' /\ CancelledExist'
  BY <1>1 DEF Inv, PositionIsProjection, CancelledExist, Exists
<1>5. LocksExclusive' /\ FreshIsPrivate' /\ SessionOK(s)'
  BY <1>1, <1>2, EndFacts
<1>6. QED
  BY <1>3, <1>4, <1>5, CommitCancelOthers DEF Inv

\* A review needs the row of the trade, which no cancellation holds.
LEMMA ReviewStep == ASSUME Inv, NEW t \in Trades, Review(t) PROVE Inv'
<1>1. /\ UNCHANGED <<book, position, cancelled, duplicateOf, pc, locks, job>>
      /\ reviewed' = reviewed \cup {t} /\ \A o \in Sessions : t \notin locks[o]
  BY DEF Review
<1>2. TypeOK'
  BY <1>1 DEF Inv, TypeOK
<1>3. LocksExclusive' /\ FreshIsPrivate' /\ PositionIsProjection' /\ CancelledExist'
  BY <1>1 DEF Inv, LocksExclusive, FreshIsPrivate, PositionIsProjection, CancelledExist,
              Writing, Exists
<1>4. ASSUME NEW o \in Sessions PROVE SessionOK(o)'
  <2>1. SessionOK(o)
    BY DEF Inv
  <2>2. RequestOK(o)' /\ KeyIsHeld(o)' /\ WriteIsValid(o)' /\ OpeningIsAlone(o)'
    BY <1>1, <2>1
    DEF SessionOK, RequestOK, KeyIsHeld, KeyIsUsed, WriteIsValid, OpeningIsAlone, Writing,
        Exists, History, Opens, Rivals, Held
  <2>3. pc[o] = "confirmed" => job[o].trade # t
    BY <1>1, <2>1 DEF SessionOK, RequestOK, CancelIsValid, CancelRows
  <2>4. CancelIsValid(o)'
    BY <1>1, <2>1, <2>3
    DEF SessionOK, CancelIsValid, CancelRows, Cancellable, Held, HasSale, Rivals
  <2>5. QED
    BY <2>2, <2>4 DEF SessionOK
<1>5. QED
  BY <1>2, <1>3, <1>4 DEF Inv

----------------------------------------------------------------------------
(* The invariant holds.                                                    *)

\* In the beginning a trade is empty or has one purchase.
LEMMA InitFacts ==
    ASSUME Init, NEW t \in Trades
    PROVE  /\ book[t] \in Seq(Execution) /\ Len(book[t]) <= MaxHistory
           /\ OpenQuantity(book[t]) \in Nat
           /\ Exists(t) => Possible(book[t])
           /\ Exists(t) => \E e \in Execution : book[t] = <<e>> /\ e.replaces = 0
<1> DEFINE Purchase == [side : {"BUY"}, quantity : Quantities, at : Times,
                        replaces : {0}, key : {NoKey}]
<1>1. book[t] \in {<<>>} \cup {<<e>> : e \in Purchase}
  BY DEF Init
<1>2. CASE book[t] = <<>>
  <2>1. OpenQuantity(book[t]) = 0
    BY <1>2, EmptyProjection DEF OpenQuantity, Nothing
  <2>2. QED
    BY <1>2, <2>1, CaptureAssumption DEF Exists, CaptureAssumption
<1>3. ASSUME NEW e \in Purchase, book[t] = <<e>>
      PROVE  /\ book[t] \in Seq(Execution) /\ Len(book[t]) <= MaxHistory
             /\ OpenQuantity(book[t]) \in Nat /\ Possible(book[t])
             /\ e \in Execution /\ e.replaces = 0
  <2>1. /\ e.side = "BUY" /\ e.replaces = 0 /\ e.quantity \in Nat /\ e.at \in Nat
        /\ e \in Execution
    <3>1. 0 \in 0..MaxHistory /\ Quantities \subseteq Nat /\ Times \subseteq Nat
      BY CaptureAssumption DEF CaptureAssumption
    <3>2. QED
      BY <1>3, <3>1 DEF Execution
  <2>2. OpenQuantity(<<e>>) = e.quantity /\ Possible(<<e>>)
    BY <2>1, SinglePurchase
  <2>3. <<e>> \in Seq(Execution) /\ Len(<<e>>) = 1
    BY <2>1
  <2>4. QED
    BY <1>3, <2>1, <2>2, <2>3, CaptureAssumption DEF CaptureAssumption
<1>4. QED
  BY <1>1, <1>2, <1>3

\* In the beginning no session has a request.
LEMMA InitInv == ASSUME Init PROVE Inv
<1>1. NoJob \in Job /\ NoJob.trade = 0
  BY NoJobIsJob, CaptureAssumption DEF NoJob
<1>2. TypeOK
  <2>1. DOMAIN book = Trades /\ book = [t \in Trades |-> book[t]]
    BY DEF Init
  <2>2. book \in [Trades -> Seq(Execution)] /\ \A t \in Trades : Len(book[t]) <= MaxHistory
    BY <2>1, InitFacts
  <2>3. position \in [Trades -> Nat]
    BY InitFacts DEF Init
  <2>4. /\ pc = [s \in Sessions |-> "idle"] /\ locks = [s \in Sessions |-> {}]
        /\ job = [s \in Sessions |-> NoJob] /\ cancelled = {} /\ reviewed = {}
        /\ duplicateOf = [t \in Trades |-> 0]
    BY DEF Init
  <2>5. QED
    BY <1>1, <2>2, <2>3, <2>4 DEF TypeOK
<1>3. \A s \in Sessions : pc[s] = "idle" /\ locks[s] = {} /\ job[s] = NoJob
  BY DEF Init
<1>4. LocksExclusive /\ FreshIsPrivate
  BY <1>3 DEF LocksExclusive, FreshIsPrivate, Writing
<1>5. PositionIsProjection /\ CancelledExist
  BY InitFacts DEF Init, PositionIsProjection, CancelledExist
<1>6. \A s \in Sessions : SessionOK(s)
  BY <1>3 DEF SessionOK, RequestOK, KeyIsHeld, WriteIsValid, Writing, OpeningIsAlone, CancelIsValid
<1>7. QED
  BY <1>2, <1>4, <1>5, <1>6 DEF Inv

\* Every step keeps the invariant.
LEMMA NextInv == ASSUME Inv, [Next]_vars PROVE Inv'
<1>1. CASE UNCHANGED vars
  <2>1. UNCHANGED database /\ UNCHANGED <<pc, locks, job>>
    BY <1>1 DEF vars
  <2>2. \A s \in Sessions : SessionOK(s)'
    BY <2>1, SameSession DEF Inv
  <2>3. QED
    BY <2>1, <2>2
    DEF Inv, database, TypeOK, LocksExclusive, FreshIsPrivate, PositionIsProjection,
        CancelledExist, Writing, Exists
<1>2. ASSUME NEW s \in Sessions, Begin(s) PROVE Inv'
  BY <1>2, BeginStep
<1>3. ASSUME NEW s \in Sessions, FindRequest(s) PROVE Inv'
  BY <1>3, FindRequestStep
<1>4. ASSUME NEW s \in Sessions, Replay(s) PROVE Inv'
  BY <1>4, ReplayStep
<1>5. ASSUME NEW s \in Sessions, OpenTrade(s) PROVE Inv'
  BY <1>5, OpenTradeStep
<1>6. ASSUME NEW s \in Sessions, ReadTrade(s) PROVE Inv'
  BY <1>6, ReadTradeStep
<1>7. ASSUME NEW s \in Sessions, Flush(s) PROVE Inv'
  BY <1>7, FlushStep
<1>8. ASSUME NEW s \in Sessions, Commit(s) PROVE Inv'
  BY <1>8, CommitStep
<1>9. ASSUME NEW s \in Sessions, NEW t \in Trades, ShowPreview(s, t) PROVE Inv'
  BY <1>9, ShowPreviewStep
<1>10. ASSUME NEW s \in Sessions, BeginCancel(s) PROVE Inv'
  BY <1>10, BeginCancelStep
<1>11. ASSUME NEW s \in Sessions, LockRow(s) PROVE Inv'
  BY <1>11, LockRowStep
<1>12. ASSUME NEW s \in Sessions, CheckCancel(s) PROVE Inv'
  BY <1>12, CheckCancelStep
<1>13. ASSUME NEW s \in Sessions, CommitCancel(s) PROVE Inv'
  BY <1>13, CommitCancelStep
<1>14. ASSUME NEW s \in Sessions, Fail(s) PROVE Inv'
  BY <1>14, FailStep
<1>15. ASSUME NEW t \in Trades, Review(t) PROVE Inv'
  BY <1>15, ReviewStep
<1>16. QED
  BY <1>1, <1>2, <1>3, <1>4, <1>5, <1>6, <1>7, <1>8, <1>9, <1>10, <1>11, <1>12, <1>13,
     <1>14, <1>15 DEF Next

\* The invariant holds in every reachable state.
THEOREM Invariance == Spec => []Inv
<1>1. Init => Inv
  BY InitInv
<1>2. Inv /\ [Next]_vars => Inv'
  BY NextInv
<1>3. QED
  BY <1>1, <1>2, PTL DEF Spec

----------------------------------------------------------------------------
(* The invariants of the runs.                                             *)

\* Every reachable state is well typed, and no trade has more than MaxHistory
\* executions: what a session counted under its lock is still so at its
\* commit.
THEOREM TypeCorrect == Spec => []TypeOK
<1>1. Inv => TypeOK
  BY DEF Inv
<1>2. QED
  BY <1>1, Invariance, PTL

\* The stored position of every trade is the projection of its executions,
\* however captures, corrections and cancellations interleave.
THEOREM PositionsAreRight == Spec => []PositionIsProjection
<1>1. Inv => PositionIsProjection
  BY DEF Inv
<1>2. QED
  BY <1>1, Invariance, PTL

\* No session past find_request has the key of a recorded execution.
THEOREM RetriesAreAnswered == Spec => []RetryIsAnswered
<1>1. Inv => RetryIsAnswered
  <2>1. ASSUME Inv, NEW s \in Sessions, pc[s] \in {"keyed", "ready", "flushed"}
        PROVE  ~KeyIsUsed(job[s].key)
    BY <2>1 DEF Inv, SessionOK, KeyIsHeld, Writing, KeyIsUsed
  <2>2. QED
    BY <2>1 DEF RetryIsAnswered
<1>2. QED
  BY <1>1, Invariance, PTL

----------------------------------------------------------------------------
(* The action properties of the runs. All of them follow from what a       *)
(* commit writes; every other step leaves the database alone.              *)

\* Only three actions change the database.
LEMMA Writers ==
    ASSUME Inv, [Next]_vars
    PROVE  \/ UNCHANGED database
           \/ \E s \in Sessions : Commit(s) \/ CommitCancel(s)
           \/ \E t \in Trades : Review(t)
  BY DEF Next, vars, Begin, FindRequest, Replay, OpenTrade, ReadTrade, Flush, ShowPreview,
         BeginCancel, LockRow, CheckCancel, Fail

\* The rivals of the trade that a commit opens are none, before and after.
LEMMA OpensAloneStep ==
    ASSUME Inv, NEW s \in Sessions, Commit(s), NEW t \in Trades, ~Held(t), Held(t)'
    PROVE  Rivals(t)' = {}
<1> DEFINE u == job[s].trade
<1>1. /\ pc[s] = "flushed" /\ u \in Trades \ cancelled /\ position'[u] = job[s].open
      /\ \A o \in Trades \ {u} : position'[o] = position[o]
      /\ cancelled' = cancelled
  BY CommitFacts
<1>2. t = u
  BY <1>1 DEF Held
<1>3. Opens(s)
  <2>1. job[s].open > 0 /\ position[u] \in Nat /\ ~(position[u] > 0)
    BY <1>1, <1>2 DEF Held, Inv, TypeOK
  <2>2. QED
    BY <2>1 DEF Opens
<1>4. Rivals(u) = {}
  BY <1>1, <1>3 DEF Inv, SessionOK, OpeningIsAlone
<1>5. QED
  BY <1>1, <1>2, <1>4 DEF Rivals, Held

\* A trade becomes open only while no other trade of its warrant is open.
THEOREM OneTradeOpens == Spec => OpensAlone
<1>1. ASSUME Inv, [Next]_vars, NEW t \in Trades, ~Held(t), Held(t)'
      PROVE  Rivals(t)' = {}
  <2>1. CASE UNCHANGED database
    BY <1>1, <2>1 DEF database, Held
  <2>2. ASSUME NEW s \in Sessions, Commit(s) PROVE Rivals(t)' = {}
    BY <1>1, <2>2, OpensAloneStep
  <2>3. ASSUME NEW s \in Sessions, CommitCancel(s) PROVE FALSE
    BY <1>1, <2>3, CommitCancelFacts DEF Held
  <2>4. ASSUME NEW r \in Trades, Review(r) PROVE FALSE
    BY <1>1, <2>4 DEF Review, Held
  <2>5. QED
    BY <1>1, <2>1, <2>2, <2>3, <2>4, Writers
<1>2. Inv /\ [Next]_vars => [\A t \in Trades : ~Held(t) /\ Held(t)' => Rivals(t)' = {}]_vars
  BY <1>1
<1>3. QED
  BY <1>2, Invariance, PTL DEF Spec, OpensAlone

\* A cancelled trade keeps its history, its position, its cancellation and its
\* duplicate, and is not reviewed.
THEOREM CancelledIsFrozen == Spec => CancelledTradeIsFrozen
<1> DEFINE Frozen(t) == /\ book'[t] = book[t] /\ position'[t] = position[t]
                        /\ t \in cancelled' /\ duplicateOf'[t] = duplicateOf[t]
                        /\ (t \in reviewed' => t \in reviewed)
<1>1. ASSUME Inv, [Next]_vars, NEW t \in cancelled PROVE Frozen(t)
  <2>1. t \in Trades
    BY <1>1 DEF Inv, TypeOK
  <2>2. CASE UNCHANGED database
    BY <2>2 DEF database
  <2>3. ASSUME NEW s \in Sessions, Commit(s) PROVE Frozen(t)
    BY <1>1, <2>1, <2>3, CommitFacts
  <2>4. ASSUME NEW s \in Sessions, CommitCancel(s) PROVE Frozen(t)
    <3>1. job[s].trade # t
      BY <1>1, <2>4, CommitCancelFacts DEF Cancellable, Held
    <3>2. QED
      BY <1>1, <2>1, <2>4, <3>1, CommitCancelFacts
  <2>5. ASSUME NEW r \in Trades, Review(r) PROVE Frozen(t)
    BY <1>1, <2>5 DEF Review
  <2>6. QED
    BY <1>1, <2>2, <2>3, <2>4, <2>5, Writers
<1>2. Inv /\ [Next]_vars => [\A t \in cancelled : Frozen(t)]_vars
  BY <1>1
<1>3. QED
  BY <1>2, Invariance, PTL DEF Spec, CancelledTradeIsFrozen

\* What a step cancels is what the commit of a cancellation writes.
LEMMA Cancels ==
    ASSUME Inv, [Next]_vars, NEW t \in cancelled' \ cancelled
    PROVE  \E s \in Sessions : CommitCancel(s) /\ job[s].trade = t
<1>1. CASE UNCHANGED database
  BY <1>1 DEF database
<1>2. ASSUME NEW s \in Sessions, Commit(s) PROVE FALSE
  BY <1>2, CommitFacts
<1>3. ASSUME NEW r \in Trades, Review(r) PROVE FALSE
  BY <1>3 DEF Review
<1>4. ASSUME NEW s \in Sessions, CommitCancel(s) PROVE job[s].trade = t
  BY <1>4, CommitCancelFacts
<1>5. QED
  BY <1>1, <1>2, <1>3, <1>4, Writers

\* A trade is cancelled with the history the client has seen in the preview.
THEOREM CancelledWasPreviewed == Spec => CancelledAsPreviewed
<1>1. ASSUME Inv, [Next]_vars, NEW t \in cancelled' \ cancelled
      PROVE  \E s \in Sessions : /\ pc[s] = "confirmed" /\ job[s].trade = t
                                 /\ job[s].token.length = Len(book[t])
  <2>1. PICK s \in Sessions : CommitCancel(s) /\ job[s].trade = t
    BY <1>1, Cancels
  <2>2. QED
    BY <1>1, <2>1, CommitCancelFacts
<1>2. Inv /\ [Next]_vars =>
        [\A t \in cancelled' \ cancelled :
           \E s \in Sessions : /\ pc[s] = "confirmed" /\ job[s].trade = t
                               /\ job[s].token.length = Len(book[t])]_vars
  BY <1>1
<1>3. QED
  BY <1>2, Invariance, PTL DEF Spec, CancelledAsPreviewed

\* The trade that is retained instead of a cancelled duplicate is open.
THEOREM DuplicatesAreRetained == Spec => DuplicateIsRetained
<1>1. ASSUME Inv, [Next]_vars, NEW t \in cancelled' \ cancelled, duplicateOf'[t] # 0
      PROVE  duplicateOf'[t] \in Rivals(t)'
  <2>1. PICK s \in Sessions : CommitCancel(s) /\ job[s].trade = t
    BY <1>1, Cancels
  <2>2. /\ duplicateOf'[t] = job[s].dup /\ Cancellable(s)
        /\ cancelled' = cancelled \cup {t} /\ position' = position
    BY <1>1, <2>1, CommitCancelFacts
  <2>3. job[s].dup \in Rivals(t)
    BY <1>1, <2>1, <2>2 DEF Cancellable
  <2>4. QED
    BY <2>2, <2>3 DEF Rivals, Held
<1>2. Inv /\ [Next]_vars =>
        [\A t \in cancelled' \ cancelled :
           duplicateOf'[t] # 0 => duplicateOf'[t] \in Rivals(t)']_vars
  BY <1>1
<1>3. QED
  BY <1>2, Invariance, PTL DEF Spec, DuplicateIsRetained

----------------------------------------------------------------------------
(* Refinement.                                                             *)

\* TradeBook has the same projection.
LEMMA SameProjection ==
    ASSUME NEW history
    PROVE  /\ Book!OpenQuantity(history) = OpenQuantity(history)
           /\ Book!Possible(history) = Possible(history)
           /\ Book!Effective(history) = Effective(history)
<1>1. Book!Effective(history) = Effective(history)
  BY DEF Book!Effective, Effective, Book!Superseded, Superseded
<1>2. Book!Projection(history) = Projection(history)
  BY Zenon
  DEF Book!Projection, Projection, Book!Nothing, Nothing, Book!Nth, Nth, Book!Before, Before,
      Book!Effective, Effective, Book!Superseded, Superseded, Book!Cardinality, Cardinality,
      Book!Apply, Apply, Book!Buy, Buy, Book!Sell, Sell, Book!Covered, Covered
<1>3. QED
  BY Zenon, <1>1, <1>2 DEF Book!OpenQuantity, OpenQuantity, Book!Possible, Possible

\* And, as positions are projections, the same open trades.
LEMMA SameHeld ==
    ASSUME PositionIsProjection, NEW t \in Trades
    PROVE  Book!Held(t) = Held(t) /\ Book!Rivals(t) = Rivals(t)
<1>1. \A o \in Trades : Book!Held(o) = Held(o)
  BY SameProjection DEF Book!Held, Held, PositionIsProjection
<1>2. QED
  BY <1>1 DEF Book!Rivals, Rivals

\* The recorded trades of the beginning are those of the book.
LEMMA InitRefines == ASSUME Init PROVE Book!BookInit
<1>1. ASSUME NEW t \in Trades
      PROVE  /\ book[t] \in {<<>>} \cup {<<e>> : e \in Execution}
             /\ book[t] # <<>> => Possible(book[t]) /\ book[t][1].replaces = 0
  <2>1. CASE book[t] = <<>>
    BY <2>1
  <2>2. CASE book[t] # <<>>
    <3>1. PICK e \in Execution : book[t] = <<e>> /\ e.replaces = 0
      BY <2>2, InitFacts DEF Exists
    <3>2. <<e>>[1] = e
      OBVIOUS
    <3>3. QED
      BY <2>2, <3>1, <3>2, InitFacts DEF Exists
  <2>3. QED
    BY <2>1, <2>2
<1>2. book \in [Trades -> {<<>>} \cup {<<e>> : e \in Execution}]
  <2>1. book = [t \in Trades |-> book[t]]
    BY DEF Init
  <2>2. QED
    BY <1>1, <2>1
<1>3. QED
  BY <1>1, <1>2, SameProjection DEF Book!BookInit, Init

\* The commit of a capture records an execution.
LEMMA CommitRefines ==
    ASSUME Inv, NEW s \in Sessions, Commit(s)
    PROVE  Book!Record(job[s].trade, job[s].next)
<1> DEFINE t == job[s].trade
           e == job[s].next
<1>1. /\ pc[s] = "flushed" /\ t \in Trades \ cancelled
      /\ book'[t] = Append(book[t], e)
      /\ UNCHANGED <<cancelled, duplicateOf, reviewed>>
  BY CommitFacts
<1>2. book' = [book EXCEPT ![t] = Append(@, e)]
  BY DEF Commit
<1>3. SessionOK(s) /\ Writing(s) /\ PositionIsProjection
  BY <1>1 DEF Inv, Writing
<1>4. /\ e.replaces # 0 => e.replaces \in Effective(book[t])
      /\ e.side = "SELL" /\ e.replaces = 0 => position[t] > 0
      /\ Possible(Append(book[t], e)) /\ e.key = job[s].key
      /\ job[s].open = OpenQuantity(Append(book[t], e))
  BY <1>3 DEF SessionOK, WriteIsValid, History
<1>5. Book!KeyIsNew(e.key)
  BY <1>3, <1>4 DEF SessionOK, KeyIsHeld, KeyIsUsed, Book!KeyIsNew
<1>6. ~Held(t) /\ OpenQuantity(Append(book[t], e)) > 0 => Rivals(t) = {}
  <2>1. ASSUME ~Held(t), OpenQuantity(Append(book[t], e)) > 0 PROVE Opens(s)
    <3>1. position[t] \in Nat /\ ~(position[t] > 0)
      BY <1>1, <2>1 DEF Held, Inv, TypeOK
    <3>2. QED
      BY <1>4, <2>1, <3>1 DEF Opens
  <2>2. QED
    BY <1>1, <1>3, <2>1 DEF SessionOK, OpeningIsAlone
<1>7. e.side = "SELL" /\ e.replaces = 0 => Held(t)
  BY <1>1, <1>4 DEF Held
<1> HIDE DEF t, e
<1>8. Book!Record(t, e)
  BY <1>1, <1>2, <1>3, <1>4, <1>5, <1>6, <1>7, SameProjection, SameHeld DEF Book!Record
<1>9. QED
  BY <1>8 DEF t, e

\* The commit of a cancellation cancels a trade.
LEMMA CommitCancelRefines ==
    ASSUME Inv, NEW s \in Sessions, CommitCancel(s)
    PROVE  Book!Cancel(job[s].trade, job[s].dup)
<1>1. /\ UNCHANGED <<book, reviewed>> /\ cancelled' = cancelled \cup {job[s].trade}
      /\ job[s].trade \in Trades /\ Cancellable(s)
  BY CommitCancelFacts
<1>2. duplicateOf' = [duplicateOf EXCEPT ![job[s].trade] = job[s].dup]
  BY DEF CommitCancel
<1>3. ASSUME NEW i \in DOMAIN book[job[s].trade] PROVE book[job[s].trade][i].side = "BUY"
  <2>1. book[job[s].trade] \in Seq(Execution)
    BY <1>1 DEF Inv, TypeOK
  <2>2. book[job[s].trade][i] \in Execution
    BY <2>1
  <2>3. QED
    BY <1>1, <2>2 DEF Execution, Cancellable, HasSale
<1>4. PositionIsProjection
  BY DEF Inv
<1>5. QED
  BY <1>1, <1>2, <1>3, <1>4, SameHeld DEF Book!Cancel, Cancellable

\* The sessions implement one that takes one request at a time.
THEOREM BookRefinement == Spec => ImplementsBook
<1>1. Init => Book!BookInit
  BY InitRefines
<1>2. ASSUME Inv, [Next]_vars PROVE [Book!BookNext]_(Book!bookVars)
  <2>1. CASE UNCHANGED database
    BY <2>1 DEF database, Book!bookVars
  <2>2. ASSUME NEW s \in Sessions, Commit(s) PROVE Book!BookNext
    <3>1. job[s].trade \in Trades /\ job[s].next \in Execution
      BY <1>2, <2>2, CommitFacts
    <3>2. QED
      BY <1>2, <2>2, <3>1, CommitRefines DEF Book!BookNext
  <2>3. ASSUME NEW s \in Sessions, CommitCancel(s) PROVE Book!BookNext
    <3>1. job[s].trade \in Trades /\ job[s].dup \in Trades \cup {0}
      BY <1>2, <2>3, CommitCancelFacts, JobFacts DEF Inv
    <3>2. QED
      BY <1>2, <2>3, <3>1, CommitCancelRefines DEF Book!BookNext
  <2>4. ASSUME NEW t \in Trades, Review(t) PROVE Book!BookNext
    <3>1. Book!Review(t)
      BY <2>4 DEF Review, Book!Review, Exists
    <3>2. QED
      BY <3>1 DEF Book!BookNext
  <2>5. QED
    BY <1>2, <2>1, <2>2, <2>3, <2>4, Writers
<1>3. QED
  BY <1>1, <1>2, Invariance, PTL DEF Spec, ImplementsBook, Book!BookSpec

-----------------------------------------------------------------------------
(* Requests never wait for each other in a circle (NoDeadlock).  Everything  *)
(* that can be locked has a place in one order: request keys, trades by id,  *)
(* products.  OwnLocks says what a session has locked at each point of its   *)
(* transaction, and from it follows that it only waits for what comes after  *)
(* everything it holds.  Along a chain of waiting sessions the wanted locks  *)
(* then only rise, so a circle, or any finite set of sessions that all wait  *)
(* within the set, has a smaller one inside: those that want something       *)
(* beyond what one of them wants.                                            *)

Precedes(a, b) ==
    \/ a \in Keys /\ b \in Trades \cup Products
    \/ a \in Trades /\ b \in Products
    \/ a \in Trades /\ b \in Trades /\ a < b

\* What s may have locked when it is about to lock more.
OwnLocks(s) ==
    /\ pc[s] \in {"idle", "begun", "previewed"} => locks[s] = {}
    /\ pc[s] \in {"replay", "keyed"} => locks[s] \subseteq Keys
    /\ pc[s] = "ready" =>
         locks[s] \subseteq Keys \cup Trades \cup {ProductOf[job[s].trade]}
    /\ pc[s] = "cancelling" =>
         /\ locks[s] \subseteq CancelRows(s)
         /\ \A h \in locks[s], r \in CancelRows(s) \ locks[s] : h < r

HeldInOrder == \A s \in Sessions : OwnLocks(s)

LockOrder == \A s \in Sessions : \A h \in locks[s], w \in Wants(s) : Precedes(h, w)

----------------------------------------------------------------------------
(* The order.                                                              *)

\* Keys, trades and products are different things.
LEMMA PrecedesIsOrder ==
    ASSUME CaptureAssumption
    PROVE  /\ \A a : ~Precedes(a, a)
           /\ \A a, b, c : Precedes(a, b) /\ Precedes(b, c) => Precedes(a, c)
<1> USE DEF CaptureAssumption, Precedes
<1>1. ASSUME NEW a PROVE ~Precedes(a, a)
  <2>1. a \in Trades => a \in Nat
    OBVIOUS
  <2>2. QED
    BY <2>1
<1>2. ASSUME NEW a, NEW b, NEW c, Precedes(a, b), Precedes(b, c) PROVE Precedes(a, c)
  <2>1. CASE a \in Trades /\ b \in Trades /\ c \in Trades
    <3>1. a \in Nat /\ b \in Nat /\ c \in Nat
      BY <2>1
    <3>2. a < b /\ b < c
      BY <1>2, <2>1
    <3>3. QED
      BY <2>1, <3>1, <3>2
  <2>2. CASE ~(a \in Trades /\ b \in Trades /\ c \in Trades)
    BY <1>2, <2>2
  <2>3. QED
    BY <2>1, <2>2
<1>3. QED
  BY <1>1, <1>2

----------------------------------------------------------------------------
(* What sessions hold.                                                     *)

\* A session that does not move holds what it held.
LEMMA HeldStays ==
    ASSUME NEW s \in Sessions, OwnLocks(s),
           pc'[s] = pc[s], locks'[s] = locks[s], job'[s] = job[s]
    PROVE  OwnLocks(s)'
  BY DEF OwnLocks, CancelRows

\* A session without a transaction holds nothing.
LEMMA HeldAtEnd ==
    ASSUME Inv, NEW s \in Sessions, End(s)
    PROVE  OwnLocks(s)'
<1>1. pc'[s] = "idle" /\ locks'[s] = {}
  BY DEF End, Inv, TypeOK
<1>2. QED
  BY <1>1 DEF OwnLocks

\* The steps of a session leave the others alone.
LEMMA OthersStay ==
    ASSUME Inv, NEW s \in Sessions,
           \/ Begin(s) \/ FindRequest(s) \/ Replay(s) \/ OpenTrade(s) \/ ReadTrade(s)
           \/ Flush(s) \/ Commit(s) \/ (\E t \in Trades : ShowPreview(s, t))
           \/ BeginCancel(s) \/ LockRow(s) \/ CheckCancel(s) \/ CommitCancel(s) \/ Fail(s),
           NEW o \in Sessions, o # s
    PROVE  pc'[o] = pc[o] /\ locks'[o] = locks[o] /\ job'[o] = job[o]
<1> USE DEF Inv, TypeOK, End, Advance
<1>1. CASE Begin(s)
  BY <1>1 DEF Begin
<1>2. CASE FindRequest(s)
  BY <1>2 DEF FindRequest
<1>3. CASE Replay(s) \/ Commit(s) \/ CommitCancel(s) \/ Fail(s)
  BY <1>3 DEF Replay, Commit, CommitCancel, Fail
<1>4. CASE OpenTrade(s)
  BY <1>4 DEF OpenTrade
<1>5. CASE ReadTrade(s)
  BY <1>5 DEF ReadTrade
<1>6. CASE Flush(s) \/ CheckCancel(s)
  BY <1>6 DEF Flush, CheckCancel
<1>7. CASE (\E t \in Trades : ShowPreview(s, t)) \/ BeginCancel(s)
  BY <1>7 DEF ShowPreview, BeginCancel
<1>8. CASE LockRow(s)
  BY <1>8 DEF LockRow
<1>9. QED
  BY <1>1, <1>2, <1>3, <1>4, <1>5, <1>6, <1>7, <1>8

\* A request that comes in has locked nothing yet.
LEMMA BeginHolds == ASSUME Inv, NEW s \in Sessions, OwnLocks(s), Begin(s) PROVE OwnLocks(s)'
<1>1. pc[s] = "idle" /\ UNCHANGED locks /\ pc'[s] \in {"begun", "keyed"}
  BY DEF Begin, Inv, TypeOK
<1>2. QED
  BY <1>1 DEF OwnLocks

\* The first lock is the key.
LEMMA FindRequestHolds ==
    ASSUME Inv, NEW s \in Sessions, OwnLocks(s), FindRequest(s) PROVE OwnLocks(s)'
<1>1. pc[s] = "begun" /\ pc'[s] \in {"keyed", "replay"} /\ locks'[s] = locks[s] \cup Wants(s)
  BY DEF FindRequest, Advance, Inv, TypeOK
<1>2. Wants(s) \subseteq Keys
  BY <1>1 DEF Wants, KeyWanted, TradeWanted, ProductWanted, Inv, SessionOK, RequestOK
<1>3. QED
  BY <1>1, <1>2 DEF OwnLocks

\* A first purchase locks the product of its trade.
LEMMA OpenTradeHolds ==
    ASSUME Inv, NEW s \in Sessions, OwnLocks(s), OpenTrade(s) PROVE OwnLocks(s)'
<1>1. CASE End(s)
  BY <1>1, HeldAtEnd
<1>2. CASE ~End(s)
  <2>1. PICK t \in Trades, e \in Captured(s, "BUY", 0) :
          /\ ProductOf[t] = job[s].product
          /\ Advance(s, "ready")
          /\ job' = [job EXCEPT ![s].trade = t, ![s].next = e, ![s].open = e.quantity]
    BY <1>2 DEF OpenTrade
  <2>2. /\ pc[s] = "keyed" /\ job[s].trade = 0 /\ pc'[s] = "ready"
        /\ locks'[s] = locks[s] \cup Wants(s)
    BY <2>1 DEF OpenTrade, Advance, Inv, TypeOK
  <2>3. job'[s].trade = t
    BY <2>1, JobFacts DEF Inv, TypeOK, Job
  <2>4. Wants(s) \subseteq {job[s].product}
    BY <2>2 DEF Wants, KeyWanted, TradeWanted, ProductWanted
  <2>5. QED
    BY <2>1, <2>2, <2>3, <2>4 DEF OwnLocks
<1>3. QED
  BY <1>1, <1>2

\* An execution in a trade locks the trade.
LEMMA ReadTradeHolds ==
    ASSUME Inv, NEW s \in Sessions, OwnLocks(s), ReadTrade(s) PROVE OwnLocks(s)'
<1>1. CASE End(s)
  BY <1>1, HeldAtEnd
<1>2. CASE ~End(s)
  <2>1. Advance(s, "ready") /\ pc[s] = "keyed" /\ job[s].trade # 0
    BY <1>2 DEF ReadTrade
  <2>2. pc'[s] = "ready" /\ locks'[s] = locks[s] \cup Wants(s)
    BY <2>1 DEF Advance, Inv, TypeOK
  <2>3. Wants(s) \subseteq Trades
    BY <2>1, JobFacts DEF Wants, KeyWanted, TradeWanted, ProductWanted, Inv
  <2>4. QED
    BY <2>1, <2>2, <2>3 DEF OwnLocks
<1>3. QED
  BY <1>1, <1>2

\* Past the flush a transaction locks nothing more.
LEMMA FlushHolds == ASSUME Inv, NEW s \in Sessions, OwnLocks(s), Flush(s) PROVE OwnLocks(s)'
<1>1. CASE End(s)
  BY <1>1, HeldAtEnd
<1>2. CASE ~End(s)
  <2>1. Advance(s, "flushed")
    BY <1>2 DEF Flush
  <2>2. pc'[s] = "flushed"
    BY <2>1 DEF Advance, Inv, TypeOK
  <2>3. QED
    BY <2>2 DEF OwnLocks
<1>3. QED
  BY <1>1, <1>2

\* A preview has locked its trade only for its own short transaction.
LEMMA PreviewHolds ==
    ASSUME Inv, NEW s \in Sessions, OwnLocks(s),
           (\E t \in Trades : ShowPreview(s, t)) \/ BeginCancel(s)
    PROVE  OwnLocks(s)'
<1>1. locks'[s] = {} /\ pc'[s] \in {"previewed", "cancelling"}
  BY DEF ShowPreview, BeginCancel, OwnLocks, Inv, TypeOK
<1>2. QED
  BY <1>1 DEF OwnLocks

\* A cancellation locks its rows from the lowest id up.
LEMMA LockRowHolds == ASSUME Inv, NEW s \in Sessions, OwnLocks(s), LockRow(s) PROVE OwnLocks(s)'
<1> DEFINE rest == CancelRows(s) \ locks[s]
<1>1. /\ pc[s] = "cancelling" /\ pc'[s] = "cancelling" /\ UNCHANGED job
      /\ locks'[s] = locks[s] \cup Wants(s)
  BY DEF LockRow, Advance, Inv, TypeOK
<1>2. Wants(s) = NextRow(s, rest)
  BY <1>1 DEF Wants, KeyWanted, TradeWanted, ProductWanted
<1>3. CancelRows(s) \subseteq Nat /\ CancelRows(s)' = CancelRows(s)
  BY <1>1, JobFacts, TradeIds, CaptureAssumption DEF Inv, CancelRows
<1>4. NextRow(s, rest) \subseteq rest
  BY DEF NextRow
<1>5. ASSUME NEW h \in locks[s] \cup NextRow(s, rest), NEW r \in rest \ NextRow(s, rest)
      PROVE  h < r
  <2>1. CASE h \in locks[s]
    BY <1>1, <2>1 DEF OwnLocks
  <2>2. CASE h \in NextRow(s, rest)
    <3>1. h <= r /\ h # r
      BY <2>2 DEF NextRow
    <3>2. h \in Nat /\ r \in Nat
      BY <1>3, <1>4, <2>2
    <3>3. QED
      BY <3>1, <3>2
  <2>3. QED
    BY <2>1, <2>2
<1>6. locks[s] \subseteq CancelRows(s)
  BY <1>1 DEF OwnLocks
<1> HIDE DEF rest
<1>7. CancelRows(s) \ (locks[s] \cup NextRow(s, rest)) = rest \ NextRow(s, rest)
  BY DEF rest
<1>8. locks[s] \cup NextRow(s, rest) \subseteq CancelRows(s)
  BY <1>4, <1>6 DEF rest
<1>9. QED
  BY <1>1, <1>2, <1>3, <1>5, <1>7, <1>8 DEF OwnLocks

\* A confirmed cancellation locks nothing more.
LEMMA CheckCancelHolds ==
    ASSUME Inv, NEW s \in Sessions, OwnLocks(s), CheckCancel(s) PROVE OwnLocks(s)'
<1>1. CASE End(s)
  BY <1>1, HeldAtEnd
<1>2. CASE ~End(s)
  <2>1. Advance(s, "confirmed")
    BY <1>2 DEF CheckCancel
  <2>2. pc'[s] = "confirmed"
    BY <2>1 DEF Advance, Inv, TypeOK
  <2>3. QED
    BY <2>2 DEF OwnLocks
<1>3. QED
  BY <1>1, <1>2

\* Every step keeps HeldInOrder.
LEMMA HeldNext == ASSUME Inv, HeldInOrder, [Next]_vars PROVE HeldInOrder'
<1>1. CASE UNCHANGED vars \/ \E t \in Trades : Review(t)
  <2>1. UNCHANGED <<pc, locks, job>>
    BY <1>1 DEF vars, Review
  <2>2. QED
    BY <2>1, HeldStays DEF HeldInOrder
<1>2. ASSUME NEW s \in Sessions,
             \/ Begin(s) \/ FindRequest(s) \/ Replay(s) \/ OpenTrade(s) \/ ReadTrade(s)
             \/ Flush(s) \/ Commit(s) \/ (\E t \in Trades : ShowPreview(s, t))
             \/ BeginCancel(s) \/ LockRow(s) \/ CheckCancel(s) \/ CommitCancel(s) \/ Fail(s)
      PROVE  HeldInOrder'
  <2>1. OwnLocks(s)
    BY DEF HeldInOrder
  <2>2. CASE Begin(s)
    BY <2>1, <2>2, BeginHolds, OthersStay, HeldStays DEF HeldInOrder
  <2>3. CASE FindRequest(s)
    BY <2>1, <2>3, FindRequestHolds, OthersStay, HeldStays DEF HeldInOrder
  <2>4. CASE Replay(s) \/ Commit(s) \/ CommitCancel(s) \/ Fail(s)
    <3>1. End(s)
      BY <2>4 DEF Replay, Commit, CommitCancel, Fail
    <3>2. QED
      BY <2>4, <3>1, HeldAtEnd, OthersStay, HeldStays DEF HeldInOrder
  <2>5. CASE OpenTrade(s)
    BY <2>1, <2>5, OpenTradeHolds, OthersStay, HeldStays DEF HeldInOrder
  <2>6. CASE ReadTrade(s)
    BY <2>1, <2>6, ReadTradeHolds, OthersStay, HeldStays DEF HeldInOrder
  <2>7. CASE Flush(s)
    BY <2>1, <2>7, FlushHolds, OthersStay, HeldStays DEF HeldInOrder
  <2>8. CASE (\E t \in Trades : ShowPreview(s, t)) \/ BeginCancel(s)
    BY <2>1, <2>8, PreviewHolds, OthersStay, HeldStays DEF HeldInOrder
  <2>9. CASE LockRow(s)
    BY <2>1, <2>9, LockRowHolds, OthersStay, HeldStays DEF HeldInOrder
  <2>10. CASE CheckCancel(s)
    BY <2>1, <2>10, CheckCancelHolds, OthersStay, HeldStays DEF HeldInOrder
  <2>11. QED
    BY <1>2, <2>2, <2>3, <2>4, <2>5, <2>6, <2>7, <2>8, <2>9, <2>10
<1>3. QED
  BY <1>1, <1>2 DEF Next

\* At each point of its transaction a session has locked no more than what the
\* code has locked up to there, in that order.
THEOREM LocksAreTakenInOrder == Spec => []HeldInOrder
<1>1. Init => HeldInOrder
  BY DEF Init, HeldInOrder, OwnLocks
<1>2. Inv /\ HeldInOrder /\ [Next]_vars => HeldInOrder'
  BY HeldNext
<1>3. QED
  BY <1>1, <1>2, Invariance, PTL DEF Spec

----------------------------------------------------------------------------
(* No circles.                                                             *)

\* A session waits only for what comes after all it holds.
LEMMA WaitsUpwards == ASSUME Inv, HeldInOrder PROVE LockOrder
<1> SUFFICES ASSUME NEW s \in Sessions, NEW h \in locks[s], NEW w \in Wants(s)
             PROVE  Precedes(h, w)
  BY DEF LockOrder
<1>1. OwnLocks(s)
  BY DEF HeldInOrder
<1>2. pc[s] # "begun"
  BY <1>1 DEF OwnLocks
<1>3. CASE pc[s] \in {"replay", "keyed"}
  <2>1. h \in Keys
    BY <1>1, <1>3 DEF OwnLocks
  <2>2. Wants(s) \subseteq Trades \cup Products
    <3>1. KeyWanted(s) = {}
      BY <1>3 DEF KeyWanted
    <3>2. TradeWanted(s) \subseteq Trades
      BY <1>3, JobFacts DEF Inv, TradeWanted
    <3>3. ProductWanted(s) \subseteq Products
      BY <1>3 DEF Inv, ProductWanted, SessionOK, RequestOK
    <3>4. QED
      BY <3>1, <3>2, <3>3 DEF Wants
  <2>3. QED
    BY <2>1, <2>2 DEF Precedes
<1>4. CASE pc[s] = "ready"
  <2>1. w = ProductOf[job[s].trade] /\ w \notin locks[s]
    BY <1>4 DEF Wants, KeyWanted, TradeWanted, ProductWanted
  <2>2. w \in Products
    BY <1>4, <2>1, CaptureAssumption
    DEF Inv, SessionOK, WriteIsValid, Writing, CaptureAssumption
  <2>3. h \in Keys \cup Trades
    BY <1>1, <1>4, <2>1 DEF OwnLocks
  <2>4. QED
    BY <2>2, <2>3 DEF Precedes
<1>5. CASE pc[s] = "cancelling"
  <2>1. w \in CancelRows(s) \ locks[s]
    BY <1>5 DEF Wants, KeyWanted, TradeWanted, ProductWanted, NextRow
  <2>2. h \in CancelRows(s) /\ h < w
    BY <1>1, <1>5, <2>1 DEF OwnLocks
  <2>3. CancelRows(s) \subseteq Trades
    BY JobFacts DEF Inv, CancelRows
  <2>4. QED
    BY <2>1, <2>2, <2>3 DEF Precedes
<1>6. QED
  BY <1>2, <1>3, <1>4, <1>5 DEF Wants, KeyWanted, TradeWanted, ProductWanted

\* All of D wait for one of D.
Stuck(D) == \A s \in D : \E o \in D : Waits(s, o)

\* A stuck set has a smaller one in it.
LEMMA StuckShrinks ==
    ASSUME LockOrder, NEW D, D \subseteq Sessions, D # {}, Stuck(D)
    PROVE  \E E \in SUBSET D : E # {} /\ E # D /\ Stuck(E)
<1>1. PICK s \in D : TRUE
  OBVIOUS
<1>2. PICK o \in D : Waits(s, o)
  BY DEF Stuck
<1>3. PICK x : x \in Wants(s) /\ x \in locks[o]
  BY <1>2 DEF Waits
<1> DEFINE Beyond == {u \in D : \A y \in Wants(u) : Precedes(x, y)}
<1>4. o \in Beyond
  BY <1>3 DEF LockOrder
<1>5. s \notin Beyond
  BY <1>3, PrecedesIsOrder, CaptureAssumption
<1>6. Stuck(Beyond)
  <2>1. ASSUME NEW u \in Beyond PROVE \E v \in Beyond : Waits(u, v)
    <3>1. PICK v \in D : Waits(u, v)
      BY DEF Stuck
    <3>2. PICK z : z \in Wants(u) /\ z \in locks[v]
      BY <3>1 DEF Waits
    <3>3. Precedes(x, z)
      BY <3>2
    <3>4. ASSUME NEW y \in Wants(v) PROVE Precedes(x, y)
      <4>1. Precedes(z, y)
        BY <3>2, <3>4 DEF LockOrder
      <4>2. QED
        BY <3>3, <4>1, PrecedesIsOrder, CaptureAssumption
    <3>5. QED
      BY <3>1, <3>4
  <2> HIDE DEF Beyond
  <2>2. QED
    BY <2>1 DEF Stuck
<1>7. QED
  BY <1>4, <1>5, <1>6

\* So no finite set is stuck.
LEMMA NothingIsStuck ==
    ASSUME LockOrder, NEW D, D \subseteq Sessions, D # {}
    PROVE  ~Stuck(D)
<1> SUFFICES ASSUME Stuck(D) PROVE FALSE
  OBVIOUS
<1> DEFINE T == {E \in SUBSET Sessions : E # {} /\ Stuck(E)}
<1>1. IsFiniteSet(Sessions)
  BY CaptureAssumption DEF CaptureAssumption
<1>2. IsWellFoundedOn(StrictSubsetOrdering(Sessions), SUBSET Sessions)
  BY <1>1, FS_FiniteSubsetsOfFinite, FS_StrictSubsetOrderingWellFounded
<1>3. T \subseteq SUBSET Sessions /\ T # {}
  <2>1. D \in T
    OBVIOUS
  <2>2. QED
    BY <2>1
<1>4. \E E \in T : \A F \in T : ~(<<F, E>> \in StrictSubsetOrdering(Sessions))
  <2> HIDE DEF T
  <2>1. QED
    BY <1>2, <1>3, WFMin
<1>5. PICK E \in T : \A F \in T : ~(<<F, E>> \in StrictSubsetOrdering(Sessions))
  BY <1>4
<1>6. PICK F \in SUBSET E : F # {} /\ F # E /\ Stuck(F)
  BY StuckShrinks
<1>7. F \in T /\ <<F, E>> \in StrictSubsetOrdering(Sessions)
  BY <1>6 DEF StrictSubsetOrdering
<1>8. QED
  BY <1>5, <1>7

\* Captures, retries, corrections and cancellations never wait for each other
\* in a circle, however many there are: keys are locked before trades, trades
\* in the order of their ids, and products last.
THEOREM NobodyWaitsInACircle == Spec => []NoDeadlock
<1>1. Inv /\ HeldInOrder => NoDeadlock
  <2>1. ASSUME Inv, HeldInOrder, NEW D \in (SUBSET Sessions) \ {{}}
        PROVE  \E s \in D : \A o \in D : ~Waits(s, o)
    <3>1. ~Stuck(D)
      BY <2>1, WaitsUpwards, NothingIsStuck
    <3>2. QED
      BY <3>1 DEF Stuck
  <2>2. QED
    BY <2>1 DEF NoDeadlock
<1>2. QED
  BY <1>1, Invariance, LocksAreTakenInOrder, PTL
=============================================================================
