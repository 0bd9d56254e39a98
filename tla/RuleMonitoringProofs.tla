------------------------- MODULE RuleMonitoringProofs -------------------------
(***************************************************************************)
(* Theorems about RuleMonitoring, for any prices, rules and alert ids and  *)
(* any number of quotes, edits and failures. Type correctness holds for    *)
(* any number of cycles. The others are about one cycle at a time          *)
(* (OneCycle): the run MonitoringOverlap shows that two may raise two      *)
(* alerts.                                                                 *)
(*                                                                         *)
(* The argument: between its read and its commit nobody else writes the    *)
(* rule's row, so what the cycle has read is still the row (InFlight), the *)
(* columns it leaves out of its UPDATE have the values it wants, and the   *)
(* commit writes exactly what Decided says. A cancellation in between      *)
(* closes alerts, which the cycle may find closed but cannot open again.   *)
(***************************************************************************)
EXTENDS RuleMonitoring, TLAPS

OneCycle == \A c, d \in Cycles : c = d

----------------------------------------------------------------------------
(* Type correctness.                                                       *)

\* The parts of a cycle's job.
LEMMA JobFacts ==
    ASSUME TypeOK, NEW c \in Cycles
    PROVE  /\ job[c] \in Job
           /\ job[c].rule \in Rules \cup {NoRule}
           /\ job[c].obs \in Observation
           /\ job[c].state \in Row
           /\ job[c].stored \in Row
           /\ job[c].put \in Row
           /\ job[c].create \in Alerts \cup {0}
           /\ job[c].resolve \in Alerts \cup {0}
<1>1. job[c] \in Job
  BY DEF TypeOK
<1>2. QED
  BY <1>1 DEF Job

\* A rule, or none, has a threshold and a binding.
LEMMA RuleFacts ==
    ASSUME NEW r \in Rules \cup {NoRule}
    PROVE  /\ r.threshold \in Nat
           /\ r.binding \in Bindings \cup {NoBinding}
           /\ r = [threshold |-> r.threshold, binding |-> r.binding]
<1>1. CASE r = NoRule
  BY <1>1 DEF NoRule
<1>2. CASE r \in Rules
  <2>1. r \in [threshold : Nat \ {0}, binding : Bindings \cup {NoBinding}]
    BY <1>2, MonitoringAssumption DEF MonitoringAssumption
  <2>2. QED
    BY <2>1
<1>3. QED
  BY <1>1, <1>2

\* No rule is none of the rules.
LEMMA NoRuleIsNoRule == NoRule \notin Rules
<1>1. NoRule.threshold = 0
  BY DEF NoRule
<1>2. \A r \in Rules : r.threshold \in Nat \ {0}
  BY MonitoringAssumption DEF MonitoringAssumption
<1>3. QED
  BY <1>1, <1>2

\* No row, no observation and no job are such.
LEMMA EmptyRecords == NoRow \in Row /\ NoObservation \in Observation /\ NoJob \in Job
<1>1. 0 \in Times
  BY MonitoringAssumption DEF Times, MonitoringAssumption
<1>2. NoRow \in Row
  BY <1>1 DEF NoRow, Row
<1>3. NoObservation \in Observation
  BY <1>1 DEF NoObservation, Observation
<1>4. QED
  BY <1>2, <1>3 DEF NoJob, Job

\* The prices a cycle may get are observations.
LEMMA ObservationFacts ==
    ASSUME TypeOK, NEW binding \in Bindings
    PROVE  Observations(binding) \subseteq Observation
<1>1. /\ quotes \in Seq(Quotes) /\ Len(quotes) \in 1..MaxQuotes /\ MaxQuotes \in Nat
      /\ DOMAIN quotes = 1..Len(quotes)
  BY MonitoringAssumption DEF TypeOK, MonitoringAssumption
<1>2. ASSUME NEW t \in DOMAIN quotes
      PROVE  /\ [at |-> t, basis |-> "SOURCE_TIMESTAMP", value |-> quotes[t][binding]]
                  \in Observation
             /\ [at |-> Len(quotes), basis |-> "RECEIPT_TIMESTAMP",
                 value |-> quotes[t]["WARRANT"]] \in Observation
  <2>1. quotes[t] \in [Bindings -> Nat]
    BY <1>1, MonitoringAssumption DEF MonitoringAssumption
  <2>2. quotes[t][binding] \in Nat /\ quotes[t]["WARRANT"] \in Nat
    BY <2>1 DEF Bindings
  <2>3. t \in Times /\ Len(quotes) \in Times
    BY <1>1 DEF Times
  <2>4. QED
    BY <2>2, <2>3 DEF Observation, Basis
<1>3. QED
  BY <1>2 DEF Observations

\* Whether the price of a cycle triggers the rule is a truth value.
LEMMA TriggeredFacts ==
    ASSUME TypeOK, NEW c \in Cycles
    PROVE  Triggered(job[c].rule.threshold, job[c].obs.value) \in BOOLEAN
<1>1. ASSUME NEW threshold \in Nat, NEW value \in Nat
      PROVE  Triggered(threshold, value) \in BOOLEAN
  <2>1. (value <= threshold) \in BOOLEAN /\ (value >= threshold) \in BOOLEAN
    BY SMT
  <2>2. CASE Kind = "STOP_REACHED"
    <3>1. Triggered(threshold, value) = (value <= threshold)
      BY Zenon, <2>2 DEF Triggered
    <3>2. QED
      BY Zenon, <2>1, <3>1
  <2>3. CASE Kind # "STOP_REACHED"
    <3>1. Triggered(threshold, value) = (value >= threshold)
      BY Zenon, <2>3 DEF Triggered
    <3>2. QED
      BY Zenon, <2>1, <3>1
  <2>4. QED
    BY Zenon, <2>2, <2>3
<1>2. job[c].rule.threshold \in Nat
  BY JobFacts, RuleFacts
<1>3. job[c].obs.value \in Nat
  BY JobFacts DEF Observation
<1>4. QED
  BY <1>1, <1>2, <1>3

\* The row that counts as current is a row.
LEMMA CurrentFacts ==
    ASSUME NEW state \in Row, NEW r
    PROVE  Current(state, r) \in Row
  BY EmptyRecords DEF Current

\* A row's fields.
LEMMA RowFacts ==
    ASSUME NEW r \in Row
    PROVE  /\ r.triggered \in BOOLEAN
           /\ r.seen \in Times
           /\ r.basis \in Basis \cup {"NONE"}
           /\ r.threshold \in Nat
           /\ r.binding \in Bindings \cup {NoBinding}
           /\ r.active \in Alerts \cup {0}
           /\ DOMAIN r = {"triggered", "seen", "basis", "threshold", "binding", "active"}
           /\ r = [triggered |-> r.triggered, seen |-> r.seen, basis |-> r.basis,
                   threshold |-> r.threshold, binding |-> r.binding, active |-> r.active]
  BY DEF Row

\* What a transaction writes over a row is a row.
LEMMA MergeIsRow ==
    ASSUME row \in Row, NEW stored \in Row, NEW put \in Row
    PROVE  Merge(stored, put) \in Row
<1> DEFINE m == Merge(stored, put)
<1>1. m = [f \in {"triggered", "seen", "basis", "threshold", "binding", "active"} |->
             IF put[f] # stored[f] THEN put[f] ELSE row[f]]
  BY RowFacts DEF Merge
<1>2. /\ m["triggered"] \in {put.triggered, row.triggered}
      /\ m["seen"] \in {put.seen, row.seen}
      /\ m["basis"] \in {put.basis, row.basis}
      /\ m["threshold"] \in {put.threshold, row.threshold}
      /\ m["binding"] \in {put.binding, row.binding}
      /\ m["active"] \in {put.active, row.active}
  BY <1>1
<1>3. m = [triggered |-> m["triggered"], seen |-> m["seen"], basis |-> m["basis"],
           threshold |-> m["threshold"], binding |-> m["binding"], active |-> m["active"]]
  BY <1>1
<1> HIDE DEF m
<1>4. /\ m["triggered"] \in BOOLEAN /\ m["seen"] \in Times /\ m["basis"] \in Basis \cup {"NONE"}
      /\ m["threshold"] \in Nat /\ m["binding"] \in Bindings \cup {NoBinding}
      /\ m["active"] \in Alerts \cup {0}
  BY <1>2, RowFacts
<1>5. QED
  BY <1>3, <1>4 DEF Row, m

\* Nothing else in the row changes it.
LEMMA MergeWithRow ==
    ASSUME row \in Row, NEW put \in Row
    PROVE  Merge(row, put) = put
<1>1. Merge(row, put) =
        [f \in {"triggered", "seen", "basis", "threshold", "binding", "active"} |-> put[f]]
  BY RowFacts DEF Merge
<1>2. QED
  BY <1>1, RowFacts

\* The decision of a cycle has the type of a job.
LEMMA DecideType ==
    ASSUME TypeOK, NEW c \in Cycles, NEW a \in Alerts \cup {0}, NEW state \in Row,
           NEW current \in Row, NEW now \in BOOLEAN
    PROVE  [job[c] EXCEPT !.create  = a,
                          !.resolve = ToResolve(state, current, now),
                          !.stored  = row,
                          !.put = [triggered |-> now, seen |-> job[c].obs.at,
                                   basis |-> job[c].obs.basis,
                                   threshold |-> job[c].rule.threshold,
                                   binding |-> job[c].rule.binding,
                                   active |-> IF a # 0 THEN a ELSE Kept(current, now)]]
             \in Job
<1>1. /\ ToResolve(state, current, now) \in Alerts \cup {0}
      /\ Kept(current, now) \in Alerts \cup {0}
  BY RowFacts DEF ToResolve, Kept
<1>2. job[c].obs.at \in Times /\ job[c].obs.basis \in Basis \cup {"NONE"}
  BY JobFacts DEF Observation
<1>3. row \in Row
  BY DEF TypeOK
<1> DEFINE active == IF a # 0 THEN a ELSE Kept(current, now)
           put == [triggered |-> now, seen |-> job[c].obs.at, basis |-> job[c].obs.basis,
                   threshold |-> job[c].rule.threshold, binding |-> job[c].rule.binding,
                   active |-> active]
<1>4. active \in Alerts \cup {0}
  BY <1>1
<1> HIDE DEF active
<1>5. put \in Row
  <2>1. job[c].rule.threshold \in Nat /\ job[c].rule.binding \in Bindings \cup {NoBinding}
    BY JobFacts, RuleFacts
  <2>2. QED
    BY Zenon, <1>2, <1>4, <2>1 DEF Row
<1> HIDE DEF put
<1>6. [job[c] EXCEPT !.create = a, !.resolve = ToResolve(state, current, now), !.stored = row,
                     !.put = put] \in Job
  BY <1>1, <1>3, <1>5, JobFacts DEF Job
<1>7. QED
  BY <1>6 DEF put, active

\* A cycle that is about to notify has an alert to notify of.
CreatedIsAlert == \A c \in Cycles : pc[c] = "created" => job[c].create \in Alerts

\* The parts of a cycle's own step that are typed.
LEMMA CycleTypes ==
    ASSUME TypeOK, NEW c \in Cycles,
           NEW p \in {"idle", "listed", "priced", "read", "decided", "created"},
           pc' = [pc EXCEPT ![c] = p],
           NEW j \in Job, job' = [job EXCEPT ![c] = j]
    PROVE  /\ pc' \in [Cycles -> {"idle", "listed", "priced", "read", "decided", "created"}]
           /\ job' \in [Cycles -> Job]
  BY DEF TypeOK

\* What Decide does.
LEMMA DecideFacts ==
    ASSUME TypeOK, NEW c \in Cycles, Decide(c)
    PROVE  LET j == job[c]
               current == Current(j.state, j.rule)
               now == Triggered(j.rule.threshold, j.obs.value)
           IN  /\ pc[c] = "read"
               /\ pc' = [pc EXCEPT ![c] = "decided"]
               /\ UNCHANGED <<world, database, bounds>>
               /\ ~OutOfOrder(current, j.obs)
               /\ now \in BOOLEAN
               /\ \E a \in Alerts \cup {0}, k \in Job :
                    /\ IF Enters(current, now) THEN a \in Alerts ELSE a = 0
                    /\ job' = [job EXCEPT ![c] = k]
                    /\ k.rule = j.rule /\ k.obs = j.obs /\ k.state = j.state
                    /\ k.stored = row
                    /\ k.create = a
                    /\ k.resolve = ToResolve(j.state, current, now)
                    /\ k.put = [triggered |-> now, seen |-> j.obs.at, basis |-> j.obs.basis,
                                threshold |-> j.rule.threshold, binding |-> j.rule.binding,
                                active |-> IF a # 0 THEN a ELSE Kept(current, now)]
<1> DEFINE j == job[c]
           current == Current(j.state, j.rule)
           now == Triggered(j.rule.threshold, j.obs.value)
           K(a) == [j EXCEPT !.create  = a,
                             !.resolve = ToResolve(j.state, current, now),
                             !.stored  = row,
                             !.put = [triggered |-> now, seen |-> j.obs.at,
                                      basis |-> j.obs.basis,
                                      threshold |-> j.rule.threshold,
                                      binding |-> j.rule.binding,
                                      active |-> IF a # 0 THEN a ELSE Kept(current, now)]]
<1>1. PICK a \in Alerts \cup {0} :
        /\ IF Enters(current, now) THEN a \in Alerts /\ Fresh(a) ELSE a = 0
        /\ job' = [job EXCEPT ![c] = K(a)]
  BY DEF Decide
<1>2. now \in BOOLEAN
  BY TriggeredFacts
<1>3. current \in Row /\ j.state \in Row
  BY JobFacts, CurrentFacts
<1>4. j \in Job
  BY JobFacts
<1> HIDE DEF now, current
<1>5. K(a) \in Job
  BY <1>2, <1>3, DecideType
<1>6. /\ K(a).rule = j.rule /\ K(a).obs = j.obs /\ K(a).state = j.state
      /\ K(a).stored = row /\ K(a).create = a
      /\ K(a).resolve = ToResolve(j.state, current, now)
      /\ K(a).put = [triggered |-> now, seen |-> j.obs.at, basis |-> j.obs.basis,
                     threshold |-> j.rule.threshold, binding |-> j.rule.binding,
                     active |-> IF a # 0 THEN a ELSE Kept(current, now)]
  BY <1>4 DEF Job
<1>7. /\ pc[c] = "read" /\ pc' = [pc EXCEPT ![c] = "decided"]
      /\ UNCHANGED <<world, database, bounds>> /\ ~OutOfOrder(current, j.obs)
  BY DEF Decide, current
<1> HIDE DEF K
<1>8. IF Enters(current, now) THEN a \in Alerts ELSE a = 0
  BY <1>1
<1>9. \E b \in Alerts \cup {0}, k \in Job :
        /\ IF Enters(current, now) THEN b \in Alerts ELSE b = 0
        /\ job' = [job EXCEPT ![c] = k]
        /\ k.rule = j.rule /\ k.obs = j.obs /\ k.state = j.state
        /\ k.stored = row
        /\ k.create = b
        /\ k.resolve = ToResolve(j.state, current, now)
        /\ k.put = [triggered |-> now, seen |-> j.obs.at, basis |-> j.obs.basis,
                    threshold |-> j.rule.threshold, binding |-> j.rule.binding,
                    active |-> IF b # 0 THEN b ELSE Kept(current, now)]
  BY Zenon, <1>1, <1>5, <1>6, <1>8
<1>10. QED
  BY Zenon, <1>2, <1>7, <1>9 DEF now, current

\* The steps of the world keep the types.
LEMMA WorldTypes ==
    ASSUME TypeOK,
           \/ \E q \in Quotes : NewQuote(q)
           \/ \E r \in Rules : MoveLevel(r)
           \/ ClosePosition \/ ReopenPosition \/ CancelTrade
    PROVE  TypeOK'
<1> USE DEF TypeOK, database, bounds
<1>1. ASSUME NEW q \in Quotes, NewQuote(q) PROVE TypeOK'
  <2>1. /\ quotes \in Seq(Quotes) /\ Len(quotes) \in 1..MaxQuotes /\ MaxQuotes \in Nat
        /\ Len(quotes) < MaxQuotes /\ quotes' = Append(quotes, q)
    BY <1>1, MonitoringAssumption DEF NewQuote, MonitoringAssumption
  <2>2. quotes' \in Seq(Quotes) /\ Len(quotes') \in 1..MaxQuotes
    BY <2>1
  <2>3. QED
    BY <1>1, <2>2 DEF NewQuote
<1>2. ASSUME NEW r \in Rules, MoveLevel(r) PROVE TypeOK'
  BY <1>2, MonitoringAssumption DEF MoveLevel, MonitoringAssumption
<1>3. CASE ClosePosition \/ ReopenPosition
  BY <1>3, MonitoringAssumption DEF ClosePosition, ReopenPosition, MonitoringAssumption
<1>4. CASE CancelTrade
  BY <1>4 DEF CancelTrade
<1>5. QED
  BY <1>1, <1>2, <1>3, <1>4

\* The steps of a cycle keep the types.
LEMMA StepTypes ==
    ASSUME TypeOK, CreatedIsAlert, NEW c \in Cycles,
           \/ List(c) \/ Price(c) \/ NoPrice(c) \/ ReadState(c) \/ Refuse(c)
           \/ Decide(c) \/ Commit(c) \/ Rollback(c) \/ Notify(c) \/ Fail(c)
    PROVE  TypeOK'
<1>1. CASE List(c)
  <2>1. [NoJob EXCEPT !.rule = rule] \in Job
    BY EmptyRecords DEF Job, TypeOK
  <2>2. QED
    BY <1>1, <2>1, CycleTypes DEF List, TypeOK, world, database, bounds
<1>2. CASE Price(c)
  <2>1. PICK o \in Observations(job[c].rule.binding) : job' = [job EXCEPT ![c].obs = o]
    BY <1>2 DEF Price
  <2>2. job[c].rule.binding \in Bindings
    BY <1>2, JobFacts, RuleFacts DEF Price
  <2>3. o \in Observation
    BY <2>1, <2>2, ObservationFacts
  <2>4. [job[c] EXCEPT !.obs = o] \in Job
    BY <2>3, JobFacts DEF Job
  <2>5. job' = [job EXCEPT ![c] = [job[c] EXCEPT !.obs = o]]
    BY <2>1
  <2>6. QED
    BY <1>2, <2>4, <2>5, CycleTypes DEF Price, TypeOK, world, database, bounds
<1>3. CASE NoPrice(c) \/ Refuse(c) \/ Rollback(c) \/ Fail(c)
  <2>1. End(c)
    BY <1>3 DEF NoPrice, Refuse, Rollback, Fail
  <2>2. /\ pc' \in [Cycles -> {"idle", "listed", "priced", "read", "decided", "created"}]
        /\ job' \in [Cycles -> Job]
    BY <2>1, EmptyRecords, CycleTypes DEF End
  <2>3. failures' \in 0..MaxFailures /\ edits' \in 0..MaxEdits
    BY <1>3, MonitoringAssumption
    DEF NoPrice, Refuse, Rollback, Fail, TypeOK, bounds, MonitoringAssumption
  <2>4. UNCHANGED <<world, database>>
    BY <1>3 DEF NoPrice, Refuse, Rollback, Fail
  <2>5. QED
    BY <2>2, <2>3, <2>4 DEF TypeOK, world, database
<1>4. CASE ReadState(c)
  <2>1. [job[c] EXCEPT !.state = row] \in Job
    BY JobFacts DEF Job, TypeOK
  <2>2. job' = [job EXCEPT ![c] = [job[c] EXCEPT !.state = row]]
    BY <1>4 DEF ReadState
  <2>3. QED
    BY <1>4, <2>1, <2>2, CycleTypes DEF ReadState, TypeOK, world, database, bounds
<1>5. CASE Decide(c)
  <2>1. PICK k \in Job : job' = [job EXCEPT ![c] = k]
    BY Zenon, <1>5, DecideFacts
  <2>2. pc' = [pc EXCEPT ![c] = "decided"] /\ UNCHANGED <<world, database, bounds>>
    BY <1>5 DEF Decide
  <2>3. QED
    BY <2>1, <2>2, CycleTypes DEF TypeOK, world, database, bounds
<1>6. CASE Commit(c)
  <2>1. row' \in Row
    BY <1>6, MergeIsRow, JobFacts DEF Commit, TypeOK
  <2>2. alerts' \in [Alerts -> Rules \cup {NoRule}] /\ notified' \subseteq Alerts
    BY <1>6, JobFacts DEF Commit, TypeOK
  <2>3. [NoJob EXCEPT !.create = job[c].create] \in Job
    BY EmptyRecords, JobFacts DEF Job
  <2>4. /\ pc' \in [Cycles -> {"idle", "listed", "priced", "read", "decided", "created"}]
        /\ job' \in [Cycles -> Job]
    <3>1. CASE End(c)
      BY <3>1, EmptyRecords, CycleTypes DEF End
    <3>2. CASE ~End(c)
      BY <1>6, <2>3, <3>2, CycleTypes DEF Commit
    <3>3. QED
      BY <3>1, <3>2
  <2>5. QED
    BY <1>6, <2>1, <2>2, <2>4 DEF Commit, TypeOK, world, bounds
<1>7. CASE Notify(c)
  <2>1. notified' \subseteq Alerts
    BY <1>7, JobFacts DEF Notify, TypeOK, CreatedIsAlert
  <2>2. /\ pc' \in [Cycles -> {"idle", "listed", "priced", "read", "decided", "created"}]
        /\ job' \in [Cycles -> Job]
    BY <1>7, EmptyRecords, CycleTypes DEF Notify, End
  <2>3. QED
    BY <1>7, <2>1, <2>2 DEF Notify, TypeOK, world, bounds
<1>8. QED
  BY <1>1, <1>2, <1>3, <1>4, <1>5, <1>6, <1>7

\* Only a commit leads to a notification.
LEMMA CreatedNext ==
    ASSUME TypeOK, CreatedIsAlert, [Next]_vars
    PROVE  CreatedIsAlert'
<1>1. CASE UNCHANGED <<pc, job>>
  BY <1>1 DEF CreatedIsAlert
<1>2. ASSUME NEW c \in Cycles,
             \/ List(c) \/ Price(c) \/ NoPrice(c) \/ ReadState(c) \/ Refuse(c)
             \/ Decide(c) \/ Rollback(c) \/ Notify(c) \/ Fail(c)
      PROVE  CreatedIsAlert'
  <2>1. pc'[c] # "created" /\ \A d \in Cycles \ {c} : pc'[d] = pc[d] /\ job'[d] = job[d]
    BY <1>2
    DEF TypeOK, List, Price, NoPrice, ReadState, Refuse, Decide, Rollback, Notify, Fail, End
  <2>2. QED
    BY <2>1 DEF CreatedIsAlert
<1>3. ASSUME NEW c \in Cycles, Commit(c) PROVE CreatedIsAlert'
  <2>1. CASE job[c].create = 0
    <3>1. pc'[c] # "created" /\ \A d \in Cycles \ {c} : pc'[d] = pc[d] /\ job'[d] = job[d]
      BY <1>3, <2>1 DEF TypeOK, Commit, End
    <3>2. QED
      BY <3>1 DEF CreatedIsAlert
  <2>2. CASE job[c].create # 0
    <3>1. job[c].create \in Alerts /\ NoJob \in Job
      BY <2>2, JobFacts, EmptyRecords
    <3>2. /\ job'[c].create = job[c].create
          /\ \A d \in Cycles \ {c} : pc'[d] = pc[d] /\ job'[d] = job[d]
      BY <1>3, <2>2, <3>1 DEF TypeOK, Commit, Job
    <3>3. QED
      BY <3>1, <3>2 DEF CreatedIsAlert
  <2>3. QED
    BY <2>1, <2>2
<1>4. QED
  BY <1>1, <1>2, <1>3
  DEF Next, vars, NewQuote, MoveLevel, ClosePosition, ReopenPosition, CancelTrade

\* Every reachable state is well typed, for any number of overlapping cycles:
\* also a row that two of them have written columns of.
THEOREM TypeCorrect == Spec => []TypeOK
<1>1. Init => TypeOK /\ CreatedIsAlert
  <2>1. ASSUME Init PROVE TypeOK /\ CreatedIsAlert
    <3>1. PICK q \in Quotes : quotes = <<q>>
      BY <2>1 DEF Init
    <3>2. quotes \in Seq(Quotes) /\ Len(quotes) = 1
      BY <3>1
    <3>3. MaxQuotes \in Nat /\ MaxQuotes >= 1 /\ MaxEdits \in Nat /\ MaxFailures \in Nat
      BY MonitoringAssumption DEF MonitoringAssumption
    <3>4. Len(quotes) \in 1..MaxQuotes /\ edits \in 0..MaxEdits /\ failures \in 0..MaxFailures
      BY <2>1, <3>2, <3>3 DEF Init
    <3>5. row \in Row /\ job \in [Cycles -> Job]
      BY <2>1, EmptyRecords DEF Init
    <3>6. QED
      BY <2>1, <3>2, <3>4, <3>5 DEF Init, TypeOK, CreatedIsAlert
  <2>2. QED
    BY <2>1
<1>2. TypeOK /\ CreatedIsAlert /\ [Next]_vars => TypeOK' /\ CreatedIsAlert'
  <2>1. ASSUME TypeOK, UNCHANGED vars PROVE TypeOK'
    BY <2>1 DEF TypeOK, vars, world, database, bounds
  <2>2. ASSUME TypeOK, CreatedIsAlert, Next PROVE TypeOK'
    BY <2>2, WorldTypes, StepTypes DEF Next
  <2>3. QED
    BY <2>1, <2>2, CreatedNext
<1>3. QED
  BY <1>1, <1>2, PTL DEF Spec
----------------------------------------------------------------------------
(* The inductive invariant for one cycle at a time.                        *)

\* What the transaction of a cycle is going to write, in terms of the row it
\* has read.
Decided(j) ==
    LET current == Current(j.state, j.rule)
        now     == j.put.triggered
    IN  /\ j.stored = j.state
        /\ ~OutOfOrder(current, j.obs)
        /\ j.put.seen = j.obs.at
        /\ j.put.basis = j.obs.basis
        /\ RuleOf(j.put) = j.rule
        /\ IF Enters(current, now) THEN j.create \in Alerts ELSE j.create = 0
        /\ j.put.active = IF j.create # 0 THEN j.create ELSE Kept(current, now)
        /\ j.resolve = ToResolve(j.state, current, now)

\* The row a cycle has read is still the row.
InFlight(c) ==
    /\ pc[c] \in {"listed", "priced", "read", "decided"} => job[c].rule \in Rules
    /\ pc[c] \in {"read", "decided"} => job[c].state = row
    /\ pc[c] = "decided" => Decided(job[c])

CancelledHasNoAlert == cancelled => \A a \in Alerts : ~IsOpen(a)

Inv ==
    /\ TypeOK
    /\ AlertMirrorsState
    /\ CancelledHasNoAlert
    /\ \A c \in Cycles : InFlight(c)

\* A row is current or of another rule.
LEMMA CurrentCases ==
    ASSUME NEW state, NEW r
    PROVE  \/ state = NoRow /\ Current(state, r) = NoRow
           \/ state # NoRow /\ RuleOf(state) = r /\ Current(state, r) = state
           \/ state # NoRow /\ RuleOf(state) # r /\ Current(state, r) = NoRow
  BY DEF Current, Superseded

\* A commit writes what the cycle has decided, over the row it has read.
LEMMA CommitWrites ==
    ASSUME Inv, NEW c \in Cycles, Commit(c)
    PROVE  /\ row' = job[c].put
           /\ job[c].state = row
           /\ Decided(job[c])
           /\ job[c].rule \in Rules
           /\ job[c].rule # NoRule
<1>1. pc[c] = "decided" /\ row' = Merge(job[c].stored, job[c].put)
  BY DEF Commit
<1>2. job[c].state = row /\ Decided(job[c]) /\ job[c].rule \in Rules
  BY <1>1 DEF Inv, InFlight
<1>3. job[c].stored = row
  BY <1>2 DEF Decided
<1>4. row \in Row /\ job[c].put \in Row
  BY JobFacts DEF Inv, TypeOK
<1>5. NoRule \notin Rules
  BY NoRuleIsNoRule
<1>6. QED
  BY <1>1, <1>2, <1>3, <1>4, <1>5, MergeWithRow

\* After a commit the row and the alerts tell the same story.
LEMMA CommitMirrors ==
    ASSUME Inv, NEW c \in Cycles, Commit(c)
    PROVE  AlertMirrorsState'
<1> DEFINE j == job[c]
           current == Current(row, j.rule)
           now == j.put.triggered
<1>1. /\ row' = j.put /\ j.state = row /\ Decided(j) /\ j.rule # NoRule
      /\ RuleOf(j.put) = j.rule
  BY CommitWrites DEF Decided
<1>2. /\ alerts' = [a \in Alerts |-> IF a = j.create THEN j.rule
                                     ELSE IF a = j.resolve THEN NoRule ELSE alerts[a]]
      /\ cancelled' = cancelled
  BY DEF Commit, world
<1>3. /\ IF Enters(current, now) THEN j.create \in Alerts ELSE j.create = 0
      /\ j.put.active = IF j.create # 0 THEN j.create ELSE Kept(current, now)
      /\ j.resolve = ToResolve(row, current, now)
  BY <1>1 DEF Decided
<1>4. 0 \notin Alerts /\ row.active \in Alerts \cup {0}
  BY MonitoringAssumption, RowFacts DEF MonitoringAssumption, Inv, TypeOK
<1>5. /\ NoRow.triggered = FALSE /\ NoRow.active = 0
  BY Zenon DEF NoRow
<1>6. \/ row = NoRow /\ current = NoRow
      \/ row # NoRow /\ RuleOf(row) = j.rule /\ current = row
      \/ row # NoRow /\ RuleOf(row) # j.rule /\ current = NoRow
  BY CurrentCases
<1> HIDE DEF current, now
<1>7. ASSUME NEW a \in Alerts, IsOpen(a)'
      PROVE  row'.triggered /\ row'.active = a /\ RuleOf(row') = alerts'[a]
  <2>1. CASE a = j.create
    <3>1. Enters(current, now)
      BY <1>3, <1>4, <2>1
    <3>2. j.put.triggered /\ alerts'[a] = j.rule /\ j.put.active = a
      BY <1>2, <1>3, <1>4, <2>1, <3>1 DEF Enters, now
    <3>3. QED
      BY <1>1, <3>2
  <2>2. CASE a # j.create
    <3>1. a # j.resolve /\ alerts'[a] = alerts[a] /\ IsOpen(a)
      BY <1>2, <1>7, <2>2 DEF IsOpen
    <3>2. row.triggered /\ row.active = a /\ RuleOf(row) = alerts[a] /\ row # NoRow
      BY <1>5, <3>1 DEF Inv, AlertMirrorsState
    <3>3. RuleOf(row) = j.rule /\ current = row
      BY <1>3, <1>6, <3>1, <3>2 DEF ToResolve
    <3>4. now /\ j.create = 0
      BY <1>3, <3>1, <3>2, <3>3 DEF ToResolve, Exits, Enters
    <3>5. j.put.active = a
      BY <1>3, <3>2, <3>3, <3>4 DEF Kept, Exits
    <3>6. QED
      BY <1>1, <3>1, <3>2, <3>3, <3>4, <3>5 DEF now
  <2>3. QED
    BY <2>1, <2>2
<1>8. ASSUME row'.triggered, ~cancelled'
      PROVE  row'.active # 0 /\ alerts'[row'.active] # NoRule
  <2>1. now /\ ~cancelled
    BY <1>1, <1>2, <1>8 DEF now
  <2>2. CASE j.create # 0
    <3>1. j.create \in Alerts /\ alerts'[j.create] = j.rule
      BY <1>2, <1>3, <2>2
    <3>2. QED
      BY <1>1, <1>3, <2>2, <3>1 DEF IsOpen
  <2>3. CASE j.create = 0
    <3>1. current.triggered
      BY <1>3, <1>4, <2>1, <2>3 DEF Enters
    <3>2. row = current /\ row.triggered
      BY <1>5, <1>6, <3>1
    <3>3. row.active # 0 /\ IsOpen(row.active)
      BY <2>1, <3>2 DEF Inv, AlertMirrorsState
    <3>4. j.put.active = row.active /\ j.resolve = 0
      BY <1>3, <2>1, <2>3, <3>2 DEF Kept, Exits, ToResolve
    <3>5. row.active \in Alerts /\ alerts'[row.active] = alerts[row.active]
      BY <1>2, <1>4, <2>3, <3>3, <3>4
    <3>6. QED
      BY <1>1, <3>3, <3>4, <3>5 DEF IsOpen
  <2>4. QED
    BY <2>2, <2>3
<1>9. QED
  BY <1>7, <1>8 DEF AlertMirrorsState, IsOpen

\* A commit of a cancelled trade opens nothing.
LEMMA CommitOfCancelled ==
    ASSUME Inv, NEW c \in Cycles, Commit(c), cancelled
    PROVE  \A a \in Alerts : alerts'[a] = NoRule
<1>1. job[c].create = 0
  BY DEF Commit, Rejected
<1>2. 0 \notin Alerts
  BY MonitoringAssumption DEF MonitoringAssumption
<1>3. \A a \in Alerts : alerts[a] = NoRule
  BY DEF Inv, CancelledHasNoAlert, IsOpen
<1>4. QED
  BY <1>1, <1>2, <1>3 DEF Commit

\* The decision of a cycle is one about the row.
LEMMA DecideInFlight ==
    ASSUME Inv, NEW c \in Cycles, Decide(c)
    PROVE  InFlight(c)'
<1> DEFINE j == job[c]
           current == Current(j.state, j.rule)
           now == Triggered(j.rule.threshold, j.obs.value)
<1>1. /\ pc[c] = "read"
      /\ pc' = [pc EXCEPT ![c] = "decided"]
      /\ UNCHANGED <<world, database, bounds>>
      /\ ~OutOfOrder(current, j.obs)
      /\ now \in BOOLEAN
      /\ \E a \in Alerts \cup {0}, k \in Job :
           /\ IF Enters(current, now) THEN a \in Alerts ELSE a = 0
           /\ job' = [job EXCEPT ![c] = k]
           /\ k.rule = j.rule /\ k.obs = j.obs /\ k.state = j.state
           /\ k.stored = row
           /\ k.create = a
           /\ k.resolve = ToResolve(j.state, current, now)
           /\ k.put = [triggered |-> now, seen |-> j.obs.at, basis |-> j.obs.basis,
                       threshold |-> j.rule.threshold, binding |-> j.rule.binding,
                       active |-> IF a # 0 THEN a ELSE Kept(current, now)]
  BY Zenon, DecideFacts DEF Inv
<1>2. j.rule \in Rules /\ j.state = row
  BY <1>1 DEF Inv, InFlight
<1> HIDE DEF current, now
<1>3. PICK a \in Alerts \cup {0}, k \in Job :
        /\ IF Enters(current, now) THEN a \in Alerts ELSE a = 0
        /\ job' = [job EXCEPT ![c] = k]
        /\ k.rule = j.rule /\ k.obs = j.obs /\ k.state = j.state
        /\ k.stored = row
        /\ k.create = a
        /\ k.resolve = ToResolve(j.state, current, now)
        /\ k.put = [triggered |-> now, seen |-> j.obs.at, basis |-> j.obs.basis,
                    threshold |-> j.rule.threshold, binding |-> j.rule.binding,
                    active |-> IF a # 0 THEN a ELSE Kept(current, now)]
  BY Zenon, <1>1
<1>4. job'[c] = k /\ pc'[c] = "decided" /\ row' = row
  BY <1>1, <1>3 DEF Inv, TypeOK, database
<1>5. /\ k.put.triggered = now /\ k.put.seen = j.obs.at /\ k.put.basis = j.obs.basis
      /\ RuleOf(k.put) = j.rule
      /\ k.put.active = IF a # 0 THEN a ELSE Kept(current, now)
  <2>1. k.put.triggered = now
    BY <1>3
  <2>2. k.put.seen = j.obs.at /\ k.put.basis = j.obs.basis
    BY <1>3
  <2>5. RuleOf(k.put) = j.rule
    <3>1. k.put.threshold = j.rule.threshold /\ k.put.binding = j.rule.binding
      BY <1>3
    <3>2. QED
      BY <1>2, <3>1, RuleFacts DEF RuleOf
  <2>3. k.put.active = IF a # 0 THEN a ELSE Kept(current, now)
    BY <1>3
  <2>4. QED
    BY Zenon, <2>1, <2>2, <2>3, <2>5
<1>6. Current(k.state, k.rule) = current
  BY <1>3 DEF current
<1>7. Decided(k)
  BY Zenon, <1>1, <1>2, <1>3, <1>5, <1>6 DEF Decided
<1>8. Decided(job[c])'
  <2>1. Decided(job'[c])
    BY <1>4, <1>7
  <2>2. QED
    BY <2>1
    DEF Decided, Current, Superseded, RuleOf, OutOfOrder, Enters, Exits, Kept, ToResolve, NoRow
<1>9. QED
  BY <1>2, <1>3, <1>4, <1>8 DEF InFlight

\* The steps of the world change no row and open no alert.
LEMMA WorldInv ==
    ASSUME Inv,
           \/ \E q \in Quotes : NewQuote(q)
           \/ \E r \in Rules : MoveLevel(r)
           \/ ClosePosition \/ ReopenPosition \/ CancelTrade
    PROVE  Inv'
<1>1. TypeOK'
  BY WorldTypes DEF Inv
<1>2. UNCHANGED <<row, pc, job>>
  BY DEF NewQuote, MoveLevel, ClosePosition, ReopenPosition, CancelTrade, database
<1>3. \A c \in Cycles : InFlight(c)'
  <2>1. ASSUME NEW c \in Cycles PROVE InFlight(c)'
    <3>1. pc'[c] = pc[c] /\ job'[c] = job[c] /\ row' = row /\ InFlight(c)
      BY <1>2 DEF Inv
    <3>2. Decided(job[c]) => Decided(job'[c])
      BY <3>1
    <3>3. QED
      BY <3>1 DEF InFlight, Decided, Current, Superseded, RuleOf, OutOfOrder, Enters, Exits, Kept,
                  ToResolve, NoRow
  <2>2. QED
    BY <2>1
<1>4. CASE CancelTrade
  <2>1. cancelled' /\ \A a \in Alerts : ~IsOpen(a)'
    BY <1>4 DEF CancelTrade, IsOpen
  <2>2. QED
    BY <1>1, <1>3, <2>1 DEF Inv, AlertMirrorsState, CancelledHasNoAlert
<1>5. CASE ~CancelTrade
  <2>1. UNCHANGED <<cancelled, database>>
    BY <1>5 DEF NewQuote, MoveLevel, ClosePosition, ReopenPosition
  <2>2. QED
    BY <1>1, <1>3, <2>1 DEF Inv, AlertMirrorsState, CancelledHasNoAlert, IsOpen, database
<1>6. QED
  BY <1>4, <1>5

\* The steps of the only cycle keep the invariant.
LEMMA CycleInv ==
    ASSUME Inv, CreatedIsAlert, OneCycle, NEW c \in Cycles,
           \/ List(c) \/ Price(c) \/ NoPrice(c) \/ ReadState(c) \/ Refuse(c)
           \/ Decide(c) \/ Commit(c) \/ Rollback(c) \/ Notify(c) \/ Fail(c)
    PROVE  Inv'
<1>1. TypeOK'
  BY StepTypes DEF Inv
<1>2. cancelled' = cancelled
  BY DEF List, Price, NoPrice, ReadState, Refuse, Decide, Commit, Rollback, Notify, Fail, world
<1>3. AlertMirrorsState' /\ CancelledHasNoAlert'
  <2>1. CASE Commit(c)
    BY <1>2, <2>1, CommitMirrors, CommitOfCancelled DEF CancelledHasNoAlert, IsOpen
  <2>2. CASE ~Commit(c)
    <3>1. UNCHANGED <<row, alerts>>
      BY <2>2
      DEF List, Price, NoPrice, ReadState, Refuse, Decide, Rollback, Notify, Fail, database
    <3>2. QED
      BY <1>2, <3>1 DEF Inv, AlertMirrorsState, CancelledHasNoAlert, IsOpen
  <2>3. QED
    BY <2>1, <2>2
<1>4. InFlight(c)'
  <2>1. CASE List(c)
    <3>1. pc'[c] = "listed" /\ job'[c].rule \in Rules
      BY <2>1, EmptyRecords DEF List, Inv, TypeOK, Job
    <3>2. QED
      BY <3>1 DEF InFlight
  <2>2. CASE Price(c)
    <3>1. pc[c] = "listed" /\ pc'[c] = "priced" /\ job'[c].rule = job[c].rule
      BY <2>2, JobFacts DEF Price, Inv, TypeOK, Job
    <3>2. QED
      BY <3>1 DEF Inv, InFlight
  <2>3. CASE ReadState(c)
    <3>1. /\ pc[c] = "priced" /\ pc'[c] = "read" /\ job'[c].rule = job[c].rule
          /\ job'[c].state = row /\ row' = row
      BY <2>3, JobFacts DEF ReadState, Inv, TypeOK, Job, database
    <3>2. QED
      BY <3>1 DEF Inv, InFlight
  <2>4. CASE Decide(c)
    BY <2>4, DecideInFlight
  <2>5. CASE NoPrice(c) \/ Refuse(c) \/ Rollback(c) \/ Notify(c) \/ Fail(c) \/ Commit(c)
    <3>1. pc'[c] \in {"idle", "created"}
      BY <2>5 DEF NoPrice, Refuse, Rollback, Notify, Fail, Commit, End, Inv, TypeOK
    <3>2. QED
      BY <3>1 DEF InFlight
  <2>6. QED
    BY <2>1, <2>2, <2>3, <2>4, <2>5
<1>5. \A d \in Cycles : InFlight(d)'
  BY <1>4 DEF OneCycle
<1>6. QED
  BY <1>1, <1>3, <1>5 DEF Inv

\* With one cycle at a time, what the cycle has read is still the row when it
\* commits, and row and alerts agree.
THEOREM Invariance == ASSUME OneCycle PROVE Spec => [](Inv /\ CreatedIsAlert)
<1>1. Init /\ TypeOK => Inv /\ CreatedIsAlert
  <2>1. ASSUME Init, TypeOK PROVE Inv /\ CreatedIsAlert
    <3>1. row.triggered = FALSE
      BY Zenon, <2>1 DEF Init, NoRow
    <3>2. (\A c \in Cycles : pc[c] = "idle") /\ (\A a \in Alerts : alerts[a] = NoRule)
      BY <2>1 DEF Init
    <3>3. QED
      BY <2>1, <3>1, <3>2
      DEF Inv, AlertMirrorsState, CancelledHasNoAlert, InFlight, IsOpen, CreatedIsAlert
  <2>2. QED
    BY <2>1
<1>2. Inv /\ CreatedIsAlert /\ [Next]_vars => Inv' /\ CreatedIsAlert'
  <2>1. ASSUME Inv, UNCHANGED vars, TypeOK' PROVE Inv'
    <3>1. ASSUME NEW c \in Cycles PROVE InFlight(c)'
      <4>1. pc'[c] = pc[c] /\ job'[c] = job[c] /\ row' = row /\ InFlight(c)
        BY <2>1 DEF Inv, vars, database
      <4>2. Decided(job[c]) => Decided(job'[c])
        BY <4>1
      <4>3. QED
        BY <4>1, <4>2
        DEF InFlight, Decided, Current, Superseded, RuleOf, OutOfOrder, Enters, Exits, Kept,
            ToResolve, NoRow
    <3>2. QED
      BY <2>1, <3>1
      DEF Inv, AlertMirrorsState, CancelledHasNoAlert, IsOpen, vars, database, world
  <2>2. ASSUME Inv, CreatedIsAlert, Next PROVE Inv'
    BY <2>2, WorldInv, CycleInv DEF Next
  <2>3. ASSUME Inv, UNCHANGED vars PROVE TypeOK'
    BY <2>3 DEF Inv, TypeOK, vars, world, database, bounds
  <2>4. QED
    BY <2>1, <2>2, <2>3, CreatedNext DEF Inv
<1>3. QED
  BY <1>1, <1>2, TypeCorrect, PTL DEF Spec

----------------------------------------------------------------------------
(* The properties of the run MonitoringCycle.                              *)

\* With one cycle at a time, an open alert is the active one of a triggered
\* row with its threshold and price binding, and a triggered row has its alert: wherever the
\* cycle dies and whatever happens between its steps.
THEOREM RowAndAlertsAgree == ASSUME OneCycle PROVE Spec => []AlertMirrorsState
<1>1. Inv => AlertMirrorsState
  BY DEF Inv
<1>2. QED
  BY <1>1, Invariance, PTL

\* Only a commit changes the row or opens an alert.
LEMMA OnlyCommits ==
    ASSUME [Next]_vars
    PROVE  \/ row' = row /\ (alerts' = alerts \/ alerts' = [a \in Alerts |-> NoRule])
           \/ \E c \in Cycles : Commit(c)
  BY DEF Next, vars, NewQuote, MoveLevel, ClosePosition, ReopenPosition, CancelTrade, List, Price,
         NoPrice, ReadState, Refuse, Decide, Rollback, Notify, Fail, database

\* With one cycle at a time, an alert is raised when the rule changes from clear
\* to triggered, or for a new threshold or price binding, and at no other time.
THEOREM AlertsAreRaisedOnEdges == ASSUME OneCycle PROVE Spec => AlertsOnEdgesOnly
<1>1. ASSUME Inv, NEW c \in Cycles, Commit(c), NEW a \in Alerts, ~IsOpen(a), alerts'[a] # NoRule
      PROVE  ~row.triggered \/ RuleOf(row) # alerts'[a]
  <2> DEFINE j == job[c]
             current == Current(row, j.rule)
  <2>1. j.state = row /\ Decided(j)
    BY <1>1, CommitWrites
  <2>2. a = j.create /\ alerts'[a] = j.rule
    BY <1>1 DEF Commit, IsOpen
  <2>3. 0 \notin Alerts
    BY MonitoringAssumption DEF MonitoringAssumption
  <2>4. ~current.triggered
    BY <2>1, <2>2, <2>3 DEF Decided, Enters
  <2>5. QED
    BY <2>2, <2>4, CurrentCases
<1>2. Inv /\ [Next]_vars =>
        [\A a \in Alerts : ~IsOpen(a) /\ alerts'[a] # NoRule =>
           ~row.triggered \/ RuleOf(row) # alerts'[a]]_vars
  <2>1. ASSUME Inv, [Next]_vars, NEW a \in Alerts, ~IsOpen(a), alerts'[a] # NoRule
        PROVE  ~row.triggered \/ RuleOf(row) # alerts'[a]
    BY <1>1, <2>1, OnlyCommits DEF IsOpen
  <2>2. QED
    BY <2>1
<1>3. QED
  BY <1>2, Invariance, PTL DEF Spec, AlertsOnEdgesOnly

\* With one cycle at a time, a price that comes late never takes the row back,
\* as long as threshold, price binding and time basis are the same.
THEOREM RowIsNotRewound == ASSUME OneCycle PROVE Spec => NoRewind
<1>1. ASSUME Inv, NEW c \in Cycles, Commit(c), RuleOf(row') = RuleOf(row),
             row'.basis = row.basis
      PROVE  row'.seen >= row.seen
  <2> DEFINE j == job[c]
             current == Current(row, j.rule)
  <2>1. row' = j.put /\ j.state = row /\ Decided(j) /\ j.rule # NoRule
    BY <1>1, CommitWrites
  <2>2. /\ ~OutOfOrder(current, j.obs) /\ j.put.seen = j.obs.at
        /\ j.put.basis = j.obs.basis /\ RuleOf(j.put) = j.rule
    BY <2>1 DEF Decided
  <2>3. RuleOf(row) = j.rule /\ row # NoRow
    BY <1>1, <2>1, <2>2 DEF NoRow, NoRule, RuleOf
  <2>4. current = row
    BY <2>3, CurrentCases
  <2>5. ~(j.obs.at < row.seen)
    BY <1>1, <2>1, <2>2, <2>3, <2>4 DEF OutOfOrder
  <2>6. j.obs.at \in Nat /\ row.seen \in Nat
    <3>1. j.obs.at \in Times /\ row.seen \in Times
      BY <1>1, JobFacts, RowFacts DEF Inv, TypeOK, Observation
    <3>2. QED
      BY <3>1 DEF Times
  <2>7. QED
    BY <2>1, <2>2, <2>5, <2>6
<1>2. ASSUME Inv, row' = row PROVE row'.seen >= row.seen
  <2>1. row.seen \in Times
    BY <1>2, RowFacts DEF Inv, TypeOK
  <2>2. row.seen \in Nat
    BY <2>1 DEF Times
  <2>3. QED
    BY <1>2, <2>2
<1>3. Inv /\ [Next]_vars =>
        [RuleOf(row') = RuleOf(row) /\ row'.basis = row.basis => row'.seen >= row.seen]_vars
  BY <1>1, <1>2, OnlyCommits
<1>4. QED
  BY <1>3, Invariance, PTL DEF Spec, NoRewind

\* With one cycle at a time, a cancelled trade has no open alert and gets no
\* notification, although a cycle may have listed its rule before.
THEOREM CancelledIsQuiet == ASSUME OneCycle PROVE Spec => CancelledTradeIsQuiet
<1>1. ASSUME Inv, cancelled, [Next]_vars PROVE \A a \in Alerts : alerts'[a] = NoRule
  <2>1. \A a \in Alerts : alerts[a] = NoRule
    BY <1>1 DEF Inv, CancelledHasNoAlert, IsOpen
  <2>2. QED
    BY <1>1, <2>1, OnlyCommits, CommitOfCancelled
<1>2. ASSUME Inv, cancelled, [Next]_vars PROVE notified' \subseteq notified
  BY <1>2
  DEF Next, vars, NewQuote, MoveLevel, ClosePosition, ReopenPosition, CancelTrade, List, Price,
      NoPrice, ReadState, Refuse, Decide, Commit, Rollback, Notify, Fail, database
<1>3. Inv /\ [Next]_vars =>
        [cancelled => /\ \A a \in Alerts : alerts'[a] = NoRule
                      /\ notified' \subseteq notified]_vars
  BY <1>1, <1>2
<1>4. QED
  BY <1>3, Invariance, PTL DEF Spec, CancelledTradeIsQuiet
=============================================================================
