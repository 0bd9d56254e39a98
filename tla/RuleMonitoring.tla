--------------------------- MODULE RuleMonitoring ---------------------------
(***************************************************************************)
(* One price rule (stop or target) of one open position, as the monitoring *)
(* cycle evaluates it:                                                     *)
(*   position_monitoring/service/application.py   evaluate                 *)
(*   position_monitoring/service/processor.py     process                  *)
(*   position_monitoring/domain/transitions.py    decide_transition        *)
(*   position_monitoring/persistence/repositories.py   get, put            *)
(*   position_monitoring/service/runtime.py       run, _create_notification*)
(* together with what changes under its feet: the trader moves the level   *)
(* or binds it to the price of the other instrument, the position is       *)
(* closed or the trade is cancelled, prices arrive late or without a       *)
(* source time, the process dies, and a second cycle (the command          *)
(* monitor-positions-once) runs against the same database.                 *)
(*                                                                         *)
(* get() and put() read the rule's row without a lock, in different        *)
(* statements; the transaction's writes reach the database at its commit.  *)
(* These are the steps ReadState, Decide and Commit. An alert that is no   *)
(* longer open is forgotten, so that a few alert ids suffice.              *)
(*                                                                         *)
(* Definitions that nothing uses, such as ThresholdOnly before             *)
(* Superseded, are plausible bugs: putting one in the place of the         *)
(* definition that follows it makes a property of this module fail.        *)
(***************************************************************************)
EXTENDS Naturals, FiniteSets, Sequences

CONSTANTS
    Cycles,       \* processes that run monitoring cycles
    Kind,         \* "STOP_REACHED" or "TARGET_REACHED"
    Quotes,       \* what the market may show: a price of each instrument
    Rules,        \* thresholds the trader may choose, each with its price binding
    Alerts,       \* alert ids, recycled
    MaxQuotes,    \* bound on the number of market quotes
    MaxEdits,     \* bound on the number of changes of rule or position
    MaxFailures   \* bound on crashes and failed notification inserts

\* PriceBinding: the instrument whose price decides. The trade fixes the two
\* instruments; a rule may be recorded without a binding.
Bindings  == {"UNDERLYING", "WARRANT"}
NoBinding == "NONE"

ASSUME MonitoringAssumption ==
    /\ Kind \in {"STOP_REACHED", "TARGET_REACHED"}
    /\ Quotes \subseteq [Bindings -> Nat \ {0}]
    /\ Rules \subseteq [threshold : Nat \ {0}, binding : Bindings \cup {NoBinding}]
    /\ 0 \notin Alerts
    /\ MaxQuotes \in Nat \ {0}
    /\ MaxEdits \in Nat
    /\ MaxFailures \in Nat

VARIABLES
    \* world
    rule,       \* the rule in force: management event or plan
    quotes,     \* prices of both instruments in source-time order; times are positions
    position,   \* what the executions of the trade amount to
    cancelled,  \* trades.cancelled_at is set
    \* database
    row,        \* the rule's row of monitoring_rule_states, or NoRow
    alerts,     \* alert id |-> its rule while it is open, NoRule otherwise
    notified,   \* alerts that have a notification
    \* cycles
    pc,
    job,        \* what the cycle has read and decided so far
    \* bounds
    edits, failures

world    == <<rule, quotes, position, cancelled>>
database == <<row, alerts, notified>>
bounds   == <<edits, failures>>
vars     == <<world, database, pc, job, bounds>>

Basis == {"SOURCE_TIMESTAMP", "RECEIPT_TIMESTAMP"}
Times == 0..MaxQuotes

NoRule == [threshold |-> 0, binding |-> NoBinding]

Row   == [triggered : BOOLEAN, seen : Times, basis : Basis \cup {"NONE"}, threshold : Nat,
          binding : Bindings \cup {NoBinding}, active : Alerts \cup {0}]
NoRow == [triggered |-> FALSE, seen |-> 0, basis |-> "NONE", threshold |-> 0,
          binding |-> NoBinding, active |-> 0]

\* The rule a row is about.
RuleOf(state) == [threshold |-> state.threshold, binding |-> state.binding]

Observation   == [at : Times, basis : Basis \cup {"NONE"}, value : Nat]
NoObservation == [at |-> 0, basis |-> "NONE", value |-> 0]

Job   == [rule : Rules \cup {NoRule}, obs : Observation, state : Row, stored : Row,
          put : Row, create : Alerts \cup {0}, resolve : Alerts \cup {0}]
NoJob == [rule |-> NoRule, obs |-> NoObservation, state |-> NoRow, stored |-> NoRow,
          put |-> NoRow, create |-> 0, resolve |-> 0]

IsOpen(a) == alerts[a] # NoRule

TypeOK ==
    /\ rule \in Rules
    /\ quotes \in Seq(Quotes)
    /\ Len(quotes) \in 1..MaxQuotes
    /\ position \in {"BOUGHT", "CLOSED", "REOPENED"}
    /\ cancelled \in BOOLEAN
    /\ row \in Row
    /\ alerts \in [Alerts -> Rules \cup {NoRule}]
    /\ notified \subseteq Alerts
    /\ pc \in [Cycles -> {"idle", "listed", "priced", "read", "decided", "created"}]
    /\ job \in [Cycles -> Job]
    /\ edits \in 0..MaxEdits
    /\ failures \in 0..MaxFailures

Init ==
    /\ rule \in Rules
    /\ quotes \in {<<q>> : q \in Quotes}
    /\ position = "BOUGHT"
    /\ cancelled = FALSE
    /\ row = NoRow
    /\ alerts = [a \in Alerts |-> NoRule]
    /\ notified = {}
    /\ pc = [c \in Cycles |-> "idle"]
    /\ job = [c \in Cycles |-> NoJob]
    /\ edits = 0
    /\ failures = 0

----------------------------------------------------------------------------
(* The world around the cycle.                                             *)

NewQuote(q) ==
    /\ Len(quotes) < MaxQuotes
    /\ quotes' = Append(quotes, q)
    /\ UNCHANGED <<rule, position, cancelled, database, pc, job, bounds>>

\* A trade-management event moves the stop or the target, and says whose price
\* it is about, if anything.
MoveLevel(r) ==
    /\ edits < MaxEdits
    /\ ~cancelled
    /\ r # rule
    /\ rule' = r
    /\ edits' = edits + 1
    /\ UNCHANGED <<quotes, position, cancelled, database, pc, job, failures>>

\* A sale of everything closes the position; correcting that sale opens it
\* again. Neither looks at alerts.
ClosePosition ==
    /\ edits < MaxEdits
    /\ ~cancelled
    /\ position # "CLOSED"
    /\ position' = "CLOSED"
    /\ edits' = edits + 1
    /\ UNCHANGED <<rule, quotes, cancelled, database, pc, job, failures>>

ReopenPosition ==
    /\ edits < MaxEdits
    /\ position = "CLOSED"
    /\ position' = "REOPENED"
    /\ edits' = edits + 1
    /\ UNCHANGED <<rule, quotes, cancelled, database, pc, job, failures>>

\* cancel() resolves the open alerts of the trade in its transaction; it is
\* for purchases only.
CancelTrade ==
    /\ ~cancelled
    /\ position = "BOUGHT"
    /\ cancelled' = TRUE
    /\ alerts' = [a \in Alerts |-> NoRule]
    /\ UNCHANGED <<rule, quotes, position, row, notified, pc, job, bounds>>

----------------------------------------------------------------------------
(* One evaluation.                                                         *)

\* list_resolutions: the rule as it is now, of an open position whose trade
\* is not cancelled.
List(c) ==
    /\ pc[c] = "idle"
    /\ ~cancelled
    /\ position # "CLOSED"
    /\ pc' = [pc EXCEPT ![c] = "listed"]
    /\ job' = [job EXCEPT ![c] = [NoJob EXCEPT !.rule = rule]]
    /\ UNCHANGED <<world, database, bounds>>

\* rule_price: the price of the instrument the rule names, with its source
\* time, possibly an older one that a source has retained; or an indicative
\* price of a warrant without one, which is ordered by its receipt (the
\* present, Len(quotes)).
Observations(binding) ==
    {[at |-> t, basis |-> "SOURCE_TIMESTAMP", value |-> quotes[t][binding]]
        : t \in DOMAIN quotes}
      \cup
    {[at |-> Len(quotes), basis |-> "RECEIPT_TIMESTAMP", value |-> quotes[t]["WARRANT"]]
        : t \in {u \in DOMAIN quotes : binding = "WARRANT"}}

Price(c) ==
    /\ pc[c] = "listed"
    /\ job[c].rule.binding # NoBinding
    /\ \E o \in Observations(job[c].rule.binding) : job' = [job EXCEPT ![c].obs = o]
    /\ pc' = [pc EXCEPT ![c] = "priced"]
    /\ UNCHANGED <<world, database, bounds>>

End(c) ==
    /\ pc' = [pc EXCEPT ![c] = "idle"]
    /\ job' = [job EXCEPT ![c] = NoJob]

\* No binding, no price, a stale one, or an error of the source: the rule is
\* skipped.
NoPrice(c) ==
    /\ pc[c] = "listed"
    /\ End(c)
    /\ UNCHANGED <<world, database, bounds>>

ReadState(c) ==
    /\ pc[c] = "priced"
    /\ job' = [job EXCEPT ![c].state = row]
    /\ pc' = [pc EXCEPT ![c] = "read"]
    /\ UNCHANGED <<world, database, bounds>>

Triggered(threshold, value) ==
    IF Kind = "STOP_REACHED" THEN value <= threshold ELSE value >= threshold

\* The row of a former threshold or of the other instrument's price does not
\* count as the current state.
ThresholdOnly(state, r) == state # NoRow /\ state.threshold # r.threshold
Superseded(state, r) == state # NoRow /\ RuleOf(state) # r

Current(state, r) == IF Superseded(state, r) THEN NoRow ELSE state

NeverOutOfOrder(current, obs) == FALSE
OutOfOrder(current, obs) ==
    current # NoRow /\ current.basis = obs.basis /\ obs.at < current.seen

\* OutOfOrderRuleObservation: everything is rolled back.
Refuse(c) ==
    /\ pc[c] = "read"
    /\ OutOfOrder(Current(job[c].state, job[c].rule), job[c].obs)
    /\ End(c)
    /\ UNCHANGED <<world, database, bounds>>

\* decide_transition.
LevelTriggered(current, triggered) == triggered
Enters(current, triggered) == ~current.triggered /\ triggered
Exits(current, triggered)  == current.triggered /\ ~triggered

Kept(current, triggered) == IF Exits(current, triggered) THEN 0 ELSE current.active

ForgetToResolve(state, current, triggered) == 0
ToResolve(state, current, triggered) ==
    IF state # current THEN state.active
    ELSE IF Exits(current, triggered) THEN current.active ELSE 0

\* An id no one refers to.
Fresh(a) ==
    /\ ~IsOpen(a)
    /\ row.active # a
    /\ \A c \in Cycles : a \notin {job[c].create, job[c].resolve, job[c].state.active,
                                   job[c].stored.active, job[c].put.active}

\* The rest of evaluate() up to the commit: what the transaction will write.
\* put() reads the row again to tell which columns change.
Decide(c) ==
    /\ pc[c] = "read"
    /\ LET j       == job[c]
           current == Current(j.state, j.rule)
           now     == Triggered(j.rule.threshold, j.obs.value)
       IN  /\ ~OutOfOrder(current, j.obs)
           /\ \E a \in Alerts \cup {0} :
                /\ IF Enters(current, now) THEN a \in Alerts /\ Fresh(a) ELSE a = 0
                /\ job' = [job EXCEPT ![c] =
                     [j EXCEPT !.create  = a,
                               !.resolve = ToResolve(j.state, current, now),
                               !.stored  = row,
                               !.put = [triggered |-> now, seen |-> j.obs.at,
                                        basis |-> j.obs.basis,
                                        threshold |-> j.rule.threshold,
                                        binding |-> j.rule.binding,
                                        active |-> IF a # 0 THEN a
                                                   ELSE Kept(current, now)]]]
    /\ pc' = [pc EXCEPT ![c] = "decided"]
    /\ UNCHANGED <<world, database, bounds>>

\* The insert trigger refuses alerts of a cancelled trade; (position, rule)
\* is unique. Either error rolls the transaction back.
NeverRejected(c) == FALSE
Rejected(c) ==
    \/ cancelled /\ job[c].create # 0
    \/ job[c].stored = NoRow /\ row # NoRow

\* An UPDATE names the columns that differ from what put() has read.
Merge(stored, put) ==
    [f \in DOMAIN put |-> IF put[f] # stored[f] THEN put[f] ELSE row[f]]

Commit(c) ==
    /\ pc[c] = "decided"
    /\ ~Rejected(c)
    /\ row' = Merge(job[c].stored, job[c].put)
    /\ alerts' = [a \in Alerts |-> IF a = job[c].create THEN job[c].rule
                                   ELSE IF a = job[c].resolve THEN NoRule ELSE alerts[a]]
    /\ notified' = notified \ {job[c].create}
    /\ IF job[c].create = 0
         THEN End(c)
         ELSE /\ pc' = [pc EXCEPT ![c] = "created"]
              /\ job' = [job EXCEPT ![c] = [NoJob EXCEPT !.create = job[c].create]]
    /\ UNCHANGED <<world, bounds>>

Rollback(c) ==
    /\ pc[c] = "decided"
    /\ Rejected(c)
    /\ End(c)
    /\ UNCHANGED <<world, database, bounds>>

\* _create_notification, after the whole cycle and in its own transaction;
\* its insert trigger looks at the trade, too.
Notify(c) ==
    /\ pc[c] = "created"
    /\ notified' = IF cancelled THEN notified ELSE notified \cup {job[c].create}
    /\ End(c)
    /\ UNCHANGED <<world, row, alerts, bounds>>

\* The process dies or the database fails. An error while notifying is only
\* logged.
Fail(c) ==
    /\ pc[c] # "idle"
    /\ failures < MaxFailures
    /\ failures' = failures + 1
    /\ End(c)
    /\ UNCHANGED <<world, database, edits>>

----------------------------------------------------------------------------

Next ==
    \/ \E q \in Quotes : NewQuote(q)
    \/ \E r \in Rules : MoveLevel(r)
    \/ ClosePosition \/ ReopenPosition \/ CancelTrade
    \/ \E c \in Cycles : \/ List(c) \/ Price(c) \/ NoPrice(c) \/ ReadState(c) \/ Refuse(c)
                         \/ Decide(c) \/ Commit(c) \/ Rollback(c) \/ Notify(c) \/ Fail(c)

\* The runner starts cycle after cycle and a cycle goes on; that a price is
\* to be had again and again is an assumption on the sources.
Fairness ==
    \A c \in Cycles :
        /\ WF_vars(List(c)) /\ SF_vars(Price(c)) /\ WF_vars(NoPrice(c))
        /\ WF_vars(ReadState(c)) /\ WF_vars(Refuse(c))
        /\ WF_vars(Decide(c)) /\ WF_vars(Commit(c)) /\ WF_vars(Rollback(c)) /\ WF_vars(Notify(c))

Spec     == Init /\ [][Next]_vars
FairSpec == Spec /\ Fairness

----------------------------------------------------------------------------
(* What one cycle at a time guarantees, whatever happens between its steps *)
(* and wherever it dies.                                                   *)

\* The rule's row and the open alerts tell the same story: an open alert is
\* the active one of a triggered row and has its threshold and its price
\* binding, and a triggered row of a trade that is not cancelled has an open
\* alert. So there is never more than one open alert for the rule (evaluate
\* and its one transaction).
AlertMirrorsState ==
    /\ \A a \in Alerts : IsOpen(a) =>
         row.triggered /\ row.active = a /\ RuleOf(row) = alerts[a]
    /\ row.triggered /\ ~cancelled => row.active # 0 /\ IsOpen(row.active)

\* An alert is opened on the edge from clear to triggered, or for a new
\* threshold or price binding, never while the old alert still stands for the
\* same rule.
AlertsOnEdgesOnly ==
    [][\A a \in Alerts : ~IsOpen(a) /\ alerts'[a] # NoRule =>
         ~row.triggered \/ RuleOf(row) # alerts'[a]]_vars

\* A late price never rewinds the row: for one threshold, one price binding
\* and one time basis, last_seen_at only grows.
NoRewind ==
    [][RuleOf(row') = RuleOf(row) /\ row'.basis = row.basis => row'.seen >= row.seen]_vars

\* Once a trade is cancelled it has no open alert and gets no notification,
\* although a cycle that listed it earlier may still evaluate the rule.
CancelledTradeIsQuiet ==
    [][cancelled => /\ \A a \in Alerts : alerts'[a] = NoRule
                    /\ notified' \subseteq notified]_vars

\* An alert for a rule that is no longer in force does not stay open, if
\* prices come in and the position stays open: also one that a cycle raised
\* with the rule it had listed before the trader moved it. It does stay if the
\* trader moved the level without confirming whose price it is about: such a
\* rule is not evaluated.
SupersededAlertCloses ==
    \A a \in Alerts :
        IsOpen(a) /\ alerts[a] # rule
          ~> \/ ~IsOpen(a) \/ alerts[a] = rule
             \/ position = "CLOSED" \/ rule.binding = NoBinding

----------------------------------------------------------------------------
(* What the documentation says and the code does not do.                   *)

\* "clear -> triggered : genau ein neuer Alert": a rule has at most one open
\* alert. Two cycles that overlap raise one each.
OneOpenAlert == Cardinality({a \in Alerts : IsOpen(a)}) <= 1

\* "Alert -> genau eine Notification": an alert that stays open gets its
\* notification.
AlertIsNotified ==
    \A a \in Alerts : IsOpen(a) ~> a \in notified \/ ~IsOpen(a)
=============================================================================
