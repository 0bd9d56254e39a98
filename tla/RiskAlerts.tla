------------------------------ MODULE RiskAlerts ------------------------------
(***************************************************************************)
(* The risk warnings of one open position: the configuration and its       *)
(* revisions, the snapshots of what was evaluated, the state row and the   *)
(* alerts of each rule (position_monitoring/service/risk.py,               *)
(* risk_alerts.py, domain/risk_signals.py, alert/service/risk_lifecycle.py)*)
(* and the sweep of the runner that makes notifications of open warnings   *)
(* (risk_runtime.py, runtime.py).                                          *)
(*                                                                         *)
(* evaluate and configure lock the position's row and commit once, so each *)
(* is one action.  The position is a CALL; a PUT is its mirror image.      *)
(* Prices of a session that has passed never come back as the last ones,   *)
(* so only fingerprints of the present session are kept.                   *)
(***************************************************************************)
EXTENDS Naturals, FiniteSets

CONSTANTS
    Bases,                  \* identities of product terms, listing and price source
    LastSession,            \* bound: completed sessions
    LastRevision,           \* bound: confirmed configurations
    MaxRaised,              \* bound: warnings of one rule of one revision and basis
    Trends,                 \* of "ABOVE", "BELOW", "IN_BAND", by distance from the average
    Volatilities,           \* of "HIGH", "MIDDLE", "LOW", between the limits or beyond
    ConfirmationSessions,   \* parameter of the policy
    MaxChanges,             \* bound: changes of basis, quality or holding
    MaxRestarts             \* bound: crashes of the runner

\* A crossing is confirmed by at least one session; prices begin above the average
\* and quiet.
RiskAssumption ==
    /\ Bases # {} /\ LastSession \in Nat \ {0} /\ LastRevision \in Nat /\ MaxRaised \in Nat
    /\ "ABOVE" \in Trends /\ Trends \subseteq {"ABOVE", "BELOW", "IN_BAND"} /\ "LOW" \in Volatilities
    /\ ConfirmationSessions \in Nat \ {0}

VARIABLES
    market,         \* what the evaluation would read now
    held,           \* the position: open, sold or cancelled
    setting,        \* revision of the configuration and whether it is enabled
    snapshots,      \* fingerprints of the present session's snapshots
    latest,         \* the snapshot with the latest time: revision, basis, state; {} before it
    edge,           \* key -> row of monitoring_rule_states
    warning,        \* key and number -> status of the alert
    told,           \* alerts that have a notification
    sweep,          \* the runner's sweep
    restarts,       \* crashes so far
    changes         \* changes so far

riskVars == <<market, held, setting, snapshots, latest, edge, warning, told, sweep, restarts, changes>>

Rules == {"TREND", "VOLATILITY"}
Keys == [revision : 1..LastRevision, basis : Bases, rule : Rules]
Raised == Keys \X (1..MaxRaised)

States == [session : 0..LastSession, trend : {"UNINITIALIZED", "ABOVE", "BELOW", "IN_BAND"},
           pending : {"NONE", "ABOVE", "BELOW"}, count : 0..ConfirmationSessions,
           continuous : BOOLEAN, warnings : SUBSET Rules]
Uninitialized == [session |-> 0, trend |-> "UNINITIALIZED", pending |-> "NONE", count |-> 0,
                  continuous |-> FALSE, warnings |-> {}]
Snapshots == [revision : 0..LastRevision, basis : Bases, state : States]
Markets == [session : 1..LastSession, basis : Bases, available : BOOLEAN,
            trend : Trends, volatility : Volatilities]
Idle == [stage |-> "idle", late |-> FALSE, alerts |-> {}]

TypeOK ==
    /\ market \in Markets
    /\ held \in {"OPEN", "SOLD", "CANCELLED"}
    /\ setting \in [revision : 0..LastRevision, enabled : BOOLEAN]
    /\ \A f \in snapshots : f.revision <= setting.revision /\ f.market \in Markets /\ f.basis \in Bases
    /\ latest \subseteq Snapshots /\ Cardinality(latest) <= 1
    /\ edge \in [Keys -> [triggered : BOOLEAN, active : 0..MaxRaised]]
    /\ warning \in [Raised -> {"none", "OPEN", "RESOLVED", "INVALIDATED"}]
    /\ told \subseteq Raised
    /\ sweep \in [stage : {"idle", "listed", "evaluated"}, late : BOOLEAN, alerts : SUBSET Raised]

\* No configuration is revision 0, which is not enabled.
Init ==
    /\ market = [session |-> 1, basis |-> CHOOSE b \in Bases : TRUE, available |-> TRUE,
                 trend |-> "ABOVE", volatility |-> "LOW"]
    /\ held = "OPEN"
    /\ setting = [revision |-> 0, enabled |-> FALSE]
    /\ snapshots = {}
    /\ latest = {}
    /\ edge = [k \in Keys |-> [triggered |-> FALSE, active |-> 0]]
    /\ warning = [r \in Raised |-> "none"]
    /\ told = {}
    /\ sweep = Idle
    /\ restarts = 0
    /\ changes = 0

-----------------------------------------------------------------------------
(* What is read *)

Change == changes < MaxChanges /\ changes' = changes + 1

\* Prices of later sessions, with or without a gap of weekdays.
NewSession(session, trend, volatility) ==
    /\ session > market.session
    /\ market' = [market EXCEPT !.session = session, !.trend = trend, !.volatility = volatility]
    /\ snapshots' = {}
    /\ UNCHANGED <<held, setting, latest, edge, warning, told, sweep, restarts, changes>>

\* The terms, the listing or the source change, or change back.
Rebase(basis) ==
    /\ Change
    /\ market' = [market EXCEPT !.basis = basis]
    /\ UNCHANGED <<held, setting, snapshots, latest, edge, warning, told, sweep, restarts>>

\* The series becomes too old or incomplete, or is complete again.
Qualify ==
    /\ Change
    /\ market' = [market EXCEPT !.available = ~@]
    /\ UNCHANGED <<held, setting, snapshots, latest, edge, warning, told, sweep, restarts>>

Sell ==
    /\ Change
    /\ held = "OPEN"
    /\ held' = "SOLD"
    /\ UNCHANGED <<market, setting, snapshots, latest, edge, warning, told, sweep, restarts>>

\* The sale is corrected.
Reopen ==
    /\ Change
    /\ held = "SOLD"
    /\ held' = "OPEN"
    /\ UNCHANGED <<market, setting, snapshots, latest, edge, warning, told, sweep, restarts>>

\* cancel(): open alerts of the trade are resolved.
CancelTrade ==
    /\ held = "OPEN"
    /\ held' = "CANCELLED"
    /\ warning' = [w \in Raised |-> IF warning[w] = "OPEN" THEN "RESOLVED" ELSE warning[w]]
    /\ UNCHANGED <<market, setting, snapshots, latest, edge, told, sweep, restarts, changes>>

-----------------------------------------------------------------------------
(* Evaluation *)

\* The last snapshot of the present revision.
Last == {s \in latest : s.revision = setting.revision}

\* While nothing can be evaluated the basis of the last snapshot is kept.
ViewBasis == IF market.available \/ Last = {} THEN market.basis
             ELSE (CHOOSE s \in Last : TRUE).basis

\* A new basis is a new baseline.
Previous ==
    LET same == {s \in Last : s.basis = ViewBasis}
    IN  IF same = {} THEN Uninitialized ELSE (CHOOSE s \in same : TRUE).state

Fingerprint == [market |-> market, basis |-> ViewBasis, revision |-> setting.revision]
KeyOf(rule) == [revision |-> setting.revision, basis |-> ViewBasis, rule |-> rule]

Volatile(old) ==
    \/ market.volatility = "HIGH"
    \/ "VOLATILITY" \in old.warnings /\ market.volatility # "LOW"

\* The trend is left only after consecutive sessions on the other side.
Crossing(old) ==
    LET consecutive == old.continuous /\ market.session = old.session + 1 IN
    IF market.trend \in {old.trend, "IN_BAND"} THEN 0
    ELSE IF consecutive /\ old.pending = market.trend THEN old.count + 1 ELSE 1

\* assess_risk: the state, and the rules it decides about.
Assessed(old) ==
    LET count == Crossing(old)
        crossed == count >= ConfirmationSessions
        broken == IF crossed THEN market.trend = "BELOW" ELSE "TREND" \in old.warnings
        volatility == IF Volatile(old) THEN {"VOLATILITY"} ELSE {}
    IN
    IF ~market.available THEN
        [state |-> [old EXCEPT !.continuous = FALSE, !.pending = "NONE", !.count = 0], judged |-> {}]
    ELSE IF market.session <= old.session THEN [state |-> old, judged |-> {}]
    ELSE IF old.trend = "UNINITIALIZED" THEN
        [state |-> [Uninitialized EXCEPT !.session = market.session, !.trend = market.trend,
                                         !.continuous = TRUE, !.warnings = volatility],
         judged |-> {}]
    ELSE
        [state |-> [session |-> market.session, continuous |-> TRUE,
                    trend |-> IF crossed THEN market.trend ELSE old.trend,
                    pending |-> IF count = 0 \/ crossed THEN "NONE" ELSE market.trend,
                    count |-> IF crossed THEN 0 ELSE count,
                    warnings |-> volatility \cup (IF broken THEN {"TREND"} ELSE {})],
         judged |-> Rules]

Number(k) == 1 + Cardinality({n \in 1..MaxRaised : warning[<<k, n>>] # "none"})

\* decide_transition on the row of the rule's key.
Entered(assessed) ==
    {KeyOf(r) : r \in {r \in assessed.judged \cap assessed.state.warnings : ~edge[KeyOf(r)].triggered}}
Exited(assessed) ==
    {KeyOf(r) : r \in {r \in assessed.judged \ assessed.state.warnings : edge[KeyOf(r)].triggered}}

OtherRevision(k) == k.revision # setting.revision
\* Warnings of another revision or basis are invalidated.
Superseded(k) == \A r \in Rules : k # KeyOf(r)

\* RiskAlertService.process: warnings are superseded, raised and resolved.
Process(assessed) ==
    LET entered == Entered(assessed)
        exited == Exited(assessed) IN
    /\ \A k \in entered : Number(k) <= MaxRaised
    /\ edge' = [k \in Keys |->
            IF k \in entered THEN [triggered |-> TRUE, active |-> Number(k)]
            ELSE IF k \in exited THEN [triggered |-> FALSE, active |-> 0]
            ELSE edge[k]]
    /\ warning' = [w \in Raised |->
            IF w[1] \in entered /\ w[2] = Number(w[1]) THEN "OPEN"
            ELSE IF w[1] \in exited /\ w[2] = edge[w[1]].active /\ warning[w] # "INVALIDATED" THEN "RESOLVED"
            ELSE IF market.available /\ warning[w] = "OPEN" /\ Superseded(w[1]) THEN "INVALIDATED"
            ELSE warning[w]]

RaisedNow == {w \in Raised : warning[w] = "none" /\ warning'[w] = "OPEN"}
\* The open warnings of the view, for the creation of notifications.
Replayed ==
    {w \in Raised : /\ setting.enabled
                    /\ \E r \in Rules : w[1] = KeyOf(r)
                    /\ edge'[w[1]].active = w[2] /\ warning'[w] = "OPEN"}

\* evaluate: inputs that have been evaluated before only replay.  A snapshot
\* that is older than another one does not become the latest.
Evaluate(older) ==
    LET assessed == Assessed(Previous) IN
    /\ held = "OPEN"
    /\ snapshots' = snapshots \cup {Fingerprint}
    /\ IF Fingerprint \in snapshots THEN UNCHANGED <<latest, edge, warning>>
       ELSE /\ latest' = IF older /\ Last # {} THEN latest
                         ELSE {[revision |-> setting.revision, basis |-> ViewBasis,
                                state |-> assessed.state]}
            /\ IF setting.enabled THEN Process(assessed) ELSE UNCHANGED <<edge, warning>>

\* POST evaluations: the answer leaves the warnings out.
EvaluateByHand ==
    /\ Evaluate(FALSE)
    /\ sweep' = [sweep EXCEPT !.late = @ \/ (sweep.stage = "listed" /\ Fingerprint \notin snapshots)]
    /\ UNCHANGED <<market, held, setting, told, restarts, changes>>

\* PUT configuration, with the revision the client has seen.
Configure(seen, enabled) ==
    /\ held = "OPEN"
    /\ seen = setting.revision
    /\ seen < LastRevision
    /\ setting' = [revision |-> seen + 1, enabled |-> enabled]
    /\ warning' = [w \in Raised |-> IF warning[w] = "OPEN" THEN "INVALIDATED" ELSE warning[w]]
    /\ snapshots' = {}
    /\ UNCHANGED <<market, held, latest, edge, told, sweep, restarts, changes>>

-----------------------------------------------------------------------------
(* The sweep of the runner *)

\* The time of all evaluations of a sweep is taken here.
List ==
    /\ sweep.stage = "idle"
    /\ held = "OPEN"
    /\ sweep' = [Idle EXCEPT !.stage = "listed"]
    /\ UNCHANGED <<market, held, setting, snapshots, latest, edge, warning, told, restarts, changes>>

EvaluateInSweep ==
    /\ sweep.stage = "listed"
    /\ Evaluate(sweep.late)
    /\ sweep' = [stage |-> "evaluated", late |-> FALSE, alerts |-> Replayed]
    /\ UNCHANGED <<market, held, setting, told, restarts, changes>>

\* The position is no longer open, or an exception that is logged.
NothingFound ==
    /\ sweep.stage = "listed"
    /\ held # "OPEN"
    /\ sweep' = Idle
    /\ UNCHANGED <<market, held, setting, snapshots, latest, edge, warning, told, restarts, changes>>

\* One transaction per warning; the insert is refused if the trade is cancelled.
Notify(w) ==
    /\ sweep.stage = "evaluated"
    /\ w \in sweep.alerts
    /\ told' = IF held = "CANCELLED" THEN told ELSE told \cup {w}
    /\ sweep' = [sweep EXCEPT !.alerts = @ \ {w}]
    /\ UNCHANGED <<market, held, setting, snapshots, latest, edge, warning, restarts, changes>>

EndOfSweep ==
    /\ sweep.stage = "evaluated"
    /\ sweep.alerts = {}
    /\ sweep' = Idle
    /\ UNCHANGED <<market, held, setting, snapshots, latest, edge, warning, told, restarts, changes>>

Crash ==
    /\ sweep.stage # "idle"
    /\ restarts < MaxRestarts
    /\ restarts' = restarts + 1
    /\ sweep' = Idle
    /\ UNCHANGED <<market, held, setting, snapshots, latest, edge, warning, told, changes>>

Step == List \/ EvaluateInSweep \/ NothingFound \/ EndOfSweep \/ \E w \in Raised : Notify(w)

Next ==
    \/ \E s \in 1..LastSession, t \in Trends, v \in Volatilities : NewSession(s, t, v)
    \/ \E b \in Bases : Rebase(b)
    \/ Qualify \/ Sell \/ Reopen \/ CancelTrade
    \/ EvaluateByHand
    \/ \E n \in 0..LastRevision, e \in BOOLEAN : Configure(n, e)
    \/ Step
    \/ Crash

Spec == Init /\ [][Next]_riskVars
FairSpec == Spec /\ WF_riskVars(Step)

-----------------------------------------------------------------------------
(* Properties *)

\* An open warning is of the present revision, is the active one of its rule's
\* row, which is triggered, and no rule has another open warning
\* (POSITION_RISK_SIGNALS.md: "old open risk alerts are invalidated").
OpenWarningsAgree ==
    \A w \in Raised : warning[w] = "OPEN" =>
        /\ w[1].revision = setting.revision /\ setting.enabled
        /\ edge[w[1]] = [triggered |-> TRUE, active |-> w[2]]
        /\ \A x \in Raised : warning[x] = "OPEN" /\ x[1].rule = w[1].rule => x = w

\* An open warning gets its notification although the evaluation that raised it
\* was not the runner's, or the runner died in between, unless the warning is
\* closed, the position is sold or another basis is evaluated.
Untold(w) == warning[w] = "OPEN" /\ w \notin told /\ held = "OPEN" /\ w[1].basis = ViewBasis
Resolved(w) == warning[w] # "OPEN" \/ w \in told \/ held # "OPEN" \/ w[1].basis # ViewBasis
WarningIsTold == \A w \in Raised : Untold(w) ~> Resolved(w)
=============================================================================
