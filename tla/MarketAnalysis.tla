---------------------------- MODULE MarketAnalysis ----------------------------
(***************************************************************************)
(* The runs of one market analysis (analysis/service/application.py).  A   *)
(* request looks at the latest run, commits its own with its snapshot of   *)
(* the prices, computes, and commits the outcome; a retry then supersedes  *)
(* the run it repeats in a commit of its own.  Nothing is locked: a number *)
(* or an event that exists already is refused by its unique key.  Runs of  *)
(* a native reference (reference_application.py) are made by the same      *)
(* executor.                                                               *)
(***************************************************************************)
EXTENDS Naturals

CONSTANTS
    Analysts,       \* requests at a time
    Versions,       \* bound: runs, numbers from 1
    Outcomes,       \* bound: statuses that a computation may give
    LastPrices      \* bound: revisions of the stored prices

AnalysisAssumption ==
    /\ Versions \subseteq Nat \ {0} /\ LastPrices \in Nat \ {0}
    /\ Outcomes \subseteq {"COMPLETED", "COMPLETED_WITH_WARNINGS", "NOT_EVALUABLE", "FAILED"}

VARIABLES
    prices,         \* revision of the stored prices
    run,            \* version -> status, snapshot of prices, version repeated
    lifecycle,      \* append-only events: version, type, version it names
    analyst         \* what each request does, and the run it has made

analysisVars == <<prices, run, lifecycle, analyst>>

NoRun == [status |-> "none", snapshot |-> 0, repeats |-> 0]
Idle == [does |-> "nothing", snapshot |-> 0, repeats |-> 0, made |-> 0]
Evaluated == {"COMPLETED", "COMPLETED_WITH_WARNINGS", "NOT_EVALUABLE"}
Terminal == Evaluated \cup {"FAILED"}
Retryable == {"FAILED", "NOT_EVALUABLE"}
Event(v, type, named) == [version |-> v, type |-> type, names |-> named]

TypeOK ==
    /\ prices \in 1..LastPrices
    /\ run \in [Versions -> [status : Terminal \cup {"none", "RUNNING"}, snapshot : 0..LastPrices,
                             repeats : Versions \cup {0}]]
    /\ lifecycle \subseteq [version : Versions, type : {"STARTED", "FINISHED", "FAILED", "SUPERSEDED"},
                            names : Versions \cup {0}]
    /\ analyst \in [Analysts -> [does : {"nothing", "checked", "computes", "supersedes"},
                                 snapshot : 0..LastPrices, repeats : Versions \cup {0},
                                 made : Versions \cup {0}]]

Init ==
    /\ prices = 1
    /\ run = [v \in Versions |-> NoRun]
    /\ lifecycle = {}
    /\ analyst = [a \in Analysts |-> Idle]

-----------------------------------------------------------------------------

Made == {v \in Versions : run[v].status # "none"}
\* get_latest_run and next_version.
LatestIsRunning == \E v \in Made : run[v].status = "RUNNING" /\ \A w \in Made : w <= v
Next_version(v) == v \notin Made /\ \A w \in Versions : w < v => w \in Made
Superseded(v) == \E e \in lifecycle : e.version = v /\ e.type = "SUPERSEDED"

Sets(a, does, snapshot, repeats, made) ==
    analyst' = [analyst EXCEPT ![a] = [does |-> does, snapshot |-> snapshot, repeats |-> repeats,
                                       made |-> made]]
Ends(a) == analyst' = [analyst EXCEPT ![a] = Idle]

\* Prices are imported meanwhile.
ImportPrices ==
    /\ prices < LastPrices
    /\ prices' = prices + 1
    /\ UNCHANGED <<run, lifecycle, analyst>>

\* run: the prices are read, and the latest run is not under way.
Run(a) ==
    /\ analyst[a] = Idle
    /\ ~LatestIsRunning
    /\ Sets(a, "checked", prices, 0, 0)
    /\ UNCHANGED <<prices, run, lifecycle>>

\* The input of a retry is what its source has stored.
Snapshot(v) == run[v].snapshot

Retry(a, v) ==
    /\ analyst[a] = Idle
    /\ run[v].status \in Retryable
    /\ ~Superseded(v)
    /\ ~LatestIsRunning
    /\ Sets(a, "checked", Snapshot(v), v, 0)
    /\ UNCHANGED <<prices, run, lifecycle>>

\* _execute_snapshot: the run and its snapshot are committed before it computes.
Start(a, v) ==
    /\ analyst[a].does = "checked"
    /\ Next_version(v)
    /\ run' = [run EXCEPT ![v] = [status |-> "RUNNING", snapshot |-> analyst[a].snapshot,
                                   repeats |-> analyst[a].repeats]]
    /\ lifecycle' = lifecycle \cup {Event(v, "STARTED", analyst[a].repeats)}
    /\ analyst' = [analyst EXCEPT ![a].does = "computes", ![a].made = v]
    /\ UNCHANGED prices

Finish(a, status) ==
    LET v == analyst[a].made IN
    /\ analyst[a].does = "computes"
    /\ run' = [run EXCEPT ![v].status = status]
    /\ IF status = "FAILED"
       THEN lifecycle' = lifecycle \cup {Event(v, "FAILED", analyst[a].repeats)} /\ Ends(a)
       ELSE /\ lifecycle' = lifecycle \cup {Event(v, "FINISHED", analyst[a].repeats)}
            /\ IF analyst[a].repeats = 0 THEN Ends(a)
               ELSE analyst' = [analyst EXCEPT ![a].does = "supersedes"]
    /\ UNCHANGED prices

\* _append_superseded_event: once per run.
Supersedes(v, w) ==
    /\ ~Superseded(v)
    /\ lifecycle' = lifecycle \cup {Event(v, "SUPERSEDED", w)}

SupersedeSource(a) ==
    /\ analyst[a].does = "supersedes"
    /\ Supersedes(analyst[a].repeats, analyst[a].made)
    /\ Ends(a)
    /\ UNCHANGED <<prices, run>>

\* supersede: by a newer run that was evaluated.
AnyTerminal(w) == run[w].status \in Terminal
Replaces(w) == run[w].status \in Evaluated

Supersede(v, w) ==
    /\ w > v
    /\ run[v].status \in Terminal
    /\ Replaces(w)
    /\ Supersedes(v, w)
    /\ UNCHANGED <<prices, run, analyst>>

\* A request is refused by a unique key, or dies: a run it has committed stays
\* as it is.
GiveUp(a) ==
    /\ analyst[a] # Idle
    /\ Ends(a)
    /\ UNCHANGED <<prices, run, lifecycle>>

Next ==
    \/ ImportPrices
    \/ \E a \in Analysts :
        \/ Run(a) \/ SupersedeSource(a) \/ GiveUp(a)
        \/ \E v \in Versions : Retry(a, v) \/ Start(a, v)
        \/ \E status \in Outcomes : Finish(a, status)
    \/ \E v, w \in Versions : Supersede(v, w)

Spec == Init /\ [][Next]_analysisVars

-----------------------------------------------------------------------------

\* The events of a run tell its row, whatever requests overlap or die: it has
\* started once, its outcome is told by one event, what it repeats is told by
\* both, and it is superseded at most once, by a newer run that was evaluated;
\* a repeated run has failed or was not evaluable, and its snapshot was reused.
EventsTellRuns ==
    LET told(v, type) == {e.names : e \in {f \in lifecycle : f.version = v /\ f.type = type}} IN
    \A v \in Versions :
        LET r == run[v]
            outcome == IF r.status = "FAILED" THEN "FAILED" ELSE "FINISHED" IN
        /\ told(v, "STARTED") = IF r.status = "none" THEN {} ELSE {r.repeats}
        /\ \A type \in {"FINISHED", "FAILED"} :
            told(v, type) = IF r.status \in Terminal /\ type = outcome THEN {r.repeats} ELSE {}
        /\ \A w \in told(v, "SUPERSEDED") :
            /\ told(v, "SUPERSEDED") = {w} /\ w > v
            /\ r.status \in Terminal /\ run[w].status \in Evaluated
        /\ r.repeats # 0 =>
            /\ r.repeats < v /\ run[r.repeats].status \in Retryable
            /\ run[r.repeats].snapshot = r.snapshot
=============================================================================
