------------------------- MODULE RefreshScheduler -------------------------
(***************************************************************************)
(* The refresh of market data in the background.  Every backend process    *)
(* has a runner (refresh_runner.py) that tries to take one session lock of *)
(* the database.  The one that holds it reads the catalog again and again  *)
(* and then gives every idle lane a batch of jobs (refresh.py); the lanes  *)
(* work on while it reads.  A lane works through its batch, one job at a   *)
(* time; the discovery lane ends with a second try of quotes whose route   *)
(* it has just found, while the quote lane may already have its next       *)
(* batch.                                                                  *)
(*                                                                         *)
(* Jobs are taken in any order (the code puts held positions first), their *)
(* intervals elapse at any time, and their provider calls have any result. *)
(***************************************************************************)
EXTENDS Naturals, FiniteSets

CONSTANTS
    Replicas,       \* backend processes
    Items,          \* instruments of the catalog
    Lanes,          \* RefreshLane
    Quotes,         \* the lane WARRANTS
    Discovery,      \* the lane WARRANT_DISCOVERY
    Keys,           \* jobs: pairs of a lane and an instrument
    QuoteOutcomes,  \* results of a quote: the schedule asks for MISSING only
    OtherOutcomes,  \* results of another job: it asks for AVAILABLE only
    NoJob,
    MaxLosses,      \* bound: sessions lost, processes that die or stop
    MaxFaults,      \* bound: catalog scans that fail
    MaxEdits        \* bound: changes of the catalog

ASSUME SchedulerAssumption ==
    /\ {Quotes, Discovery} \subseteq Lanes
    /\ Quotes # Discovery
    /\ Keys \subseteq Lanes \X Items
    /\ NoJob \notin Keys
    /\ QuoteOutcomes \cup OtherOutcomes \subseteq {"AVAILABLE", "MISSING", "ERROR"}
    /\ {MaxLosses, MaxFaults, MaxEdits} \subseteq Nat

VARIABLES
    catalog,        \* the active instruments in the database
    found,          \* replica -> those that the scan under way has read
    runner,         \* replica -> where run_refresh_forever is
    session,        \* replica -> its session's hold of the advisory lock
    jobs,           \* replica -> key -> status of the job, "none" without entry
    asleep,         \* replica -> keys whose _due lies in the future
    current,        \* replica -> lane -> _current_jobs
    task,           \* replica -> lane -> its task
    newer,          \* replica -> item -> the quote runs that began before the
                    \* last discovery ended: the last one, the one under way
    losses, faults, edits

processState == <<jobs, asleep, current, task, newer>>
counters == <<losses, faults, edits>>
lists == <<catalog, found>>
vars == <<lists, runner, session, processState, counters>>

LaneOf(key) == key[1]       \* _job_lane
ItemOf(key) == key[2]

Statuses == {"none", "PENDING", "AVAILABLE", "MISSING", "ERROR"}
Phases == {"idle", "batch", "join", "woken", "retry"}
\* todo: what is left of the batch or of the second try; plan: the whole batch,
\* which only the discovery lane asks for again; at: the job under way.
Tasks == [phase: Phases, plan: SUBSET Keys, todo: SUBSET Keys, at: Keys \cup {NoJob}]
Idle == [phase |-> "idle", plan |-> {}, todo |-> {}, at |-> NoJob]
Runners == {"absent", "waiting", "probing", "scanning", "dispatching", "halting", "stopping"}

TypeOK ==
    /\ catalog \subseteq Items
    /\ found \in [Replicas -> SUBSET Items]
    /\ runner \in [Replicas -> Runners]
    /\ session \in [Replicas -> {"none", "held", "lost"}]
    /\ jobs \in [Replicas -> [Keys -> Statuses]]
    /\ asleep \in [Replicas -> SUBSET Keys]
    /\ current \in [Replicas -> [Lanes -> Keys \cup {NoJob}]]
    /\ task \in [Replicas -> [Lanes -> Tasks]]
    /\ newer \in [Replicas -> [Items -> SUBSET {"last", "current"}]]
    /\ losses \in 0..MaxLosses
    /\ faults \in 0..MaxFaults
    /\ edits \in 0..MaxEdits

Busy(r) == \E l \in Lanes : task[r][l].phase # "idle"

\* Any catalog, and any number of deployed replicas; part of the bounds may be
\* used up from the start.
Init ==
    /\ catalog \in SUBSET Items
    /\ found = [r \in Replicas |-> {}]
    /\ runner \in [Replicas -> {"waiting", "absent"}]
    /\ session = [r \in Replicas |-> "none"]
    /\ jobs = [r \in Replicas |-> [k \in Keys |-> "none"]]
    /\ asleep = [r \in Replicas |-> {}]
    /\ current = [r \in Replicas |-> [l \in Lanes |-> NoJob]]
    /\ task = [r \in Replicas |-> [l \in Lanes |-> Idle]]
    /\ newer = [r \in Replicas |-> [i \in Items |-> {}]]
    /\ losses \in 0..MaxLosses
    /\ faults \in 0..MaxFaults
    /\ edits \in 0..MaxEdits

-----------------------------------------------------------------------------
(* The runner *)

\* pg_try_advisory_lock: a replica that does not get it sleeps and tries again.
Acquire(r) ==
    /\ runner[r] = "waiting"
    /\ session[r] = "none"
    /\ \A s \in Replicas : session[s] # "held"
    /\ session' = [session EXCEPT ![r] = "held"]
    /\ runner' = [runner EXCEPT ![r] = "probing"]
    /\ UNCHANGED <<lists, processState, counters>>

\* SELECT 1 before every scan: it fails in a lost session.
NotNoticed(r) == TRUE
Alive(r) == session[r] = "held"
Probe(r) ==
    /\ runner[r] = "probing"
    /\ runner' = [runner EXCEPT ![r] = IF Alive(r) THEN "scanning" ELSE "stopping"]
    /\ UNCHANGED <<lists, session, processState, counters>>

\* run_once, first half: what it reads may have changed when it goes on.
ReadCatalog(r) ==
    /\ runner[r] = "scanning"
    /\ found' = [found EXCEPT ![r] = catalog]
    /\ runner' = [runner EXCEPT ![r] = "dispatching"]
    /\ UNCHANGED <<catalog, session, processState, counters>>

\* What a scan has not found in the catalog loses its job and its due time.
Known(r, key) == ItemOf(key) \in found[r]
\* The second half: the jobs of what was found, and a batch for each lane without one.
Dispatch(r) ==
    LET batch(l) == {k \in Keys : LaneOf(k) = l /\ Known(r, k)} IN
    /\ runner[r] = "dispatching"
    /\ jobs' = [jobs EXCEPT ![r] = [k \in Keys |->
            CASE ~Known(r, k) -> "none"
              [] Known(r, k) /\ @[k] = "none" -> "PENDING"
              [] OTHER -> @[k]]]
    /\ asleep' = [asleep EXCEPT ![r] = {k \in @ : Known(r, k)}]
    /\ task' = [task EXCEPT ![r] = [l \in Lanes |->
            IF @[l].phase = "idle" /\ batch(l) # {}
            THEN [phase |-> "batch", todo |-> batch(l), at |-> NoJob,
                  plan |-> IF l = Discovery THEN batch(l) ELSE {}]
            ELSE @[l]]]
    /\ runner' = [runner EXCEPT ![r] = "probing"]
    /\ found' = [found EXCEPT ![r] = {}]
    /\ UNCHANGED <<catalog, session, current, newer, counters>>

\* The catalog, or its issuer routes, cannot be read: run_once stops the lanes and returns.
ScanFails(r) ==
    /\ runner[r] \in {"scanning", "dispatching"}
    /\ faults < MaxFaults
    /\ faults' = faults + 1
    /\ runner' = [runner EXCEPT ![r] = "halting"]
    /\ found' = [found EXCEPT ![r] = {}]
    /\ UNCHANGED <<catalog, session, processState, losses, edits>>

\* The application ends (Crash is its next start), or the runner meets another
\* error than a lost session: the lanes are stopped before the lock is released.
Interrupt(r) ==
    /\ runner[r] \in {"probing", "scanning", "dispatching"}
    /\ losses < MaxLosses
    /\ losses' = losses + 1
    /\ runner' = [runner EXCEPT ![r] = "stopping"]
    /\ found' = [found EXCEPT ![r] = {}]
    /\ UNCHANGED <<catalog, session, processState, faults, edits>>

Stopping(r) == runner[r] \in {"halting", "stopping"}
\* stop(): a task is cancelled wherever it is; _job's "finally" frees its lane.
Cancel(r, l) ==
    LET t == task[r][l] IN
    /\ Stopping(r)
    /\ t.phase # "idle"
    /\ task' = [task EXCEPT ![r][l] = Idle]
    /\ IF t.at = NoJob THEN UNCHANGED current
       ELSE current' = [current EXCEPT ![r][LaneOf(t.at)] = NoJob]
    /\ UNCHANGED <<lists, runner, session, jobs, asleep, newer, counters>>

JoinForgotten(r) == TRUE
AllJoined(r) == ~Busy(r)
\* All tasks have ended: after a failed scan the leader goes on, else the lock
\* is released (in a lost session there is none left to release).
Joined(r) ==
    /\ Stopping(r)
    /\ AllJoined(r)
    /\ IF runner[r] = "halting"
       THEN /\ runner' = [runner EXCEPT ![r] = "probing"]
            /\ UNCHANGED session
       ELSE /\ runner' = [runner EXCEPT ![r] = "waiting"]
            /\ session' = [session EXCEPT ![r] = "none"]
    /\ UNCHANGED <<lists, processState, counters>>

-----------------------------------------------------------------------------
(* A lane's task *)

\* The task of lane l begins the job, unless the job's lane works on another
\* one or the job is not due.  This is the test and the first half of _job.
TakenAnyway(r, key) == TRUE
Free(r, key) == current[r][LaneOf(key)] = NoJob
Begin(r, l, key, t) ==
    /\ current' = [current EXCEPT ![r][LaneOf(key)] = key]
    /\ task' = [task EXCEPT ![r][l] = [t EXCEPT !.at = key]]
    /\ newer' = IF LaneOf(key) = Quotes
                THEN [newer EXCEPT ![r][ItemOf(key)] = @ \ {"current"}]
                ELSE newer
Skip(r, l, t) ==
    /\ task' = [task EXCEPT ![r][l] = t]
    /\ UNCHANGED <<current, newer>>

\* One job of the batch, if a later scan has not removed it.
NextJob(r, l, key) ==
    LET t == [task[r][l] EXCEPT !.todo = @ \ {key}] IN
    /\ task[r][l].phase = "batch"
    /\ task[r][l].at = NoJob
    /\ key \in task[r][l].todo
    /\ IF jobs[r][key] # "none" /\ Free(r, key) /\ key \notin asleep[r]
       THEN Begin(r, l, key, t)
       ELSE Skip(r, l, t)
    /\ UNCHANGED <<lists, runner, session, jobs, asleep, counters>>

\* The second half of _job: nothing is written for a job that was removed.
\* A discovery that ends is newer than the quotes that began before.
NewerAfter(r, key) ==
    LET seen == newer[r][ItemOf(key)] IN
    CASE LaneOf(key) = Discovery ->
            {"last"} \cup (IF current[r][Quotes] = <<Quotes, ItemOf(key)>> THEN {"current"} ELSE {})
      [] LaneOf(key) = Quotes -> IF "current" \in seen THEN {"last"} ELSE {}
      [] OTHER -> seen
WrittenAnyway(r, key) == FALSE
Removed(r, key) == jobs[r][key] = "none"
FinishJob(r, l, outcome) ==
    LET key == task[r][l].at IN
    /\ key # NoJob
    /\ task' = [task EXCEPT ![r][l].at = NoJob]
    /\ current' = [current EXCEPT ![r][LaneOf(key)] = NoJob]
    /\ IF Removed(r, key) THEN UNCHANGED <<jobs, asleep, newer>>
       ELSE /\ jobs' = [jobs EXCEPT ![r][key] = outcome]
            /\ asleep' = [asleep EXCEPT ![r] = @ \cup {key}]
            /\ newer' = [newer EXCEPT ![r][ItemOf(key)] = NewerAfter(r, key)]
    /\ UNCHANGED <<lists, runner, session, counters>>

\* The end of a batch.  The discovery lane goes on with the second try, but
\* first waits for the batch that the quote lane has under way: "join" until
\* that task has ended, "woken" until the event loop comes back to this one.
BatchDone(t) == t.phase = "batch" /\ t.todo = {} /\ t.at = NoJob
\* The second try: quotes of the items whose discovery has succeeded.
SecondTry(r) ==
    LET t == task[r][Discovery] IN
    [t EXCEPT !.phase = "retry",
              !.todo = {q \in Keys : /\ LaneOf(q) = Quotes
                                     /\ \E d \in t.plan : ItemOf(d) = ItemOf(q) /\ jobs[r][d] = "AVAILABLE"}]
EndOfBatch(r, l) ==
    /\ BatchDone(task[r][l])
    /\ task' = [task EXCEPT ![r] = [m \in Lanes |->
            CASE m = l /\ l # Discovery -> Idle
              [] m = l /\ l = Discovery ->
                    IF task[r][Quotes].phase = "idle" THEN SecondTry(r)
                    ELSE [task[r][l] EXCEPT !.phase = "join"]
              [] m # l -> IF l = Quotes /\ task[r][m].phase = "join"
                          THEN [task[r][m] EXCEPT !.phase = "woken"]
                          ELSE task[r][m]]]
    /\ UNCHANGED <<lists, runner, session, jobs, asleep, current, newer, counters>>

Woken(r) ==
    /\ task[r][Discovery].phase = "woken"
    /\ task' = [task EXCEPT ![r][Discovery] = SecondTry(r)]
    /\ UNCHANGED <<lists, runner, session, jobs, asleep, current, newer, counters>>

\* _retry_quotes_after_discovery: a quote that found no route and began before
\* the discovery ended is due at once.  _job leaves it to the quote lane if
\* that one is at work again.
NoRouteThen(r, key) == jobs[r][key] = "MISSING" /\ "last" \in newer[r][ItemOf(key)]
LeftAsleep(r, key) == asleep[r]
DueAtOnce(r, key) == asleep[r] \ {key}
TryAgain(r, key) ==
    LET t == [task[r][Discovery] EXCEPT !.todo = @ \ {key}] IN
    /\ task[r][Discovery].phase = "retry"
    /\ task[r][Discovery].at = NoJob
    /\ key \in task[r][Discovery].todo
    /\ asleep' = [asleep EXCEPT ![r] = IF NoRouteThen(r, key) THEN DueAtOnce(r, key) ELSE @]
    /\ IF NoRouteThen(r, key) /\ Free(r, key) /\ key \notin asleep'[r]
       THEN Begin(r, Discovery, key, t)
       ELSE Skip(r, Discovery, t)
    /\ UNCHANGED <<lists, runner, session, jobs, counters>>

EndOfRetry(r) ==
    LET t == task[r][Discovery] IN
    /\ t.phase = "retry" /\ t.todo = {} /\ t.at = NoJob
    /\ task' = [task EXCEPT ![r][Discovery] = Idle]
    /\ UNCHANGED <<lists, runner, session, jobs, asleep, current, newer, counters>>

-----------------------------------------------------------------------------
(* What happens around the processes *)

\* An interval has elapsed.
Elapse(r, key) ==
    /\ key \in asleep[r]
    /\ asleep' = [asleep EXCEPT ![r] = @ \ {key}]
    /\ UNCHANGED <<lists, runner, session, jobs, current, task, newer, counters>>

\* The database ends the session and releases its lock; the process does not
\* know before its next probe.
LoseSession(r) ==
    /\ session[r] = "held"
    /\ losses < MaxLosses
    /\ losses' = losses + 1
    /\ session' = [session EXCEPT ![r] = "lost"]
    /\ UNCHANGED <<lists, runner, processState, faults, edits>>

\* A process dies, its memory and its session with it, and is started again.
Crash(r) ==
    /\ runner[r] # "absent"
    /\ losses < MaxLosses
    /\ losses' = losses + 1
    /\ runner' = [runner EXCEPT ![r] = "waiting"]
    /\ session' = [session EXCEPT ![r] = "none"]
    /\ jobs' = [jobs EXCEPT ![r] = [k \in Keys |-> "none"]]
    /\ asleep' = [asleep EXCEPT ![r] = {}]
    /\ current' = [current EXCEPT ![r] = [l \in Lanes |-> NoJob]]
    /\ task' = [task EXCEPT ![r] = [l \in Lanes |-> Idle]]
    /\ newer' = [newer EXCEPT ![r] = [i \in Items |-> {}]]
    /\ found' = [found EXCEPT ![r] = {}]
    /\ UNCHANGED <<catalog, faults, edits>>

\* An instrument is activated or taken out of the catalog.
Edit(i) ==
    /\ edits < MaxEdits
    /\ edits' = edits + 1
    /\ catalog' = IF i \in catalog THEN catalog \ {i} ELSE catalog \cup {i}
    /\ UNCHANGED <<found, runner, session, processState, losses, faults>>

OutcomesOf(key) == IF LaneOf(key) = Quotes THEN QuoteOutcomes ELSE OtherOutcomes

Work(r, l) ==
    \/ \E key \in Keys : NextJob(r, l, key)
    \/ task[r][l].at # NoJob /\ \E o \in OutcomesOf(task[r][l].at) : FinishJob(r, l, o)
    \/ EndOfBatch(r, l)
Second(r) ==
    \/ Woken(r)
    \/ \E key \in Keys : TryAgain(r, key)
    \/ EndOfRetry(r)

Next ==
    \/ \E r \in Replicas :
        \/ Acquire(r) \/ Probe(r) \/ ReadCatalog(r) \/ Dispatch(r) \/ ScanFails(r)
        \/ Interrupt(r) \/ Joined(r)
        \/ \E l \in Lanes : Cancel(r, l) \/ Work(r, l)
        \/ Second(r)
        \/ \E key \in Keys : Elapse(r, key)
        \/ LoseSession(r) \/ Crash(r)
    \/ \E i \in Items : Edit(i)

Spec == Init /\ [][Next]_vars

\* The runner and the tasks are scheduled by the event loop, and every provider
\* call has a timeout.  Nothing is assumed of intervals, catalog and faults.
Fairness ==
    \A r \in Replicas :
        /\ WF_vars(Probe(r)) /\ WF_vars(ReadCatalog(r)) /\ WF_vars(Dispatch(r)) /\ WF_vars(Joined(r))
        /\ WF_vars(Second(r))
        /\ \A l \in Lanes : WF_vars(Cancel(r, l)) /\ WF_vars(Work(r, l))
FairSpec == Spec /\ Fairness

-----------------------------------------------------------------------------
(* Properties *)

Working(r, l) == {m \in Lanes : task[r][m].at # NoJob /\ LaneOf(task[r][m].at) = l}

\* A lane of a process never has two jobs under way, although the discovery
\* lane's second try takes quotes while the quote lane may have a new batch
\* (the test and set of _current_jobs in _job).
OneJobPerLane ==
    \A r \in Replicas : \A l \in Lanes :
        /\ \A m, n \in Working(r, l) : m = n
        /\ (current[r][l] = NoJob) <=> (Working(r, l) = {})

\* Two replicas refresh at the same time only while one of them has lost its
\* session and does not know it yet (the lock, and stop() before its release).
OverlapOnlyByLoss ==
    \A r, s \in Replicas :
        r # s /\ Busy(r) /\ Busy(s) => "lost" \in {session[r], session[s]}

\* A job whose instrument the last scan has not found is not brought back by
\* the run that was under way (the check of _job before it writes): only a scan
\* that has found the instrument brings it back, as a new job.
RemovedJobStaysRemoved ==
    [][\A r \in Replicas : \A key \in Keys :
        jobs[r][key] = "none" /\ jobs'[r][key] # "none" =>
            ItemOf(key) \in found[r] /\ jobs'[r][key] = "PENDING"]_vars

\* A replica that has lost its lock stops all its work (the probe before every
\* scan, and stop()).
LostLeaderStops ==
    \A r \in Replicas : session[r] = "lost" ~> ~Busy(r) /\ session[r] # "lost"

\* A quote that found no route, and began before the discovery of its
\* instrument succeeded, is tried again without waiting for its interval
\* (_retry_quotes_after_discovery), unless the process stops, the instrument
\* goes out of the catalog or its discovery fails when it runs again.
\* This asks that intervals do not go on elapsing: while they do, the two tasks
\* may again and again find each other's jobs in the lane.
QuoteKeys == {k \in Keys : LaneOf(k) = Quotes}
RouteFound(r, q) ==
    \E d \in Keys : LaneOf(d) = Discovery /\ ItemOf(d) = ItemOf(q) /\ jobs[r][d] = "AVAILABLE"
RouteFoundIsRetried ==
    <>[][\A r \in Replicas : \A key \in Keys : ~Elapse(r, key)]_vars =>
        \A r \in Replicas : \A q \in QuoteKeys :
            RouteFound(r, q) /\ jobs[r][q] = "MISSING" /\ "last" \in newer[r][ItemOf(q)]
            ~> \/ current[r][Quotes] = q
               \/ Stopping(r)
               \/ session[r] # "held"
               \/ ~RouteFound(r, q)
               \/ ItemOf(q) \notin catalog
=============================================================================
