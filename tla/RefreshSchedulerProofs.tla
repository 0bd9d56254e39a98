---------------------- MODULE RefreshSchedulerProofs ----------------------
(***************************************************************************)
(* Proofs about RefreshScheduler: types, one job per lane, and overlapping *)
(* replicas only while one of them has lost its session, for any number of *)
(* replicas, lanes and jobs.                                               *)
(***************************************************************************)
EXTENDS RefreshScheduler, TLAPS

LEMMA PairUpdate ==
    ASSUME NEW R, NEW K, NEW S, NEW f \in [R -> [K -> S]], NEW a \in R, NEW b \in K, NEW v \in S
    PROVE  [f EXCEPT ![a][b] = v] \in [R -> [K -> S]]
OBVIOUS

LEMMA KeyParts ==
    ASSUME NEW key \in Keys
    PROVE  LaneOf(key) \in Lanes /\ ItemOf(key) \in Items
BY SchedulerAssumption DEF LaneOf, ItemOf

LEMMA LanePair == Quotes \in Lanes /\ Discovery \in Lanes /\ Quotes # Discovery
BY SchedulerAssumption

LEMMA IdleIsATask == Idle \in Tasks
BY DEF Idle, Tasks, Phases

LEMMA TaskParts ==
    ASSUME TypeOK, NEW r \in Replicas, NEW l \in Lanes
    PROVE  /\ task[r] \in [Lanes -> Tasks]
           /\ task[r][l] \in Tasks
           /\ task[r][l].todo \subseteq Keys
           /\ task[r][l].plan \subseteq Keys
           /\ task[r][l].at \in Keys \cup {NoJob}
           /\ current[r] \in [Lanes -> Keys \cup {NoJob}]
           /\ jobs[r] \in [Keys -> Statuses]
           /\ newer[r] \in [Items -> SUBSET {"last", "current"}]
           /\ asleep[r] \subseteq Keys
BY DEF TypeOK, Tasks

LEMMA SecondTryIsATask ==
    ASSUME TypeOK, NEW r \in Replicas
    PROVE  /\ SecondTry(r) \in Tasks
           /\ SecondTry(r).at = task[r][Discovery].at
           /\ SecondTry(r).phase = "retry"
<1>1. task[r][Discovery] \in Tasks
  BY TaskParts, LanePair
<1> QED
  BY <1>1 DEF SecondTry, Tasks, Phases

\* A step of a task leaves the types of what the task writes intact.
LEMMA BeginTyped ==
    ASSUME TypeOK, NEW r \in Replicas, NEW l \in Lanes, NEW key \in Keys,
           NEW t \in Tasks, Begin(r, l, key, t)
    PROVE  /\ current' \in [Replicas -> [Lanes -> Keys \cup {NoJob}]]
           /\ task' \in [Replicas -> [Lanes -> Tasks]]
           /\ newer' \in [Replicas -> [Items -> SUBSET {"last", "current"}]]
<1>1. LaneOf(key) \in Lanes /\ ItemOf(key) \in Items
  BY KeyParts
<1>2. [t EXCEPT !.at = key] \in Tasks
  BY DEF Tasks
<1>3. current' \in [Replicas -> [Lanes -> Keys \cup {NoJob}]]
  BY <1>1 DEF TypeOK, Begin
<1>4. task' \in [Replicas -> [Lanes -> Tasks]]
  BY <1>2 DEF TypeOK, Begin
<1>5. newer' \in [Replicas -> [Items -> SUBSET {"last", "current"}]]
  BY <1>1 DEF TypeOK, Begin
<1> QED BY <1>3, <1>4, <1>5

LEMMA SkipTyped ==
    ASSUME TypeOK, NEW r \in Replicas, NEW l \in Lanes, NEW t \in Tasks, Skip(r, l, t)
    PROVE  /\ current' \in [Replicas -> [Lanes -> Keys \cup {NoJob}]]
           /\ task' \in [Replicas -> [Lanes -> Tasks]]
           /\ newer' \in [Replicas -> [Items -> SUBSET {"last", "current"}]]
BY DEF TypeOK, Skip

USE SchedulerAssumption DEF lists

LEMMA TypeInit == Init => TypeOK
BY IdleIsATask DEF Init, TypeOK, Runners, Statuses

LEMMA TypeAcquire ==
    ASSUME TypeOK, NEW r \in Replicas, Acquire(r)
    PROVE  TypeOK'
BY DEF TypeOK, Acquire, processState, counters, Runners

LEMMA TypeProbe ==
    ASSUME TypeOK, NEW r \in Replicas, Probe(r)
    PROVE  TypeOK'
BY DEF TypeOK, Probe, processState, counters, Runners

LEMMA TypeReadCatalog ==
    ASSUME TypeOK, NEW r \in Replicas, ReadCatalog(r)
    PROVE  TypeOK'
BY DEF TypeOK, ReadCatalog, processState, counters, Runners

LEMMA TypeDispatch ==
    ASSUME TypeOK, NEW r \in Replicas, Dispatch(r)
    PROVE  TypeOK'
<1> DEFINE batch(l) == {k \in Keys : LaneOf(k) = l /\ Known(r, k)}
<1>1. jobs' \in [Replicas -> [Keys -> Statuses]]
  BY DEF TypeOK, Dispatch, Statuses
<1>2. asleep' \in [Replicas -> SUBSET Keys]
  BY DEF TypeOK, Dispatch
<1>3. task' \in [Replicas -> [Lanes -> Tasks]]
  <2> DEFINE new(l) == IF task[r][l].phase = "idle" /\ batch(l) # {}
                       THEN [phase |-> "batch", todo |-> batch(l), at |-> NoJob,
                             plan |-> IF l = Discovery THEN batch(l) ELSE {}]
                       ELSE task[r][l]
  <2>1. ASSUME NEW l \in Lanes PROVE new(l) \in Tasks
    <3>1. task[r][l] \in Tasks
      BY TaskParts
    <3>2. batch(l) \in SUBSET Keys
      OBVIOUS
    <3>3. [phase |-> "batch", todo |-> batch(l), at |-> NoJob,
           plan |-> IF l = Discovery THEN batch(l) ELSE {}] \in Tasks
      BY <3>2 DEF Tasks, Phases
    <3> QED BY <3>1, <3>3
  <2>2. task' = [task EXCEPT ![r] = [l \in Lanes |-> new(l)]]
    BY DEF Dispatch, TypeOK
  <2> HIDE DEF new
  <2> QED BY <2>1, <2>2 DEF TypeOK
<1>4. runner' \in [Replicas -> Runners]
  BY DEF TypeOK, Dispatch, Runners
<1>5. found' \in [Replicas -> SUBSET Items]
  BY DEF TypeOK, Dispatch
<1> QED BY <1>1, <1>2, <1>3, <1>4, <1>5 DEF TypeOK, Dispatch, counters

LEMMA TypeScanFails ==
    ASSUME TypeOK, NEW r \in Replicas, ScanFails(r)
    PROVE  TypeOK'
BY DEF TypeOK, ScanFails, processState, Runners

LEMMA TypeInterrupt ==
    ASSUME TypeOK, NEW r \in Replicas, Interrupt(r)
    PROVE  TypeOK'
BY DEF TypeOK, Interrupt, processState, Runners

LEMMA TypeCancel ==
    ASSUME TypeOK, NEW r \in Replicas, NEW l \in Lanes, Cancel(r, l)
    PROVE  TypeOK'
<1>1. task' \in [Replicas -> [Lanes -> Tasks]]
  BY IdleIsATask DEF TypeOK, Cancel
<1>2. current' \in [Replicas -> [Lanes -> Keys \cup {NoJob}]]
  <2>1. CASE task[r][l].at = NoJob
    BY <2>1 DEF TypeOK, Cancel
  <2>2. CASE task[r][l].at # NoJob
    <3>1. LaneOf(task[r][l].at) \in Lanes
      BY <2>2, TaskParts, KeyParts
    <3>2. current' = [current EXCEPT ![r][LaneOf(task[r][l].at)] = NoJob]
      BY <2>2 DEF Cancel
    <3> QED BY <3>1, <3>2 DEF TypeOK
  <2> QED BY <2>1, <2>2
<1> QED BY <1>1, <1>2 DEF TypeOK, Cancel, counters

LEMMA TypeJoined ==
    ASSUME TypeOK, NEW r \in Replicas, Joined(r)
    PROVE  TypeOK'
BY DEF TypeOK, Joined, processState, counters, Runners

LEMMA TypeNextJob ==
    ASSUME TypeOK, NEW r \in Replicas, NEW l \in Lanes, NEW key \in Keys, NextJob(r, l, key)
    PROVE  TypeOK'
<1> DEFINE t == [task[r][l] EXCEPT !.todo = @ \ {key}]
<1>1. t \in Tasks
  <2>1. task[r][l] \in Tasks
    BY TaskParts
  <2> QED BY <2>1 DEF Tasks
<1>2. Begin(r, l, key, t) \/ Skip(r, l, t)
  BY DEF NextJob
<1>3. /\ current' \in [Replicas -> [Lanes -> Keys \cup {NoJob}]]
      /\ task' \in [Replicas -> [Lanes -> Tasks]]
      /\ newer' \in [Replicas -> [Items -> SUBSET {"last", "current"}]]
  <2> HIDE DEF t
  <2>1. CASE Begin(r, l, key, t)
    BY <1>1, <2>1, BeginTyped
  <2>2. CASE Skip(r, l, t)
    BY <1>1, <2>2, SkipTyped
  <2> QED BY <1>2, <2>1, <2>2
<1> QED BY <1>3 DEF TypeOK, NextJob, counters

LEMMA TypeFinishJob ==
    ASSUME TypeOK, NEW r \in Replicas, NEW l \in Lanes,
           NEW outcome \in QuoteOutcomes \cup OtherOutcomes, FinishJob(r, l, outcome)
    PROVE  TypeOK'
<1> DEFINE key == task[r][l].at
<1>1. key \in Keys /\ LaneOf(key) \in Lanes /\ ItemOf(key) \in Items
  BY TaskParts, KeyParts DEF FinishJob
<1>2. task' \in [Replicas -> [Lanes -> Tasks]]
  <2>1. [task[r][l] EXCEPT !.at = NoJob] \in Tasks
    <3>1. task[r][l] \in Tasks
      BY TaskParts
    <3> QED BY <3>1 DEF Tasks
  <2> QED BY <2>1 DEF TypeOK, FinishJob
<1>3. current' \in [Replicas -> [Lanes -> Keys \cup {NoJob}]]
  BY <1>1 DEF TypeOK, FinishJob
<1>4. jobs' \in [Replicas -> [Keys -> Statuses]] /\ asleep' \in [Replicas -> SUBSET Keys]
  <2>1. outcome \in Statuses
    BY DEF Statuses
  <2>2. \/ jobs' = jobs /\ asleep' = asleep
        \/ /\ jobs' = [jobs EXCEPT ![r][key] = outcome]
           /\ asleep' = [asleep EXCEPT ![r] = @ \cup {key}]
    BY DEF FinishJob
  <2>3. jobs \in [Replicas -> [Keys -> Statuses]] /\ asleep \in [Replicas -> SUBSET Keys]
    BY DEF TypeOK
  <2> HIDE DEF key
  <2>4. jobs' \in [Replicas -> [Keys -> Statuses]]
    <3>1. key \in Keys
      BY <1>1
    <3>2. jobs' = jobs \/ jobs' = [jobs EXCEPT ![r][key] = outcome]
      BY <2>2
    <3>3. jobs \in [Replicas -> [Keys -> Statuses]]
      BY <2>3
    <3>4. [jobs EXCEPT ![r][key] = outcome] \in [Replicas -> [Keys -> Statuses]]
      BY <2>1, <3>1, <3>3, PairUpdate
    <3> QED BY <3>2, <3>3, <3>4
  <2>5. asleep' \in [Replicas -> SUBSET Keys]
    BY <1>1, <2>2, <2>3
  <2> QED BY <2>4, <2>5
<1>5. NewerAfter(r, key) \in SUBSET {"last", "current"}
  <2>1. newer[r][ItemOf(key)] \in SUBSET {"last", "current"}
    BY <1>1 DEF TypeOK
  <2> QED BY <2>1 DEF NewerAfter
<1>6. newer' \in [Replicas -> [Items -> SUBSET {"last", "current"}]]
  <2>1. newer' = newer \/ newer' = [newer EXCEPT ![r][ItemOf(key)] = NewerAfter(r, key)]
    BY DEF FinishJob
  <2>2. newer \in [Replicas -> [Items -> SUBSET {"last", "current"}]]
    BY DEF TypeOK
  <2> HIDE DEF key
  <2> QED BY <1>1, <1>5, <2>1, <2>2
<1> QED BY <1>2, <1>3, <1>4, <1>6 DEF TypeOK, FinishJob, counters

LEMMA TypeEndOfBatch ==
    ASSUME TypeOK, NEW r \in Replicas, NEW l \in Lanes, EndOfBatch(r, l)
    PROVE  TypeOK'
<1> DEFINE new(m) ==
        CASE m = l /\ l # Discovery -> Idle
          [] m = l /\ l = Discovery ->
                IF task[r][Quotes].phase = "idle" THEN SecondTry(r)
                ELSE [task[r][l] EXCEPT !.phase = "join"]
          [] m # l -> IF l = Quotes /\ task[r][m].phase = "join"
                      THEN [task[r][m] EXCEPT !.phase = "woken"]
                      ELSE task[r][m]
<1>1. ASSUME NEW m \in Lanes PROVE new(m) \in Tasks
  <2>1. task[r][m] \in Tasks /\ task[r][l] \in Tasks
    BY TaskParts
  <2>2. /\ [task[r][l] EXCEPT !.phase = "join"] \in Tasks
        /\ [task[r][m] EXCEPT !.phase = "woken"] \in Tasks
    BY <2>1 DEF Tasks, Phases
  <2> QED BY <2>1, <2>2, IdleIsATask, SecondTryIsATask
<1>2. task' = [task EXCEPT ![r] = [m \in Lanes |-> new(m)]]
  BY DEF EndOfBatch
<1>3. task' \in [Replicas -> [Lanes -> Tasks]]
  <2> HIDE DEF new
  <2> QED BY <1>1, <1>2 DEF TypeOK
<1> QED BY <1>3 DEF TypeOK, EndOfBatch, counters

LEMMA TypeWoken ==
    ASSUME TypeOK, NEW r \in Replicas, Woken(r)
    PROVE  TypeOK'
BY SecondTryIsATask, LanePair DEF TypeOK, Woken, counters

LEMMA TypeTryAgain ==
    ASSUME TypeOK, NEW r \in Replicas, NEW key \in Keys, TryAgain(r, key)
    PROVE  TypeOK'
<1> DEFINE t == [task[r][Discovery] EXCEPT !.todo = @ \ {key}]
<1>1. t \in Tasks
  BY SMTT(30), TaskParts, LanePair DEF Tasks
<1>2. Begin(r, Discovery, key, t) \/ Skip(r, Discovery, t)
  BY DEF TryAgain
<1>3. /\ current' \in [Replicas -> [Lanes -> Keys \cup {NoJob}]]
      /\ task' \in [Replicas -> [Lanes -> Tasks]]
      /\ newer' \in [Replicas -> [Items -> SUBSET {"last", "current"}]]
  <2> HIDE DEF t
  <2> QED BY <1>1, <1>2, BeginTyped, SkipTyped, LanePair
<1>4. asleep' \in [Replicas -> SUBSET Keys]
  BY DEF TypeOK, TryAgain, DueAtOnce
<1> QED BY <1>3, <1>4 DEF TypeOK, TryAgain, counters

LEMMA TypeEndOfRetry ==
    ASSUME TypeOK, NEW r \in Replicas, EndOfRetry(r)
    PROVE  TypeOK'
BY IdleIsATask, LanePair DEF TypeOK, EndOfRetry, counters

LEMMA TypeAround ==
    ASSUME TypeOK,
           NEW r \in Replicas,
           \/ \E key \in Keys : Elapse(r, key)
           \/ LoseSession(r)
           \/ Crash(r)
           \/ \E i \in Items : Edit(i)
    PROVE  TypeOK'
<1>1. CASE \E key \in Keys : Elapse(r, key)
  BY <1>1 DEF TypeOK, Elapse, counters
<1>2. CASE LoseSession(r)
  BY <1>2 DEF TypeOK, LoseSession, processState
<1>3. CASE Crash(r)
  BY <1>3, IdleIsATask DEF TypeOK, Crash, Runners, Statuses
<1>4. CASE \E i \in Items : Edit(i)
  BY <1>4 DEF TypeOK, Edit, processState
<1> QED BY <1>1, <1>2, <1>3, <1>4

LEMMA WorkCases ==
    ASSUME NEW r \in Replicas, NEW l \in Lanes, Work(r, l)
    PROVE  \/ \E key \in Keys : NextJob(r, l, key)
           \/ \E o \in QuoteOutcomes \cup OtherOutcomes : FinishJob(r, l, o)
           \/ EndOfBatch(r, l)
BY DEF Work, OutcomesOf

LEMMA TypeNext == TypeOK /\ [Next]_vars => TypeOK'
<1> SUFFICES ASSUME TypeOK, [Next]_vars PROVE TypeOK'
  OBVIOUS
<1>1. CASE UNCHANGED vars
  BY <1>1 DEF TypeOK, vars, processState, counters
<1>2. ASSUME NEW r \in Replicas, NEW l \in Lanes, Cancel(r, l) \/ Work(r, l) PROVE TypeOK'
  BY <1>2, WorkCases, TypeCancel, TypeNextJob, TypeFinishJob, TypeEndOfBatch
<1>3. ASSUME NEW r \in Replicas, Second(r) PROVE TypeOK'
  BY <1>3, TypeWoken, TypeTryAgain, TypeEndOfRetry DEF Second
<1>4. ASSUME NEW r \in Replicas,
             \/ Acquire(r) \/ Probe(r) \/ ReadCatalog(r) \/ Dispatch(r) \/ ScanFails(r)
             \/ Interrupt(r) \/ Joined(r)
      PROVE  TypeOK'
  BY <1>4, TypeAcquire, TypeProbe, TypeReadCatalog, TypeDispatch, TypeScanFails, TypeInterrupt,
     TypeJoined
<1>5. ASSUME NEW r \in Replicas,
             (\E key \in Keys : Elapse(r, key)) \/ LoseSession(r) \/ Crash(r)
      PROVE  TypeOK'
  BY <1>5, TypeAround
<1>6. CASE \E i \in Items : Edit(i)
  BY <1>6 DEF TypeOK, Edit, processState
<1> QED BY <1>1, <1>2, <1>3, <1>4, <1>5, <1>6 DEF Next

\* Every reachable state of the scheduler is well typed.
THEOREM TypeCorrect == Spec => []TypeOK
BY TypeInit, TypeNext, PTL DEF Spec

-----------------------------------------------------------------------------
(* One job per lane *)

\* A task that is idle has no job under way.
IdleRests == \A r \in Replicas : \A l \in Lanes :
                task[r][l].phase = "idle" => task[r][l].at = NoJob
LaneInv == OneJobPerLane /\ IdleRests

\* The jobs under way and the free lanes stay as they are.
LEMMA SameJobs ==
    ASSUME OneJobPerLane, current' = current,
           \A r \in Replicas : \A l \in Lanes : task'[r][l].at = task[r][l].at
    PROVE  OneJobPerLane'
BY DEF OneJobPerLane, Working

\* A job begins in a free lane.
LEMMA BeginKeeps ==
    ASSUME TypeOK, LaneInv, NEW r \in Replicas, NEW l \in Lanes, NEW key \in Keys,
           NEW t \in Tasks, t.at = NoJob, task[r][l].at = NoJob, t.phase # "idle",
           Free(r, key), Begin(r, l, key, t)
    PROVE  LaneInv'
<1>1. LaneOf(key) \in Lanes
  BY KeyParts
<1>2. \A s \in Replicas : \A m \in Lanes :
        /\ task'[s][m].at = IF s = r /\ m = l THEN key ELSE task[s][m].at
        /\ task'[s][m].phase = IF s = r /\ m = l THEN t.phase ELSE task[s][m].phase
        /\ current'[s][m] = IF s = r /\ m = LaneOf(key) THEN key ELSE current[s][m]
  BY <1>1 DEF Begin, TypeOK, Tasks
<1>3. key # NoJob
  OBVIOUS
<1>4. IdleRests'
  BY <1>2 DEF LaneInv, IdleRests
<1>5. OneJobPerLane'
  <2> SUFFICES ASSUME NEW s \in Replicas, NEW w \in Lanes
               PROVE  /\ \A m, n \in Working(s, w)' : m = n
                      /\ (current'[s][w] = NoJob) <=> (Working(s, w)' = {})
    BY DEF OneJobPerLane
  <2>1. CASE s = r /\ w = LaneOf(key)
    <3>1. Working(s, w) = {}
      BY <2>1 DEF Free, LaneInv, OneJobPerLane
    <3>2. Working(s, w)' = {l}
      BY <1>2, <1>3, <2>1, <3>1 DEF Working
    <3> QED BY <1>1, <1>2, <1>3, <2>1, <3>2
  <2>2. CASE ~(s = r /\ w = LaneOf(key))
    <3>1. Working(s, w)' = Working(s, w)
      BY <1>2, <2>2 DEF Working
    <3>2. current'[s][w] = current[s][w]
      BY <1>2, <2>2
    <3> QED BY <3>1, <3>2 DEF LaneInv, OneJobPerLane
  <2> QED BY <2>1, <2>2
<1> QED BY <1>4, <1>5 DEF LaneInv

\* A job ends, with its result or with its task.
LEMMA ReleaseKeeps ==
    ASSUME TypeOK, LaneInv, NEW r \in Replicas, NEW l \in Lanes, NEW t \in Tasks,
           t.at = NoJob, task[r][l].at # NoJob,
           task' = [task EXCEPT ![r][l] = t],
           current' = [current EXCEPT ![r][LaneOf(task[r][l].at)] = NoJob]
    PROVE  LaneInv'
<1> DEFINE key == task[r][l].at
<1>1. key \in Keys /\ LaneOf(key) \in Lanes
  BY TaskParts, KeyParts
<1>2. \A s \in Replicas : \A m \in Lanes :
        /\ task'[s][m] = IF s = r /\ m = l THEN t ELSE task[s][m]
        /\ current'[s][m] = IF s = r /\ m = LaneOf(key) THEN NoJob ELSE current[s][m]
  BY <1>1 DEF TypeOK
<1>3. IdleRests'
  BY <1>2 DEF LaneInv, IdleRests
<1>4. OneJobPerLane'
  <2> SUFFICES ASSUME NEW s \in Replicas, NEW w \in Lanes
               PROVE  /\ \A m, n \in Working(s, w)' : m = n
                      /\ (current'[s][w] = NoJob) <=> (Working(s, w)' = {})
    BY DEF OneJobPerLane
  <2>1. CASE s = r /\ w = LaneOf(key)
    <3>1. l \in Working(s, w)
      BY <2>1 DEF Working
    <3>2. \A m \in Working(s, w) : m = l
      BY <3>1 DEF LaneInv, OneJobPerLane
    <3>3. Working(s, w)' = {}
      BY <1>2, <2>1, <3>2 DEF Working
    <3> QED BY <1>2, <2>1, <3>3
  <2>2. CASE ~(s = r /\ w = LaneOf(key))
    <3>1. Working(s, w)' = Working(s, w)
      BY <1>2, <2>2 DEF Working
    <3>2. current'[s][w] = current[s][w]
      BY <1>2, <2>2
    <3> QED BY <3>1, <3>2 DEF LaneInv, OneJobPerLane
  <2> QED BY <2>1, <2>2
<1> QED BY <1>3, <1>4 DEF LaneInv

\* A task changes its phase but not its job.
LEMMA SameJobKeeps ==
    ASSUME TypeOK, LaneInv, NEW r \in Replicas, current' = current,
           NEW f \in [Lanes -> Tasks], task' = [task EXCEPT ![r] = f],
           \A l \in Lanes : f[l].at = task[r][l].at /\ (f[l].phase = "idle" => f[l].at = NoJob)
    PROVE  LaneInv'
<1>1. \A s \in Replicas : \A m \in Lanes :
        task'[s][m] = IF s = r THEN f[m] ELSE task[s][m]
  BY DEF TypeOK
<1>2. \A s \in Replicas : \A m \in Lanes : task'[s][m].at = task[s][m].at
  BY <1>1
<1> QED BY <1>1, <1>2, SameJobs DEF LaneInv, IdleRests

LEMMA LaneInit == Init => LaneInv
BY DEF Init, LaneInv, IdleRests, OneJobPerLane, Working, Idle

LEMMA LaneNext == TypeOK /\ LaneInv /\ [Next]_vars => LaneInv'
<1> SUFFICES ASSUME TypeOK, LaneInv, [Next]_vars PROVE LaneInv'
  OBVIOUS
<1>1. ASSUME task' = task, current' = current PROVE LaneInv'
  BY <1>1, SameJobs DEF LaneInv, IdleRests
<1>2. CASE UNCHANGED vars
  BY <1>1, <1>2 DEF vars, processState
<1>3. ASSUME NEW r \in Replicas,
             \/ Acquire(r) \/ Probe(r) \/ ReadCatalog(r) \/ ScanFails(r) \/ Interrupt(r)
             \/ Joined(r) \/ (\E key \in Keys : Elapse(r, key)) \/ LoseSession(r)
      PROVE  LaneInv'
  BY <1>1, <1>3
  DEF Acquire, Probe, ReadCatalog, ScanFails, Interrupt, Joined, Elapse, LoseSession, processState
<1>4. CASE \E i \in Items : Edit(i)
  BY <1>1, <1>4 DEF Edit, processState
<1>5. ASSUME NEW r \in Replicas, Dispatch(r) PROVE LaneInv'
  <2>1. TypeOK' /\ current' = current
    BY <1>5, TypeDispatch DEF Dispatch
  <2>2. PICK f : task' = [task EXCEPT ![r] = f] /\ \A l \in Lanes :
                    f[l] = task[r][l] \/ (f[l].at = NoJob /\ task[r][l].phase = "idle")
    BY <1>5 DEF Dispatch
  <2>3. \A s \in Replicas : \A l \in Lanes : task'[s][l].at = task[s][l].at
    BY <2>2 DEF TypeOK, LaneInv, IdleRests
  <2>4. \A s \in Replicas : \A l \in Lanes : task'[s][l].phase = "idle" => task'[s][l].at = NoJob
    BY <2>2 DEF TypeOK, LaneInv, IdleRests
  <2> QED BY <2>1, <2>3, <2>4, SameJobs DEF LaneInv, IdleRests
<1>6. ASSUME NEW r \in Replicas, NEW l \in Lanes, Cancel(r, l) PROVE LaneInv'
  <2>1. Idle \in Tasks /\ Idle.at = NoJob
    BY IdleIsATask DEF Idle
  <2>2. task' = [task EXCEPT ![r][l] = Idle]
    BY <1>6 DEF Cancel
  <2>3. CASE task[r][l].at # NoJob
    BY <1>6, <2>1, <2>2, <2>3, ReleaseKeeps DEF Cancel
  <2>4. CASE task[r][l].at = NoJob
    <3>1. current' = current
      BY <1>6, <2>4 DEF Cancel
    <3>2. \A s \in Replicas : \A m \in Lanes :
            task'[s][m] = IF s = r /\ m = l THEN Idle ELSE task[s][m]
      BY <2>2 DEF TypeOK
    <3> QED BY <2>1, <2>4, <3>1, <3>2, SameJobs DEF LaneInv, IdleRests
  <2> QED BY <2>3, <2>4
<1>7. ASSUME NEW r \in Replicas, NEW l \in Lanes, NEW key \in Keys, NextJob(r, l, key) PROVE LaneInv'
  <2> DEFINE t == [task[r][l] EXCEPT !.todo = @ \ {key}]
  <2>1. task[r][l] \in Tasks /\ task[r][l].at = NoJob /\ task[r][l].phase = "batch"
    BY <1>7, TaskParts DEF NextJob
  <2>2. t \in Tasks /\ t.at = NoJob /\ t.phase = "batch"
    BY <2>1 DEF Tasks
  <2>3. (Begin(r, l, key, t) /\ Free(r, key)) \/ Skip(r, l, t)
    BY <1>7 DEF NextJob
  <2> HIDE DEF t
  <2>4. CASE Begin(r, l, key, t) /\ Free(r, key)
    BY <2>1, <2>2, <2>4, BeginKeeps
  <2>5. CASE Skip(r, l, t)
    <3>1. \A s \in Replicas : \A m \in Lanes :
            task'[s][m] = IF s = r /\ m = l THEN t ELSE task[s][m]
      BY <2>5 DEF Skip, TypeOK
    <3> QED BY <2>1, <2>2, <2>5, <3>1, SameJobs DEF Skip, LaneInv, IdleRests
  <2> QED BY <2>3, <2>4, <2>5
<1>8. ASSUME NEW r \in Replicas, NEW l \in Lanes,
             NEW o \in QuoteOutcomes \cup OtherOutcomes, FinishJob(r, l, o)
      PROVE  LaneInv'
  <2> DEFINE t == [task[r][l] EXCEPT !.at = NoJob]
  <2>1. task[r][l] \in Tasks /\ task[r][l].at # NoJob
    BY <1>8, TaskParts DEF FinishJob
  <2>2. t \in Tasks /\ t.at = NoJob
    BY <2>1 DEF Tasks
  <2>3. task' = [task EXCEPT ![r][l] = t]
    BY <1>8 DEF FinishJob, TypeOK
  <2>4. current' = [current EXCEPT ![r][LaneOf(task[r][l].at)] = NoJob]
    BY <1>8 DEF FinishJob
  <2> HIDE DEF t
  <2> QED BY <2>1, <2>2, <2>3, <2>4, ReleaseKeeps
<1>9. ASSUME NEW r \in Replicas, NEW l \in Lanes, EndOfBatch(r, l) PROVE LaneInv'
  <2>1. current' = current
    BY <1>9 DEF EndOfBatch
  <2>2. task[r][l] \in Tasks /\ task[r][l].at = NoJob
    BY <1>9, TaskParts DEF EndOfBatch, BatchDone
  <2>3. SecondTry(r).at = task[r][Discovery].at /\ SecondTry(r).phase = "retry"
    BY SecondTryIsATask
  <2>4. \A s \in Replicas : \A m \in Lanes :
          /\ s # r => task'[s][m] = task[s][m]
          /\ s = r /\ m = l => \/ task'[s][m] = Idle
                               \/ m = Discovery /\ task'[s][m] = SecondTry(r)
                               \/ task'[s][m] = [task[r][l] EXCEPT !.phase = "join"]
          /\ s = r /\ m # l => \/ task'[s][m] = task[s][m]
                               \/ task'[s][m] = [task[r][m] EXCEPT !.phase = "woken"]
    BY <1>9, LanePair DEF EndOfBatch, TypeOK
  <2>5. \A s \in Replicas : \A m \in Lanes :
          /\ task'[s][m].at = task[s][m].at
          /\ task'[s][m].phase = "idle" => task'[s][m].at = NoJob
    <3> SUFFICES ASSUME NEW s \in Replicas, NEW m \in Lanes
                 PROVE  /\ task'[s][m].at = task[s][m].at
                        /\ task'[s][m].phase = "idle" => task'[s][m].at = NoJob
      OBVIOUS
    <3>1. task[s][m] \in Tasks
      BY TaskParts
    <3>2. task[s][m].phase = "idle" => task[s][m].at = NoJob
      BY DEF LaneInv, IdleRests
    <3>3. CASE task'[s][m] = task[s][m]
      BY <3>2, <3>3
    <3>4. CASE m = l /\ task[s][m].at = NoJob /\ task'[s][m] = Idle
      BY <3>4 DEF Idle
    <3>5. CASE s = r /\ m = Discovery /\ task'[s][m] = SecondTry(r)
      BY <2>3, <3>5
    <3>6. CASE \E p \in {"join", "woken"} : task'[s][m] = [task[s][m] EXCEPT !.phase = p]
      BY <3>1, <3>6 DEF Tasks
    <3> QED
      <4>1. s # r => task'[s][m] = task[s][m]
        BY <2>4
      <4>2. s = r /\ m = l => \/ task'[s][m] = Idle
                              \/ m = Discovery /\ task'[s][m] = SecondTry(r)
                              \/ task'[s][m] = [task[s][m] EXCEPT !.phase = "join"]
        <5> SUFFICES ASSUME s = r, m = l
                     PROVE  \/ task'[r][l] = Idle
                            \/ l = Discovery /\ task'[r][l] = SecondTry(r)
                            \/ task'[r][l] = [task[r][l] EXCEPT !.phase = "join"]
          OBVIOUS
        <5>1. r \in Replicas /\ l \in Lanes
          OBVIOUS
        <5> HIDE DEF Idle, SecondTry
        <5> QED BY <2>4, <5>1
      <4>3. s = r /\ m # l => \/ task'[s][m] = task[s][m]
                              \/ task'[s][m] = [task[s][m] EXCEPT !.phase = "woken"]
        BY <2>4
      <4> QED BY <2>2, <3>3, <3>4, <3>5, <3>6, <4>1, <4>2, <4>3
  <2> QED BY <2>1, <2>5, SameJobs DEF LaneInv, IdleRests
<1>10. ASSUME NEW r \in Replicas, Woken(r) PROVE LaneInv'
  <2>1. /\ current' = current
        /\ \A s \in Replicas : \A m \in Lanes :
             task'[s][m] = IF s = r /\ m = Discovery THEN SecondTry(r) ELSE task[s][m]
    BY <1>10, LanePair DEF Woken, TypeOK
  <2> QED BY <2>1, SecondTryIsATask, SameJobs DEF LaneInv, IdleRests
<1>11. ASSUME NEW r \in Replicas, NEW key \in Keys, TryAgain(r, key) PROVE LaneInv'
  <2> DEFINE t == [task[r][Discovery] EXCEPT !.todo = @ \ {key}]
  <2>1. /\ task[r][Discovery] \in Tasks
        /\ task[r][Discovery].at = NoJob
        /\ task[r][Discovery].phase = "retry"
    BY <1>11, TaskParts, LanePair DEF TryAgain
  <2>2. t \in Tasks /\ t.at = NoJob /\ t.phase = "retry"
    BY <2>1 DEF Tasks
  <2>3. (Begin(r, Discovery, key, t) /\ Free(r, key)) \/ Skip(r, Discovery, t)
    BY <1>11 DEF TryAgain
  <2> HIDE DEF t
  <2>4. CASE Begin(r, Discovery, key, t) /\ Free(r, key)
    BY <2>1, <2>2, <2>4, BeginKeeps, LanePair
  <2>5. CASE Skip(r, Discovery, t)
    <3>1. \A s \in Replicas : \A m \in Lanes :
            task'[s][m] = IF s = r /\ m = Discovery THEN t ELSE task[s][m]
      BY <2>5, LanePair DEF Skip, TypeOK
    <3> QED BY <2>1, <2>2, <2>5, <3>1, SameJobs DEF Skip, LaneInv, IdleRests
  <2> QED BY <2>3, <2>4, <2>5
<1>12. ASSUME NEW r \in Replicas, EndOfRetry(r) PROVE LaneInv'
  <2>1. /\ current' = current
        /\ task[r][Discovery].at = NoJob
        /\ \A s \in Replicas : \A m \in Lanes :
             task'[s][m] = IF s = r /\ m = Discovery THEN Idle ELSE task[s][m]
    BY <1>12, LanePair DEF EndOfRetry, TypeOK
  <2> QED BY <2>1, SameJobs DEF LaneInv, IdleRests, Idle
<1>13. ASSUME NEW r \in Replicas, Crash(r) PROVE LaneInv'
  <2>1. \A s \in Replicas : \A m \in Lanes :
          /\ task'[s][m] = IF s = r THEN Idle ELSE task[s][m]
          /\ current'[s][m] = IF s = r THEN NoJob ELSE current[s][m]
    BY <1>13 DEF Crash, TypeOK
  <2>2. IdleRests'
    BY <2>1 DEF LaneInv, IdleRests, Idle
  <2>3. ASSUME NEW s \in Replicas, NEW w \in Lanes
        PROVE  Working(s, w)' = IF s = r THEN {} ELSE Working(s, w)
    BY <2>1 DEF Working, Idle
  <2>4. OneJobPerLane'
    BY <2>1, <2>3 DEF OneJobPerLane, LaneInv
  <2> QED BY <2>2, <2>4 DEF LaneInv
<1>14. ASSUME NEW r \in Replicas, NEW l \in Lanes, Work(r, l) PROVE LaneInv'
  BY <1>7, <1>8, <1>9, <1>14, WorkCases
<1>15. ASSUME NEW r \in Replicas, Second(r) PROVE LaneInv'
  BY <1>10, <1>11, <1>12, <1>15 DEF Second
<1> QED BY <1>2, <1>3, <1>4, <1>5, <1>6, <1>13, <1>14, <1>15 DEF Next

\* A lane of a process never has two jobs under way (the test and set of
\* _current_jobs), whatever the second try and the batches do.
THEOREM LanesWorkAlone == Spec => []OneJobPerLane
<1>1. TypeOK /\ LaneInv /\ [Next]_vars => (TypeOK /\ LaneInv)'
  BY TypeNext, LaneNext
<1>2. LaneInv => OneJobPerLane
  BY DEF LaneInv
<1> QED BY TypeInit, LaneInit, <1>1, <1>2, PTL DEF Spec

-----------------------------------------------------------------------------
(* The lock of the deployment *)

Away(r) == runner[r] \in {"absent", "waiting"}

\* Who works has the lock or has lost it without knowing.
LeaderInv ==
    /\ \A r \in Replicas : Away(r) => session[r] = "none" /\ ~Busy(r)
    /\ \A r \in Replicas : ~Away(r) => session[r] \in {"held", "lost"}
    /\ \A r, s \in Replicas : session[r] = "held" /\ session[s] = "held" => r = s

LEMMA LeaderInit == Init => LeaderInv
BY DEF Init, LeaderInv, Away, Busy, Idle

\* Only the tasks of a replica that is not away change.
LEMMA LeaderWorks ==
    ASSUME TypeOK, LeaderInv, NEW r \in Replicas, ~Away(r), runner' = runner, session' = session,
           \A s \in Replicas \ {r} : \A l \in Lanes : task'[s][l] = task[s][l]
    PROVE  LeaderInv'
BY DEF LeaderInv, Away, Busy

LEMMA LeaderNext == TypeOK /\ LaneInv /\ LeaderInv /\ [Next]_vars => LeaderInv'
<1> SUFFICES ASSUME TypeOK, LaneInv, LeaderInv, [Next]_vars PROVE LeaderInv'
  OBVIOUS
<1>1. ASSUME UNCHANGED <<runner, session, task>> PROVE LeaderInv'
  BY <1>1 DEF LeaderInv, Away, Busy
<1>2. CASE UNCHANGED vars
  BY <1>1, <1>2 DEF vars, processState
<1>3. CASE \E i \in Items : Edit(i)
  BY <1>1, <1>3 DEF Edit, processState
<1>4. ASSUME NEW r \in Replicas, NEW key \in Keys, Elapse(r, key) PROVE LeaderInv'
  BY <1>1, <1>4 DEF Elapse
<1>5. ASSUME NEW r \in Replicas, Acquire(r) PROVE LeaderInv'
  BY <1>5 DEF Acquire, TypeOK, LeaderInv, Away, Busy, processState
<1>6. ASSUME NEW r \in Replicas, Probe(r) \/ ReadCatalog(r) \/ ScanFails(r) \/ Interrupt(r)
      PROVE  LeaderInv'
  BY ZenonT(60), <1>6
  DEF Probe, ReadCatalog, ScanFails, Interrupt, TypeOK, LeaderInv, Away, Busy, processState
<1>7. ASSUME NEW r \in Replicas, Dispatch(r) PROVE LeaderInv'
  <2>1. \A s \in Replicas : Away(s)' <=> Away(s)
    BY <1>7 DEF Dispatch, TypeOK, Away
  <2>2. \A s \in Replicas \ {r} : task'[s] = task[s]
    BY <1>7 DEF Dispatch, TypeOK
  <2>3. ~Away(r) /\ session' = session
    BY <1>7 DEF Dispatch, Away
  <2> QED BY <2>1, <2>2, <2>3 DEF LeaderInv, Busy
<1>8. ASSUME NEW r \in Replicas, NEW l \in Lanes, Cancel(r, l) PROVE LeaderInv'
  <2>1. ~Away(r) /\ runner' = runner /\ session' = session
    BY <1>8 DEF Cancel, Stopping, Away
  <2>2. \A s \in Replicas \ {r} : \A m \in Lanes : task'[s][m] = task[s][m]
    BY <1>8 DEF Cancel, TypeOK
  <2> QED BY <2>1, <2>2, LeaderWorks
<1>9. ASSUME NEW r \in Replicas, Joined(r) PROVE LeaderInv'
  BY ZenonT(60), <1>9 DEF Joined, AllJoined, Stopping, TypeOK, LeaderInv, Away, Busy, processState
<1>10. ASSUME NEW r \in Replicas, LoseSession(r) PROVE LeaderInv'
  BY <1>10 DEF LoseSession, TypeOK, LeaderInv, Away, Busy, processState
<1>11. ASSUME NEW r \in Replicas, Crash(r) PROVE LeaderInv'
  BY <1>11 DEF Crash, TypeOK, LeaderInv, Away, Busy, Idle
<1>12. ASSUME NEW r \in Replicas, NEW l \in Lanes, Work(r, l) PROVE LeaderInv'
  <2>1. task[r][l].phase # "idle"
    <3>1. task[r][l].at # NoJob => task[r][l].phase # "idle"
      BY DEF LaneInv, IdleRests
    <3>2. CASE \E key \in Keys : NextJob(r, l, key)
      BY <3>2 DEF NextJob
    <3>3. CASE task[r][l].at # NoJob
      BY <3>1, <3>3
    <3>4. CASE EndOfBatch(r, l)
      BY <3>4 DEF EndOfBatch, BatchDone
    <3> QED BY <1>12, <3>2, <3>3, <3>4 DEF Work
  <2>2. ~Away(r)
    BY <2>1 DEF LeaderInv, Busy
  <2>3. runner' = runner /\ session' = session
    BY <1>12 DEF Work, NextJob, FinishJob, EndOfBatch
  <2>4. task' = [task EXCEPT ![r] = task'[r]]
    <3>1. ASSUME NEW key \in Keys, NextJob(r, l, key) PROVE task' = [task EXCEPT ![r] = task'[r]]
      BY <3>1 DEF NextJob, Begin, Skip, TypeOK
    <3>2. ASSUME NEW o \in OutcomesOf(task[r][l].at), FinishJob(r, l, o)
          PROVE  task' = [task EXCEPT ![r] = task'[r]]
      BY <3>2 DEF FinishJob, TypeOK
    <3>3. CASE EndOfBatch(r, l)
      BY <3>3 DEF EndOfBatch, TypeOK
    <3> QED BY <1>12, <3>1, <3>2, <3>3 DEF Work
  <2>5. \A s \in Replicas \ {r} : \A m \in Lanes : task'[s][m] = task[s][m]
    BY <2>4 DEF TypeOK
  <2> QED BY <2>2, <2>3, <2>5, LeaderWorks
<1>13. ASSUME NEW r \in Replicas, Second(r) PROVE LeaderInv'
  <2>1. task[r][Discovery].phase # "idle"
    BY <1>13 DEF Second, Woken, TryAgain, EndOfRetry
  <2>2. ~Away(r)
    BY <2>1, LanePair DEF LeaderInv, Busy
  <2>3. runner' = runner /\ session' = session
    BY <1>13 DEF Second, Woken, TryAgain, EndOfRetry
  <2>4. task' = [task EXCEPT ![r] = task'[r]]
    <3>1. CASE Woken(r) \/ EndOfRetry(r)
      BY <3>1 DEF Woken, EndOfRetry, TypeOK
    <3>2. ASSUME NEW key \in Keys, TryAgain(r, key) PROVE task' = [task EXCEPT ![r] = task'[r]]
      BY <3>2 DEF TryAgain, Begin, Skip, TypeOK
    <3> QED BY <1>13, <3>1, <3>2 DEF Second
  <2>5. \A s \in Replicas \ {r} : \A m \in Lanes : task'[s][m] = task[s][m]
    BY <2>4 DEF TypeOK
  <2> QED BY <2>2, <2>3, <2>5, LeaderWorks
<1> QED
  BY <1>2, <1>3, <1>4, <1>5, <1>6, <1>7, <1>8, <1>9, <1>10, <1>11, <1>12, <1>13 DEF Next

\* Two replicas refresh at the same time only while one of them has lost its
\* session without knowing (the advisory lock, and stop() before its release).
THEOREM LeadersOverlapOnlyByLoss == Spec => []OverlapOnlyByLoss
<1>1. TypeOK /\ LaneInv /\ LeaderInv /\ [Next]_vars => (TypeOK /\ LaneInv /\ LeaderInv)'
  BY TypeNext, LaneNext, LeaderNext
<1>2. LeaderInv => OverlapOnlyByLoss
  BY DEF LeaderInv, OverlapOnlyByLoss
<1> QED BY TypeInit, LaneInit, LeaderInit, <1>1, <1>2, PTL DEF Spec

\* A job that was taken away because its instrument had left the catalog is not
\* brought back by the run that was under way (the check of _job before it
\* writes): only a scan that has found the instrument brings it back, as a new
\* job.
THEOREM RemovedJobsStayRemoved == Spec => RemovedJobStaysRemoved
<1>1. ASSUME TypeOK, [Next]_vars, NEW r \in Replicas, NEW key \in Keys,
             jobs[r][key] = "none", jobs'[r][key] # "none"
      PROVE  ItemOf(key) \in found[r] /\ jobs'[r][key] = "PENDING"
  <2>1. ASSUME UNCHANGED jobs PROVE FALSE
    BY <1>1, <2>1
  <2>2. ASSUME NEW s \in Replicas, Dispatch(s)
        PROVE  ItemOf(key) \in found[r] /\ jobs'[r][key] = "PENDING"
    <3>1. jobs'[r][key] # jobs[r][key]
      BY <1>1
    <3>2. s = r
      BY <1>1, <2>2, <3>1 DEF Dispatch, TypeOK
    <3>3. jobs'[r][key] = CASE ~Known(r, key) -> "none"
                            [] Known(r, key) /\ jobs[r][key] = "none" -> "PENDING"
                            [] OTHER -> jobs[r][key]
      BY <1>1, <2>2, <3>2 DEF Dispatch, TypeOK
    <3> QED BY <1>1, <3>3 DEF Known
  <2>3. ASSUME NEW s \in Replicas, Crash(s) PROVE FALSE
    BY <1>1, <2>3 DEF Crash, TypeOK
  <2>4. ASSUME NEW s \in Replicas, NEW l \in Lanes, Work(s, l) PROVE FALSE
    <3>1. ASSUME NEW o \in OutcomesOf(task[s][l].at), FinishJob(s, l, o) PROVE FALSE
      <4>1. PICK at \in Keys : at = task[s][l].at
        <5>1. task[s][l].at \in Keys \cup {NoJob}
          BY <1>1, TaskParts
        <5>2. task[s][l].at # NoJob
          BY <3>1 DEF FinishJob
        <5> QED BY <5>1, <5>2
      <4>2. jobs' = jobs \/ (jobs' = [jobs EXCEPT ![s][at] = o] /\ jobs[s][at] # "none")
        BY <3>1, <4>1 DEF FinishJob, Removed
      <4>3. jobs'[r][key] = jobs[r][key] \/ (s = r /\ key = at /\ jobs[s][at] # "none")
        <5>1. jobs[s] \in [Keys -> Statuses] /\ jobs \in [Replicas -> [Keys -> Statuses]]
          BY <1>1 DEF TypeOK
        <5> QED BY <4>2, <5>1
      <4> QED BY <1>1, <4>3
    <3>2. CASE \E k \in Keys : NextJob(s, l, k)
      BY <2>1, <3>2 DEF NextJob
    <3>3. CASE EndOfBatch(s, l)
      BY <2>1, <3>3 DEF EndOfBatch
    <3> QED BY <2>4, <3>1, <3>2, <3>3 DEF Work
  <2>5. ASSUME NEW s \in Replicas, Second(s) PROVE FALSE
    BY <2>1, <2>5 DEF Second, Woken, TryAgain, EndOfRetry
  <2>6. ASSUME NEW s \in Replicas, NEW l \in Lanes, Cancel(s, l) PROVE FALSE
    BY <2>1, <2>6 DEF Cancel
  <2>7. ASSUME NEW s \in Replicas,
               \/ Acquire(s) \/ Probe(s) \/ ReadCatalog(s) \/ ScanFails(s) \/ Interrupt(s)
               \/ Joined(s) \/ LoseSession(s)
        PROVE  FALSE
    BY <2>1, <2>7
    DEF Acquire, Probe, ReadCatalog, ScanFails, Interrupt, Joined, LoseSession, processState
  <2>8. ASSUME NEW s \in Replicas, NEW k \in Keys, Elapse(s, k) PROVE FALSE
    BY <2>1, <2>8 DEF Elapse
  <2>9. CASE (\E i \in Items : Edit(i)) \/ UNCHANGED vars
    BY <2>1, <2>9 DEF Edit, vars, processState
  <2> QED BY <1>1, <2>2, <2>3, <2>4, <2>5, <2>6, <2>7, <2>8, <2>9 DEF Next
<1>2. TypeOK /\ [Next]_vars =>
        [\A r \in Replicas : \A key \in Keys :
            jobs[r][key] = "none" /\ jobs'[r][key] # "none" =>
                ItemOf(key) \in found[r] /\ jobs'[r][key] = "PENDING"]_vars
  BY <1>1
<1> QED BY TypeCorrect, <1>2, PTL DEF Spec, RemovedJobStaysRemoved
=============================================================================
