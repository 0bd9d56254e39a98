----------------------------- MODULE PartsProofs -----------------------------
(***************************************************************************)
(* The theorems about the services, for the parts that the run of          *)
(* MCServices checks.  A part is an instance of a module that is proved    *)
(* for all values of its constants: here the two are shown to be the same, *)
(* and what is proved to be what the run checks.  Parts share no step, so  *)
(* that each keeps its invariant whatever the others do.                   *)
(***************************************************************************)
EXTENDS MCServices, TLAPS

-----------------------------------------------------------------------------
(* Two prompt processes.                                                     *)

TimelyProof == INSTANCE NotificationDeliveryProofs WITH
    Notifications <- First, Trades <- TheTrade, TradeOf <- OfOne, Workers <- Processes, Runners <-
    Processes, MaxAttempts <- 3, BatchLimit <- 1, RecoveryTimeout <- 3, MaxStall <- 2, MaxCrashes <-
    2, alert <- v1, notification <- v2, attempts <- v3, cancelled <- v4, pc <- v5, queue <- v6, call
    <- v7, accepted <- v8, crashes <- v9

\* The part is what the theorems about deliveries are about.
LEMMA TimelyIsProved == (Timely!Init => TimelyProof!Init) /\ (Timely!Next => TimelyProof!Next)
  <1>1. Timely!Init => TimelyProof!Init
    BY DEF
      Timely!NoCall, Timely!Init,
      TimelyProof!NoCall, TimelyProof!Init
  <1>2. Timely!Next => TimelyProof!Next
    BY ZenonT(60) DEF
      Timely!database, Timely!session, Timely!NewAttempt, Timely!NoCall, Timely!Busy, Timely!InProgress,
      Timely!Invalidated, Timely!OfCancelled, Timely!CreateNotification, Timely!ResolveAlert,
      Timely!InvalidateAlerts, Timely!SendingBlocks, Timely!FailPending, Timely!CancelTrade, Timely!Listable,
      Timely!Batch, Timely!ListPending, Timely!Rest, Timely!Turn, Timely!Skip, Timely!PrepareInvalidated,
      Timely!AlreadyDelivered, Timely!PrepareSettled, Timely!Deliverable, Timely!Stale, Timely!Interrupted,
      Timely!Recovered, Timely!StillActive, Timely!AttemptsLeft, Timely!PrepareBusy, Timely!PrepareExhausted,
      Timely!PrepareAttempt, Timely!Prepare, Timely!RepliesIfAccepted, Timely!RepliesIfRefused, Timely!Post,
      Timely!ResultWanted, Timely!AttemptResult, Timely!NotificationResult, Timely!Return,
      Timely!CompleteRecorded, Timely!CompleteDropped, Timely!Complete, Timely!Abort, Timely!Older,
      Timely!Timely, Timely!Elapsed, Timely!Tick, Timely!Next, Timely!Cardinality,
      TimelyProof!database, TimelyProof!session, TimelyProof!NewAttempt, TimelyProof!NoCall, TimelyProof!Busy,
      TimelyProof!InProgress, TimelyProof!Invalidated, TimelyProof!OfCancelled,
      TimelyProof!CreateNotification, TimelyProof!ResolveAlert, TimelyProof!InvalidateAlerts,
      TimelyProof!SendingBlocks, TimelyProof!FailPending, TimelyProof!CancelTrade, TimelyProof!Listable,
      TimelyProof!Batch, TimelyProof!ListPending, TimelyProof!Rest, TimelyProof!Turn, TimelyProof!Skip,
      TimelyProof!PrepareInvalidated, TimelyProof!AlreadyDelivered, TimelyProof!PrepareSettled,
      TimelyProof!Deliverable, TimelyProof!Stale, TimelyProof!Interrupted, TimelyProof!Recovered,
      TimelyProof!StillActive, TimelyProof!AttemptsLeft, TimelyProof!PrepareBusy,
      TimelyProof!PrepareExhausted, TimelyProof!PrepareAttempt, TimelyProof!Prepare,
      TimelyProof!RepliesIfAccepted, TimelyProof!RepliesIfRefused, TimelyProof!Post, TimelyProof!ResultWanted,
      TimelyProof!AttemptResult, TimelyProof!NotificationResult, TimelyProof!Return,
      TimelyProof!CompleteRecorded, TimelyProof!CompleteDropped, TimelyProof!Complete, TimelyProof!Abort,
      TimelyProof!Older, TimelyProof!Timely, TimelyProof!Elapsed, TimelyProof!Tick, TimelyProof!Next,
      TimelyProof!Cardinality
  <1> QED BY <1>1, <1>2

\* Its constants are as assumed, and say that its processes are prompt.
LEMMA TimelyMeets == TimelyProof!DeliveryAssumption /\ TimelyProof!Timely
  BY PartsAssumption DEF PartsAssumption, Timely!DeliveryAssumption, TimelyProof!DeliveryAssumption,
     Timely!IsFiniteSet, TimelyProof!IsFiniteSet, TimelyProof!Timely

\* A step of the services is one of the part.
TimelyInv == part = "timely" => TimelyProof!TypeInv /\ TimelyProof!Safe /\ TimelyProof!Owned
LEMMA TimelySteps == ASSUME [Next]_allVars, part = "timely" PROVE [TimelyProof!Next]_(TimelyProof!vars)
  BY TimelyIsProved DEF Next, allVars, After9, TimelyProof!vars, TimelyProof!database, TimelyProof!session

\* What holds of prompt processes holds all along.
LEMMA TimelyHolds == Spec => []TimelyInv
  <1>1. Init => TimelyInv
    BY TimelyIsProved, TimelyMeets, TimelyProof!InitTypeInv, TimelyProof!InitSafe, TimelyProof!InitOwned
       DEF Init, TimelyInv
  <1>2. ASSUME TimelyInv, [Next]_allVars PROVE TimelyInv'
    <2>1. part' = part
      BY <1>2 DEF Next, allVars
    <2> QED BY <2>1, <1>2, TimelySteps, TimelyMeets, TimelyProof!StepTypeInv, TimelyProof!StepSafe,
            TimelyProof!StepOwned DEF TimelyInv
  <1> QED BY <1>1, <1>2, PTL DEF Spec

\* Two prompt processes never deliver the same notification at once.
THEOREM PartDeliveryIsExclusive == Spec => []ExclusiveDelivery
  <1>1. TimelyInv => ExclusiveDelivery
    BY DEF TimelyInv, TimelyProof!Owned, ExclusiveDelivery,
       Timely!Busy, Timely!ExclusiveDelivery, TimelyProof!Busy, TimelyProof!ExclusiveDelivery
  <1> QED BY <1>1, TimelyHolds, PTL

\* No step of theirs puts a message about a cancelled trade into the chat.
THEOREM PartPostsNothingAfterCancellation == Spec => NoPostAfterCancellation
  <1> DEFINE Quiet == part = "timely" => \A n \in First : v8'[n] # v8[n] => ~Timely!OfCancelled(n)
  <1>1. ASSUME TimelyInv, [Next]_allVars PROVE Quiet
    <2>1. ASSUME part = "timely" PROVE \A n \in First : v8'[n] # v8[n] => ~TimelyProof!OfCancelled(n)
      BY <1>1, <2>1, TimelySteps, TimelyMeets, TimelyProof!PromptStepIsQuiet DEF TimelyInv
    <2> QED BY <2>1 DEF Timely!OfCancelled, TimelyProof!OfCancelled
  <1> QED BY <1>1, TimelyHolds, PTL DEF Spec, NoPostAfterCancellation

-----------------------------------------------------------------------------
(* The part "governors".                                                   *)

LearningProof == INSTANCE LearningProofs WITH
    Governors <- Two, Numbers <- Three, Proposals <- {"p", "q"}, Hypotheses <- {"h"}, MaxActivations
    <- 2, Planners <- Two, MaxReviews <- 3, Bases <- Two, LastSession <- 3, LastRevision <- 1,
    MaxRaised <- 1, Trends <- {"ABOVE"}, Volatilities <- {"HIGH", "LOW"}, ConfirmationSessions <- 1,
    MaxRevised <- 1, MaxRestarts <- 1, Clients <- Two, Jobs <- {"job"}, Contents <- {"a"}, Files <-
    Both, Outcomes <- {"FAILED", "VALID"}, Versions <- Both, Signals <- Both, Keys <- Both,
    MaxTransitions <- 4, Metadata <- {}, Exits <- {"first", "open"}, Series <- {"full", "short"},
    LastVersion <- 2, LastJournal <- 1, MaxChanges <- 2, Trades <- Both, First <- 1, Links <- Both,
    LinkKeys <- {"k", "q"}, LastLinked <- 3, Begun <- {"draft"}, Texts <- {"x"}, OtherOps <-
    {"save"}, MaxVersions <- 1, MaxRevision <- 3, MaxSource <- 1, MaxCommands <- 1, modelVersion <-
    v1, proposal <- v2, hypothesis <- v3, granted <- v4, activation <- v5, clock <- v6, task <- v7,
    plan <- v1, version <- v2, approvals <- v3, events <- v4, command <- v5, market <- v1, held <-
    v2, setting <- v3, snapshots <- v4, latest <- v5, edge <- v6, warning <- v7, told <- v8, sweep
    <- v9, restarts <- v10, changes <- v11, job <- v1, file <- v2, row <- v3, imported <- v4,
    request <- v5, lesson <- v1, versions <- v2, signals <- v3, transitions <- v4, sent <- v5,
    stored <- v6, promised <- v7, editing <- v8, facts <- v1, observation <- v2, review <- v3,
    evidence <- v4, journal <- v5, session <- v6, altered <- v7, trade <- v1, link <- v2, referenced
    <- v3, receipt <- v4, work <- v5, drafts <- v1, proven <- v2, basis <- v3, applied <- v4, page
    <- v5, attempt <- v6, call <- v7, reading <- v8, late <- v9, keys <- v10, memory <- v11

\* The part is what is proved of ModelGovernance.
LEMMA ModelsIsProved == (Models!Init => LearningProof!MG!Init) /\ (Models!Next => LearningProof!MG!Next)
  <1>1. Models!Init => LearningProof!MG!Init
    BY DEF
      Models!Nobody, Models!Initial, Models!NoTask, Models!Init,
      LearningProof!MG!Nobody, LearningProof!MG!Initial, LearningProof!MG!NoTask, LearningProof!MG!Init
  <1>2. Models!Next => LearningProof!MG!Next
    BY ZenonT(60) DEF
      Models!Initial, Models!NoTask, Models!Merged, Models!Existing, Models!LatestVersion, Models!Active,
      Models!BaseIsLatest, Models!AlreadyActive, Models!Asks, Models!Done, Models!ReadInitial,
      Models!ReadForProposal, Models!ReadForValidation, Models!ReadForApproval, Models!ReadForActivation,
      Models!CreateHypothesis, Models!ApproveInitial, Models!CreateProposal, Models!ValidateProposal,
      Models!NumberFree, Models!ApproveProposal, Models!Activate, Models!GiveUp, Models!Next,
      LearningProof!MG!Initial, LearningProof!MG!NoTask, LearningProof!MG!Merged, LearningProof!MG!Existing,
      LearningProof!MG!LatestVersion, LearningProof!MG!Active, LearningProof!MG!BaseIsLatest,
      LearningProof!MG!AlreadyActive, LearningProof!MG!Asks, LearningProof!MG!Done,
      LearningProof!MG!ReadInitial, LearningProof!MG!ReadForProposal, LearningProof!MG!ReadForValidation,
      LearningProof!MG!ReadForApproval, LearningProof!MG!ReadForActivation, LearningProof!MG!CreateHypothesis,
      LearningProof!MG!ApproveInitial, LearningProof!MG!CreateProposal, LearningProof!MG!ValidateProposal,
      LearningProof!MG!NumberFree, LearningProof!MG!ApproveProposal, LearningProof!MG!Activate,
      LearningProof!MG!GiveUp, LearningProof!MG!Next
  <1> QED BY <1>1, <1>2

\* Its constants are as assumed.
LEMMA ModelsMeets == LearningProof!MG!ModelAssumption
  BY PartsAssumption DEF PartsAssumption,
     Models!ModelAssumption, LearningProof!MG!ModelAssumption, Models!Nobody, LearningProof!MG!Nobody,
     Models!Initial, LearningProof!MG!Initial

\* It keeps its invariant, and with it what the run checks.
LEMMA ModelsHolds == Spec => [](part = "governors" => Models!TypeOK /\ Models!VersionsAreOneLine)
  <1> DEFINE Inv == part = "governors" => LearningProof!ModelInv
  <1>1. Init => Inv
    BY ModelsIsProved, ModelsMeets, LearningProof!ModelInit DEF Init
  <1>2. ASSUME Inv, [Next]_allVars PROVE Inv'
    <2>1. part' = part /\ (part = "governors" => [LearningProof!MG!Next]_(LearningProof!MG!governanceVars))
      BY ModelsIsProved, <1>2 DEF Next, allVars, LearningProof!MG!governanceVars
    <2> QED BY <2>1, <1>2, ModelsMeets, LearningProof!ModelNext
  <1>3. ASSUME Inv, part = "governors" PROVE Models!TypeOK /\ Models!VersionsAreOneLine
    <2>1. LearningProof!MG!TypeOK /\ LearningProof!MG!VersionsAreOneLine
      BY <1>3, ModelsMeets, LearningProof!ModelInvSuffices
    <2> QED BY <2>1 DEF
        Models!Nobody, Models!VersionStatuses, Models!ProposalStatuses, Models!HypothesisStatuses,
        Models!Tasks, Models!TypeOK, Models!Initial, Models!Existing, Models!VersionsAreOneLine,
        LearningProof!MG!Nobody, LearningProof!MG!Initial, LearningProof!MG!VersionStatuses,
        LearningProof!MG!ProposalStatuses, LearningProof!MG!HypothesisStatuses, LearningProof!MG!Tasks,
        LearningProof!MG!TypeOK, LearningProof!MG!Existing, LearningProof!MG!VersionsAreOneLine
  <1> QED BY <1>1, <1>2, <1>3, PTL DEF Spec

-----------------------------------------------------------------------------
(* The part "plan".                                                        *)

\* The part is what is proved of TradePlans.
LEMMA PlanIsProved == (Plan!Init => LearningProof!TP!Init) /\ (Plan!Next => LearningProof!TP!Next)
  <1>1. Plan!Init => LearningProof!TP!Init
    BY DEF
      Plan!Idle, Plan!Init,
      LearningProof!TP!Idle, LearningProof!TP!Init
  <1>2. Plan!Next => LearningProof!TP!Next
    BY ZenonT(60) DEF
      Plan!Statuses, Plan!Commands, Plan!Idle, Plan!Reads, Plan!Existing, Plan!ApprovedIn, Plan!Latest,
      Plan!Next_version, Plan!Allowed, Plan!Holds, Plan!LockFree, Plan!Log, Plan!Done, Plan!Create, Plan!Lock,
      Plan!Amend, Plan!Transition, Plan!Superseded, Plan!Approve, Plan!FindForDeletion, Plan!Delete,
      Plan!Refuse, Plan!Next, Plan!Cardinality,
      LearningProof!TP!Statuses, LearningProof!TP!Commands, LearningProof!TP!Idle, LearningProof!TP!Reads,
      LearningProof!TP!Existing, LearningProof!TP!ApprovedIn, LearningProof!TP!Latest,
      LearningProof!TP!Next_version, LearningProof!TP!Allowed, LearningProof!TP!Holds,
      LearningProof!TP!LockFree, LearningProof!TP!Log, LearningProof!TP!Done, LearningProof!TP!Create,
      LearningProof!TP!Lock, LearningProof!TP!Amend, LearningProof!TP!Transition, LearningProof!TP!Superseded,
      LearningProof!TP!Approve, LearningProof!TP!FindForDeletion, LearningProof!TP!Delete,
      LearningProof!TP!Refuse, LearningProof!TP!Next, LearningProof!TP!Cardinality
  <1> QED BY <1>1, <1>2

\* It keeps its invariant, and with it what the run checks.
LEMMA PlanHolds == Spec => [](part = "plan" => Plan!TypeOK /\ Plan!OneApproved /\ Plan!HistoryTellsStatus)
  <1> DEFINE Inv == part = "plan" => LearningProof!PlanInv
  <1>1. Init => Inv
    BY PlanIsProved, LearningProof!PlanInit DEF Init
  <1>2. ASSUME Inv, [Next]_allVars PROVE Inv'
    <2>1. part' = part /\ (part = "plan" => [LearningProof!TP!Next]_(LearningProof!TP!planVars))
      BY PlanIsProved, <1>2 DEF Next, allVars, LearningProof!TP!planVars
    <2> QED BY <2>1, <1>2, LearningProof!PlanNext
  <1>3. ASSUME Inv, part = "plan" PROVE Plan!TypeOK /\ Plan!OneApproved /\ Plan!HistoryTellsStatus
    <2>1. LearningProof!TP!TypeOK /\ LearningProof!TP!OneApproved /\ LearningProof!TP!HistoryTellsStatus
      BY <1>3, LearningProof!PlanInvSuffices
    <2> QED BY <2>1 DEF
        Plan!Statuses, Plan!Commands, Plan!Idle, Plan!Requests, Plan!TypeOK, Plan!ApprovedIn,
        Plan!OneApproved, Plan!HistoryTellsStatus,
        LearningProof!TP!Statuses, LearningProof!TP!Commands, LearningProof!TP!Idle,
        LearningProof!TP!Requests, LearningProof!TP!TypeOK, LearningProof!TP!ApprovedIn,
        LearningProof!TP!OneApproved, LearningProof!TP!HistoryTellsStatus
  <1> QED BY <1>1, <1>2, <1>3, PTL DEF Spec

-----------------------------------------------------------------------------
(* The part "lesson".                                                      *)

\* The part is what is proved of Lessons.
LEMMA LessonIsProved == (Lesson!Init => LearningProof!LS!Init) /\ (Lesson!Next => LearningProof!LS!Next)
  <1>1. Lesson!Init => LearningProof!LS!Init
    BY DEF
      Lesson!None, Lesson!Init,
      LearningProof!LS!None, LearningProof!LS!Init
  <1>2. Lesson!Next => LearningProof!LS!Next
    BY ZenonT(60) DEF
      Lesson!None, Lesson!States, Lesson!Relations, Lesson!Operations, Lesson!Written, Lesson!Raised,
      Lesson!Opened, Lesson!First, Lesson!OpenSignal, Lesson!Context, Lesson!Locks, Lesson!SeenIsCurrent,
      Lesson!Receipted, Lesson!NoOpenSignal, Lesson!Moves, Lesson!Writes, Lesson!Resolves, Lesson!Create,
      Lesson!NewVersion, Lesson!Allowed, Lesson!Transition, Lesson!OpenReview, Lesson!Resolvable,
      Lesson!Resolved, Lesson!ResolveUnchanged, Lesson!ResolveRetired, Lesson!ResolveWithVersion,
      Lesson!Endpoint, Lesson!Send, Lesson!SourceReview, Lesson!SignalReview, Lesson!Opens, Lesson!Execute,
      Lesson!Flushes, Lesson!UpdateTitle, Lesson!ReplaceTags, Lesson!Undecided, Lesson!RejectSuggestion,
      Lesson!ConfirmSuggestion, Lesson!Answer, Lesson!Next,
      LearningProof!LS!None, LearningProof!LS!States, LearningProof!LS!Relations, LearningProof!LS!Operations,
      LearningProof!LS!Written, LearningProof!LS!Raised, LearningProof!LS!Opened, LearningProof!LS!First,
      LearningProof!LS!OpenSignal, LearningProof!LS!Context, LearningProof!LS!Locks,
      LearningProof!LS!SeenIsCurrent, LearningProof!LS!Receipted, LearningProof!LS!NoOpenSignal,
      LearningProof!LS!Moves, LearningProof!LS!Writes, LearningProof!LS!Resolves, LearningProof!LS!Create,
      LearningProof!LS!NewVersion, LearningProof!LS!Allowed, LearningProof!LS!Transition,
      LearningProof!LS!OpenReview, LearningProof!LS!Resolvable, LearningProof!LS!Resolved,
      LearningProof!LS!ResolveUnchanged, LearningProof!LS!ResolveRetired, LearningProof!LS!ResolveWithVersion,
      LearningProof!LS!Endpoint, LearningProof!LS!Send, LearningProof!LS!SourceReview,
      LearningProof!LS!SignalReview, LearningProof!LS!Opens, LearningProof!LS!Execute,
      LearningProof!LS!Flushes, LearningProof!LS!UpdateTitle, LearningProof!LS!ReplaceTags,
      LearningProof!LS!Undecided, LearningProof!LS!RejectSuggestion, LearningProof!LS!ConfirmSuggestion,
      LearningProof!LS!Answer, LearningProof!LS!Next
  <1> QED BY <1>1, <1>2

\* Its constants are as assumed.
LEMMA LessonMeets == LearningProof!LS!LessonsAssumption
  BY PartsAssumption DEF PartsAssumption,
     Lesson!LessonsAssumption, LearningProof!LS!LessonsAssumption, Lesson!IsFiniteSet,
     LearningProof!LS!IsFiniteSet, Lesson!Cardinality, LearningProof!LS!Cardinality

\* It keeps its invariant, and with it what the run checks.
LEMMA LessonHolds == Spec => [](part = "lesson" => Lesson!TypeOK /\ Lesson!ContradictionIsNotBypassed /\ Lesson!ReviewedAsSeen)
  <1> DEFINE Inv == part = "lesson" => LearningProof!LessonsInv
  <1>1. Init => Inv
    BY LessonIsProved, LessonMeets, LearningProof!LessonsInit DEF Init
  <1>2. ASSUME Inv, [Next]_allVars PROVE Inv'
    <2>1. part' = part /\ (part = "lesson" => [LearningProof!LS!Next]_(LearningProof!LS!lessonVars))
      BY LessonIsProved, <1>2 DEF Next, allVars, LearningProof!LS!lessonVars
    <2> QED BY <2>1, <1>2, LessonMeets, LearningProof!LessonsNext
  <1>3. ASSUME Inv, part = "lesson" PROVE Lesson!TypeOK /\ Lesson!ContradictionIsNotBypassed /\ Lesson!ReviewedAsSeen
    <2>1. LearningProof!LS!TypeOK /\ LearningProof!LS!ContradictionIsNotBypassed /\ LearningProof!LS!ReviewedAsSeen
      BY <1>3, LessonMeets, LearningProof!LessonsInvSuffices
    <2> QED BY <2>1 DEF
        Lesson!None, Lesson!States, Lesson!Relations, Lesson!Operations, Lesson!Contexts, Lesson!TypeOK,
        Lesson!Opened, Lesson!ContradictionIsNotBypassed, Lesson!Cardinality, Lesson!Written,
        Lesson!ReviewedAsSeen,
        LearningProof!LS!None, LearningProof!LS!States, LearningProof!LS!Relations,
        LearningProof!LS!Operations, LearningProof!LS!Contexts, LearningProof!LS!TypeOK,
        LearningProof!LS!Written, LearningProof!LS!Opened, LearningProof!LS!ContradictionIsNotBypassed,
        LearningProof!LS!ReviewedAsSeen, LearningProof!LS!Cardinality
  <1> QED BY <1>1, <1>2, <1>3, PTL DEF Spec

\* An open contradiction is resolved before anything else happens to a lesson.
THEOREM PartContradictionIsNotBypassed == Spec => []ContradictionIsNotBypassed
  BY LessonHolds, PTL DEF ContradictionIsNotBypassed

-----------------------------------------------------------------------------
(* The part "imports".                                                     *)

\* The part is what is proved of ImportJob.
LEMMA ImportsIsProved == (Imports!Init => LearningProof!IJ!Init) /\ (Imports!Next => LearningProof!IJ!Next)
  <1>1. Imports!Init => LearningProof!IJ!Init
    BY DEF
      Imports!None, Imports!NoRequest, Imports!NoFile, Imports!NoRow, Imports!Init,
      LearningProof!IJ!None, LearningProof!IJ!NoRequest, LearningProof!IJ!NoFile, LearningProof!IJ!NoRow,
      LearningProof!IJ!Init
  <1>2. Imports!Next => LearningProof!IJ!Next
    BY ZenonT(60) DEF
      Imports!None, Imports!NoRequest, Imports!FilesOf, Imports!Summary, Imports!StatusOf, Imports!Merged,
      Imports!Fresh, Imports!FreshFile, Imports!FreshRow, Imports!Locked, Imports!Sends, Imports!CreateJob,
      Imports!AddFiles, Imports!AnyCopy, Imports!FailedBefore, Imports!FindContent, Imports!ParseFile,
      Imports!FlushDuplicate, Imports!CommitDuplicate, Imports!ReadRow, Imports!FileAfter,
      Imports!LifecycleKept, Imports!FlushRow, Imports!JobAfter, Imports!CommitRow, Imports!PendingFiles,
      Imports!ReadConfirm, Imports!NotYetObserved, Imports!CommitConfirm, Imports!Leave, Imports!Next,
      Imports!Cardinality,
      LearningProof!IJ!None, LearningProof!IJ!NoRequest, LearningProof!IJ!FilesOf, LearningProof!IJ!Summary,
      LearningProof!IJ!StatusOf, LearningProof!IJ!Merged, LearningProof!IJ!Fresh, LearningProof!IJ!FreshFile,
      LearningProof!IJ!FreshRow, LearningProof!IJ!Locked, LearningProof!IJ!Sends, LearningProof!IJ!CreateJob,
      LearningProof!IJ!AddFiles, LearningProof!IJ!AnyCopy, LearningProof!IJ!FailedBefore,
      LearningProof!IJ!FindContent, LearningProof!IJ!ParseFile, LearningProof!IJ!FlushDuplicate,
      LearningProof!IJ!CommitDuplicate, LearningProof!IJ!ReadRow, LearningProof!IJ!FileAfter,
      LearningProof!IJ!LifecycleKept, LearningProof!IJ!FlushRow, LearningProof!IJ!JobAfter,
      LearningProof!IJ!CommitRow, LearningProof!IJ!PendingFiles, LearningProof!IJ!ReadConfirm,
      LearningProof!IJ!NotYetObserved, LearningProof!IJ!CommitConfirm, LearningProof!IJ!Leave,
      LearningProof!IJ!Next, LearningProof!IJ!Cardinality
  <1> QED BY <1>1, <1>2

\* Its constants are as assumed.
LEMMA ImportsMeets == LearningProof!IJ!ImportAssumption
  BY PartsAssumption DEF PartsAssumption,
     Imports!ImportAssumption, LearningProof!IJ!ImportAssumption, Imports!IsFiniteSet,
     LearningProof!IJ!IsFiniteSet

\* It keeps its invariant, and with it what the run checks.
LEMMA ImportsHolds == Spec => [](part = "imports" => Imports!TypeOK /\ Imports!AcceptedOnce)
  <1> DEFINE Inv == part = "imports" => LearningProof!ImportInv
  <1>1. Init => Inv
    BY ImportsIsProved, ImportsMeets, LearningProof!ImportInit DEF Init
  <1>2. ASSUME Inv, [Next]_allVars PROVE Inv'
    <2>1. part' = part /\ (part = "imports" => [LearningProof!IJ!Next]_(LearningProof!IJ!importVars))
      BY ImportsIsProved, <1>2 DEF Next, allVars, LearningProof!IJ!importVars
    <2> QED BY <2>1, <1>2, ImportsMeets, LearningProof!ImportNext
  <1>3. ASSUME Inv, part = "imports" PROVE Imports!TypeOK /\ Imports!AcceptedOnce
    <2>1. LearningProof!IJ!TypeOK /\ LearningProof!IJ!AcceptedOnce
      BY <1>3, ImportsMeets, LearningProof!ImportInvSuffices
    <2> QED BY <2>1 DEF
        Imports!None, Imports!JobStatuses, Imports!FileStatuses, Imports!Requests, Imports!TypeOK,
        Imports!AcceptedOnce,
        LearningProof!IJ!None, LearningProof!IJ!JobStatuses, LearningProof!IJ!FileStatuses,
        LearningProof!IJ!Requests, LearningProof!IJ!TypeOK, LearningProof!IJ!AcceptedOnce
  <1> QED BY <1>1, <1>2, <1>3, PTL DEF Spec

-----------------------------------------------------------------------------
(* The part "review".                                                      *)

\* The part is what is proved of TradeReview.
LEMMA ReviewIsProved == (Review!Init => LearningProof!TR!Init) /\ (Review!Next => LearningProof!TR!Next)
  <1>1. Review!Init => LearningProof!TR!Init
    BY DEF
      Review!Facts, Review!Unwritten, Review!NoJournal, Review!Idle, Review!Init,
      LearningProof!TR!Facts, LearningProof!TR!Unwritten, LearningProof!TR!NoJournal, LearningProof!TR!Idle,
      LearningProof!TR!Init
  <1>2. Review!Next => LearningProof!TR!Next
    BY ZenonT(60) DEF
      Review!Rows, Review!Unwritten, Review!Draft, Review!NoJournal, Review!Idle, Review!ReviewRequests,
      Review!JournalRequests, Review!Written, Review!Latest, Review!OpenDraft, Review!Complete, Review!Free,
      Review!TradeLock, Review!Sets, Review!Ends, Review!Correct, Review!Refresh, Review!Start,
      Review!CompleteObservation, Review!CreateDraft, Review!Read, Review!ReadFacts, Review!Replace,
      Review!Current, Review!Materialize, Review!Guarded, Review!Precedes, Review!Lock, Review!Inspect,
      Review!Record, Review!JournalDraft, Review!JournalLocks, Review!BeginJournal, Review!RequireSource,
      Review!Apply, Review!JournalEvidence, Review!GiveUp, Review!Next,
      LearningProof!TR!Rows, LearningProof!TR!Unwritten, LearningProof!TR!Draft, LearningProof!TR!NoJournal,
      LearningProof!TR!Idle, LearningProof!TR!ReviewRequests, LearningProof!TR!JournalRequests,
      LearningProof!TR!Written, LearningProof!TR!Latest, LearningProof!TR!OpenDraft,
      LearningProof!TR!Complete, LearningProof!TR!Free, LearningProof!TR!TradeLock, LearningProof!TR!Sets,
      LearningProof!TR!Ends, LearningProof!TR!Correct, LearningProof!TR!Refresh, LearningProof!TR!Start,
      LearningProof!TR!CompleteObservation, LearningProof!TR!CreateDraft, LearningProof!TR!Read,
      LearningProof!TR!ReadFacts, LearningProof!TR!Replace, LearningProof!TR!Current,
      LearningProof!TR!Materialize, LearningProof!TR!Guarded, LearningProof!TR!Precedes,
      LearningProof!TR!Lock, LearningProof!TR!Inspect, LearningProof!TR!Record, LearningProof!TR!JournalDraft,
      LearningProof!TR!JournalLocks, LearningProof!TR!BeginJournal, LearningProof!TR!RequireSource,
      LearningProof!TR!Apply, LearningProof!TR!JournalEvidence, LearningProof!TR!GiveUp, LearningProof!TR!Next
  <1> QED BY <1>1, <1>2

\* Its constants are as assumed.
LEMMA ReviewMeets == LearningProof!TR!ReviewAssumption
  BY PartsAssumption DEF PartsAssumption,
     Review!ReviewAssumption, LearningProof!TR!ReviewAssumption

\* It keeps its invariant, and with it what the run checks.
LEMMA ReviewHolds == Spec => [](part = "review" => Review!TypeOK /\ Review!SourceHoldsStill)
  <1> DEFINE Inv == part = "review" => LearningProof!ReviewInv
  <1>1. Init => Inv
    BY ReviewIsProved, ReviewMeets, LearningProof!ReviewInit DEF Init
  <1>2. ASSUME Inv, [Next]_allVars PROVE Inv'
    <2>1. part' = part /\ (part = "review" => [LearningProof!TR!Next]_(LearningProof!TR!reviewVars))
      BY ReviewIsProved, <1>2 DEF Next, allVars, LearningProof!TR!reviewVars
    <2> QED BY <2>1, <1>2, ReviewMeets, LearningProof!ReviewNext
  <1>3. ASSUME Inv, part = "review" PROVE Review!TypeOK /\ Review!SourceHoldsStill
    <2>1. LearningProof!TR!TypeOK /\ LearningProof!TR!SourceHoldsStill
      BY <1>3, ReviewMeets, LearningProof!ReviewInvSuffices
    <2> QED BY SMTT(30), <2>1 DEF
        Review!Rows, Review!Facts, Review!ReviewRequests, Review!JournalRequests, Review!TypeOK,
        Review!Written, Review!Latest, Review!Complete, Review!Current, Review!SourceHoldsStill,
        LearningProof!TR!Rows, LearningProof!TR!Facts, LearningProof!TR!ReviewRequests,
        LearningProof!TR!JournalRequests, LearningProof!TR!TypeOK, LearningProof!TR!Written,
        LearningProof!TR!Latest, LearningProof!TR!Complete, LearningProof!TR!Current,
        LearningProof!TR!SourceHoldsStill
  <1> QED BY <1>1, <1>2, <1>3, PTL DEF Spec

-----------------------------------------------------------------------------
(* The part "links".                                                       *)

\* The part is what is proved of TradeLinks.
LEMMA LinkedIsProved == (Linked!Init => LearningProof!TL!Init) /\ (Linked!Next => LearningProof!TL!Next)
  <1>1. Linked!Init => LearningProof!TL!Init
    BY DEF
      Linked!NoLink, Linked!NoReceipt, Linked!Idle, Linked!Init,
      LearningProof!TL!NoLink, LearningProof!TL!NoReceipt, LearningProof!TL!Idle, LearningProof!TL!Init
  <1>2. Linked!Next => LearningProof!TL!Next
    BY ZenonT(60) DEF
      Linked!NoLink, Linked!NoReceipt, Linked!Idle, Linked!Observation, Linked!Free, Linked!Holds,
      Linked!TradeLock, Linked!PairExists, Linked!Idling, Linked!Sets, Linked!Locks, Linked!Create,
      Linked!Change, Linked!Execute, Linked!LockObservation, Linked!Validate, Linked!LinksTo, Linked!Commit,
      Linked!Retract, Linked!CreateTrade, Linked!Linking, Linked!Makes, Linked!CreateLink, Linked!Succeed,
      Linked!GiveUp, Linked!Sell, Linked!Cancel, Linked!Next,
      LearningProof!TL!NoLink, LearningProof!TL!NoReceipt, LearningProof!TL!Idle,
      LearningProof!TL!Observation, LearningProof!TL!Free, LearningProof!TL!Holds, LearningProof!TL!TradeLock,
      LearningProof!TL!PairExists, LearningProof!TL!Idling, LearningProof!TL!Sets, LearningProof!TL!Locks,
      LearningProof!TL!Create, LearningProof!TL!Change, LearningProof!TL!Execute,
      LearningProof!TL!LockObservation, LearningProof!TL!Validate, LearningProof!TL!LinksTo,
      LearningProof!TL!Commit, LearningProof!TL!Retract, LearningProof!TL!CreateTrade,
      LearningProof!TL!Linking, LearningProof!TL!Makes, LearningProof!TL!CreateLink, LearningProof!TL!Succeed,
      LearningProof!TL!GiveUp, LearningProof!TL!Sell, LearningProof!TL!Cancel, LearningProof!TL!Next
  <1> QED BY <1>1, <1>2

\* Its constants are as assumed.
LEMMA LinkedMeets == LearningProof!TL!LinksAssumption
  BY PartsAssumption DEF PartsAssumption,
     Linked!LinksAssumption, LearningProof!TL!LinksAssumption

\* It keeps its invariant, and with it what the run checks.
LEMMA LinkedHolds == Spec => [](part = "links" => Linked!TypeOK /\ Linked!OneActivePair /\ Linked!LinkedTradeStands /\ Linked!ExecutedOnce)
  <1> DEFINE Inv == part = "links" => LearningProof!LinksInv
  <1>1. Init => Inv
    BY LinkedIsProved, LinkedMeets, LearningProof!LinksInit DEF Init
  <1>2. ASSUME Inv, [Next]_allVars PROVE Inv'
    <2>1. part' = part /\ (part = "links" => [LearningProof!TL!Next]_(LearningProof!TL!linkVars))
      BY LinkedIsProved, <1>2 DEF Next, allVars, LearningProof!TL!linkVars
    <2> QED BY <2>1, <1>2, LinkedMeets, LearningProof!LinksNext
  <1>3. ASSUME Inv, part = "links" PROVE Linked!TypeOK /\ Linked!OneActivePair /\ Linked!LinkedTradeStands /\ Linked!ExecutedOnce
    <2>1. LearningProof!TL!TypeOK /\ LearningProof!TL!OneActivePair /\ LearningProof!TL!LinkedTradeStands /\ LearningProof!TL!ExecutedOnce
      BY <1>3, LinkedMeets, LearningProof!LinksInvSuffices
    <2> QED BY <2>1 DEF
        Linked!Commands, Linked!Rows, Linked!TypeOK, Linked!OneActivePair, Linked!LinkedTradeStands,
        Linked!ExecutedOnce,
        LearningProof!TL!Commands, LearningProof!TL!Rows, LearningProof!TL!TypeOK,
        LearningProof!TL!OneActivePair, LearningProof!TL!LinkedTradeStands, LearningProof!TL!ExecutedOnce
  <1> QED BY <1>1, <1>2, <1>3, PTL DEF Spec

-----------------------------------------------------------------------------
(* The part "journal".                                                     *)

\* The part is what is proved of JournalPage.
LEMMA JournalIsProved == (Journal!Init => LearningProof!JP!Init) /\ (Journal!Next => LearningProof!JP!Next)
  <1>1. Journal!Init => LearningProof!JP!Init
    BY DEF
      Journal!Version, Journal!NoVersion, Journal!NoCommand, Journal!NoEditor, Journal!NoConfirmation,
      Journal!NoAttempt, Journal!NoCall, Journal!Unread, Journal!NoRead, Journal!Untyped, Journal!Blank,
      Journal!Asked, Journal!Init,
      LearningProof!JP!Version, LearningProof!JP!NoVersion, LearningProof!JP!NoCommand,
      LearningProof!JP!NoEditor, LearningProof!JP!NoConfirmation, LearningProof!JP!NoAttempt,
      LearningProof!JP!NoCall, LearningProof!JP!Unread, LearningProof!JP!NoRead, LearningProof!JP!Untyped,
      LearningProof!JP!Blank, LearningProof!JP!Asked, LearningProof!JP!Init
  <1>2. Journal!Next => LearningProof!JP!Next
    BY ZenonT(60) DEF
      Journal!Version, Journal!NoVersion, Journal!Command, Journal!NoCommand, Journal!NoEditor,
      Journal!NoConfirmation, Journal!NoAttempt, Journal!NoCall, Journal!Unread, Journal!NoRead,
      Journal!Untyped, Journal!History, Journal!Blank, Journal!Asked, Journal!Latest, Journal!VersionOf,
      Journal!Refers, Journal!Outdated, Journal!Applicable, Journal!Apply, Journal!ReceiptFor, Journal!Execute, Journal!Serve,
      Journal!ServeLost, Journal!OtherTab, Journal!SourceChanges, Journal!ServeRead, Journal!Shown,
      Journal!Entry, Journal!ShownLatest, Journal!Current, Journal!Dirty, Journal!Conflict, Journal!CanAct,
      Journal!Confirmable, Journal!Offered, Journal!Begin, Journal!Load, Journal!Bump, Journal!Edit,
      Journal!Type, Journal!CancelEdit, Journal!OpenConfirmation, Journal!CancelConfirmation, Journal!Perform,
      Journal!Save, Journal!Confirm, Journal!Retry, Journal!Receipt, Journal!Refused, Journal!Orphan,
      Journal!NoAnswer, Journal!Result, Journal!Settled, Journal!Verified, Journal!Saves, Journal!EditorAfter,
      Journal!OpensDraft, Journal!SelectedAfter, Journal!Disposes, Journal!Arrive, Journal!ReadFails,
      Journal!Leave, Journal!Next,
      LearningProof!JP!Version, LearningProof!JP!NoVersion, LearningProof!JP!Command,
      LearningProof!JP!NoCommand, LearningProof!JP!NoEditor, LearningProof!JP!NoConfirmation,
      LearningProof!JP!NoAttempt, LearningProof!JP!NoCall, LearningProof!JP!Unread, LearningProof!JP!NoRead,
      LearningProof!JP!Untyped, LearningProof!JP!History, LearningProof!JP!Blank, LearningProof!JP!Asked,
      LearningProof!JP!Latest, LearningProof!JP!VersionOf, LearningProof!JP!Refers, LearningProof!JP!Outdated,
      LearningProof!JP!Applicable, LearningProof!JP!Apply, LearningProof!JP!ReceiptFor,
      LearningProof!JP!Execute, LearningProof!JP!Serve, LearningProof!JP!ServeLost, LearningProof!JP!OtherTab,
      LearningProof!JP!SourceChanges, LearningProof!JP!ServeRead, LearningProof!JP!Shown,
      LearningProof!JP!Entry, LearningProof!JP!ShownLatest, LearningProof!JP!Current, LearningProof!JP!Dirty,
      LearningProof!JP!Conflict, LearningProof!JP!CanAct, LearningProof!JP!Confirmable,
      LearningProof!JP!Offered, LearningProof!JP!Begin, LearningProof!JP!Load, LearningProof!JP!Bump,
      LearningProof!JP!Edit, LearningProof!JP!Type, LearningProof!JP!CancelEdit,
      LearningProof!JP!OpenConfirmation, LearningProof!JP!CancelConfirmation, LearningProof!JP!Perform,
      LearningProof!JP!Save, LearningProof!JP!Confirm, LearningProof!JP!Retry, LearningProof!JP!Receipt,
      LearningProof!JP!Refused, LearningProof!JP!Orphan, LearningProof!JP!NoAnswer, LearningProof!JP!Result,
      LearningProof!JP!Settled, LearningProof!JP!Verified, LearningProof!JP!Saves,
      LearningProof!JP!EditorAfter, LearningProof!JP!OpensDraft, LearningProof!JP!SelectedAfter,
      LearningProof!JP!Disposes, LearningProof!JP!Arrive, LearningProof!JP!ReadFails, LearningProof!JP!Leave,
      LearningProof!JP!Next
  <1> QED BY <1>1, <1>2

\* Its constants are as assumed.
LEMMA JournalMeets == LearningProof!JP!JournalAssumption
  BY PartsAssumption DEF PartsAssumption,
     Journal!JournalAssumption, LearningProof!JP!JournalAssumption

\* It keeps its invariant, and with it what the run checks.
LEMMA JournalHolds == Spec => [](part = "journal" => Journal!TypeOK /\ Journal!RefusedIsNotApplied /\ Journal!FoundAsSeen /\ Journal!TypedIsKept /\ Journal!ResultIsShown)
  <1> DEFINE Inv == part = "journal" => LearningProof!JournalInv
  <1>1. Init => Inv
    BY JournalIsProved, JournalMeets, LearningProof!JournalStarts DEF Init
  <1>2. ASSUME Inv, [Next]_allVars PROVE Inv'
    <2>1. part' = part /\ (part = "journal" => [LearningProof!JP!Next]_(LearningProof!JP!journalVars))
      BY JournalIsProved, <1>2 DEF Next, allVars, LearningProof!JP!journalVars
    <2> QED BY <2>1, <1>2, JournalMeets, LearningProof!JournalKeeps
  <1>3. ASSUME Inv, part = "journal" PROVE Journal!TypeOK /\ Journal!RefusedIsNotApplied /\ Journal!FoundAsSeen /\ Journal!TypedIsKept /\ Journal!ResultIsShown
    <2>1. LearningProof!JP!TypeOK /\ LearningProof!JP!RefusedIsNotApplied /\ LearningProof!JP!FoundAsSeen /\ LearningProof!JP!TypedIsKept /\ LearningProof!JP!ResultIsShown
      BY <1>3, JournalMeets, LearningProof!JournalSays
    <2> QED BY <2>1 DEF
        Journal!TypeOK, Journal!RefusedIsNotApplied, Journal!FoundAsSeen, Journal!Version, Journal!NoVersion,
        Journal!NoEditor, Journal!Untyped, Journal!TypedIsKept, Journal!NoCommand, Journal!NoAttempt,
        Journal!Shown, Journal!Entry, Journal!Conflict, Journal!CanAct, Journal!ResultIsShown,
        LearningProof!JP!Version, LearningProof!JP!NoVersion, LearningProof!JP!NoCommand,
        LearningProof!JP!NoEditor, LearningProof!JP!NoAttempt, LearningProof!JP!Untyped,
        LearningProof!JP!TypeOK, LearningProof!JP!Shown, LearningProof!JP!Entry, LearningProof!JP!Conflict,
        LearningProof!JP!CanAct, LearningProof!JP!RefusedIsNotApplied, LearningProof!JP!FoundAsSeen,
        LearningProof!JP!TypedIsKept, LearningProof!JP!ResultIsShown
  <1> QED BY <1>1, <1>2, <1>3, PTL DEF Spec

-----------------------------------------------------------------------------
(* The part "risk".                                                        *)

\* The part is what is proved of RiskAlerts.
LEMMA RiskIsProved == (Risk!Init => LearningProof!RA!Init) /\ (Risk!Next => LearningProof!RA!Next)
  <1>1. Risk!Init => LearningProof!RA!Init
    BY DEF
      Risk!Rules, Risk!Keys, Risk!Raised, Risk!Idle, Risk!Init,
      LearningProof!RA!Rules, LearningProof!RA!Keys, LearningProof!RA!Raised, LearningProof!RA!Idle,
      LearningProof!RA!Init
  <1>2. /\ Risk!Last = LearningProof!RA!Last /\ Risk!ViewBasis = LearningProof!RA!ViewBasis /\ Risk!Rules = LearningProof!RA!Rules
        /\ Risk!Keys = LearningProof!RA!Keys /\ Risk!Raised = LearningProof!RA!Raised /\ Risk!Uninitialized = LearningProof!RA!Uninitialized
    BY DEF
       Risk!Last, Risk!ViewBasis, Risk!Rules, Risk!Keys, Risk!Raised, Risk!Uninitialized,
       LearningProof!RA!Last, LearningProof!RA!ViewBasis, LearningProof!RA!Rules, LearningProof!RA!Keys,
       LearningProof!RA!Raised, LearningProof!RA!Uninitialized
  <1>3. Risk!Fingerprint = LearningProof!RA!Fingerprint /\ Risk!Previous = LearningProof!RA!Previous
    <2>1. Risk!Fingerprint = LearningProof!RA!Fingerprint
      BY <1>2, Zenon DEF Risk!Fingerprint, LearningProof!RA!Fingerprint
    <2>2. Risk!Previous = LearningProof!RA!Previous
      BY Zenon DEF
       Risk!Previous, Risk!Last, Risk!ViewBasis, Risk!Uninitialized, LearningProof!RA!Previous,
       LearningProof!RA!Last, LearningProof!RA!ViewBasis, LearningProof!RA!Uninitialized
    <2> QED BY <2>1, <2>2
  <1>4. ASSUME NEW x
        PROVE  /\ Risk!KeyOf(x) = LearningProof!RA!KeyOf(x) /\ Risk!Crossing(x) = LearningProof!RA!Crossing(x)
               /\ Risk!Volatile(x) <=> LearningProof!RA!Volatile(x)
    BY <1>2, Zenon DEF
       Risk!KeyOf, Risk!Crossing, Risk!Volatile, LearningProof!RA!KeyOf, LearningProof!RA!Crossing,
       LearningProof!RA!Volatile
  <1>5. ASSUME NEW x PROVE Risk!Assessed(x) = LearningProof!RA!Assessed(x)
    BY <1>2, <1>4, Zenon DEF
       Risk!Assessed, LearningProof!RA!Assessed
  <1>6. ASSUME NEW x, Risk!Process(x) PROVE LearningProof!RA!Process(x)
    BY <1>6, ZenonT(60) DEF
       Risk!Process, Risk!Entered, Risk!Exited, Risk!Number, Risk!Superseded, Risk!KeyOf, Risk!ViewBasis,
       Risk!Last, Risk!Rules, Risk!Keys, Risk!Raised, Risk!Cardinality, LearningProof!RA!Process,
       LearningProof!RA!Entered, LearningProof!RA!Exited, LearningProof!RA!Number,
       LearningProof!RA!Superseded, LearningProof!RA!KeyOf, LearningProof!RA!ViewBasis, LearningProof!RA!Last,
       LearningProof!RA!Rules, LearningProof!RA!Keys, LearningProof!RA!Raised, LearningProof!RA!Cardinality
  <1>7. ASSUME NEW older, Risk!Evaluate(older) PROVE LearningProof!RA!Evaluate(older)
    BY <1>2, <1>3, <1>5, <1>6, <1>7, Zenon DEF
       Risk!Evaluate, LearningProof!RA!Evaluate
  <1>8. Risk!Replayed = LearningProof!RA!Replayed
    BY <1>2, <1>4, Zenon DEF
       Risk!Replayed, LearningProof!RA!Replayed
  <1>9. Risk!Next => LearningProof!RA!Next
    BY <1>2, <1>3, <1>7, <1>8, ZenonT(60) DEF
       Risk!Idle, Risk!Change, Risk!NewSession, Risk!Rebase, Risk!Qualify, Risk!Sell, Risk!Reopen,
       Risk!CancelTrade, Risk!EvaluateByHand, Risk!Configure, Risk!List, Risk!EvaluateInSweep,
       Risk!NothingFound, Risk!Notify, Risk!EndOfSweep, Risk!Crash, Risk!Step, Risk!Next,
       LearningProof!RA!Idle, LearningProof!RA!Change, LearningProof!RA!NewSession, LearningProof!RA!Rebase,
       LearningProof!RA!Qualify, LearningProof!RA!Sell, LearningProof!RA!Reopen, LearningProof!RA!CancelTrade,
       LearningProof!RA!EvaluateByHand, LearningProof!RA!Configure, LearningProof!RA!List,
       LearningProof!RA!EvaluateInSweep, LearningProof!RA!NothingFound, LearningProof!RA!Notify,
       LearningProof!RA!EndOfSweep, LearningProof!RA!Crash, LearningProof!RA!Step, LearningProof!RA!Next
  <1> QED BY <1>1, <1>9

\* Its constants are as assumed.
LEMMA RiskMeets == LearningProof!RA!RiskAssumption
  BY PartsAssumption DEF PartsAssumption,
     Risk!RiskAssumption, LearningProof!RA!RiskAssumption

\* It keeps its invariant, and with it what the run checks.
LEMMA RiskHolds == Spec => [](part = "risk" => Risk!TypeOK /\ Risk!OpenWarningsAgree)
  <1> DEFINE Inv == part = "risk" => LearningProof!RiskInv
  <1>1. Init => Inv
    BY RiskIsProved, RiskMeets, LearningProof!RiskInit DEF Init
  <1>2. ASSUME Inv, [Next]_allVars PROVE Inv'
    <2>1. part' = part /\ (part = "risk" => [LearningProof!RA!Next]_(LearningProof!RA!riskVars))
      BY RiskIsProved, <1>2 DEF Next, allVars, LearningProof!RA!riskVars
    <2> QED BY <2>1, <1>2, RiskMeets, LearningProof!RiskNext
  <1>3. ASSUME Inv, part = "risk" PROVE Risk!TypeOK /\ Risk!OpenWarningsAgree
    <2>1. LearningProof!RA!TypeOK /\ LearningProof!RA!OpenWarningsAgree
      BY <1>3, RiskMeets, LearningProof!RiskInvSuffices
    <2> QED BY <2>1 DEF
        Risk!Rules, Risk!Keys, Risk!Raised, Risk!States, Risk!Snapshots, Risk!Markets, Risk!TypeOK,
        Risk!Cardinality, Risk!OpenWarningsAgree,
        LearningProof!RA!Rules, LearningProof!RA!Keys, LearningProof!RA!Raised, LearningProof!RA!States,
        LearningProof!RA!Snapshots, LearningProof!RA!Markets, LearningProof!RA!TypeOK,
        LearningProof!RA!OpenWarningsAgree, LearningProof!RA!Cardinality
  <1> QED BY <1>1, <1>2, <1>3, PTL DEF Spec

-----------------------------------------------------------------------------
(* The part "gate".                                                        *)

GateProof == INSTANCE MarketProofs WITH
    Callers <- Two, Requests <- {"search"}, Budget <- 3, Reserve <- 33, Cost <- 1, Rate <- 1, Burst
    <- 2, MaxAttempts <- 1, Timeout <- 0, Ttl <- 1, DayLength <- 2, LastTick <- 2, MaxForeign <- 1,
    MaxMissing <- 3, Readers <- Two, LastIdentity <- 2, SlotLength <- 3, Clients <- Two, Identifiers
    <- Isins, FirstIsin <- "x", Changes <- {"identifiers", "status"}, LastVersion <- 3, LastRevision
    <- 0, Positions <- First, MaxDecisions <- 3, Editors <- Two, Listings <- {"l1", "l2"},
    LastRowVersion <- 3, MaxEvents <- 7, Operations <- {"add", "promote", "retire", "verify"},
    Analysts <- Two, Versions <- Three, Outcomes <- {"COMPLETED", "FAILED"}, LastPrices <- 2, Admins
    <- Two, Codes <- {"EUR", "JPY"}, Document <- [first |-> [version |-> 1, published |-> 1, units
    |-> ("EUR" :> 2)], later |-> [version |-> 2, published |-> 2, units |-> ("EUR" :> 3 @@ "JPY" :>
    0)], other |-> [version |-> 1, published |-> 2, units |-> ("JPY" :> 0)]], Seeded <- ("EUR" :>
    2), LastEvent <- 3, Moments <- Both, Denominations <- {"EUR", "USD"}, Documents <- {[currency
    |-> "EUR", venue |-> "UNKNOWN"], [currency |-> "UNKNOWN", venue |-> "V"]}, Sheets <- {[from |->
    1, to |-> 3, entries |-> ("V" :> "USD"), complete |-> TRUE]}, MaxRows <- 4, Captures <-
    {"sale"}, MaxWrites <- 3, MaxSubmits <- 2, MaxInputs <- 1, MaxTyped <- 0, OtherWrites <- {}, now
    <- v1, usage <- v2, bucket <- v3, cached <- v4, caller <- v5, report <- v6, counter <- v7,
    foreign <- v8, bill <- v9, posted <- v10, assigned <- v1, active <- v2, native <- v3, listing <-
    v4, model <- v5, identity <- v2, cache <- v3, reader <- v4, quote <- v5, replaced <- v6, samples
    <- v7, warrant <- v1, terms <- v2, audits <- v3, valuations <- v4, edit <- v5, listed <- v6,
    mapping <- v7, affected <- v8, seeker <- v9, selections <- v10, row <- v1, told <- v2, used <-
    v3, request <- v4, prices <- v1, run <- v2, lifecycle <- v3, analyst <- v4, current <- v1,
    releases <- v2, currency <- v3, log <- v4, lock <- v5, admin <- v6, executions <- v1,
    confirmations <- v2, sources <- v3, withdrawn <- v4, desk <- v5, logbook <- v1, lost <- v2, page
    <- v3, panel <- v4, tasks <- v5, reads <- v6, capture <- v7, submits <- v8, heard <- v9

\* The part is what is proved of ProviderGate.
LEMMA GateIsProved == (Gate!Init => GateProof!PG!Init) /\ (Gate!Next => GateProof!PG!Next)
  <1>1. Gate!Init => GateProof!PG!Init
    BY DEF
      Gate!Ticks, Gate!Idle, Gate!Init,
      GateProof!PG!Ticks, GateProof!PG!Idle, GateProof!PG!Init
  <1>2. Gate!Next => GateProof!PG!Next
    BY ZenonT(60) DEF
      Gate!Today, Gate!EffectiveBudget, Gate!Least, Gate!Largest, Gate!Idle, Gate!Tick, Gate!Counted,
      Gate!Foreign, Gate!Begin, Gate!End, Gate!Search, Gate!Load, Gate!UsedToday, Gate!Charge, Gate!Refilled,
      Gate!Acquire, Gate!Answer, Gate!Retry, Gate!Raise, Gate!AskForUsage, Gate!SameDay,
      Gate!SynchronizeUsage, Gate!Next,
      GateProof!PG!Today, GateProof!PG!EffectiveBudget, GateProof!PG!Least, GateProof!PG!Largest,
      GateProof!PG!Idle, GateProof!PG!Tick, GateProof!PG!Counted, GateProof!PG!Foreign, GateProof!PG!Begin,
      GateProof!PG!End, GateProof!PG!Search, GateProof!PG!Load, GateProof!PG!UsedToday, GateProof!PG!Charge,
      GateProof!PG!Refilled, GateProof!PG!Acquire, GateProof!PG!Answer, GateProof!PG!Retry,
      GateProof!PG!Raise, GateProof!PG!AskForUsage, GateProof!PG!SameDay, GateProof!PG!SynchronizeUsage,
      GateProof!PG!Next
  <1> QED BY <1>1, <1>2

\* Its constants are as assumed.
LEMMA GateMeets == GateProof!PG!GateAssumption
  BY PartsAssumption DEF PartsAssumption,
     Gate!GateAssumption, GateProof!PG!GateAssumption, Gate!IsFiniteSet, GateProof!PG!IsFiniteSet

\* It keeps its invariant, and with it what the run checks.
LEMMA GateHolds == Spec => [](part = "gate" => Gate!TypeOK /\ Gate!WithinLimits)
  <1> DEFINE Inv == part = "gate" => GateProof!GateInv
  <1>1. Init => Inv
    BY GateIsProved, GateMeets, GateProof!GateInit DEF Init
  <1>2. ASSUME Inv, [Next]_allVars PROVE Inv'
    <2>1. part' = part /\ (part = "gate" => [GateProof!PG!Next]_(GateProof!PG!gateVars))
      BY GateIsProved, <1>2 DEF Next, allVars, GateProof!PG!gateVars
    <2> QED BY <2>1, <1>2, GateMeets, GateProof!GateNext
  <1>3. ASSUME Inv, part = "gate" PROVE Gate!TypeOK /\ Gate!WithinLimits
    <2>1. GateProof!PG!TypeOK /\ GateProof!PG!WithinLimits
      BY <1>3, GateMeets, GateProof!GateInvSuffices
    <2> QED BY <2>1 DEF
        Gate!Ticks, Gate!Counters, Gate!TypeOK, Gate!Today, Gate!EffectiveBudget, Gate!UsedToday,
        Gate!SentBefore, Gate!RateIsKept, Gate!BudgetIsKept, Gate!WithinLimits, Gate!Cardinality,
        GateProof!PG!Ticks, GateProof!PG!Today, GateProof!PG!EffectiveBudget, GateProof!PG!Counters,
        GateProof!PG!TypeOK, GateProof!PG!UsedToday, GateProof!PG!SentBefore, GateProof!PG!RateIsKept,
        GateProof!PG!BudgetIsKept, GateProof!PG!WithinLimits, GateProof!PG!Cardinality
  <1> QED BY <1>1, <1>2, <1>3, PTL DEF Spec

-----------------------------------------------------------------------------
(* The part "candidates".                                                  *)

\* The part is what is proved of CandidateSources.
LEMMA CandidatesIsProved == (Candidates!Init => GateProof!CS!Init) /\ (Candidates!Next => GateProof!CS!Next)
  <1>1. Candidates!Init => GateProof!CS!Init
    BY DEF
      Candidates!References, Candidates!Kinds, Candidates!Switched, Candidates!Owners, Candidates!Parts,
      Candidates!Init,
      GateProof!CS!References, GateProof!CS!Kinds, GateProof!CS!Switched, GateProof!CS!Owners,
      GateProof!CS!Parts, GateProof!CS!Init
  <1>2. Candidates!Next => GateProof!CS!Next
    BY ZenonT(60) DEF
      Candidates!References, Candidates!Kinds, Candidates!Switched, Candidates!Owners, Candidates!Parts,
      Candidates!Missing, Candidates!Bounded, Candidates!Assign, Candidates!Lapse, Candidates!SetActive,
      Candidates!Materialize, Candidates!Have, Candidates!Lack, Candidates!Activate, Candidates!Next,
      Candidates!Cardinality,
      GateProof!CS!References, GateProof!CS!Kinds, GateProof!CS!Switched, GateProof!CS!Owners,
      GateProof!CS!Parts, GateProof!CS!Missing, GateProof!CS!Bounded, GateProof!CS!Assign, GateProof!CS!Lapse,
      GateProof!CS!SetActive, GateProof!CS!Materialize, GateProof!CS!Have, GateProof!CS!Lack,
      GateProof!CS!Activate, GateProof!CS!Next, GateProof!CS!Cardinality
  <1> QED BY <1>1, <1>2

\* It keeps its invariant, and with it what the run checks.
LEMMA CandidatesHolds == Spec => [](part = "candidates" => Candidates!TypeOK /\ Candidates!ReadyIsEvaluable)
  <1> DEFINE Inv == part = "candidates" => GateProof!CS!TypeOK
  <1>1. Init => Inv
    BY CandidatesIsProved, GateProof!SourcesInit DEF Init
  <1>2. ASSUME Inv, [Next]_allVars PROVE Inv'
    <2>1. part' = part /\ (part = "candidates" => [GateProof!CS!Next]_(GateProof!CS!sourceVars))
      BY CandidatesIsProved, <1>2 DEF Next, allVars, GateProof!CS!sourceVars
    <2> QED BY <2>1, <1>2, GateProof!SourcesNext
  <1>3. ASSUME Inv, part = "candidates" PROVE Candidates!TypeOK /\ Candidates!ReadyIsEvaluable
    <2>1. GateProof!CS!TypeOK /\ GateProof!CS!ReadyIsEvaluable
      BY <1>3, GateProof!ReadySuffices
    <2> QED BY <2>1 DEF
        Candidates!References, Candidates!Kinds, Candidates!Switched, Candidates!Owners, Candidates!Parts,
        Candidates!TypeOK, Candidates!OneValid, Candidates!NativeSource, Candidates!SourceForReference,
        Candidates!Resolved, Candidates!Evaluated, Candidates!OneActive, Candidates!BenchmarkKnown,
        Candidates!SectorKnown, Candidates!SectorReferenceKnown, Candidates!ListingPipeline,
        Candidates!ReferencePipeline, Candidates!UnderlyingPipeline, Candidates!RuntimeStep,
        Candidates!Blocked, Candidates!ReadyIsEvaluable, Candidates!Cardinality,
        GateProof!CS!References, GateProof!CS!Kinds, GateProof!CS!Switched, GateProof!CS!Owners,
        GateProof!CS!Parts, GateProof!CS!TypeOK, GateProof!CS!OneValid, GateProof!CS!NativeSource,
        GateProof!CS!SourceForReference, GateProof!CS!Resolved, GateProof!CS!Evaluated,
        GateProof!CS!OneActive, GateProof!CS!BenchmarkKnown, GateProof!CS!SectorKnown,
        GateProof!CS!SectorReferenceKnown, GateProof!CS!ListingPipeline, GateProof!CS!ReferencePipeline,
        GateProof!CS!UnderlyingPipeline, GateProof!CS!RuntimeStep, GateProof!CS!Blocked,
        GateProof!CS!ReadyIsEvaluable, GateProof!CS!Cardinality
  <1> QED BY <1>1, <1>2, <1>3, PTL DEF Spec

\* A review that is saved, a link that is active and a candidate that is ready find the
\* rows that they were made of as they were made for.
THEOREM PartsSourceHoldsStill == Spec => []SourceHoldsStill
  BY ReviewHolds, LinkedHolds, CandidatesHolds, PTL DEF SourceHoldsStill

-----------------------------------------------------------------------------
(* The part "quotes".                                                      *)

\* The part is what is proved of RetainedQuotes.
LEMMA QuotesIsProved == (Quotes!Init => GateProof!RQ!Init) /\ (Quotes!Next => GateProof!RQ!Next)
  <1>1. Quotes!Init => GateProof!RQ!Init
    BY DEF
      Quotes!Slot, Quotes!Slots, Quotes!NoQuote, Quotes!NoRow, Quotes!Idle, Quotes!Init,
      GateProof!RQ!Slot, GateProof!RQ!Slots, GateProof!RQ!NoQuote, GateProof!RQ!NoRow, GateProof!RQ!Idle, GateProof!RQ!Init
  <1>2. Quotes!Next => GateProof!RQ!Next
    BY ZenonT(60) DEF
      Quotes!Slot, Quotes!NoQuote, Quotes!NoRow, Quotes!Idle, Quotes!Previous, Quotes!Tick, Quotes!Edit, Quotes!Ask,
      Quotes!Hears, Quotes!AnswerNew, Quotes!AnswerCached, Quotes!AnswerFails, Quotes!Unchanged,
      Quotes!Unlocked, Quotes!Lock, Quotes!Valid, Quotes!Older, Quotes!Usable, Quotes!Sampled,
      Quotes!Kept, Quotes!Retain,
      Quotes!Next,
      GateProof!RQ!Slot, GateProof!RQ!NoQuote, GateProof!RQ!NoRow, GateProof!RQ!Idle, GateProof!RQ!Previous, GateProof!RQ!Tick,
      GateProof!RQ!Edit, GateProof!RQ!Ask, GateProof!RQ!Hears, GateProof!RQ!AnswerNew,
      GateProof!RQ!AnswerCached, GateProof!RQ!AnswerFails, GateProof!RQ!Unchanged, GateProof!RQ!Unlocked,
      GateProof!RQ!Lock, GateProof!RQ!Valid, GateProof!RQ!Older, GateProof!RQ!Usable, GateProof!RQ!Sampled,
      GateProof!RQ!Kept, GateProof!RQ!Retain, GateProof!RQ!Next
  <1> QED BY <1>1, <1>2

\* Its constants are as assumed.
LEMMA QuotesMeets == GateProof!RQ!QuotesAssumption
  BY PartsAssumption DEF PartsAssumption,
     Quotes!QuotesAssumption, GateProof!RQ!QuotesAssumption

\* It keeps its invariant, and with it what the run checks.
LEMMA QuotesHolds == Spec => [](part = "quotes" => Quotes!TypeOK /\ Quotes!QuotesMoveOn /\ Quotes!SampledOnce)
  <1> DEFINE Inv == part = "quotes" => GateProof!QuotesInv
  <1>1. Init => Inv
    BY QuotesIsProved, QuotesMeets, GateProof!QuotesInit DEF Init
  <1>2. ASSUME Inv, [Next]_allVars PROVE Inv'
    <2>1. part' = part /\ (part = "quotes" => [GateProof!RQ!Next]_(GateProof!RQ!quoteVars))
      BY QuotesIsProved, <1>2 DEF Next, allVars, GateProof!RQ!quoteVars
    <2> QED BY <2>1, <1>2, QuotesMeets, GateProof!QuotesNext
  <1>3. ASSUME Inv, part = "quotes" PROVE Quotes!TypeOK /\ Quotes!QuotesMoveOn /\ Quotes!SampledOnce
    <2>1. GateProof!RQ!TypeOK /\ GateProof!RQ!QuotesMoveOn /\ GateProof!RQ!SampledOnce
      BY <1>3, QuotesMeets, GateProof!QuotesInvSuffices
    <2> QED BY <2>1 DEF
        Quotes!Slot, Quotes!Slots, Quotes!TypeOK, Quotes!NoQuote, Quotes!NoRow, Quotes!Older, Quotes!QuotesMoveOn,
        Quotes!SampledOnce,
        GateProof!RQ!Slot, GateProof!RQ!Slots, GateProof!RQ!NoQuote, GateProof!RQ!NoRow, GateProof!RQ!TypeOK, GateProof!RQ!Older,
        GateProof!RQ!QuotesMoveOn, GateProof!RQ!SampledOnce
  <1> QED BY <1>1, <1>2, <1>3, PTL DEF Spec

\* The versions of a model are one line, and a retained quote only moves on, whatever two
\* governors or readers do at once.
THEOREM PartsVersionsAreOneLine == Spec => []VersionsAreOneLine
  BY ModelsHolds, QuotesHolds, PTL DEF VersionsAreOneLine

-----------------------------------------------------------------------------
(* The part "routes".                                                      *)

\* The part is what is proved of QuoteRoutes.
LEMMA RoutesIsProved == (Routes!RoutesInit => GateProof!QR!RoutesInit) /\ (Routes!RoutesNext => GateProof!QR!RoutesNext)
  <1>1. Routes!RoutesInit => GateProof!QR!RoutesInit
    BY DEF
      Routes!Idle, Routes!Init, Routes!Providers, Routes!NoRoute, Routes!Waiting, Routes!RoutesInit,
      GateProof!QR!Idle, GateProof!QR!Init, GateProof!QR!Providers, GateProof!QR!NoRoute,
      GateProof!QR!Waiting, GateProof!QR!RoutesInit
  <1>2. Routes!RoutesNext => GateProof!QR!RoutesNext
    BY ZenonT(60) DEF
      Routes!warrantVars, Routes!Idle, Routes!Exists, Routes!Unlocked, Routes!Ends, Routes!Reads,
      Routes!BeginEdit, Routes!Unchanged, Routes!Applies, Routes!Commits, Routes!Refused, Routes!Deletes,
      Routes!Providers, Routes!NoRoute, Routes!Waiting, Routes!Free, Routes!Edit, Routes!CommitEdit,
      Routes!RefuseEdit, Routes!DeactivateListing, Routes!Current, Routes!Eligible, Routes!Inspect,
      Routes!Another, Routes!SameAsBefore, Routes!Route, Routes!CreateRoute, Routes!FindNothing,
      Routes!Configure, Routes!Configured, Routes!Verified, Routes!Candidates, Routes!Nowhere, Routes!Policy,
      Routes!Chosen, Routes!Decision, Routes!Selected, Routes!Looks, Routes!Buy, Routes!Reconcile,
      Routes!Appends, Routes!SelectOnce, Routes!Kept, Routes!Decide, Routes!Delete, Routes!RoutesNext,
      Routes!Cardinality,
      GateProof!QR!warrantVars, GateProof!QR!Idle, GateProof!QR!Exists, GateProof!QR!Unlocked,
      GateProof!QR!Ends, GateProof!QR!Reads, GateProof!QR!BeginEdit, GateProof!QR!Unchanged,
      GateProof!QR!Applies, GateProof!QR!Commits, GateProof!QR!Refused, GateProof!QR!Deletes,
      GateProof!QR!Providers, GateProof!QR!NoRoute, GateProof!QR!Waiting, GateProof!QR!Free,
      GateProof!QR!Edit, GateProof!QR!CommitEdit, GateProof!QR!RefuseEdit, GateProof!QR!DeactivateListing,
      GateProof!QR!Current, GateProof!QR!Eligible, GateProof!QR!Inspect, GateProof!QR!Another,
      GateProof!QR!SameAsBefore, GateProof!QR!Route, GateProof!QR!CreateRoute, GateProof!QR!FindNothing,
      GateProof!QR!Configure, GateProof!QR!Configured, GateProof!QR!Verified, GateProof!QR!Candidates,
      GateProof!QR!Nowhere, GateProof!QR!Policy, GateProof!QR!Chosen, GateProof!QR!Decision,
      GateProof!QR!Selected, GateProof!QR!Looks, GateProof!QR!Buy, GateProof!QR!Reconcile,
      GateProof!QR!Appends, GateProof!QR!SelectOnce, GateProof!QR!Kept, GateProof!QR!Decide,
      GateProof!QR!Delete, GateProof!QR!RoutesNext, GateProof!QR!Cardinality
  <1> QED BY <1>1, <1>2

\* Its constants are as assumed.
LEMMA RoutesMeets == GateProof!QR!RoutesAssumption
  BY PartsAssumption DEF PartsAssumption,
     Routes!RoutesAssumption, GateProof!QR!RoutesAssumption, Routes!WarrantAssumption,
     GateProof!QR!WarrantAssumption

\* It keeps its invariant, and with it what the run checks.
LEMMA RoutesHolds == Spec => [](part = "routes" => Routes!RoutesTypeOK /\ Routes!RouteIsKept /\ Routes!RouteIsAsInspected)
  <1> DEFINE Inv == part = "routes" => GateProof!RoutesInv
  <1>1. Init => Inv
    BY RoutesIsProved, RoutesMeets, GateProof!RoutesInit DEF Init
  <1>2. ASSUME Inv, [Next]_allVars PROVE Inv'
    <2>1. part' = part /\ (part = "routes" => [GateProof!QR!RoutesNext]_(GateProof!QR!routeVars))
      BY RoutesIsProved, <1>2 DEF Next, allVars, GateProof!QR!routeVars, GateProof!QR!warrantVars
    <2> QED BY <2>1, <1>2, RoutesMeets, GateProof!RoutesNext
  <1>3. ASSUME Inv, part = "routes" PROVE Routes!RoutesTypeOK /\ Routes!RouteIsKept /\ Routes!RouteIsAsInspected
    <2>1. GateProof!QR!RoutesTypeOK /\ GateProof!QR!RouteIsKept /\ GateProof!QR!RouteIsAsInspected
      BY <1>3, RoutesMeets, GateProof!RoutesInvSuffices
    <2> QED BY <2>1 DEF
        Routes!TypeOK, Routes!Providers, Routes!RoutesTypeOK, Routes!Nowhere, Routes!Selected,
        Routes!RouteIsKept, Routes!RouteIsAsInspected, Routes!Cardinality,
        GateProof!QR!TypeOK, GateProof!QR!Providers, GateProof!QR!RoutesTypeOK, GateProof!QR!Nowhere,
        GateProof!QR!Selected, GateProof!QR!RouteIsAsInspected, GateProof!QR!RouteIsKept,
        GateProof!QR!Cardinality
  <1> QED BY <1>1, <1>2, <1>3, PTL DEF Spec

-----------------------------------------------------------------------------
(* The part "listing".                                                     *)

\* The part is what is proved of Underlyings.
LEMMA ListingIsProved == (Listing!Init => GateProof!UN!Init) /\ (Listing!Next => GateProof!UN!Next)
  <1>1. Listing!Init => GateProof!UN!Init
    BY DEF
      Listing!Rows, Listing!Idle, Listing!Init,
      GateProof!UN!Rows, GateProof!UN!Idle, GateProof!UN!Init
  <1>2. ASSUME NEW rows PROVE /\ Listing!OnePrimary(rows) <=> GateProof!UN!OnePrimary(rows)
                              /\ Listing!IndexHolds(rows) <=> GateProof!UN!IndexHolds(rows)
    BY Zenon DEF
       Listing!OnePrimary, Listing!IndexHolds, Listing!ActivePrimaries, Listing!Cardinality,
       GateProof!UN!OnePrimary, GateProof!UN!IndexHolds, GateProof!UN!ActivePrimaries,
       GateProof!UN!Cardinality
  <1>3. ASSUME NEW q
        PROVE  /\ Listing!Changed(q) = GateProof!UN!Changed(q)
               /\ Listing!After(q) = GateProof!UN!After(q)
               /\ Listing!Written(q) = GateProof!UN!Written(q)
    BY Zenon DEF
       Listing!Changed, Listing!After, Listing!Columns, Listing!Over, Listing!Written, Listing!Rows,
       GateProof!UN!Changed, GateProof!UN!After, GateProof!UN!Columns, GateProof!UN!Over,
       GateProof!UN!Written, GateProof!UN!Rows
  <1>4. ASSUME NEW q PROVE Listing!Allowed(q) <=> GateProof!UN!Allowed(q)
    BY <1>2, <1>3, Zenon DEF
       Listing!Allowed, Listing!Differs, Listing!OfListing, GateProof!UN!Allowed, GateProof!UN!Differs,
       GateProof!UN!OfListing
  <1>5. ASSUME NEW c, NEW op, NEW target, NEW primary, Listing!Begin(c, op, target, primary)
        PROVE  GateProof!UN!Begin(c, op, target, primary)
    BY <1>4, <1>5, Zenon DEF
       Listing!Begin, Listing!Rows, Listing!OfUnderlying, Listing!OfListing, Listing!OfVenue, Listing!Idle,
       Listing!Of, Listing!Stored, Listing!Select, Listing!Over, Listing!Listed, GateProof!UN!Begin,
       GateProof!UN!Rows, GateProof!UN!OfUnderlying, GateProof!UN!OfListing, GateProof!UN!OfVenue,
       GateProof!UN!Idle, GateProof!UN!Of, GateProof!UN!Stored, GateProof!UN!Select, GateProof!UN!Over,
       GateProof!UN!Listed
  <1>6. ASSUME NEW c, Listing!List(c) PROVE GateProof!UN!List(c)
    BY <1>4, <1>6, Zenon DEF
       Listing!List, Listing!Rows, Listing!OfUnderlying, Listing!OfListing, Listing!OfVenue, Listing!Idle,
       Listing!Of, Listing!Stored, Listing!Select, Listing!Over, Listing!Listed, GateProof!UN!List,
       GateProof!UN!Rows, GateProof!UN!OfUnderlying, GateProof!UN!OfListing, GateProof!UN!OfVenue,
       GateProof!UN!Idle, GateProof!UN!Of, GateProof!UN!Stored, GateProof!UN!Select, GateProof!UN!Over,
       GateProof!UN!Listed
  <1>7. ASSUME NEW c, Listing!Commit(c) PROVE GateProof!UN!Commit(c)
    <2> DEFINE q == v4[c]
    <2>1. Listing!Changed(q) = GateProof!UN!Changed(q) /\ Listing!Written(q) = GateProof!UN!Written(q)
      BY <1>3
    <2>2. Listing!IndexHolds(GateProof!UN!Written(q)) <=> GateProof!UN!IndexHolds(GateProof!UN!Written(q))
      BY <1>2
    <2>3. ASSUME NEW r PROVE Listing!Fresh(q, r) <=> GateProof!UN!Fresh(q, r)
      BY Zenon DEF Listing!Fresh, GateProof!UN!Fresh, Listing!Of, GateProof!UN!Of
    <2>4. Listing!Idle = GateProof!UN!Idle /\ Listing!Rows = GateProof!UN!Rows
      BY DEF Listing!Idle, GateProof!UN!Idle, Listing!Rows, GateProof!UN!Rows
    <2> QED BY <1>7, <2>1, <2>2, <2>3, <2>4, Zenon DEF Listing!Commit, GateProof!UN!Commit
  <1>8. ASSUME NEW c, Listing!Delete(c) PROVE GateProof!UN!Delete(c)
    BY <1>8, Zenon DEF
       Listing!Delete, Listing!Fresh, Listing!Of, Listing!Idle, Listing!Rows, GateProof!UN!Delete,
       GateProof!UN!Fresh, GateProof!UN!Of, GateProof!UN!Idle, GateProof!UN!Rows
  <1>9. ASSUME Listing!Bounded PROVE GateProof!UN!Bounded
    <2>1. Listing!Events(v2') = GateProof!UN!Events(v2')
      BY Zenon DEF Listing!Events, GateProof!UN!Events, Listing!Rows, GateProof!UN!Rows
    <2>2. ASSUME NEW S PROVE Listing!Cardinality(S) = GateProof!UN!Cardinality(S)
      BY DEF Listing!Cardinality, GateProof!UN!Cardinality
    <2> QED BY <1>9, <2>1, <2>2, Zenon DEF Listing!Bounded, GateProof!UN!Bounded, Listing!Rows, GateProof!UN!Rows
  <1>10. Listing!Refer => GateProof!UN!Refer
    BY Zenon DEF Listing!Refer, GateProof!UN!Refer, Listing!Of, GateProof!UN!Of
  <1>11. ASSUME NEW l, NEW primary, Listing!Create(l, primary) PROVE GateProof!UN!Create(l, primary)
    BY <1>11, Zenon DEF Listing!Create, GateProof!UN!Create, Listing!Rows, GateProof!UN!Rows
  <1>12. Listing!Next => GateProof!UN!Next
    BY <1>5, <1>6, <1>7, <1>8, <1>9, <1>10, <1>11, ZenonT(60) DEF
       Listing!Next, GateProof!UN!Next, Listing!OfUnderlying, GateProof!UN!OfUnderlying, Listing!OfListing, GateProof!UN!OfListing,
       Listing!OfVenue, GateProof!UN!OfVenue
  <1> QED BY <1>1, <1>12

\* Its constants are as assumed.
LEMMA ListingMeets == GateProof!UN!UnderlyingsAssumption
  BY PartsAssumption DEF PartsAssumption,
     Listing!UnderlyingsAssumption, GateProof!UN!UnderlyingsAssumption, Listing!IsFiniteSet,
     GateProof!UN!IsFiniteSet

\* It keeps its invariant, and with it what the run checks.
LEMMA ListingHolds == Spec => [](part = "listing" => Listing!TypeOK /\ Listing!OperationalHasPrimary /\ Listing!AuditTellsVersions)
  <1> DEFINE Inv == part = "listing" => GateProof!UnderlyingInv
  <1>1. Init => Inv
    BY ListingIsProved, ListingMeets, GateProof!UnderlyingInit DEF Init
  <1>2. ASSUME Inv, [Next]_allVars PROVE Inv'
    <2>1. part' = part /\ (part = "listing" => [GateProof!UN!Next]_(GateProof!UN!underlyingVars))
      BY ListingIsProved, <1>2 DEF Next, allVars, GateProof!UN!underlyingVars
    <2> QED BY <2>1, <1>2, ListingMeets, GateProof!UnderlyingNext
  <1>3. ASSUME Inv, part = "listing" PROVE Listing!TypeOK /\ Listing!OperationalHasPrimary /\ Listing!AuditTellsVersions
    <2>1. GateProof!UN!TypeOK /\ GateProof!UN!OperationalHasPrimary /\ GateProof!UN!AuditTellsVersions
      BY <1>3, ListingMeets, GateProof!UnderlyingInvSuffices
    <2> QED BY <2>1 DEF
        Listing!Rows, Listing!TypeOK, Listing!Of, Listing!ActivePrimaries, Listing!OnePrimary,
        Listing!OperationalHasPrimary, Listing!Cardinality, Listing!AuditTellsVersions,
        GateProof!UN!Rows, GateProof!UN!Of, GateProof!UN!ActivePrimaries, GateProof!UN!OnePrimary,
        GateProof!UN!TypeOK, GateProof!UN!OperationalHasPrimary, GateProof!UN!AuditTellsVersions,
        GateProof!UN!Cardinality
  <1> QED BY <1>1, <1>2, <1>3, PTL DEF Spec

-----------------------------------------------------------------------------
(* The part "analysis".                                                    *)

\* The part is what is proved of MarketAnalysis.
LEMMA AnalysisIsProved == (Analysis!Init => GateProof!MA!Init) /\ (Analysis!Next => GateProof!MA!Next)
  <1>1. Analysis!Init => GateProof!MA!Init
    BY DEF
      Analysis!NoRun, Analysis!Idle, Analysis!Init,
      GateProof!MA!NoRun, GateProof!MA!Idle, GateProof!MA!Init
  <1>2. Analysis!Next => GateProof!MA!Next
    BY ZenonT(60) DEF
      Analysis!Idle, Analysis!Evaluated, Analysis!Terminal, Analysis!Retryable, Analysis!Event, Analysis!Made,
      Analysis!LatestIsRunning, Analysis!Next_version, Analysis!Superseded, Analysis!Sets, Analysis!Ends,
      Analysis!ImportPrices, Analysis!Run, Analysis!Snapshot, Analysis!Retry, Analysis!Start, Analysis!Finish,
      Analysis!Supersedes, Analysis!SupersedeSource, Analysis!Replaces, Analysis!Supersede, Analysis!GiveUp,
      Analysis!Next,
      GateProof!MA!Idle, GateProof!MA!Evaluated, GateProof!MA!Terminal, GateProof!MA!Retryable,
      GateProof!MA!Event, GateProof!MA!Made, GateProof!MA!LatestIsRunning, GateProof!MA!Next_version,
      GateProof!MA!Superseded, GateProof!MA!Sets, GateProof!MA!Ends, GateProof!MA!ImportPrices,
      GateProof!MA!Run, GateProof!MA!Snapshot, GateProof!MA!Retry, GateProof!MA!Start, GateProof!MA!Finish,
      GateProof!MA!Supersedes, GateProof!MA!SupersedeSource, GateProof!MA!Replaces, GateProof!MA!Supersede,
      GateProof!MA!GiveUp, GateProof!MA!Next
  <1> QED BY <1>1, <1>2

\* Its constants are as assumed.
LEMMA AnalysisMeets == GateProof!MA!AnalysisAssumption
  BY PartsAssumption DEF PartsAssumption,
     Analysis!AnalysisAssumption, GateProof!MA!AnalysisAssumption

\* It keeps its invariant, and with it what the run checks.
LEMMA AnalysisHolds == Spec => [](part = "analysis" => Analysis!TypeOK /\ Analysis!EventsTellRuns)
  <1> DEFINE Inv == part = "analysis" => GateProof!AnalysisInv
  <1>1. Init => Inv
    BY AnalysisIsProved, AnalysisMeets, GateProof!AnalysisInit DEF Init
  <1>2. ASSUME Inv, [Next]_allVars PROVE Inv'
    <2>1. part' = part /\ (part = "analysis" => [GateProof!MA!Next]_(GateProof!MA!analysisVars))
      BY AnalysisIsProved, <1>2 DEF Next, allVars, GateProof!MA!analysisVars
    <2> QED BY <2>1, <1>2, AnalysisMeets, GateProof!AnalysisNext
  <1>3. ASSUME Inv, part = "analysis" PROVE Analysis!TypeOK /\ Analysis!EventsTellRuns
    <2>1. GateProof!MA!TypeOK /\ GateProof!MA!EventsTellRuns
      BY <1>3, AnalysisMeets, GateProof!AnalysisInvSuffices
    <2> QED BY <2>1 DEF
        Analysis!Evaluated, Analysis!Terminal, Analysis!TypeOK, Analysis!Retryable, Analysis!EventsTellRuns,
        GateProof!MA!Evaluated, GateProof!MA!Terminal, GateProof!MA!Retryable, GateProof!MA!TypeOK,
        GateProof!MA!EventsTellRuns
  <1> QED BY <1>1, <1>2, <1>3, PTL DEF Spec

-----------------------------------------------------------------------------
(* The part "catalog".                                                     *)

\* The part is what is proved of CurrencyCatalog.
LEMMA CatalogIsProved == (Catalog!Init => GateProof!CC!Init) /\ (Catalog!Next => GateProof!CC!Next)
  <1>1. Catalog!Init => GateProof!CC!Init
    BY DEF
      Catalog!None, Catalog!Nobody, Catalog!Idle, Catalog!Missing, Catalog!Init,
      GateProof!CC!None, GateProof!CC!Nobody, GateProof!CC!Idle, GateProof!CC!Missing, GateProof!CC!Init
  <1>2. Catalog!Next => GateProof!CC!Next
    BY ZenonT(60) DEF
      Catalog!None, Catalog!Nobody, Catalog!Catalogs, Catalog!Idle, Catalog!VersionTaken, Catalog!Older,
      Catalog!Previewable, Catalog!Preview, Catalog!Show, Catalog!Lockable, Catalog!Lock, Catalog!Release,
      Catalog!Import, Catalog!Activatable, Catalog!Switch, Catalog!Next,
      GateProof!CC!None, GateProof!CC!Nobody, GateProof!CC!Catalogs, GateProof!CC!Idle,
      GateProof!CC!VersionTaken, GateProof!CC!Older, GateProof!CC!Previewable, GateProof!CC!Preview,
      GateProof!CC!Show, GateProof!CC!Lockable, GateProof!CC!Lock, GateProof!CC!Release, GateProof!CC!Import,
      GateProof!CC!Activatable, GateProof!CC!Switch, GateProof!CC!Next
  <1> QED BY <1>1, <1>2

\* Its constants are as assumed.
LEMMA CatalogMeets == GateProof!CC!CatalogAssumption
  BY PartsAssumption DEF PartsAssumption,
     Catalog!CatalogAssumption, GateProof!CC!CatalogAssumption

\* It keeps its invariant, and with it what the run checks.
LEMMA CatalogHolds == Spec => [](part = "catalog" => Catalog!TypeOK /\ Catalog!AuditTellsCatalog /\ Catalog!UnitsStay)
  <1> DEFINE Inv == part = "catalog" => GateProof!CatalogInv
  <1>1. Init => Inv
    BY CatalogIsProved, CatalogMeets, GateProof!CatalogInit DEF Init
  <1>2. ASSUME Inv, [Next]_allVars PROVE Inv'
    <2>1. part' = part /\ (part = "catalog" => [GateProof!CC!Next]_(GateProof!CC!catalogVars))
      BY CatalogIsProved, <1>2 DEF Next, allVars, GateProof!CC!catalogVars
    <2> QED BY <2>1, <1>2, CatalogMeets, GateProof!CatalogNext
  <1>3. ASSUME Inv, part = "catalog" PROVE Catalog!TypeOK /\ Catalog!AuditTellsCatalog /\ Catalog!UnitsStay
    <2>1. GateProof!CC!TypeOK /\ GateProof!CC!AuditTellsCatalog /\ GateProof!CC!UnitsStay
      BY <1>3, CatalogMeets, GateProof!CatalogInvSuffices
    <2> QED BY <2>1 DEF
        Catalog!None, Catalog!Nobody, Catalog!Catalogs, Catalog!TypeOK, Catalog!Imports, Catalog!AfterEvents,
        Catalog!AuditTellsCatalog, Catalog!UnitsStay,
        GateProof!CC!None, GateProof!CC!Nobody, GateProof!CC!Catalogs, GateProof!CC!TypeOK,
        GateProof!CC!Imports, GateProof!CC!AfterEvents, GateProof!CC!AuditTellsCatalog, GateProof!CC!UnitsStay
  <1> QED BY <1>1, <1>2, <1>3, PTL DEF Spec

-----------------------------------------------------------------------------
(* The part "money".                                                       *)

\* The part is what is proved of CurrencySources.
LEMMA MoneyIsProved == (Money!Init => GateProof!MS!Init) /\ (Money!Next => GateProof!MS!Next)
  <1>1. Money!Init => GateProof!MS!Init
    BY DEF
      Money!Execution, Money!Init,
      GateProof!MS!Execution, GateProof!MS!Init
  <1>2. Money!Next => GateProof!MS!Next
    BY ZenonT(60) DEF
      Money!Rows, Money!NewId, Money!Add, Money!Document, Money!Listing, Money!Execution, Money!TradeFree,
      Money!ProductFree, Money!Ledger, Money!BeginExecution, Money!FinishExecution, Money!InForce,
      Money!Confirm, Money!Follows, Money!RecordListing, Money!BeginDocument, Money!FinishDocument,
      Money!Deadlock, Money!CancelTrade, Money!Next, Money!R!Unknown, Money!R!Replaced, Money!R!Standing,
      Money!R!CurrentConfirmations, Money!R!Precedes, Money!Cardinality,
      GateProof!MS!Rows, GateProof!MS!NewId, GateProof!MS!Add, GateProof!MS!Document, GateProof!MS!Listing,
      GateProof!MS!Execution, GateProof!MS!TradeFree, GateProof!MS!ProductFree, GateProof!MS!Ledger,
      GateProof!MS!BeginExecution, GateProof!MS!FinishExecution, GateProof!MS!InForce, GateProof!MS!Confirm,
      GateProof!MS!Follows, GateProof!MS!RecordListing, GateProof!MS!BeginDocument,
      GateProof!MS!FinishDocument, GateProof!MS!Deadlock, GateProof!MS!CancelTrade, GateProof!MS!Next,
      GateProof!MS!R!Unknown, GateProof!MS!R!Replaced, GateProof!MS!R!Standing,
      GateProof!MS!R!CurrentConfirmations, GateProof!MS!R!Precedes, GateProof!MS!Cardinality
  <1> QED BY <1>1, <1>2

\* Its constants are as assumed.
LEMMA MoneyMeets == GateProof!MS!SourcesAssumption
  BY PartsAssumption DEF PartsAssumption,
     Money!SourcesAssumption, GateProof!MS!SourcesAssumption

\* It keeps its invariant, and with it what the run checks.
LEMMA MoneyHolds == Spec => [](part = "money" => Money!TypeOK)
  <1> DEFINE Inv == part = "money" => GateProof!MoneyInv
  <1>1. Init => Inv
    BY MoneyIsProved, MoneyMeets, GateProof!MoneyInit DEF Init
  <1>2. ASSUME Inv, [Next]_allVars PROVE Inv'
    <2>1. part' = part /\ (part = "money" => [GateProof!MS!Next]_(GateProof!MS!currencyVars))
      BY MoneyIsProved, <1>2 DEF Next, allVars, GateProof!MS!currencyVars
    <2> QED BY <2>1, <1>2, MoneyMeets, GateProof!MoneyNext
  <1>3. ASSUME Inv, part = "money" PROVE Money!TypeOK
    <2>1. GateProof!MS!TypeOK
      BY <1>3, MoneyMeets, GateProof!MoneySuffices
    <2> QED BY <2>1 DEF
        Money!Document, Money!Listing, Money!TypeOK, Money!R!Unknown,
        GateProof!MS!Document, GateProof!MS!Listing, GateProof!MS!TypeOK, GateProof!MS!R!Unknown
  <1> QED BY <1>1, <1>2, <1>3, PTL DEF Spec

-----------------------------------------------------------------------------
(* The part "page".                                                        *)

\* The part is what is proved of TradePage.
LEMMA PageIsProved == (Page!Init => GateProof!TP!Init) /\ (Page!Next => GateProof!TP!Next)
  <1>1. Page!Init => GateProof!TP!Init
    BY DEF
      Page!Forms, Page!Entry, Page!NoEntry, Page!Idle, Page!Clear, Page!Read, Page!Blank, Page!Empty,
      Page!FirstReads, Page!Init,
      GateProof!TP!Forms, GateProof!TP!Entry, GateProof!TP!NoEntry, GateProof!TP!Idle, GateProof!TP!Clear,
      GateProof!TP!Read, GateProof!TP!Blank, GateProof!TP!Empty, GateProof!TP!FirstReads, GateProof!TP!Init
  <1>2. Page!Next => GateProof!TP!Next
    BY ZenonT(60) DEF
      Page!Forms, Page!FormOf, Page!Entry, Page!NoEntry, Page!Elsewhere, Page!Idle, Page!Clear, Page!Read,
      Page!Effective, Page!StopAt, Page!Blank, Page!Empty, Page!FirstReads, Page!Locked, Page!Reviewing,
      Page!IsBusy, Page!IsBusyExcept, Page!Blocked, Page!Loading, Page!PageBusy, Page!Outlasting, Page!Begin,
      Page!Send, Page!KeyOf, Page!SubmitCapture, Page!SubmitStop, Page!OpenEditor, Page!SubmitCorrection,
      Page!Known, Page!Allowed, Page!Written, Page!Serve, Page!Refuse, Page!ServeLost, Page!OtherTab,
      Page!LastOf, Page!Told, Page!Invalidated, Page!AwaitReads, Page!Booked, Page!CaptureBooked,
      Page!StopBooked, Page!CorrectionBooked, Page!Refused, Page!Orphans, Page!NoAnswer, Page!Fails,
      Page!Kept, Page!Shown, Page!Arrive, Page!ReadFails, Page!Replaced, Page!Reviewed, Page!Finish,
      Page!Review, Page!Lookup, Page!EditCapture, Page!TypeStop, Page!Reload, Page!Next,
      GateProof!TP!Forms, GateProof!TP!FormOf, GateProof!TP!Entry, GateProof!TP!NoEntry,
      GateProof!TP!Elsewhere, GateProof!TP!Idle, GateProof!TP!Clear, GateProof!TP!Read,
      GateProof!TP!Effective, GateProof!TP!StopAt, GateProof!TP!Blank, GateProof!TP!Empty,
      GateProof!TP!FirstReads, GateProof!TP!Locked, GateProof!TP!Reviewing, GateProof!TP!IsBusy,
      GateProof!TP!IsBusyExcept, GateProof!TP!Blocked, GateProof!TP!Loading, GateProof!TP!PageBusy,
      GateProof!TP!Outlasting, GateProof!TP!Begin, GateProof!TP!Send, GateProof!TP!KeyOf,
      GateProof!TP!SubmitCapture, GateProof!TP!SubmitStop, GateProof!TP!OpenEditor,
      GateProof!TP!SubmitCorrection, GateProof!TP!Known, GateProof!TP!Allowed, GateProof!TP!Written,
      GateProof!TP!Serve, GateProof!TP!Refuse, GateProof!TP!ServeLost, GateProof!TP!OtherTab,
      GateProof!TP!LastOf, GateProof!TP!Told, GateProof!TP!Invalidated, GateProof!TP!AwaitReads,
      GateProof!TP!Booked, GateProof!TP!CaptureBooked, GateProof!TP!StopBooked, GateProof!TP!CorrectionBooked,
      GateProof!TP!Refused, GateProof!TP!Orphans, GateProof!TP!NoAnswer, GateProof!TP!Fails,
      GateProof!TP!Kept, GateProof!TP!Shown, GateProof!TP!Arrive, GateProof!TP!ReadFails,
      GateProof!TP!Replaced, GateProof!TP!Reviewed, GateProof!TP!Finish, GateProof!TP!Review,
      GateProof!TP!Lookup, GateProof!TP!EditCapture, GateProof!TP!TypeStop, GateProof!TP!Reload,
      GateProof!TP!Next
  <1> QED BY <1>1, <1>2

\* Its constants are as assumed.
LEMMA PageMeets == GateProof!TP!PageAssumption
  BY PartsAssumption DEF PartsAssumption,
     Page!PageAssumption, GateProof!TP!PageAssumption

\* It keeps its invariant, and with it what the run checks.
LEMMA PageHolds == Spec => [](part = "page" => Page!TypeOK /\ Page!InputBookedOnce /\ Page!ShownIsCurrent /\ Page!DoubtBlocksWrites)
  <1> DEFINE Inv == part = "page" => GateProof!TradeInv
  <1>1. Init => Inv
    BY PageIsProved, PageMeets, GateProof!TradeStarts DEF Init
  <1>2. ASSUME Inv, [Next]_allVars PROVE Inv'
    <2>1. part' = part /\ (part = "page" => [GateProof!TP!Next]_(GateProof!TP!pageVars))
      BY PageIsProved, <1>2 DEF Next, allVars, GateProof!TP!pageVars
    <2> QED BY <2>1, <1>2, PageMeets, GateProof!TradeKeeps
  <1>3. ASSUME Inv, part = "page" PROVE Page!TypeOK /\ Page!InputBookedOnce /\ Page!ShownIsCurrent /\ Page!DoubtBlocksWrites
    <2>1. GateProof!TP!TypeOK /\ GateProof!TP!InputBookedOnce /\ GateProof!TP!ShownIsCurrent /\ GateProof!TP!DoubtBlocksWrites
      BY <1>3, PageMeets, GateProof!TradeSays
    <2> QED BY <2>1 DEF
        Page!Forms, Page!Elsewhere, Page!TypeOK, Page!InputBookedOnce, Page!Loading, Page!ShownIsCurrent,
        Page!Clear, Page!Writes, Page!DoubtBlocksWrites,
        GateProof!TP!Forms, GateProof!TP!Elsewhere, GateProof!TP!Clear, GateProof!TP!TypeOK,
        GateProof!TP!Loading, GateProof!TP!InputBookedOnce, GateProof!TP!ShownIsCurrent, GateProof!TP!Writes,
        GateProof!TP!DoubtBlocksWrites
  <1> QED BY <1>1, <1>2, <1>3, PTL DEF Spec

-----------------------------------------------------------------------------
(* The part "retried".                                                     *)

RetriedProof == INSTANCE MarketProofs WITH
    Callers <- One, Requests <- {"search", "prices"}, Budget <- 4, Reserve <- 25, Cost <- 1, Rate <-
    1, Burst <- 2, MaxAttempts <- 2, Timeout <- 1, Ttl <- 1, DayLength <- 2, LastTick <- 2,
    MaxForeign <- 0, MaxMissing <- 3, Readers <- Two, LastIdentity <- 2, SlotLength <- 3, Clients <-
    Two, Identifiers <- Isins, FirstIsin <- "x", Changes <- {"identifiers", "status", "terms"},
    LastVersion <- 4, LastRevision <- 2, Positions <- First, MaxDecisions <- 3, Editors <- One,
    Listings <- {"l1", "l2"}, LastRowVersion <- 2, MaxEvents <- 7, Operations <- {"rename",
    "deactivate", "reactivate", "verify", "delete", "edit", "retire", "revive", "open", "close",
    "add", "promote"}, Analysts <- Two, Versions <- Three, Outcomes <- {"COMPLETED", "FAILED"},
    LastPrices <- 2, Admins <- Two, Codes <- {"EUR", "JPY"}, Document <- [first |-> [version |-> 1,
    published |-> 1, units |-> ("EUR" :> 2)], later |-> [version |-> 2, published |-> 2, units |->
    ("EUR" :> 3 @@ "JPY" :> 0)], other |-> [version |-> 1, published |-> 2, units |-> ("JPY" :>
    0)]], Seeded <- ("EUR" :> 2), LastEvent <- 3, Moments <- Both, Denominations <- {"EUR", "USD"},
    Documents <- {[currency |-> "EUR", venue |-> "UNKNOWN"], [currency |-> "UNKNOWN", venue |->
    "V"]}, Sheets <- {[from |-> 1, to |-> 3, entries |-> ("V" :> "USD"), complete |-> TRUE]},
    MaxRows <- 4, Captures <- {"purchase"}, MaxWrites <- 2, MaxSubmits <- 1, MaxInputs <- 0,
    MaxTyped <- 1, OtherWrites <- {"correct", "stop"}, now <- v1, usage <- v2, bucket <- v3, cached
    <- v4, caller <- v5, report <- v6, counter <- v7, foreign <- v8, bill <- v9, posted <- v10,
    assigned <- v1, active <- v2, native <- v3, listing <- v4, model <- v5, identity <- v2, cache <-
    v3, reader <- v4, quote <- v5, replaced <- v6, samples <- v7, warrant <- v1, terms <- v2, audits
    <- v3, valuations <- v4, edit <- v5, listed <- v6, mapping <- v7, affected <- v8, seeker <- v9,
    selections <- v10, row <- v1, told <- v2, used <- v3, request <- v4, prices <- v1, run <- v2,
    lifecycle <- v3, analyst <- v4, current <- v1, releases <- v2, currency <- v3, log <- v4, lock
    <- v5, admin <- v6, executions <- v1, confirmations <- v2, sources <- v3, withdrawn <- v4, desk
    <- v5, logbook <- v1, lost <- v2, page <- v3, panel <- v4, tasks <- v5, reads <- v6, capture <-
    v7, submits <- v8, heard <- v9

\* The part is what is proved of ProviderGate.
LEMMA RetriedIsProved == (Retried!Init => RetriedProof!PG!Init) /\ (Retried!Next => RetriedProof!PG!Next)
  <1>1. Retried!Init => RetriedProof!PG!Init
    BY DEF
      Retried!Ticks, Retried!Idle, Retried!Init,
      RetriedProof!PG!Ticks, RetriedProof!PG!Idle, RetriedProof!PG!Init
  <1>2. Retried!Next => RetriedProof!PG!Next
    BY ZenonT(60) DEF
      Retried!Today, Retried!EffectiveBudget, Retried!Least, Retried!Largest, Retried!Idle, Retried!Tick,
      Retried!Counted, Retried!Foreign, Retried!Begin, Retried!End, Retried!Search, Retried!Load,
      Retried!UsedToday, Retried!Charge, Retried!Refilled, Retried!Acquire, Retried!Answer, Retried!Retry,
      Retried!Raise, Retried!AskForUsage, Retried!SameDay, Retried!SynchronizeUsage, Retried!Next,
      RetriedProof!PG!Today, RetriedProof!PG!EffectiveBudget, RetriedProof!PG!Least, RetriedProof!PG!Largest,
      RetriedProof!PG!Idle, RetriedProof!PG!Tick, RetriedProof!PG!Counted, RetriedProof!PG!Foreign,
      RetriedProof!PG!Begin, RetriedProof!PG!End, RetriedProof!PG!Search, RetriedProof!PG!Load,
      RetriedProof!PG!UsedToday, RetriedProof!PG!Charge, RetriedProof!PG!Refilled, RetriedProof!PG!Acquire,
      RetriedProof!PG!Answer, RetriedProof!PG!Retry, RetriedProof!PG!Raise, RetriedProof!PG!AskForUsage,
      RetriedProof!PG!SameDay, RetriedProof!PG!SynchronizeUsage, RetriedProof!PG!Next
  <1> QED BY <1>1, <1>2

\* Its constants are as assumed.
LEMMA RetriedMeets == RetriedProof!PG!GateAssumption
  BY PartsAssumption DEF PartsAssumption,
     Retried!GateAssumption, RetriedProof!PG!GateAssumption, Retried!IsFiniteSet, RetriedProof!PG!IsFiniteSet

\* It keeps its invariant, and with it what the run checks.
LEMMA RetriedHolds == Spec => [](part = "retried" => Retried!TypeOK /\ Retried!WithinLimits)
  <1> DEFINE Inv == part = "retried" => RetriedProof!GateInv
  <1>1. Init => Inv
    BY RetriedIsProved, RetriedMeets, RetriedProof!GateInit DEF Init
  <1>2. ASSUME Inv, [Next]_allVars PROVE Inv'
    <2>1. part' = part /\ (part = "retried" => [RetriedProof!PG!Next]_(RetriedProof!PG!gateVars))
      BY RetriedIsProved, <1>2 DEF Next, allVars, RetriedProof!PG!gateVars
    <2> QED BY <2>1, <1>2, RetriedMeets, RetriedProof!GateNext
  <1>3. ASSUME Inv, part = "retried" PROVE Retried!TypeOK /\ Retried!WithinLimits
    <2>1. RetriedProof!PG!TypeOK /\ RetriedProof!PG!WithinLimits
      BY <1>3, RetriedMeets, RetriedProof!GateInvSuffices
    <2> QED BY <2>1 DEF
        Retried!Ticks, Retried!Counters, Retried!TypeOK, Retried!Today, Retried!EffectiveBudget,
        Retried!UsedToday, Retried!SentBefore, Retried!RateIsKept, Retried!BudgetIsKept, Retried!WithinLimits,
        Retried!Cardinality,
        RetriedProof!PG!Ticks, RetriedProof!PG!Today, RetriedProof!PG!EffectiveBudget,
        RetriedProof!PG!Counters, RetriedProof!PG!TypeOK, RetriedProof!PG!UsedToday,
        RetriedProof!PG!SentBefore, RetriedProof!PG!RateIsKept, RetriedProof!PG!BudgetIsKept,
        RetriedProof!PG!WithinLimits, RetriedProof!PG!Cardinality
  <1> QED BY <1>1, <1>2, <1>3, PTL DEF Spec

\* Neither the rate nor the budget of the provider is exceeded.
THEOREM PartsStayWithinLimits == Spec => []WithinLimits
  BY GateHolds, RetriedHolds, PTL DEF WithinLimits

-----------------------------------------------------------------------------
(* The part "product".                                                     *)

\* The part is what is proved of Warrants.
LEMMA ProductIsProved == (Product!Init => RetriedProof!QR!Init) /\ (Product!Next => RetriedProof!QR!Next)
  <1>1. Product!Init => RetriedProof!QR!Init
    BY DEF
      Product!Idle, Product!Init,
      RetriedProof!QR!Idle, RetriedProof!QR!Init
  <1>2. Product!Next => RetriedProof!QR!Next
    BY ZenonT(60) DEF
      Product!Idle, Product!Exists, Product!Unlocked, Product!Ends, Product!Reads, Product!BeginEdit,
      Product!Unchanged, Product!Applies, Product!Commits, Product!Refused, Product!BeginReview,
      Product!AsReviewed, Product!LockForEvidence, Product!Record, Product!Deletes, Product!Next,
      RetriedProof!QR!Idle, RetriedProof!QR!Exists, RetriedProof!QR!Unlocked, RetriedProof!QR!Ends,
      RetriedProof!QR!Reads, RetriedProof!QR!BeginEdit, RetriedProof!QR!Unchanged, RetriedProof!QR!Applies,
      RetriedProof!QR!Commits, RetriedProof!QR!Refused, RetriedProof!QR!BeginReview,
      RetriedProof!QR!AsReviewed, RetriedProof!QR!LockForEvidence, RetriedProof!QR!Record,
      RetriedProof!QR!Deletes, RetriedProof!QR!Next
  <1> QED BY <1>1, <1>2

\* Its constants are as assumed.
LEMMA ProductMeets == RetriedProof!QR!WarrantAssumption
  BY PartsAssumption DEF PartsAssumption,
     Product!WarrantAssumption, RetriedProof!QR!WarrantAssumption

\* It keeps its invariant, and with it what the run checks.
LEMMA ProductHolds == Spec => [](part = "product" => Product!TypeOK /\ Product!AuditTellsIdentity /\ Product!EvidenceIsAsReviewed)
  <1> DEFINE Inv == part = "product" => RetriedProof!WarrantInv
  <1>1. Init => Inv
    BY ProductIsProved, ProductMeets, RetriedProof!WarrantInit DEF Init
  <1>2. ASSUME Inv, [Next]_allVars PROVE Inv'
    <2>1. part' = part /\ (part = "product" => [RetriedProof!QR!Next]_(RetriedProof!QR!warrantVars))
      BY ProductIsProved, <1>2 DEF Next, allVars, RetriedProof!QR!warrantVars
    <2> QED BY <2>1, <1>2, ProductMeets, RetriedProof!WarrantNext
  <1>3. ASSUME Inv, part = "product" PROVE Product!TypeOK /\ Product!AuditTellsIdentity /\ Product!EvidenceIsAsReviewed
    <2>1. RetriedProof!QR!TypeOK /\ RetriedProof!QR!AuditTellsIdentity /\ RetriedProof!QR!EvidenceIsAsReviewed
      BY <1>3, ProductMeets, RetriedProof!WarrantInvSuffices
    <2> QED BY <2>1 DEF
        Product!TypeOK, Product!AuditTellsIdentity, Product!Exists, Product!EvidenceIsAsReviewed,
        RetriedProof!QR!Exists, RetriedProof!QR!TypeOK, RetriedProof!QR!AuditTellsIdentity,
        RetriedProof!QR!EvidenceIsAsReviewed
  <1> QED BY <1>1, <1>2, <1>3, PTL DEF Spec

-----------------------------------------------------------------------------
(* The part "underlying".                                                  *)

\* The part is what is proved of Underlyings.
LEMMA UnderlyingIsProved == (Underlying!Init => RetriedProof!UN!Init) /\ (Underlying!Next => RetriedProof!UN!Next)
  <1>1. Underlying!Init => RetriedProof!UN!Init
    BY DEF
      Underlying!Rows, Underlying!Idle, Underlying!Init,
      RetriedProof!UN!Rows, RetriedProof!UN!Idle, RetriedProof!UN!Init
  <1>2. ASSUME NEW rows PROVE /\ Underlying!OnePrimary(rows) <=> RetriedProof!UN!OnePrimary(rows)
                              /\ Underlying!IndexHolds(rows) <=> RetriedProof!UN!IndexHolds(rows)
    BY Zenon DEF
       Underlying!OnePrimary, Underlying!IndexHolds, Underlying!ActivePrimaries, Underlying!Cardinality,
       RetriedProof!UN!OnePrimary, RetriedProof!UN!IndexHolds, RetriedProof!UN!ActivePrimaries,
       RetriedProof!UN!Cardinality
  <1>3. ASSUME NEW q
        PROVE  /\ Underlying!Changed(q) = RetriedProof!UN!Changed(q)
               /\ Underlying!After(q) = RetriedProof!UN!After(q)
               /\ Underlying!Written(q) = RetriedProof!UN!Written(q)
    BY Zenon DEF
       Underlying!Changed, Underlying!After, Underlying!Columns, Underlying!Over, Underlying!Written,
       Underlying!Rows, RetriedProof!UN!Changed, RetriedProof!UN!After, RetriedProof!UN!Columns,
       RetriedProof!UN!Over, RetriedProof!UN!Written, RetriedProof!UN!Rows
  <1>4. ASSUME NEW q PROVE Underlying!Allowed(q) <=> RetriedProof!UN!Allowed(q)
    BY <1>2, <1>3, Zenon DEF
       Underlying!Allowed, Underlying!Differs, Underlying!OfListing, RetriedProof!UN!Allowed,
       RetriedProof!UN!Differs, RetriedProof!UN!OfListing
  <1>5. ASSUME NEW c, NEW op, NEW target, NEW primary, Underlying!Begin(c, op, target, primary)
        PROVE  RetriedProof!UN!Begin(c, op, target, primary)
    BY <1>4, <1>5, Zenon DEF
       Underlying!Begin, Underlying!Rows, Underlying!OfUnderlying, Underlying!OfListing, Underlying!OfVenue,
       Underlying!Idle, Underlying!Of, Underlying!Stored, Underlying!Select, Underlying!Over,
       Underlying!Listed, RetriedProof!UN!Begin, RetriedProof!UN!Rows, RetriedProof!UN!OfUnderlying,
       RetriedProof!UN!OfListing, RetriedProof!UN!OfVenue, RetriedProof!UN!Idle, RetriedProof!UN!Of,
       RetriedProof!UN!Stored, RetriedProof!UN!Select, RetriedProof!UN!Over, RetriedProof!UN!Listed
  <1>6. ASSUME NEW c, Underlying!List(c) PROVE RetriedProof!UN!List(c)
    BY <1>4, <1>6, Zenon DEF
       Underlying!List, Underlying!Rows, Underlying!OfUnderlying, Underlying!OfListing, Underlying!OfVenue,
       Underlying!Idle, Underlying!Of, Underlying!Stored, Underlying!Select, Underlying!Over,
       Underlying!Listed, RetriedProof!UN!List, RetriedProof!UN!Rows, RetriedProof!UN!OfUnderlying,
       RetriedProof!UN!OfListing, RetriedProof!UN!OfVenue, RetriedProof!UN!Idle, RetriedProof!UN!Of,
       RetriedProof!UN!Stored, RetriedProof!UN!Select, RetriedProof!UN!Over, RetriedProof!UN!Listed
  <1>7. ASSUME NEW c, Underlying!Commit(c) PROVE RetriedProof!UN!Commit(c)
    <2> DEFINE q == v4[c]
    <2>1. Underlying!Changed(q) = RetriedProof!UN!Changed(q) /\ Underlying!Written(q) = RetriedProof!UN!Written(q)
      BY <1>3
    <2>2. Underlying!IndexHolds(RetriedProof!UN!Written(q)) <=> RetriedProof!UN!IndexHolds(RetriedProof!UN!Written(q))
      BY <1>2
    <2>3. ASSUME NEW r PROVE Underlying!Fresh(q, r) <=> RetriedProof!UN!Fresh(q, r)
      BY Zenon DEF Underlying!Fresh, RetriedProof!UN!Fresh, Underlying!Of, RetriedProof!UN!Of
    <2>4. Underlying!Idle = RetriedProof!UN!Idle /\ Underlying!Rows = RetriedProof!UN!Rows
      BY DEF Underlying!Idle, RetriedProof!UN!Idle, Underlying!Rows, RetriedProof!UN!Rows
    <2> QED BY <1>7, <2>1, <2>2, <2>3, <2>4, Zenon DEF Underlying!Commit, RetriedProof!UN!Commit
  <1>8. ASSUME NEW c, Underlying!Delete(c) PROVE RetriedProof!UN!Delete(c)
    BY <1>8, Zenon DEF
       Underlying!Delete, Underlying!Fresh, Underlying!Of, Underlying!Idle, Underlying!Rows,
       RetriedProof!UN!Delete, RetriedProof!UN!Fresh, RetriedProof!UN!Of, RetriedProof!UN!Idle,
       RetriedProof!UN!Rows
  <1>9. ASSUME Underlying!Bounded PROVE RetriedProof!UN!Bounded
    <2>1. Underlying!Events(v2') = RetriedProof!UN!Events(v2')
      BY Zenon DEF Underlying!Events, RetriedProof!UN!Events, Underlying!Rows, RetriedProof!UN!Rows
    <2>2. ASSUME NEW S PROVE Underlying!Cardinality(S) = RetriedProof!UN!Cardinality(S)
      BY DEF Underlying!Cardinality, RetriedProof!UN!Cardinality
    <2> QED BY <1>9, <2>1, <2>2, Zenon DEF Underlying!Bounded, RetriedProof!UN!Bounded, Underlying!Rows, RetriedProof!UN!Rows
  <1>10. Underlying!Refer => RetriedProof!UN!Refer
    BY Zenon DEF Underlying!Refer, RetriedProof!UN!Refer, Underlying!Of, RetriedProof!UN!Of
  <1>11. ASSUME NEW l, NEW primary, Underlying!Create(l, primary) PROVE RetriedProof!UN!Create(l, primary)
    BY <1>11, Zenon DEF Underlying!Create, RetriedProof!UN!Create, Underlying!Rows, RetriedProof!UN!Rows
  <1>12. Underlying!Next => RetriedProof!UN!Next
    BY <1>5, <1>6, <1>7, <1>8, <1>9, <1>10, <1>11, ZenonT(60) DEF
       Underlying!Next, RetriedProof!UN!Next, Underlying!OfUnderlying, RetriedProof!UN!OfUnderlying, Underlying!OfListing, RetriedProof!UN!OfListing,
       Underlying!OfVenue, RetriedProof!UN!OfVenue
  <1> QED BY <1>1, <1>12

\* Its constants are as assumed.
LEMMA UnderlyingMeets == RetriedProof!UN!UnderlyingsAssumption
  BY PartsAssumption DEF PartsAssumption,
     Underlying!UnderlyingsAssumption, RetriedProof!UN!UnderlyingsAssumption, Underlying!IsFiniteSet,
     RetriedProof!UN!IsFiniteSet

\* It keeps its invariant, and with it what the run checks.
LEMMA UnderlyingHolds == Spec => [](part = "underlying" => Underlying!TypeOK /\ Listing!OperationalHasPrimary /\ Listing!AuditTellsVersions)
  <1> DEFINE Inv == part = "underlying" => RetriedProof!UnderlyingInv
  <1>1. Init => Inv
    BY UnderlyingIsProved, UnderlyingMeets, RetriedProof!UnderlyingInit DEF Init
  <1>2. ASSUME Inv, [Next]_allVars PROVE Inv'
    <2>1. part' = part /\ (part = "underlying" => [RetriedProof!UN!Next]_(RetriedProof!UN!underlyingVars))
      BY UnderlyingIsProved, <1>2 DEF Next, allVars, RetriedProof!UN!underlyingVars
    <2> QED BY <2>1, <1>2, UnderlyingMeets, RetriedProof!UnderlyingNext
  <1>3. ASSUME Inv, part = "underlying" PROVE Underlying!TypeOK /\ Listing!OperationalHasPrimary /\ Listing!AuditTellsVersions
    <2>1. RetriedProof!UN!TypeOK /\ RetriedProof!UN!OperationalHasPrimary /\ RetriedProof!UN!AuditTellsVersions
      BY <1>3, UnderlyingMeets, RetriedProof!UnderlyingInvSuffices
    <2> QED BY <2>1 DEF
        Underlying!Rows, Underlying!TypeOK, Listing!Of, Listing!ActivePrimaries, Listing!OnePrimary,
        Listing!OperationalHasPrimary, Listing!Cardinality, Listing!Rows, Listing!AuditTellsVersions,
        RetriedProof!UN!Rows, RetriedProof!UN!Of, RetriedProof!UN!ActivePrimaries, RetriedProof!UN!OnePrimary,
        RetriedProof!UN!TypeOK, RetriedProof!UN!OperationalHasPrimary, RetriedProof!UN!AuditTellsVersions,
        RetriedProof!UN!Cardinality
  <1> QED BY <1>1, <1>2, <1>3, PTL DEF Spec

\* Of what may be in force once, one is: the approved version of a plan, the active link
\* of a pair, the routes of a product that was found, the primary listing of an underlying.
THEOREM PartsHaveOneInForce == Spec => []OneInForce
  <1>1. (
          /\ part = "plan" => Plan!TypeOK /\ Plan!OneApproved /\ Plan!HistoryTellsStatus
          /\ part = "links" => Linked!TypeOK /\ Linked!OneActivePair /\ Linked!LinkedTradeStands /\ Linked!ExecutedOnce
          /\ part = "routes" => Routes!RoutesTypeOK /\ Routes!RouteIsKept /\ Routes!RouteIsAsInspected
          /\ part = "listing" => Listing!TypeOK /\ Listing!OperationalHasPrimary /\ Listing!AuditTellsVersions
          /\ part = "underlying" => Underlying!TypeOK /\ Listing!OperationalHasPrimary /\ Listing!AuditTellsVersions)
        => OneInForce
    BY DEF OneInForce
  <1> QED BY <1>1, PlanHolds, LinkedHolds, RoutesHolds, ListingHolds, UnderlyingHolds, PTL

-----------------------------------------------------------------------------
(* The part "stops".                                                       *)

\* The part is what is proved of TradePage.
LEMMA StopsIsProved == (Stops!Init => RetriedProof!TP!Init) /\ (Stops!Next => RetriedProof!TP!Next)
  <1>1. Stops!Init => RetriedProof!TP!Init
    BY SMTT(30) DEF
      Stops!Forms, Stops!Entry, Stops!NoEntry, Stops!Idle, Stops!Clear, Stops!Read, Stops!Blank, Stops!Empty,
      Stops!FirstReads, Stops!Init,
      RetriedProof!TP!Forms, RetriedProof!TP!Entry, RetriedProof!TP!NoEntry, RetriedProof!TP!Idle,
      RetriedProof!TP!Clear, RetriedProof!TP!Read, RetriedProof!TP!Blank, RetriedProof!TP!Empty,
      RetriedProof!TP!FirstReads, RetriedProof!TP!Init
  <1>2. Stops!Next => RetriedProof!TP!Next
    BY ZenonT(60) DEF
      Stops!Forms, Stops!FormOf, Stops!Entry, Stops!NoEntry, Stops!Elsewhere, Stops!Idle, Stops!Clear,
      Stops!Read, Stops!Effective, Stops!StopAt, Stops!Blank, Stops!Empty, Stops!FirstReads, Stops!Locked,
      Stops!Reviewing, Stops!IsBusy, Stops!IsBusyExcept, Stops!Blocked, Stops!Loading, Stops!PageBusy,
      Stops!Outlasting, Stops!Begin, Stops!Send, Stops!KeyOf, Stops!SubmitCapture, Stops!SubmitStop,
      Stops!OpenEditor, Stops!SubmitCorrection, Stops!Known, Stops!Allowed, Stops!Written, Stops!Serve,
      Stops!Refuse, Stops!ServeLost, Stops!OtherTab, Stops!LastOf, Stops!Told, Stops!Invalidated,
      Stops!AwaitReads, Stops!Booked, Stops!CaptureBooked, Stops!StopBooked, Stops!CorrectionBooked,
      Stops!Refused, Stops!Orphans, Stops!NoAnswer, Stops!Fails, Stops!Kept, Stops!Shown, Stops!Arrive,
      Stops!ReadFails, Stops!Replaced, Stops!Reviewed, Stops!Finish, Stops!Review, Stops!Lookup,
      Stops!EditCapture, Stops!TypeStop, Stops!Reload, Stops!Next,
      RetriedProof!TP!Forms, RetriedProof!TP!FormOf, RetriedProof!TP!Entry, RetriedProof!TP!NoEntry,
      RetriedProof!TP!Elsewhere, RetriedProof!TP!Idle, RetriedProof!TP!Clear, RetriedProof!TP!Read,
      RetriedProof!TP!Effective, RetriedProof!TP!StopAt, RetriedProof!TP!Blank, RetriedProof!TP!Empty,
      RetriedProof!TP!FirstReads, RetriedProof!TP!Locked, RetriedProof!TP!Reviewing, RetriedProof!TP!IsBusy,
      RetriedProof!TP!IsBusyExcept, RetriedProof!TP!Blocked, RetriedProof!TP!Loading,
      RetriedProof!TP!PageBusy, RetriedProof!TP!Outlasting, RetriedProof!TP!Begin, RetriedProof!TP!Send,
      RetriedProof!TP!KeyOf, RetriedProof!TP!SubmitCapture, RetriedProof!TP!SubmitStop,
      RetriedProof!TP!OpenEditor, RetriedProof!TP!SubmitCorrection, RetriedProof!TP!Known,
      RetriedProof!TP!Allowed, RetriedProof!TP!Written, RetriedProof!TP!Serve, RetriedProof!TP!Refuse,
      RetriedProof!TP!ServeLost, RetriedProof!TP!OtherTab, RetriedProof!TP!LastOf, RetriedProof!TP!Told,
      RetriedProof!TP!Invalidated, RetriedProof!TP!AwaitReads, RetriedProof!TP!Booked,
      RetriedProof!TP!CaptureBooked, RetriedProof!TP!StopBooked, RetriedProof!TP!CorrectionBooked,
      RetriedProof!TP!Refused, RetriedProof!TP!Orphans, RetriedProof!TP!NoAnswer, RetriedProof!TP!Fails,
      RetriedProof!TP!Kept, RetriedProof!TP!Shown, RetriedProof!TP!Arrive, RetriedProof!TP!ReadFails,
      RetriedProof!TP!Replaced, RetriedProof!TP!Reviewed, RetriedProof!TP!Finish, RetriedProof!TP!Review,
      RetriedProof!TP!Lookup, RetriedProof!TP!EditCapture, RetriedProof!TP!TypeStop, RetriedProof!TP!Reload,
      RetriedProof!TP!Next
  <1> QED BY <1>1, <1>2

\* Its constants are as assumed.
LEMMA StopsMeets == RetriedProof!TP!PageAssumption
  BY PartsAssumption DEF PartsAssumption,
     Stops!PageAssumption, RetriedProof!TP!PageAssumption

\* It keeps its invariant, and with it what the run checks.
LEMMA StopsHolds == Spec => [](part = "stops" => Stops!TypeOK /\ Stops!InputBookedOnce /\ Stops!ShownIsCurrent /\ Stops!TypedIsKept)
  <1> DEFINE Inv == part = "stops" => RetriedProof!TradeInv
  <1>1. Init => Inv
    BY StopsIsProved, StopsMeets, RetriedProof!TradeStarts DEF Init
  <1>2. ASSUME Inv, [Next]_allVars PROVE Inv'
    <2>1. part' = part /\ (part = "stops" => [RetriedProof!TP!Next]_(RetriedProof!TP!pageVars))
      BY StopsIsProved, <1>2 DEF Next, allVars, RetriedProof!TP!pageVars
    <2> QED BY <2>1, <1>2, StopsMeets, RetriedProof!TradeKeeps
  <1>3. ASSUME Inv, part = "stops" PROVE Stops!TypeOK /\ Stops!InputBookedOnce /\ Stops!ShownIsCurrent /\ Stops!TypedIsKept
    <2>1. RetriedProof!TP!TypeOK /\ RetriedProof!TP!InputBookedOnce /\ RetriedProof!TP!ShownIsCurrent /\ RetriedProof!TP!TypedIsKept
      BY <1>3, StopsMeets, RetriedProof!TradeSays
    <2> QED BY <2>1 DEF
        Stops!Forms, Stops!Elsewhere, Stops!TypeOK, Stops!InputBookedOnce, Stops!Loading,
        Stops!ShownIsCurrent, Stops!TypedIsKept,
        RetriedProof!TP!Forms, RetriedProof!TP!Elsewhere, RetriedProof!TP!TypeOK, RetriedProof!TP!Loading,
        RetriedProof!TP!InputBookedOnce, RetriedProof!TP!ShownIsCurrent, RetriedProof!TP!TypedIsKept
  <1> QED BY <1>1, <1>2, <1>3, PTL DEF Spec

===============================================================================
