---------------------------- MODULE ServicesProofs ----------------------------
(***************************************************************************)
(* The theorems about the services, for the parts that PartsProofs leaves  *)
(* (where two parts are of one module, the second ones), and those that    *)
(* need them.                                                              *)
(***************************************************************************)
EXTENDS PartsProofs

-----------------------------------------------------------------------------
(* The part "risks".                                                       *)

EditedProof == INSTANCE LearningProofs WITH
    Governors <- Two, Numbers <- Three, Proposals <- {"p", "q"}, Hypotheses <- {"h"}, MaxActivations
    <- 2, Planners <- Two, MaxReviews <- 3, Bases <- Two, LastSession <- 3, LastRevision <- 2,
    MaxRaised <- 1, Trends <- {"ABOVE", "BELOW"}, Volatilities <- {"LOW"}, ConfirmationSessions <-
    2, MaxRevised <- 1, MaxRestarts <- 0, Clients <- One, Jobs <- {"job"}, Contents <- Two, Files <-
    Three, Outcomes <- {"FAILED", "UNRESOLVED", "VALID"}, Versions <- Both, Signals <- First, Keys
    <- First, MaxTransitions <- 2, Metadata <- {"title", "tags", "suggestion"}, Exits <- {"first",
    "open"}, Series <- {"full", "short"}, LastVersion <- 2, LastJournal <- 1, MaxChanges <- 2,
    Trades <- Both, First <- 1, Links <- Both, LinkKeys <- {"k", "q"}, LastLinked <- 3, Begun <-
    {"draft"}, Texts <- Isins, OtherOps <- {}, MaxVersions <- 1, MaxRevision <- 2, MaxSource <- 1,
    MaxCommands <- 1, modelVersion <- v1, proposal <- v2, hypothesis <- v3, granted <- v4,
    activation <- v5, clock <- v6, task <- v7, plan <- v1, version <- v2, approvals <- v3, events <-
    v4, command <- v5, market <- v1, held <- v2, setting <- v3, snapshots <- v4, latest <- v5, edge
    <- v6, warning <- v7, told <- v8, sweep <- v9, restarts <- v10, changes <- v11, job <- v1, file
    <- v2, row <- v3, imported <- v4, request <- v5, lesson <- v1, versions <- v2, signals <- v3,
    transitions <- v4, sent <- v5, stored <- v6, promised <- v7, editing <- v8, facts <- v1,
    observation <- v2, review <- v3, evidence <- v4, journal <- v5, session <- v6, altered <- v7,
    trade <- v1, link <- v2, referenced <- v3, receipt <- v4, work <- v5, drafts <- v1, proven <-
    v2, basis <- v3, applied <- v4, page <- v5, attempt <- v6, call <- v7, reading <- v8, late <-
    v9, keys <- v10, memory <- v11

\* The part is what is proved of RiskAlerts.
LEMMA RisksIsProved == (Risks!Init => EditedProof!RA!Init) /\ (Risks!Next => EditedProof!RA!Next)
  <1>1. Risks!Init => EditedProof!RA!Init
    BY SMTT(30) DEF
      Risks!Rules, Risks!Keys, Risks!Raised, Risks!Idle, Risks!Init,
      EditedProof!RA!Rules, EditedProof!RA!Keys, EditedProof!RA!Raised, EditedProof!RA!Idle,
      EditedProof!RA!Init
  <1>2. /\ Risks!Last = EditedProof!RA!Last /\ Risks!ViewBasis = EditedProof!RA!ViewBasis /\ Risks!Rules = EditedProof!RA!Rules
        /\ Risks!Keys = EditedProof!RA!Keys /\ Risks!Raised = EditedProof!RA!Raised /\ Risks!Uninitialized = EditedProof!RA!Uninitialized
    BY SMTT(30) DEF
       Risks!Last, Risks!ViewBasis, Risks!Rules, Risks!Keys, Risks!Raised, Risks!Uninitialized,
       EditedProof!RA!Last, EditedProof!RA!ViewBasis, EditedProof!RA!Rules, EditedProof!RA!Keys,
       EditedProof!RA!Raised, EditedProof!RA!Uninitialized
  <1>3. Risks!Fingerprint = EditedProof!RA!Fingerprint /\ Risks!Previous = EditedProof!RA!Previous
    <2>1. Risks!Fingerprint = EditedProof!RA!Fingerprint
      BY <1>2, ZenonT(30) DEF Risks!Fingerprint, EditedProof!RA!Fingerprint
    <2>2. Risks!Previous = EditedProof!RA!Previous
      BY ZenonT(60) DEF
       Risks!Previous, Risks!Last, Risks!ViewBasis, Risks!Uninitialized, EditedProof!RA!Previous,
       EditedProof!RA!Last, EditedProof!RA!ViewBasis, EditedProof!RA!Uninitialized
    <2> QED BY <2>1, <2>2
  <1>4. ASSUME NEW x
        PROVE  /\ Risks!KeyOf(x) = EditedProof!RA!KeyOf(x) /\ Risks!Crossing(x) = EditedProof!RA!Crossing(x)
               /\ Risks!Volatile(x) <=> EditedProof!RA!Volatile(x)
    BY <1>2, ZenonT(30) DEF
       Risks!KeyOf, Risks!Crossing, Risks!Volatile, EditedProof!RA!KeyOf, EditedProof!RA!Crossing,
       EditedProof!RA!Volatile
  <1>5. ASSUME NEW x PROVE Risks!Assessed(x) = EditedProof!RA!Assessed(x)
    BY <1>2, <1>4, Zenon DEF
       Risks!Assessed, EditedProof!RA!Assessed
  <1>6. ASSUME NEW x, Risks!Process(x) PROVE EditedProof!RA!Process(x)
    BY <1>6, ZenonT(60) DEF
       Risks!Process, Risks!Entered, Risks!Exited, Risks!Number, Risks!Superseded, Risks!KeyOf,
       Risks!ViewBasis, Risks!Last, Risks!Rules, Risks!Keys, Risks!Raised, Risks!Cardinality,
       EditedProof!RA!Process, EditedProof!RA!Entered, EditedProof!RA!Exited, EditedProof!RA!Number,
       EditedProof!RA!Superseded, EditedProof!RA!KeyOf, EditedProof!RA!ViewBasis, EditedProof!RA!Last,
       EditedProof!RA!Rules, EditedProof!RA!Keys, EditedProof!RA!Raised, EditedProof!RA!Cardinality
  <1>7. ASSUME NEW older, Risks!Evaluate(older) PROVE EditedProof!RA!Evaluate(older)
    BY <1>2, <1>3, <1>5, <1>6, <1>7, Zenon DEF
       Risks!Evaluate, EditedProof!RA!Evaluate
  <1>8. Risks!Replayed = EditedProof!RA!Replayed
    BY <1>2, <1>4, Zenon DEF
       Risks!Replayed, EditedProof!RA!Replayed
  <1>9. Risks!Next => EditedProof!RA!Next
    BY <1>2, <1>3, <1>7, <1>8, ZenonT(60) DEF
       Risks!Idle, Risks!Change, Risks!NewSession, Risks!Rebase, Risks!Qualify, Risks!Sell, Risks!Reopen,
       Risks!CancelTrade, Risks!EvaluateByHand, Risks!Configure, Risks!List, Risks!EvaluateInSweep,
       Risks!NothingFound, Risks!Notify, Risks!EndOfSweep, Risks!Crash, Risks!Step, Risks!Next,
       EditedProof!RA!Idle, EditedProof!RA!Change, EditedProof!RA!NewSession, EditedProof!RA!Rebase,
       EditedProof!RA!Qualify, EditedProof!RA!Sell, EditedProof!RA!Reopen, EditedProof!RA!CancelTrade,
       EditedProof!RA!EvaluateByHand, EditedProof!RA!Configure, EditedProof!RA!List,
       EditedProof!RA!EvaluateInSweep, EditedProof!RA!NothingFound, EditedProof!RA!Notify,
       EditedProof!RA!EndOfSweep, EditedProof!RA!Crash, EditedProof!RA!Step, EditedProof!RA!Next
  <1> QED BY <1>1, <1>9

\* Its constants are as assumed.
LEMMA RisksMeets == EditedProof!RA!RiskAssumption
  BY PartsAssumption DEF PartsAssumption,
     Risks!RiskAssumption, EditedProof!RA!RiskAssumption

\* It keeps its invariant, and with it what the run checks.
LEMMA RisksHolds == Spec => [](part = "risks" => Risks!TypeOK /\ Risks!OpenWarningsAgree)
  <1> DEFINE Inv == part = "risks" => EditedProof!RiskInv
  <1>1. Init => Inv
    BY RisksIsProved, RisksMeets, EditedProof!RiskInit DEF Init
  <1>2. ASSUME Inv, [Next]_allVars PROVE Inv'
    <2>1. part' = part /\ (part = "risks" => [EditedProof!RA!Next]_(EditedProof!RA!riskVars))
      BY RisksIsProved, <1>2 DEF Next, allVars, EditedProof!RA!riskVars
    <2> QED BY <2>1, <1>2, RisksMeets, EditedProof!RiskNext
  <1>3. ASSUME Inv, part = "risks" PROVE Risks!TypeOK /\ Risks!OpenWarningsAgree
    <2>1. EditedProof!RA!TypeOK /\ EditedProof!RA!OpenWarningsAgree
      BY <1>3, RisksMeets, EditedProof!RiskInvSuffices
    <2> QED BY <2>1 DEF
        Risks!Rules, Risks!Keys, Risks!Raised, Risks!States, Risks!Snapshots, Risks!Markets, Risks!TypeOK,
        Risks!Cardinality, Risks!OpenWarningsAgree,
        EditedProof!RA!Rules, EditedProof!RA!Keys, EditedProof!RA!Raised, EditedProof!RA!States,
        EditedProof!RA!Snapshots, EditedProof!RA!Markets, EditedProof!RA!TypeOK,
        EditedProof!RA!OpenWarningsAgree, EditedProof!RA!Cardinality
  <1> QED BY <1>1, <1>2, <1>3, PTL DEF Spec

\* Open risk warnings are those of the rows, of one revision and one basis.
THEOREM PartsWarningsAgree == Spec => []OpenWarningsAgree
  BY RiskHolds, RisksHolds, PTL DEF OpenWarningsAgree

-----------------------------------------------------------------------------
(* The part "import".                                                      *)

\* The part is what is proved of ImportJob.
LEMMA ImportIsProved == (Import!Init => EditedProof!IJ!Init) /\ (Import!Next => EditedProof!IJ!Next)
  <1>1. Import!Init => EditedProof!IJ!Init
    BY SMTT(30) DEF
      Import!None, Import!NoRequest, Import!NoFile, Import!NoRow, Import!Init,
      EditedProof!IJ!None, EditedProof!IJ!NoRequest, EditedProof!IJ!NoFile, EditedProof!IJ!NoRow,
      EditedProof!IJ!Init
  <1>2. Import!Next => EditedProof!IJ!Next
    BY ZenonT(60) DEF
      Import!None, Import!NoRequest, Import!FilesOf, Import!Summary, Import!StatusOf, Import!Merged,
      Import!Fresh, Import!FreshFile, Import!FreshRow, Import!Locked, Import!Sends, Import!CreateJob,
      Import!AddFiles, Import!AnyCopy, Import!FailedBefore, Import!FindContent, Import!ParseFile,
      Import!FlushDuplicate, Import!CommitDuplicate, Import!ReadRow, Import!FileAfter, Import!LifecycleKept,
      Import!FlushRow, Import!JobAfter, Import!CommitRow, Import!PendingFiles, Import!ReadConfirm,
      Import!NotYetObserved, Import!CommitConfirm, Import!Leave, Import!Next, Import!Cardinality,
      EditedProof!IJ!None, EditedProof!IJ!NoRequest, EditedProof!IJ!FilesOf, EditedProof!IJ!Summary,
      EditedProof!IJ!StatusOf, EditedProof!IJ!Merged, EditedProof!IJ!Fresh, EditedProof!IJ!FreshFile,
      EditedProof!IJ!FreshRow, EditedProof!IJ!Locked, EditedProof!IJ!Sends, EditedProof!IJ!CreateJob,
      EditedProof!IJ!AddFiles, EditedProof!IJ!AnyCopy, EditedProof!IJ!FailedBefore,
      EditedProof!IJ!FindContent, EditedProof!IJ!ParseFile, EditedProof!IJ!FlushDuplicate,
      EditedProof!IJ!CommitDuplicate, EditedProof!IJ!ReadRow, EditedProof!IJ!FileAfter,
      EditedProof!IJ!LifecycleKept, EditedProof!IJ!FlushRow, EditedProof!IJ!JobAfter,
      EditedProof!IJ!CommitRow, EditedProof!IJ!PendingFiles, EditedProof!IJ!ReadConfirm,
      EditedProof!IJ!NotYetObserved, EditedProof!IJ!CommitConfirm, EditedProof!IJ!Leave, EditedProof!IJ!Next,
      EditedProof!IJ!Cardinality
  <1> QED BY <1>1, <1>2

\* Its constants are as assumed.
LEMMA ImportMeets == EditedProof!IJ!ImportAssumption
  BY PartsAssumption DEF PartsAssumption,
     Import!ImportAssumption, EditedProof!IJ!ImportAssumption, Import!IsFiniteSet, EditedProof!IJ!IsFiniteSet

\* It keeps its invariant, and with it what the run checks.
LEMMA ImportHolds == Spec => [](part = "import" => Import!TypeOK /\ Import!AcceptedOnce /\ Import!JobTellsItsFiles)
  <1> DEFINE Inv == part = "import" => EditedProof!ImportsInv
  <1>1. Init => Inv
    BY ImportIsProved, ImportMeets, EditedProof!ImportsInit DEF Init
  <1>2. ASSUME Inv, [Next]_allVars PROVE Inv'
    <2>1. part' = part /\ (part = "import" => [EditedProof!IJ!Next]_(EditedProof!IJ!importVars))
      BY ImportIsProved, <1>2 DEF Next, allVars, EditedProof!IJ!importVars
    <2> QED BY <2>1, <1>2, ImportMeets, EditedProof!ImportsNext
  <1>3. ASSUME Inv, part = "import" PROVE Import!TypeOK /\ Import!AcceptedOnce /\ Import!JobTellsItsFiles
    <2>1. EditedProof!IJ!TypeOK /\ EditedProof!IJ!AcceptedOnce /\ EditedProof!IJ!JobTellsItsFiles
      BY <1>3, ImportMeets, EditedProof!ImportsInvSuffices
    <2> QED BY <2>1 DEF
        Import!None, Import!JobStatuses, Import!FileStatuses, Import!Requests, Import!TypeOK,
        Import!AcceptedOnce, Import!FilesOf, Import!Summary, Import!StatusOf, Import!PendingFiles,
        Import!OneClient, Import!JobTellsItsFiles, Import!Cardinality,
        EditedProof!IJ!None, EditedProof!IJ!JobStatuses, EditedProof!IJ!FileStatuses, EditedProof!IJ!Requests,
        EditedProof!IJ!TypeOK, EditedProof!IJ!FilesOf, EditedProof!IJ!Summary, EditedProof!IJ!StatusOf,
        EditedProof!IJ!PendingFiles, EditedProof!IJ!AcceptedOnce, EditedProof!IJ!OneClient,
        EditedProof!IJ!JobTellsItsFiles, EditedProof!IJ!Cardinality
  <1> QED BY <1>1, <1>2, <1>3, PTL DEF Spec

\* What tells of the status of other rows tells the truth: the job of its files, the events
\* of a plan, an analysis, a warrant, an underlying and of the currency catalog.
THEOREM PartsTellStatus == Spec => []StatusIsTold
  <1>1. (
          /\ part = "import" => Import!TypeOK /\ Import!AcceptedOnce /\ Import!JobTellsItsFiles
          /\ part = "plan" => Plan!TypeOK /\ Plan!OneApproved /\ Plan!HistoryTellsStatus
          /\ part = "analysis" => Analysis!TypeOK /\ Analysis!EventsTellRuns
          /\ part = "product" => Product!TypeOK /\ Product!AuditTellsIdentity /\ Product!EvidenceIsAsReviewed
          /\ part = "listing" => Listing!TypeOK /\ Listing!OperationalHasPrimary /\ Listing!AuditTellsVersions
          /\ part = "underlying" => Underlying!TypeOK /\ Listing!OperationalHasPrimary /\ Listing!AuditTellsVersions
          /\ part = "catalog" => Catalog!TypeOK /\ Catalog!AuditTellsCatalog /\ Catalog!UnitsStay)
        => StatusIsTold
    BY DEF StatusIsTold
  <1> QED BY <1>1, ImportHolds, PlanHolds, AnalysisHolds, ProductHolds, ListingHolds, UnderlyingHolds, CatalogHolds, PTL

-----------------------------------------------------------------------------
(* The part "edited".                                                      *)

\* The part is what is proved of Lessons.
LEMMA EditedIsProved == (Edited!Init => EditedProof!LS!Init) /\ (Edited!Next => EditedProof!LS!Next)
  <1>1. Edited!Init => EditedProof!LS!Init
    BY SMTT(30) DEF
      Edited!None, Edited!Init,
      EditedProof!LS!None, EditedProof!LS!Init
  <1>2. Edited!Next => EditedProof!LS!Next
    BY ZenonT(60) DEF
      Edited!None, Edited!States, Edited!Relations, Edited!Operations, Edited!Written, Edited!Raised,
      Edited!Opened, Edited!First, Edited!OpenSignal, Edited!Context, Edited!Locks, Edited!SeenIsCurrent,
      Edited!Receipted, Edited!NoOpenSignal, Edited!Moves, Edited!Writes, Edited!Resolves, Edited!Create,
      Edited!NewVersion, Edited!Allowed, Edited!Transition, Edited!OpenReview, Edited!Resolvable,
      Edited!Resolved, Edited!ResolveUnchanged, Edited!ResolveRetired, Edited!ResolveWithVersion,
      Edited!Endpoint, Edited!Send, Edited!SourceReview, Edited!SignalReview, Edited!Opens, Edited!Execute,
      Edited!Flushes, Edited!UpdateTitle, Edited!ReplaceTags, Edited!Undecided, Edited!RejectSuggestion,
      Edited!ConfirmSuggestion, Edited!Answer, Edited!Next,
      EditedProof!LS!None, EditedProof!LS!States, EditedProof!LS!Relations, EditedProof!LS!Operations,
      EditedProof!LS!Written, EditedProof!LS!Raised, EditedProof!LS!Opened, EditedProof!LS!First,
      EditedProof!LS!OpenSignal, EditedProof!LS!Context, EditedProof!LS!Locks, EditedProof!LS!SeenIsCurrent,
      EditedProof!LS!Receipted, EditedProof!LS!NoOpenSignal, EditedProof!LS!Moves, EditedProof!LS!Writes,
      EditedProof!LS!Resolves, EditedProof!LS!Create, EditedProof!LS!NewVersion, EditedProof!LS!Allowed,
      EditedProof!LS!Transition, EditedProof!LS!OpenReview, EditedProof!LS!Resolvable,
      EditedProof!LS!Resolved, EditedProof!LS!ResolveUnchanged, EditedProof!LS!ResolveRetired,
      EditedProof!LS!ResolveWithVersion, EditedProof!LS!Endpoint, EditedProof!LS!Send,
      EditedProof!LS!SourceReview, EditedProof!LS!SignalReview, EditedProof!LS!Opens, EditedProof!LS!Execute,
      EditedProof!LS!Flushes, EditedProof!LS!UpdateTitle, EditedProof!LS!ReplaceTags,
      EditedProof!LS!Undecided, EditedProof!LS!RejectSuggestion, EditedProof!LS!ConfirmSuggestion,
      EditedProof!LS!Answer, EditedProof!LS!Next
  <1> QED BY <1>1, <1>2

\* Its constants are as assumed.
LEMMA EditedMeets == EditedProof!LS!LessonsAssumption
  BY PartsAssumption DEF PartsAssumption,
     Edited!LessonsAssumption, EditedProof!LS!LessonsAssumption, Edited!IsFiniteSet,
     EditedProof!LS!IsFiniteSet, Edited!Cardinality, EditedProof!LS!Cardinality

\* It keeps its invariant, and with it what the run checks.
LEMMA EditedHolds == Spec => [](part = "edited" => Edited!TypeOK)
  <1> DEFINE Inv == part = "edited" => EditedProof!LessonsInv
  <1>1. Init => Inv
    BY EditedIsProved, EditedMeets, EditedProof!LessonsInit DEF Init
  <1>2. ASSUME Inv, [Next]_allVars PROVE Inv'
    <2>1. part' = part /\ (part = "edited" => [EditedProof!LS!Next]_(EditedProof!LS!lessonVars))
      BY EditedIsProved, <1>2 DEF Next, allVars, EditedProof!LS!lessonVars
    <2> QED BY <2>1, <1>2, EditedMeets, EditedProof!LessonsNext
  <1>3. ASSUME Inv, part = "edited" PROVE Edited!TypeOK
    <2>1. EditedProof!LS!TypeOK
      BY <1>3, EditedMeets, EditedProof!LessonsInvSuffices
    <2> QED BY <2>1 DEF
        Edited!None, Edited!States, Edited!Relations, Edited!Operations, Edited!Contexts, Edited!TypeOK,
        EditedProof!LS!None, EditedProof!LS!States, EditedProof!LS!Relations, EditedProof!LS!Operations,
        EditedProof!LS!Contexts, EditedProof!LS!TypeOK
  <1> QED BY <1>1, <1>2, <1>3, PTL DEF Spec

-----------------------------------------------------------------------------
(* The part "typing".                                                      *)

\* The part is what is proved of JournalPage.
LEMMA TypingIsProved == (Typing!Init => EditedProof!JP!Init) /\ (Typing!Next => EditedProof!JP!Next)
  <1>1. Typing!Init => EditedProof!JP!Init
    BY DEF
      Typing!Version, Typing!NoVersion, Typing!NoCommand, Typing!NoEditor, Typing!NoConfirmation,
      Typing!NoAttempt, Typing!NoCall, Typing!Unread, Typing!NoRead, Typing!Untyped, Typing!Blank,
      Typing!Asked, Typing!Init,
      EditedProof!JP!Version, EditedProof!JP!NoVersion, EditedProof!JP!NoCommand, EditedProof!JP!NoEditor,
      EditedProof!JP!NoConfirmation, EditedProof!JP!NoAttempt, EditedProof!JP!NoCall, EditedProof!JP!Unread,
      EditedProof!JP!NoRead, EditedProof!JP!Untyped, EditedProof!JP!Blank, EditedProof!JP!Asked,
      EditedProof!JP!Init
  <1>2. Typing!Next => EditedProof!JP!Next
    BY ZenonT(60) DEF
      Typing!Version, Typing!NoVersion, Typing!Command, Typing!NoCommand, Typing!NoEditor,
      Typing!NoConfirmation, Typing!NoAttempt, Typing!NoCall, Typing!Unread, Typing!NoRead, Typing!Untyped,
      Typing!History, Typing!Blank, Typing!Asked, Typing!Latest, Typing!VersionOf, Typing!Refers, Typing!Outdated,
      Typing!Applicable, Typing!Apply, Typing!ReceiptFor, Typing!Execute, Typing!Serve, Typing!ServeLost,
      Typing!OtherTab, Typing!SourceChanges, Typing!ServeRead, Typing!Shown, Typing!Entry, Typing!ShownLatest,
      Typing!Current, Typing!Dirty, Typing!Conflict, Typing!CanAct, Typing!Confirmable, Typing!Offered,
      Typing!Begin, Typing!Load, Typing!Bump, Typing!Edit, Typing!Type, Typing!CancelEdit,
      Typing!OpenConfirmation, Typing!CancelConfirmation, Typing!Perform, Typing!Save, Typing!Confirm,
      Typing!Retry, Typing!Receipt, Typing!Refused, Typing!Orphan, Typing!NoAnswer, Typing!Result,
      Typing!Settled, Typing!Verified, Typing!Saves, Typing!EditorAfter, Typing!OpensDraft,
      Typing!SelectedAfter, Typing!Disposes, Typing!Arrive, Typing!ReadFails, Typing!Leave, Typing!Next,
      EditedProof!JP!Version, EditedProof!JP!NoVersion, EditedProof!JP!Command, EditedProof!JP!NoCommand,
      EditedProof!JP!NoEditor, EditedProof!JP!NoConfirmation, EditedProof!JP!NoAttempt, EditedProof!JP!NoCall,
      EditedProof!JP!Unread, EditedProof!JP!NoRead, EditedProof!JP!Untyped, EditedProof!JP!History,
      EditedProof!JP!Blank, EditedProof!JP!Asked, EditedProof!JP!Latest, EditedProof!JP!VersionOf,
      EditedProof!JP!Refers, EditedProof!JP!Outdated, EditedProof!JP!Applicable, EditedProof!JP!Apply, EditedProof!JP!ReceiptFor,
      EditedProof!JP!Execute, EditedProof!JP!Serve, EditedProof!JP!ServeLost, EditedProof!JP!OtherTab,
      EditedProof!JP!SourceChanges, EditedProof!JP!ServeRead, EditedProof!JP!Shown, EditedProof!JP!Entry,
      EditedProof!JP!ShownLatest, EditedProof!JP!Current, EditedProof!JP!Dirty, EditedProof!JP!Conflict,
      EditedProof!JP!CanAct, EditedProof!JP!Confirmable, EditedProof!JP!Offered, EditedProof!JP!Begin,
      EditedProof!JP!Load, EditedProof!JP!Bump, EditedProof!JP!Edit, EditedProof!JP!Type,
      EditedProof!JP!CancelEdit, EditedProof!JP!OpenConfirmation, EditedProof!JP!CancelConfirmation,
      EditedProof!JP!Perform, EditedProof!JP!Save, EditedProof!JP!Confirm, EditedProof!JP!Retry,
      EditedProof!JP!Receipt, EditedProof!JP!Refused, EditedProof!JP!Orphan, EditedProof!JP!NoAnswer,
      EditedProof!JP!Result, EditedProof!JP!Settled, EditedProof!JP!Verified, EditedProof!JP!Saves,
      EditedProof!JP!EditorAfter, EditedProof!JP!OpensDraft, EditedProof!JP!SelectedAfter,
      EditedProof!JP!Disposes, EditedProof!JP!Arrive, EditedProof!JP!ReadFails, EditedProof!JP!Leave,
      EditedProof!JP!Next
  <1> QED BY <1>1, <1>2

\* Its constants are as assumed.
LEMMA TypingMeets == EditedProof!JP!JournalAssumption
  BY PartsAssumption DEF PartsAssumption,
     Typing!JournalAssumption, EditedProof!JP!JournalAssumption

\* It keeps its invariant, and with it what the run checks.
LEMMA TypingHolds == Spec => [](part = "typing" => Typing!TypeOK /\ Journal!RefusedIsNotApplied /\ Journal!FoundAsSeen /\ Journal!TypedIsKept /\ Journal!ResultIsShown)
  <1> DEFINE Inv == part = "typing" => EditedProof!JournalInv
  <1>1. Init => Inv
    BY TypingIsProved, TypingMeets, EditedProof!JournalStarts DEF Init
  <1>2. ASSUME Inv, [Next]_allVars PROVE Inv'
    <2>1. part' = part /\ (part = "typing" => [EditedProof!JP!Next]_(EditedProof!JP!journalVars))
      BY TypingIsProved, <1>2 DEF Next, allVars, EditedProof!JP!journalVars
    <2> QED BY <2>1, <1>2, TypingMeets, EditedProof!JournalKeeps
  <1>3. ASSUME Inv, part = "typing" PROVE Typing!TypeOK /\ Journal!RefusedIsNotApplied /\ Journal!FoundAsSeen /\ Journal!TypedIsKept /\ Journal!ResultIsShown
    <2>1. EditedProof!JP!TypeOK /\ EditedProof!JP!RefusedIsNotApplied /\ EditedProof!JP!FoundAsSeen /\ EditedProof!JP!TypedIsKept /\ EditedProof!JP!ResultIsShown
      BY <1>3, TypingMeets, EditedProof!JournalSays
    <2> QED BY <2>1 DEF
        Typing!TypeOK, Journal!RefusedIsNotApplied, Journal!FoundAsSeen, Journal!Version, Journal!NoVersion,
        Journal!NoEditor, Journal!Untyped, Journal!TypedIsKept, Journal!NoCommand, Journal!NoAttempt,
        Journal!Shown, Journal!Entry, Journal!Conflict, Journal!CanAct, Journal!ResultIsShown,
        EditedProof!JP!Version, EditedProof!JP!NoVersion, EditedProof!JP!NoCommand, EditedProof!JP!NoEditor,
        EditedProof!JP!NoAttempt, EditedProof!JP!Untyped, EditedProof!JP!TypeOK, EditedProof!JP!Shown,
        EditedProof!JP!Entry, EditedProof!JP!Conflict, EditedProof!JP!CanAct,
        EditedProof!JP!RefusedIsNotApplied, EditedProof!JP!FoundAsSeen, EditedProof!JP!TypedIsKept,
        EditedProof!JP!ResultIsShown
  <1> QED BY <1>1, <1>2, <1>3, PTL DEF Spec

-----------------------------------------------------------------------------
(* The part "followed".                                                    *)

FollowedProof == INSTANCE LearningProofs WITH
    Governors <- Two, Numbers <- Three, Proposals <- {"p", "q"}, Hypotheses <- {"h"}, MaxActivations
    <- 2, Planners <- Two, MaxReviews <- 3, Bases <- Two, LastSession <- 3, LastRevision <- 2,
    MaxRaised <- 1, Trends <- {"ABOVE", "BELOW"}, Volatilities <- {"LOW"}, ConfirmationSessions <-
    2, MaxRevised <- 1, MaxRestarts <- 0, Clients <- One, Jobs <- {"job"}, Contents <- Two, Files <-
    Three, Outcomes <- {"FAILED", "UNRESOLVED", "VALID"}, Versions <- Both, Signals <- First, Keys
    <- First, MaxTransitions <- 2, Metadata <- {"title", "tags", "suggestion"}, Exits <- {"first",
    "open"}, Series <- {"full", "short"}, LastVersion <- 2, LastJournal <- 1, MaxChanges <- 2,
    Trades <- Both, First <- 1, Links <- Both, LinkKeys <- {"k", "q"}, LastLinked <- 3, Begun <-
    {"none", "draft", "final"}, Texts <- {}, OtherOps <- {}, MaxVersions <- 2, MaxRevision <- 2,
    MaxSource <- 2, MaxCommands <- 1, modelVersion <- v1, proposal <- v2, hypothesis <- v3, granted
    <- v4, activation <- v5, clock <- v6, task <- v7, plan <- v1, version <- v2, approvals <- v3,
    events <- v4, command <- v5, market <- v1, held <- v2, setting <- v3, snapshots <- v4, latest <-
    v5, edge <- v6, warning <- v7, told <- v8, sweep <- v9, restarts <- v10, changes <- v11, job <-
    v1, file <- v2, row <- v3, imported <- v4, request <- v5, lesson <- v1, versions <- v2, signals
    <- v3, transitions <- v4, sent <- v5, stored <- v6, promised <- v7, editing <- v8, facts <- v1,
    observation <- v2, review <- v3, evidence <- v4, journal <- v5, session <- v6, altered <- v7,
    trade <- v1, link <- v2, referenced <- v3, receipt <- v4, work <- v5, drafts <- v1, proven <-
    v2, basis <- v3, applied <- v4, page <- v5, attempt <- v6, call <- v7, reading <- v8, late <-
    v9, keys <- v10, memory <- v11

\* The part is what is proved of JournalPage.
LEMMA FollowedIsProved == (Followed!Init => FollowedProof!JP!Init) /\ (Followed!Next => FollowedProof!JP!Next)
  <1>1. Followed!Init => FollowedProof!JP!Init
    BY ZenonT(30) DEF
      Followed!Version, Followed!NoVersion, Followed!NoCommand, Followed!NoEditor, Followed!NoConfirmation,
      Followed!NoAttempt, Followed!NoCall, Followed!Unread, Followed!NoRead, Followed!Untyped, Followed!Blank,
      Followed!Asked, Followed!Init,
      FollowedProof!JP!Version, FollowedProof!JP!NoVersion, FollowedProof!JP!NoCommand,
      FollowedProof!JP!NoEditor, FollowedProof!JP!NoConfirmation, FollowedProof!JP!NoAttempt,
      FollowedProof!JP!NoCall, FollowedProof!JP!Unread, FollowedProof!JP!NoRead, FollowedProof!JP!Untyped,
      FollowedProof!JP!Blank, FollowedProof!JP!Asked, FollowedProof!JP!Init
  <1>2. Followed!Next => FollowedProof!JP!Next
    BY ZenonT(60) DEF
      Followed!Version, Followed!NoVersion, Followed!Command, Followed!NoCommand, Followed!NoEditor,
      Followed!NoConfirmation, Followed!NoAttempt, Followed!NoCall, Followed!Unread, Followed!NoRead,
      Followed!Untyped, Followed!History, Followed!Blank, Followed!Asked, Followed!Latest, Followed!VersionOf,
      Followed!Refers, Followed!Outdated, Followed!Applicable, Followed!Apply, Followed!ReceiptFor, Followed!Execute,
      Followed!Serve, Followed!ServeLost, Followed!OtherTab, Followed!SourceChanges, Followed!ServeRead,
      Followed!Shown, Followed!Entry, Followed!ShownLatest, Followed!Current, Followed!Dirty,
      Followed!Conflict, Followed!CanAct, Followed!Confirmable, Followed!Offered, Followed!Begin,
      Followed!Load, Followed!Bump, Followed!Edit, Followed!Type, Followed!CancelEdit,
      Followed!OpenConfirmation, Followed!CancelConfirmation, Followed!Perform, Followed!Save,
      Followed!Confirm, Followed!Retry, Followed!Receipt, Followed!Refused, Followed!Orphan,
      Followed!NoAnswer, Followed!Result, Followed!Settled, Followed!Verified, Followed!Saves,
      Followed!EditorAfter, Followed!OpensDraft, Followed!SelectedAfter, Followed!Disposes, Followed!Arrive,
      Followed!ReadFails, Followed!Leave, Followed!Next,
      FollowedProof!JP!Version, FollowedProof!JP!NoVersion, FollowedProof!JP!Command,
      FollowedProof!JP!NoCommand, FollowedProof!JP!NoEditor, FollowedProof!JP!NoConfirmation,
      FollowedProof!JP!NoAttempt, FollowedProof!JP!NoCall, FollowedProof!JP!Unread, FollowedProof!JP!NoRead,
      FollowedProof!JP!Untyped, FollowedProof!JP!History, FollowedProof!JP!Blank, FollowedProof!JP!Asked,
      FollowedProof!JP!Latest, FollowedProof!JP!VersionOf, FollowedProof!JP!Refers, FollowedProof!JP!Outdated,
      FollowedProof!JP!Applicable, FollowedProof!JP!Apply, FollowedProof!JP!ReceiptFor,
      FollowedProof!JP!Execute, FollowedProof!JP!Serve, FollowedProof!JP!ServeLost, FollowedProof!JP!OtherTab,
      FollowedProof!JP!SourceChanges, FollowedProof!JP!ServeRead, FollowedProof!JP!Shown,
      FollowedProof!JP!Entry, FollowedProof!JP!ShownLatest, FollowedProof!JP!Current, FollowedProof!JP!Dirty,
      FollowedProof!JP!Conflict, FollowedProof!JP!CanAct, FollowedProof!JP!Confirmable,
      FollowedProof!JP!Offered, FollowedProof!JP!Begin, FollowedProof!JP!Load, FollowedProof!JP!Bump,
      FollowedProof!JP!Edit, FollowedProof!JP!Type, FollowedProof!JP!CancelEdit,
      FollowedProof!JP!OpenConfirmation, FollowedProof!JP!CancelConfirmation, FollowedProof!JP!Perform,
      FollowedProof!JP!Save, FollowedProof!JP!Confirm, FollowedProof!JP!Retry, FollowedProof!JP!Receipt,
      FollowedProof!JP!Refused, FollowedProof!JP!Orphan, FollowedProof!JP!NoAnswer, FollowedProof!JP!Result,
      FollowedProof!JP!Settled, FollowedProof!JP!Verified, FollowedProof!JP!Saves,
      FollowedProof!JP!EditorAfter, FollowedProof!JP!OpensDraft, FollowedProof!JP!SelectedAfter,
      FollowedProof!JP!Disposes, FollowedProof!JP!Arrive, FollowedProof!JP!ReadFails, FollowedProof!JP!Leave,
      FollowedProof!JP!Next
  <1> QED BY <1>1, <1>2

\* Its constants are as assumed.
LEMMA FollowedMeets == FollowedProof!JP!JournalAssumption
  BY PartsAssumption DEF PartsAssumption,
     Followed!JournalAssumption, FollowedProof!JP!JournalAssumption

\* It keeps its invariant, and with it what the run checks.
LEMMA FollowedHolds == Spec => [](part = "followed" => Followed!TypeOK /\ Journal!RefusedIsNotApplied /\ Journal!FoundAsSeen /\ Journal!TypedIsKept /\ Journal!ResultIsShown)
  <1> DEFINE Inv == part = "followed" => FollowedProof!JournalInv
  <1>1. Init => Inv
    BY FollowedIsProved, FollowedMeets, FollowedProof!JournalStarts DEF Init
  <1>2. ASSUME Inv, [Next]_allVars PROVE Inv'
    <2>1. part' = part /\ (part = "followed" => [FollowedProof!JP!Next]_(FollowedProof!JP!journalVars))
      BY SMTT(30), FollowedIsProved, <1>2 DEF Next, allVars, FollowedProof!JP!journalVars
    <2> QED BY <2>1, <1>2, FollowedMeets, FollowedProof!JournalKeeps
  <1>3. ASSUME Inv, part = "followed" PROVE Followed!TypeOK /\ Journal!RefusedIsNotApplied /\ Journal!FoundAsSeen /\ Journal!TypedIsKept /\ Journal!ResultIsShown
    <2>1. FollowedProof!JP!TypeOK /\ FollowedProof!JP!RefusedIsNotApplied /\ FollowedProof!JP!FoundAsSeen /\ FollowedProof!JP!TypedIsKept /\ FollowedProof!JP!ResultIsShown
      BY <1>3, FollowedMeets, FollowedProof!JournalSays
    <2> QED BY <2>1 DEF
        Followed!TypeOK, Journal!RefusedIsNotApplied, Journal!FoundAsSeen, Journal!Version, Journal!NoVersion,
        Journal!NoEditor, Journal!Untyped, Journal!TypedIsKept, Journal!NoCommand, Journal!NoAttempt,
        Journal!Shown, Journal!Entry, Journal!Conflict, Journal!CanAct, Journal!ResultIsShown,
        FollowedProof!JP!Version, FollowedProof!JP!NoVersion, FollowedProof!JP!NoCommand,
        FollowedProof!JP!NoEditor, FollowedProof!JP!NoAttempt, FollowedProof!JP!Untyped,
        FollowedProof!JP!TypeOK, FollowedProof!JP!Shown, FollowedProof!JP!Entry, FollowedProof!JP!Conflict,
        FollowedProof!JP!CanAct, FollowedProof!JP!RefusedIsNotApplied, FollowedProof!JP!FoundAsSeen,
        FollowedProof!JP!TypedIsKept, FollowedProof!JP!ResultIsShown
  <1> QED BY <1>1, <1>2, <1>3, PTL DEF Spec

\* A command that is repeated, raced or told lost is applied once: the acceptance of a row,
\* the trade of an observation, the booking of an input, the sample of a slot, and a command on
\* a journal, which is not applied at all once it was refused as outdated.
THEOREM PartsAppliedOnce == Spec => []AppliedOnce
  <1>1. (
          /\ part = "import" => Import!TypeOK /\ Import!AcceptedOnce /\ Import!JobTellsItsFiles
          /\ part = "imports" => Imports!TypeOK /\ Imports!AcceptedOnce
          /\ part = "links" => Linked!TypeOK /\ Linked!OneActivePair /\ Linked!LinkedTradeStands /\ Linked!ExecutedOnce
          /\ part = "page" => Page!TypeOK /\ Page!InputBookedOnce /\ Page!ShownIsCurrent /\ Page!DoubtBlocksWrites
          /\ part = "stops" => Stops!TypeOK /\ Stops!InputBookedOnce /\ Stops!ShownIsCurrent /\ Stops!TypedIsKept
          /\ part = "quotes" => Quotes!TypeOK /\ Quotes!QuotesMoveOn /\ Quotes!SampledOnce
          /\ part = "journal" => Journal!TypeOK /\ Journal!RefusedIsNotApplied /\ Journal!FoundAsSeen /\ Journal!TypedIsKept /\ Journal!ResultIsShown
          /\ part = "typing" => Typing!TypeOK /\ Journal!RefusedIsNotApplied /\ Journal!FoundAsSeen /\ Journal!TypedIsKept /\ Journal!ResultIsShown
          /\ part = "followed" => Followed!TypeOK /\ Journal!RefusedIsNotApplied /\ Journal!FoundAsSeen /\ Journal!TypedIsKept /\ Journal!ResultIsShown)
        => AppliedOnce
    BY SMTT(30) DEF AppliedOnce
  <1> QED BY <1>1, ImportHolds, ImportsHolds, LinkedHolds, PageHolds, StopsHolds, QuotesHolds, JournalHolds, TypingHolds,
     FollowedHolds, PTL

\* What was decided on sight finds what was seen: a review of a lesson, the evidence of a
\* product, the inspection of a route, what is booked or typed at a page, and a version of a journal.
THEOREM PartsAppliedAsSeen == Spec => []AppliedAsSeen
  <1>1. (
          /\ part = "lesson" => Lesson!TypeOK /\ Lesson!ContradictionIsNotBypassed /\ Lesson!ReviewedAsSeen
          /\ part = "product" => Product!TypeOK /\ Product!AuditTellsIdentity /\ Product!EvidenceIsAsReviewed
          /\ part = "routes" => Routes!RoutesTypeOK /\ Routes!RouteIsKept /\ Routes!RouteIsAsInspected
          /\ part = "page" => Page!TypeOK /\ Page!InputBookedOnce /\ Page!ShownIsCurrent /\ Page!DoubtBlocksWrites
          /\ part = "stops" => Stops!TypeOK /\ Stops!InputBookedOnce /\ Stops!ShownIsCurrent /\ Stops!TypedIsKept
          /\ part = "catalog" => Catalog!TypeOK /\ Catalog!AuditTellsCatalog /\ Catalog!UnitsStay
          /\ part = "journal" => Journal!TypeOK /\ Journal!RefusedIsNotApplied /\ Journal!FoundAsSeen /\ Journal!TypedIsKept /\ Journal!ResultIsShown
          /\ part = "typing" => Typing!TypeOK /\ Journal!RefusedIsNotApplied /\ Journal!FoundAsSeen /\ Journal!TypedIsKept /\ Journal!ResultIsShown
          /\ part = "followed" => Followed!TypeOK /\ Journal!RefusedIsNotApplied /\ Journal!FoundAsSeen /\ Journal!TypedIsKept /\ Journal!ResultIsShown)
        => AppliedAsSeen
    BY SMTT(30) DEF AppliedAsSeen
  <1> QED BY <1>1, LessonHolds, ProductHolds, RoutesHolds, PageHolds, StopsHolds, CatalogHolds, JournalHolds, TypingHolds,
     FollowedHolds, PTL

\* A page does not act on what is older than what it was told was written.
THEOREM PartsShowWhatIsCurrent == Spec => []ShownIsCurrent
  <1>1. (
          /\ part = "page" => Page!TypeOK /\ Page!InputBookedOnce /\ Page!ShownIsCurrent /\ Page!DoubtBlocksWrites
          /\ part = "stops" => Stops!TypeOK /\ Stops!InputBookedOnce /\ Stops!ShownIsCurrent /\ Stops!TypedIsKept
          /\ part = "journal" => Journal!TypeOK /\ Journal!RefusedIsNotApplied /\ Journal!FoundAsSeen /\ Journal!TypedIsKept /\ Journal!ResultIsShown
          /\ part = "typing" => Typing!TypeOK /\ Journal!RefusedIsNotApplied /\ Journal!FoundAsSeen /\ Journal!TypedIsKept /\ Journal!ResultIsShown
          /\ part = "followed" => Followed!TypeOK /\ Journal!RefusedIsNotApplied /\ Journal!FoundAsSeen /\ Journal!TypedIsKept /\ Journal!ResultIsShown)
        => ShownIsCurrent
    BY SMTT(30) DEF ShownIsCurrent
  <1> QED BY <1>1, PageHolds, StopsHolds, JournalHolds, TypingHolds, FollowedHolds, PTL

\* What the database stores and what a request or a page holds is of its type, in every part
\* but the deliveries, of which TypeInvariant says it, and the projection of positions, which
\* stores nothing but a history.
THEOREM PartsAreOfTheirTypes == Spec => []TypeOK
  <1> DEFINE Types1 ==
          /\ part = "governors" => Models!TypeOK
          /\ part = "plan" => Plan!TypeOK
          /\ part = "lesson" => Lesson!TypeOK
          /\ part = "imports" => Imports!TypeOK
          /\ part = "review" => Review!TypeOK
          /\ part = "links" => Linked!TypeOK
          /\ part = "journal" => Journal!TypeOK
  <1> DEFINE Types2 ==
          /\ part = "risk" => Risk!TypeOK
          /\ part = "gate" => Gate!TypeOK
          /\ part = "candidates" => Candidates!TypeOK
          /\ part = "quotes" => Quotes!TypeOK
          /\ part = "routes" => Routes!RoutesTypeOK
          /\ part = "listing" => Listing!TypeOK
          /\ part = "analysis" => Analysis!TypeOK
  <1> DEFINE Types3 ==
          /\ part = "catalog" => Catalog!TypeOK
          /\ part = "money" => Money!TypeOK
          /\ part = "page" => Page!TypeOK
          /\ part = "retried" => Retried!TypeOK
          /\ part = "product" => Product!TypeOK
          /\ part = "underlying" => Underlying!TypeOK
          /\ part = "stops" => Stops!TypeOK
  <1> DEFINE Types4 ==
          /\ part = "risks" => Risks!TypeOK
          /\ part = "import" => Import!TypeOK
          /\ part = "edited" => Edited!TypeOK
          /\ part = "typing" => Typing!TypeOK
          /\ part = "followed" => Followed!TypeOK
  <1>1. Spec => []Types1
    BY ModelsHolds, PlanHolds, LessonHolds, ImportsHolds, ReviewHolds, LinkedHolds, JournalHolds, PTL
  <1>2. Spec => []Types2
    BY RiskHolds, GateHolds, CandidatesHolds, QuotesHolds, RoutesHolds, ListingHolds, AnalysisHolds, PTL
  <1>3. Spec => []Types3
    BY CatalogHolds, MoneyHolds, PageHolds, RetriedHolds, ProductHolds, UnderlyingHolds, StopsHolds, PTL
  <1>4. Spec => []Types4
    BY RisksHolds, ImportHolds, EditedHolds, TypingHolds, FollowedHolds, PTL
  <1>5. Types1 /\ Types2 /\ Types3 /\ Types4 => TypeOK
    BY DEF TypeOK
  <1> HIDE DEF Types1, Types2, Types3, Types4
  <1> QED BY <1>1, <1>2, <1>3, <1>4, <1>5, PTL

===============================================================================
