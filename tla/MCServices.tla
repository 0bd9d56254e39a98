----------------------------- MODULE MCServices -----------------------------
(***************************************************************************)
(* Services that share no rows with each other: Init chooses the part that *)
(* runs, and with it its instance, whose variables are v1, v2, ... here.   *)
(* One run of TLC checks them all.                                         *)
(***************************************************************************)
EXTENDS Naturals, TLC

CONSTANTS runner, cli, tradeA

VARIABLES
    part,
    v1, v2, v3, v4, v5, v6, v7, v8, v9, v10, v11

Processes == {runner, cli}
Runner == {runner}
TheTrade == {tradeA}
First == {1}
Both == 1..2
Three == 1..3
OfOne == 1 :> tradeA
OfBoth == (1 :> tradeA) @@ (2 :> tradeA)
One == {"a"}
Two == {"a", "b"}
Isins == {"x", "y"}

\* The production limit of attempts; two processes that are prompt.
Timely == INSTANCE NotificationDelivery WITH
    Notifications <- First, Trades <- TheTrade, TradeOf <- OfOne,
    Workers <- Processes, Runners <- Processes,
    MaxAttempts <- 3, BatchLimit <- 1, RecoveryTimeout <- 3, MaxStall <- 2, MaxCrashes <- 2,
    alert <- v1, notification <- v2, attempts <- v3, cancelled <- v4, pc <- v5, queue <- v6,
    call <- v7, accepted <- v8, crashes <- v9
\* Two notifications of a trade, one per listing, and one that is tried again; a
\* runner that is restarted.
Restart == INSTANCE NotificationDelivery WITH
    Notifications <- Both, Trades <- TheTrade, TradeOf <- OfBoth,
    Workers <- Runner, Runners <- Runner,
    MaxAttempts <- 2, BatchLimit <- 1, RecoveryTimeout <- 2, MaxStall <- 1, MaxCrashes <- 1,
    alert <- v1, notification <- v2, attempts <- v3, cancelled <- v4, pc <- v5, queue <- v6,
    call <- v7, accepted <- v8, crashes <- v9
Again == INSTANCE NotificationDelivery WITH
    Notifications <- First, Trades <- TheTrade, TradeOf <- OfOne,
    Workers <- Runner, Runners <- Runner,
    MaxAttempts <- 3, BatchLimit <- 1, RecoveryTimeout <- 2, MaxStall <- 1, MaxCrashes <- 2,
    alert <- v1, notification <- v2, attempts <- v3, cancelled <- v4, pc <- v5, queue <- v6,
    call <- v7, accepted <- v8, crashes <- v9
\* Histories of three executions, and every fourth one.
Projector == INSTANCE MCPositionProjector WITH
    Quantities <- Both, Times <- Both, MaxHistory <- 3,
    history <- v1
\* One request at a time, and two that overlap.
Import == INSTANCE ImportJob WITH
    Clients <- One, Jobs <- {"job"}, Contents <- Two, Files <- Three,
    Outcomes <- {"FAILED", "UNRESOLVED", "VALID"},
    job <- v1, file <- v2, row <- v3, imported <- v4, request <- v5
Imports == INSTANCE ImportJob WITH
    Clients <- Two, Jobs <- {"job"}, Contents <- {"a"}, Files <- Both,
    Outcomes <- {"FAILED", "VALID"},
    job <- v1, file <- v2, row <- v3, imported <- v4, request <- v5
Plan == INSTANCE TradePlans WITH
    Planners <- Two, Versions <- Three, MaxReviews <- 3,
    plan <- v1, version <- v2, approvals <- v3, events <- v4, command <- v5
\* Reviews with two commands, and a lesson that is edited meanwhile.
Lesson == INSTANCE Lessons WITH
    Versions <- Both, Signals <- Both, Keys <- Both, MaxTransitions <- 4, Metadata <- {},
    lesson <- v1, versions <- v2, signals <- v3, transitions <- v4, sent <- v5, stored <- v6,
    promised <- v7, editing <- v8
Edited == INSTANCE Lessons WITH
    Versions <- Both, Signals <- First, Keys <- First, MaxTransitions <- 2,
    Metadata <- {"title", "tags", "suggestion"},
    lesson <- v1, versions <- v2, signals <- v3, transitions <- v4, sent <- v5, stored <- v6,
    promised <- v7, editing <- v8
Models == INSTANCE ModelGovernance WITH
    Governors <- Two, Versions <- Three, Proposals <- {"p", "q"},
    Hypotheses <- {"h"}, MaxActivations <- 2,
    modelVersion <- v1, proposal <- v2, hypothesis <- v3, granted <- v4, activation <- v5,
    clock <- v6, task <- v7
\* A runner that dies between two warnings; and policies that need two sessions.
Risk == INSTANCE RiskAlerts WITH
    Bases <- Two, LastSession <- 3, LastRevision <- 1, MaxRaised <- 1,
    Trends <- {"ABOVE"}, Volatilities <- {"HIGH", "LOW"}, ConfirmationSessions <- 1,
    MaxChanges <- 1, MaxRestarts <- 1,
    market <- v1, held <- v2, setting <- v3, snapshots <- v4, latest <- v5, edge <- v6,
    warning <- v7, told <- v8, sweep <- v9, restarts <- v10, changes <- v11
Risks == INSTANCE RiskAlerts WITH
    Bases <- Two, LastSession <- 3, LastRevision <- 2, MaxRaised <- 1,
    Trends <- {"ABOVE", "BELOW"}, Volatilities <- {"LOW"}, ConfirmationSessions <- 2,
    MaxChanges <- 1, MaxRestarts <- 0,
    market <- v1, held <- v2, setting <- v3, snapshots <- v4, latest <- v5, edge <- v6,
    warning <- v7, told <- v8, sweep <- v9, restarts <- v10, changes <- v11
\* Two tasks and another process; and one task whose requests are tried again.
Gate == INSTANCE ProviderGate WITH
    Callers <- Two, Requests <- {"search"}, Budget <- 3, Reserve <- 33, Cost <- 1,
    Rate <- 1, Burst <- 2, MaxAttempts <- 1, Timeout <- 0, Ttl <- 1, DayLength <- 2,
    LastTick <- 2, MaxForeign <- 1,
    now <- v1, usage <- v2, bucket <- v3, cached <- v4, caller <- v5, report <- v6,
    counter <- v7, foreign <- v8, bill <- v9, posted <- v10
Retried == INSTANCE ProviderGate WITH
    Callers <- One, Requests <- {"search", "prices"}, Budget <- 4, Reserve <- 25, Cost <- 1,
    Rate <- 1, Burst <- 2, MaxAttempts <- 2, Timeout <- 1, Ttl <- 1, DayLength <- 2,
    LastTick <- 2, MaxForeign <- 0,
    now <- v1, usage <- v2, bucket <- v3, cached <- v4, caller <- v5, report <- v6,
    counter <- v7, foreign <- v8, bill <- v9, posted <- v10
Review == INSTANCE TradeReview WITH
    Clients <- Two, Exits <- {"first", "open"}, Series <- {"full", "short"},
    LastVersion <- 2, LastJournal <- 1, MaxChanges <- 2,
    facts <- v1, observation <- v2, review <- v3, evidence <- v4, journal <- v5, session <- v6,
    altered <- v7
\* Trades of a product that are linked, sold, cancelled and made anew.
Linked == INSTANCE TradeLinks WITH
    Clients <- Two, Trades <- Both, First <- 1, Links <- Both,
    Keys <- {"k", "q"}, LastVersion <- 3,
    trade <- v1, link <- v2, referenced <- v3, receipt <- v4, work <- v5
\* Two analysts whose runs fail and are tried again.
Analysis == INSTANCE MarketAnalysis WITH
    Analysts <- Two, Versions <- Three, Outcomes <- {"COMPLETED", "FAILED"},
    LastPrices <- 2,
    prices <- v1, run <- v2, lifecycle <- v3, analyst <- v4
Candidates == INSTANCE CandidateSources WITH
    MaxMissing <- 3,
    assigned <- v1, active <- v2, native <- v3, listing <- v4, model <- v5
\* A day that begins in one currency, and a venue that tells another.
Money == INSTANCE CurrencySources WITH
    DayLength <- 2, Clients <- Two, Moments <- Both, Currencies <- {"EUR", "USD"},
    Documents <- {[currency |-> "EUR", venue |-> "UNKNOWN"], [currency |-> "UNKNOWN", venue |-> "V"]},
    Listings <- {[from |-> 1, to |-> 3, entries |-> ("V" :> "USD"), complete |-> TRUE]},
    MaxRows <- 4,
    executions <- v1, confirmations <- v2, sources <- v3, withdrawn <- v4, desk <- v5
\* Two requests that edit a product; and one whose positions look for quotes.
Product == INSTANCE Warrants WITH
    Clients <- Two, Identifiers <- Isins, FirstIsin <- "x",
    Changes <- {"identifiers", "status", "terms"}, LastVersion <- 4, LastRevision <- 2,
    warrant <- v1, terms <- v2, audits <- v3, valuations <- v4, edit <- v5
Routes == INSTANCE QuoteRoutes WITH
    Clients <- Two, Identifiers <- Isins, FirstIsin <- "x",
    Changes <- {"identifiers", "status"}, LastVersion <- 3, LastRevision <- 0,
    Positions <- First, MaxDecisions <- 3,
    warrant <- v1, terms <- v2, audits <- v3, valuations <- v4, edit <- v5, listed <- v6,
    mapping <- v7, affected <- v8, seeker <- v9, selections <- v10

\* A page that sells and corrects; and one whose stop other tabs change as well.
Page == INSTANCE TradePage WITH
    Captures <- {"sale"}, MaxWrites <- 3, MaxSubmits <- 2, MaxInputs <- 1, MaxTyped <- 0,
    OtherWrites <- {},
    log <- v1, lost <- v2, page <- v3, panel <- v4, tasks <- v5, reads <- v6, capture <- v7,
    submits <- v8, told <- v9
Stops == INSTANCE TradePage WITH
    Captures <- {"purchase"}, MaxWrites <- 2, MaxSubmits <- 1, MaxInputs <- 0, MaxTyped <- 1,
    OtherWrites <- {"correct", "stop"},
    log <- v1, lost <- v2, page <- v3, panel <- v4, tasks <- v5, reads <- v6, capture <- v7,
    submits <- v8, told <- v9

\* Two readers of a quote that is corrected once.
Quotes == INSTANCE RetainedQuotes WITH
    Readers <- Two, LastIdentity <- 2, LastTick <- 2, SlotLength <- 3,
    now <- v1, identity <- v2, cache <- v3, reader <- v4, row <- v5, replaced <- v6, samples <- v7

\* Two requests on a listing, and one of every kind.
Listing == INSTANCE Underlyings WITH
    Clients <- Two, Listings <- {"l1", "l2"}, LastVersion <- 3, MaxEvents <- 7,
    Operations <- {"add", "promote", "retire", "verify"},
    row <- v1, told <- v2, used <- v3, request <- v4
Underlying == INSTANCE Underlyings WITH
    Clients <- One, Listings <- {"l1", "l2"}, LastVersion <- 2, MaxEvents <- 7,
    Operations <- {"rename", "deactivate", "reactivate", "verify", "delete", "edit", "retire",
                   "revive", "open", "close", "add", "promote"},
    row <- v1, told <- v2, used <- v3, request <- v4

\* A catalog, its successor, and another content of the same version.
Catalog == INSTANCE CurrencyCatalog WITH
    Admins <- Two, Codes <- {"EUR", "JPY"}, Seeded <- ("EUR" :> 2), MaxEvents <- 3,
    Document <- [first |-> [version |-> 1, published |-> 1, units |-> ("EUR" :> 2)],
                 later |-> [version |-> 2, published |-> 2, units |-> ("EUR" :> 3 @@ "JPY" :> 0)],
                 other |-> [version |-> 1, published |-> 2, units |-> ("JPY" :> 0)]],
    current <- v1, releases <- v2, currency <- v3, log <- v4, lock <- v5, admin <- v6

\* A journal that other tabs save; one whose text is typed on while a request is
\* under way; and one whose reviews follow each other.
Journal == INSTANCE JournalPage WITH
    Begun <- {"draft"}, Texts <- {"x"}, OtherOps <- {"save"},
    MaxVersions <- 1, MaxRevision <- 3, MaxSource <- 1, MaxCommands <- 1,
    versions <- v1, evidence <- v2, source <- v3, receipts <- v4, page <- v5, attempt <- v6,
    call <- v7, read <- v8, lost <- v9, keys <- v10, memory <- v11
Typing == INSTANCE JournalPage WITH
    Begun <- {"draft"}, Texts <- Isins, OtherOps <- {},
    MaxVersions <- 1, MaxRevision <- 2, MaxSource <- 1, MaxCommands <- 1,
    versions <- v1, evidence <- v2, source <- v3, receipts <- v4, page <- v5, attempt <- v6,
    call <- v7, read <- v8, lost <- v9, keys <- v10, memory <- v11
Followed == INSTANCE JournalPage WITH
    Begun <- {"none", "draft", "final"}, Texts <- {}, OtherOps <- {},
    MaxVersions <- 2, MaxRevision <- 2, MaxSource <- 2, MaxCommands <- 1,
    versions <- v1, evidence <- v2, source <- v3, receipts <- v4, page <- v5, attempt <- v6,
    call <- v7, read <- v8, lost <- v9, keys <- v10, memory <- v11

\* What the proofs assume of the constants holds of every part.
ASSUME PartsAssumption ==
    /\ Timely!DeliveryAssumption /\ Restart!DeliveryAssumption /\ Again!DeliveryAssumption
    /\ Import!ImportAssumption /\ Imports!ImportAssumption
    /\ Lesson!LessonsAssumption /\ Edited!LessonsAssumption
    /\ Models!ModelAssumption /\ Risk!RiskAssumption /\ Risks!RiskAssumption
    /\ Gate!GateAssumption /\ Retried!GateAssumption
    /\ Review!ReviewAssumption /\ Linked!LinksAssumption
    /\ Quotes!QuotesAssumption /\ Product!WarrantAssumption /\ Routes!RoutesAssumption
    /\ Listing!UnderlyingsAssumption /\ Underlying!UnderlyingsAssumption
    /\ Analysis!AnalysisAssumption /\ Catalog!CatalogAssumption
    /\ Money!SourcesAssumption /\ Page!PageAssumption /\ Stops!PageAssumption
    /\ Journal!JournalAssumption /\ Typing!JournalAssumption /\ Followed!JournalAssumption

allVars == <<part, v1, v2, v3, v4, v5, v6, v7, v8, v9, v10, v11>>

\* The variables that a part leaves unused.
After10 == <<v11>>
After9 == <<v10, After10>>
After8 == <<v9, After9>>
After7 == <<v8, After8>>
After6 == <<v7, After7>>
After5 == <<v6, After6>>
After4 == <<v5, After5>>
After1 == <<v2, v3, v4, After4>>
Unused10 == v11 = 0
Unused9 == v10 = 0 /\ Unused10
Unused8 == v9 = 0 /\ Unused9
Unused7 == v8 = 0 /\ Unused8
Unused6 == v7 = 0 /\ Unused7
Unused5 == v6 = 0 /\ Unused6
Unused4 == v5 = 0 /\ Unused5
Unused1 == v2 = 0 /\ v3 = 0 /\ v4 = 0 /\ Unused4

Init ==
    \/ part = "timely" /\ Timely!Init /\ Unused9
    \/ part = "restart" /\ Restart!Init /\ Unused9
    \/ part = "again" /\ Again!Init /\ Unused9
    \/ part = "projector" /\ Projector!Init /\ Unused1
    \/ part = "import" /\ Import!Init /\ Unused5
    \/ part = "imports" /\ Imports!Init /\ Unused5
    \/ part = "plan" /\ Plan!Init /\ Unused5
    \/ part = "lesson" /\ Lesson!Init /\ Unused8
    \/ part = "edited" /\ Edited!Init /\ Unused8
    \/ part = "governors" /\ Models!Init /\ Unused7
    \/ part = "risk" /\ Risk!Init
    \/ part = "risks" /\ Risks!Init
    \/ part = "gate" /\ Gate!Init /\ Unused10
    \/ part = "retried" /\ Retried!Init /\ Unused10
    \/ part = "review" /\ Review!Init /\ Unused7
    \/ part = "links" /\ Linked!Init /\ Unused5
    \/ part = "analysis" /\ Analysis!Init /\ Unused4
    \/ part = "candidates" /\ Candidates!Init /\ Unused5
    \/ part = "money" /\ Money!Init /\ Unused5
    \/ part = "product" /\ Product!Init /\ Unused5
    \/ part = "routes" /\ Routes!RoutesInit /\ Unused10
    \/ part = "page" /\ Page!Init /\ Unused9
    \/ part = "stops" /\ Stops!Init /\ Unused9
    \/ part = "quotes" /\ Quotes!Init /\ Unused7
    \/ part = "listing" /\ Listing!Init /\ Unused4
    \/ part = "underlying" /\ Underlying!Init /\ Unused4
    \/ part = "catalog" /\ Catalog!Init /\ Unused6
    \/ part = "journal" /\ Journal!Init
    \/ part = "typing" /\ Typing!Init
    \/ part = "followed" /\ Followed!Init

Next ==
    /\ UNCHANGED part
    /\ \/ part = "timely" /\ Timely!Next /\ UNCHANGED After9
       \/ part = "restart" /\ Restart!Next /\ UNCHANGED After9
       \/ part = "again" /\ Again!Next /\ UNCHANGED After9
       \/ part = "projector" /\ Projector!Next /\ UNCHANGED After1
       \/ part = "import" /\ Import!Next /\ UNCHANGED After5
       \/ part = "imports" /\ Imports!Next /\ UNCHANGED After5
       \/ part = "plan" /\ Plan!Next /\ UNCHANGED After5
       \/ part = "lesson" /\ Lesson!Next /\ UNCHANGED After8
       \/ part = "edited" /\ Edited!Next /\ UNCHANGED After8
       \/ part = "governors" /\ Models!Next /\ UNCHANGED After7
       \/ part = "risk" /\ Risk!Next
       \/ part = "risks" /\ Risks!Next
       \/ part = "gate" /\ Gate!Next /\ UNCHANGED After10
       \/ part = "retried" /\ Retried!Next /\ UNCHANGED After10
       \/ part = "review" /\ Review!Next /\ UNCHANGED After7
       \/ part = "links" /\ Linked!Next /\ UNCHANGED After5
       \/ part = "analysis" /\ Analysis!Next /\ UNCHANGED After4
       \/ part = "candidates" /\ Candidates!Next /\ UNCHANGED After5
       \/ part = "money" /\ Money!Next /\ UNCHANGED After5
       \/ part = "product" /\ Product!Next /\ UNCHANGED After5
       \/ part = "routes" /\ Routes!RoutesNext /\ UNCHANGED After10
       \/ part = "page" /\ Page!Next /\ UNCHANGED After9
       \/ part = "stops" /\ Stops!Next /\ UNCHANGED After9
       \/ part = "quotes" /\ Quotes!Next /\ UNCHANGED After7
       \/ part = "listing" /\ Listing!Next /\ UNCHANGED After4
       \/ part = "underlying" /\ Underlying!Next /\ UNCHANGED After4
       \/ part = "catalog" /\ Catalog!Next /\ UNCHANGED After6
       \/ part = "journal" /\ Journal!Next
       \/ part = "typing" /\ Typing!Next
       \/ part = "followed" /\ Followed!Next

\* A runner that is restarted goes on, as NotificationDelivery says; so does the
\* one that evaluates the risks of the position.  Time passes.
RunnerStep ==
    /\ UNCHANGED part
    /\ \/ /\ part = "restart"
          /\ \/ Restart!ListPending(runner) \/ Restart!Prepare(runner)
             \/ Restart!Post(runner) \/ Restart!Complete(runner)
          /\ UNCHANGED After9
       \/ /\ part = "again"
          /\ \/ Again!ListPending(runner) \/ Again!Prepare(runner)
             \/ Again!Post(runner) \/ Again!Complete(runner)
          /\ UNCHANGED After9
       \/ part = "risk" /\ Risk!Step
TimePasses ==
    /\ UNCHANGED <<part, After9>>
    /\ \/ part = "restart" /\ Restart!Tick
       \/ part = "again" /\ Again!Tick
Fairness == WF_allVars(RunnerStep) /\ WF_allVars(TimePasses)

Spec == Init /\ [][Next]_allVars /\ Fairness

-----------------------------------------------------------------------------
(* Each property is stated, and explained, in the module of its part. *)

\* What the database stores and what a request holds is of its type.
TypeOK ==
    /\ part = "import" => Import!TypeOK
    /\ part = "imports" => Imports!TypeOK
    /\ part = "plan" => Plan!TypeOK
    /\ part = "lesson" => Lesson!TypeOK
    /\ part = "edited" => Edited!TypeOK
    /\ part = "governors" => Models!TypeOK
    /\ part = "risk" => Risk!TypeOK
    /\ part = "risks" => Risks!TypeOK
    /\ part = "gate" => Gate!TypeOK
    /\ part = "retried" => Retried!TypeOK
    /\ part = "review" => Review!TypeOK
    /\ part = "links" => Linked!TypeOK
    /\ part = "analysis" => Analysis!TypeOK
    /\ part = "candidates" => Candidates!TypeOK
    /\ part = "money" => Money!TypeOK
    /\ part = "product" => Product!TypeOK
    /\ part = "routes" => Routes!RoutesTypeOK
    /\ part = "page" => Page!TypeOK
    /\ part = "stops" => Stops!TypeOK
    /\ part = "quotes" => Quotes!TypeOK
    /\ part = "listing" => Listing!TypeOK
    /\ part = "underlying" => Underlying!TypeOK
    /\ part = "catalog" => Catalog!TypeOK
    /\ part = "journal" => Journal!TypeOK
    /\ part = "typing" => Typing!TypeOK
    /\ part = "followed" => Followed!TypeOK

\* Two prompt processes never deliver the same notification at once.
ExclusiveDelivery == part = "timely" => Timely!ExclusiveDelivery

\* No message about a cancelled trade reaches the chat.
NoPostAfterCancellation ==
    [][part = "timely" =>
        \A n \in First : v8'[n] # v8[n] => ~Timely!OfCancelled(n)]_allVars

\* _project raises an error exactly for histories that are not a ledger.
ProjectionIsLedger == part = "projector" => Projector!ProjectionIsLedger

\* Executions may be recorded in any order, and a correction is a substitution.
OnlyTheLedgerCounts ==
    part = "projector" => Projector!RecordingOrderIsIrrelevant /\ Projector!CorrectionIsSubstitution

\* A command that is repeated or raced is applied once, as a whole: one observation
\* of an accepted row, one trade of an executed observation, one booking of an input,
\* one sample of a slot, one change of a journal.  A command on a journal that was
\* refused as outdated is not applied at all.
AppliedOnce ==
    /\ part = "import" => Import!AcceptedOnce
    /\ part = "imports" => Imports!AcceptedOnce
    /\ part = "links" => Linked!ExecutedOnce
    /\ part = "page" => Page!InputBookedOnce
    /\ part = "stops" => Stops!InputBookedOnce
    /\ part = "quotes" => Quotes!SampledOnce
    /\ part \in {"journal", "typing", "followed"} => Journal!RefusedIsNotApplied

\* Of what may be in force once, one is: the approved version of a plan, the
\* active link of an observation to a trade, the route of a position, the primary
\* listing of an underlying.
OneInForce ==
    /\ part = "plan" => Plan!OneApproved
    /\ part = "links" => Linked!OneActivePair
    /\ part = "routes" => Routes!RouteIsKept
    /\ part \in {"listing", "underlying"} => Listing!OperationalHasPrimary

\* What tells of the status of other rows tells the truth: the job of its files,
\* the events of the versions of a plan, of the runs of an analysis, of the
\* identifier of a warrant, of the versions of listings and of the catalog.
StatusIsTold ==
    /\ part = "import" => Import!JobTellsItsFiles
    /\ part = "plan" => Plan!HistoryTellsStatus
    /\ part = "analysis" => Analysis!EventsTellRuns
    /\ part = "product" => Product!AuditTellsIdentity
    /\ part \in {"listing", "underlying"} => Listing!AuditTellsVersions
    /\ part = "catalog" => Catalog!AuditTellsCatalog

\* An open contradiction is resolved before anything else happens to a lesson.
ContradictionIsNotBypassed == part = "lesson" => Lesson!ContradictionIsNotBypassed

\* What was decided on sight is applied to what was seen: reviews of a lesson,
\* evidence for a valuation, a route that was found at the issuer, the bookings and
\* inputs of a page, the versions of a journal, the minor unit of a currency.
AppliedAsSeen ==
    /\ part = "lesson" => Lesson!ReviewedAsSeen
    /\ part = "product" => Product!EvidenceIsAsReviewed
    /\ part = "routes" => Routes!RouteIsAsInspected
    /\ part = "page" => Page!DoubtBlocksWrites
    /\ part = "stops" => Stops!TypedIsKept
    /\ part = "catalog" => Catalog!UnitsStay
    /\ part \in {"journal", "typing", "followed"} => Journal!FoundAsSeen /\ Journal!TypedIsKept

\* The versions of a model are one line, and a quote is replaced by later ones.
VersionsAreOneLine ==
    /\ part = "governors" => Models!VersionsAreOneLine
    /\ part = "quotes" => Quotes!QuotesMoveOn

\* Open risk warnings are those of the rows, of one revision and one basis.
OpenWarningsAgree ==
    /\ part = "risk" => Risk!OpenWarningsAgree
    /\ part = "risks" => Risks!OpenWarningsAgree

\* What a page shows as read is not older than what it was told was written.
ShownIsCurrent ==
    /\ part = "page" => Page!ShownIsCurrent
    /\ part = "stops" => Stops!ShownIsCurrent
    /\ part \in {"journal", "typing", "followed"} => Journal!ResultIsShown

\* Neither the provider's rate nor its budget is exceeded.
WithinLimits ==
    /\ part = "gate" => Gate!WithinLimits
    /\ part = "retried" => Retried!WithinLimits

\* What is made of a source finds it as it was: a review that becomes evidence,
\* a linked trade, the assignments of a candidate.
SourceHoldsStill ==
    /\ part = "review" => Review!SourceHoldsStill
    /\ part = "links" => Linked!LinkedTradeStands
    /\ part = "candidates" => Candidates!ReadyIsEvaluable

\* The currency of every execution follows from what is in force before it.
CurrencyIsEvidenced == part = "money" => Money!CurrencyIsEvidenced

\* Waiting notifications are settled by a runner that is restarted: as there are
\* finitely many, a moment comes at which none waits (which says the same of
\* each, at the price of one).
PendingSettles ==
    (/\ part \in {"restart", "again"}
     /\ \E n \in DOMAIN v2 : Restart!Waiting(n) /\ ~Restart!Settled(n))
    ~> (part \in {"restart", "again"} /\ \A n \in DOMAIN v2 : Restart!Waiting(n) => Restart!Settled(n))

\* Open risk warnings get their notifications, also after a crash (where the
\* trend is always above there are warnings of volatility only).
Owed(w) == w[1].rule = "VOLATILITY" /\ Risk!Untold(w)
WarningIsTold ==
    (part = "risk" /\ \E w \in Risk!Raised : Owed(w)) ~> (part = "risk" /\ ~\E w \in Risk!Raised : Owed(w))
=============================================================================
