\* Services that share no rows with each other, part by part.
SPECIFICATION Spec
CONSTANTS
    runner = runner
    cli = cli
    tradeA = tradeA
CHECK_DEADLOCK FALSE
INVARIANTS
    TypeOK
    ExclusiveDelivery
    ProjectionIsLedger
    OnlyTheLedgerCounts
    AppliedOnce
    OneInForce
    StatusIsTold
    ContradictionIsNotBypassed
    AppliedAsSeen
    VersionsAreOneLine
    OpenWarningsAgree
    WithinLimits
    SourceHoldsStill
    CurrencyIsEvidenced
    ShownIsCurrent
PROPERTIES
    NoPostAfterCancellation
    PendingSettles
    WarningIsTold
