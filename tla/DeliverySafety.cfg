\* One notification with the production limit of three attempts, three symmetric
\* deliverers that may stall for ever between prepare and complete, two crashes.
SPECIFICATION Spec
CONSTANTS
    runner = runner
    cli = cli
    cli2 = cli2
    tradeA = tradeA
    tradeB = tradeB
    Notifications = {1}
    Trades = {tradeA}
    TradeOf <- OneNotification
    Workers = {runner, cli, cli2}
    Runners = {runner, cli, cli2}
    MaxAttempts = 3
    BatchLimit = 2
    RecoveryTimeout = 2
    MaxStall = 2
    MaxCrashes = 2
SYMMETRY WorkerSymmetry
CHECK_DEADLOCK FALSE
INVARIANTS
    DeliveredMeansAccepted
    CancelledTradeIsSilent
PROPERTIES
    DeliveredLostOnlyToInvalidation
    ImplementsLedger
