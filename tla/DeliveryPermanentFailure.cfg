\* Two processes that listed the same notification, one after the other.
SPECIFICATION Spec
CONSTANTS
    runner = runner
    cli = cli
    cli2 = cli2
    tradeA = tradeA
    tradeB = tradeB
    Notifications = {1}
    Trades = {tradeA}
    TradeOf <- OneNotification
    Workers = {runner, cli}
    Runners = {runner}
    MaxAttempts = 2
    BatchLimit = 1
    RecoveryTimeout = 2
    MaxStall = 1
    MaxCrashes = 0
CHECK_DEADLOCK FALSE
INVARIANT
    PermanentFailureIsFinal
