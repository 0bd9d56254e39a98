\* A runner that is restarted once while it delivers.
SPECIFICATION FairSpec
CONSTANTS
    runner = runner
    cli = cli
    cli2 = cli2
    tradeA = tradeA
    tradeB = tradeB
    Notifications = {1}
    Trades = {tradeA}
    TradeOf <- OneNotification
    Workers = {runner}
    Runners = {runner}
    MaxAttempts = 2
    BatchLimit = 1
    RecoveryTimeout = 2
    MaxStall = 1
    MaxCrashes = 1
CHECK_DEADLOCK FALSE
PROPERTY
    InterruptedAttemptIsRecovered
