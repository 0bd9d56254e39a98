\* One cycle at a time, two market quotes, two moves of the level or changes of
\* the position, one crash or failed insert, a cancellation at any moment.
SPECIFICATION FairSpec
CONSTANTS
    runner = runner
    cli = cli
    alertA = alertA
    alertB = alertB
    Cycles = {runner}
    Kind = "TARGET_REACHED"
    Quotes <- MCQuotes
    Rules <- MCRules
    Alerts = {alertA, alertB}
    MaxQuotes = 2
    MaxEdits = 2
    MaxFailures = 1
CHECK_DEADLOCK FALSE
INVARIANTS
    AlertMirrorsState
PROPERTIES
    AlertsOnEdgesOnly
    NoRewind
    CancelledTradeIsQuiet
    SupersededAlertCloses
