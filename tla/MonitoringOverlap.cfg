\* The runner and monitor-positions-once at the same time.
SPECIFICATION Spec
CONSTANTS
    runner = runner
    cli = cli
    alertA = alertA
    alertB = alertB
    Cycles = {runner, cli}
    Kind = "STOP_REACHED"
    Quotes <- MCQuotes
    Rules <- MCRules
    Alerts = {alertA, alertB}
    MaxQuotes = 2
    MaxEdits = 0
    MaxFailures = 0
CHECK_DEADLOCK FALSE
INVARIANT
    OneOpenAlert
