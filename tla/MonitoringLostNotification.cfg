\* The process dies between the alert and its notification.
SPECIFICATION FairSpec
CONSTANTS
    runner = runner
    cli = cli
    alertA = alertA
    alertB = alertB
    Cycles = {runner}
    Kind = "STOP_REACHED"
    Quotes <- MCQuotes
    Rules <- MCRules
    Alerts = {alertA, alertB}
    MaxQuotes = 1
    MaxEdits = 0
    MaxFailures = 1
CHECK_DEADLOCK FALSE
PROPERTY
    AlertIsNotified
