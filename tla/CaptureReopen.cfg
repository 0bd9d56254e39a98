\* Two clients without request ids, two trades of one warrant, which may both be
\* open from the start, and one execution more: a closed trade can be reopened
\* by a correction while the other one is opened.
SPECIFICATION Spec
CONSTANTS
    clientA = clientA
    clientB = clientB
    warrant = warrant
    request = request
    NoKey = NoKey
    Sessions = {clientA, clientB}
    Trades = {1, 2}
    Products = {warrant}
    ProductOf <- OneProduct
    Keys = {}
    Quantities = {1}
    Times = {1}
    MaxHistory = 4
    MaxExecutions = 4
SYMMETRY ClientSymmetry
CHECK_DEADLOCK FALSE
INVARIANT
    NoDeadlock
PROPERTIES
    OpensAlone
    CancelledTradeIsFrozen
    CancelledAsPreviewed
    DuplicateIsRetained
