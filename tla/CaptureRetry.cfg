\* Two clients that may repeat a request, two trades of one warrant, which may
\* both be open from the start, up to three executions.
SPECIFICATION Spec
CONSTANTS
    clientA = clientA
    clientB = clientB
    warrant = warrant
    request = request
    NoKey = NoKey
    Sessions = {clientA, clientB}
    Trades = {1, 2}
    Products = {warrant}
    ProductOf <- OneProduct
    Keys = {request}
    Quantities = {1}
    Times = {1}
    MaxHistory = 3
    MaxExecutions = 3
SYMMETRY ClientSymmetry
CHECK_DEADLOCK FALSE
INVARIANTS
    PositionIsProjection
    RetryIsAnswered
PROPERTY
    ImplementsBook
