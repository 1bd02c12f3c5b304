\* Every kind of operator, dropped requests, failing queries, a restart.
CONSTANTS
    Handlers = {h1, h2, h3, h4}
    Loops = {l1, l2}
    Delegations = {d1, d2}
    None = None
    MaxRestarts = 1
SPECIFICATION Spec
INVARIANTS
    TypeOK
    PhaseIsTrue
    WaitingIsSafe
    RowIsActiveDelegation
PROPERTIES
    ActiveEnds
    GoalEndsWithItsLoop
CHECK_DEADLOCK FALSE
