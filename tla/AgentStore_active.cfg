\* Is there a delegation whenever the agent is Active?
CONSTANTS
    Handlers = {h1, h2, h3, h4}
    Loops = {l1, l2}
    Delegations = {d1}
    None = None
    MaxRestarts = 0
SPECIFICATION Spec
SYMMETRY Symmetry
INVARIANT
    ActiveHasDelegation
CHECK_DEADLOCK FALSE
