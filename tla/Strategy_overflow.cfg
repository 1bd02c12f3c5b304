\* Limits up to the largest integer, which submit_goal accepts.
CONSTANTS
    IntMax = 7
    OverCap = 2
    Prices = {1, 2}
    Limits = {4, 6, 7}
    Length = 2
SPECIFICATION Spec
INVARIANT
    OverCapIsOver
CHECK_DEADLOCK FALSE
