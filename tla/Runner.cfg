\* Two requests, three receipts, dropped requests, queries that may fail or do not.
CONSTANTS
    r1 = r1
    r2 = r2
    r3 = r3
    Requests = {q1, q2}
    Receipts = {r1, r2, r3}
    Environments = {"staging", "production"}
    Services = {"api"}
    Commits = {"a1", "b2"}
    Claim <- MCClaim
    NoClaim = NoClaim
    AllowedEnvironments = {"staging"}
    AllowedServices = {"api"}
    ZeroId = ZeroId
    NoRequest = NoRequest
SPECIFICATION Spec
SYMMETRY RequestSymmetry
INVARIANTS
    DeployedAsClaimed
    RecordsAreTrue
    EveryAttemptRecorded
PROPERTY
    ImplementsLedger
CHECK_DEADLOCK FALSE
