\* Three requests to the agent, two loops, two delegations, a restart; the
\* runner with dropped requests and queries that may fail or do not.
CONSTANTS
    r1 = r1
    r2 = r2
    r3 = r3
    Calls = {c1, c2, c3}
    Tasks = {t1, t2}
    Requests = {t1, t2}
    Delegations = {d1, d2}
    None = None
    MaxRestarts = 1
    Receipts = {r1, r2, r3}
    Environments = {"staging", "production"}
    Services = {"api"}
    Commits = {"a1"}
    Claim <- MCClaim
    Goals <- MCGoals
    NoClaim = NoClaim
    AllowedEnvironments = {"staging"}
    AllowedServices = {"api"}
    ZeroId = ZeroId
    NoRequest = NoRequest
SPECIFICATION DeploySpec
SYMMETRY Symmetry
INVARIANTS
    DeployTypeOK
    PhaseIsTrue
    SerialIsSafe
    DeploysAnswerToGoals
    ReportsAreTrue
CHECK_DEADLOCK FALSE
