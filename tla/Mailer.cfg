\* Two requests, two receipts, dropped requests, queries that may fail or do not.
CONSTANTS
    ann = ann
    bob = bob
    eve = eve
    r1 = r1
    r2 = r2
    hello = hello
    spam = spam
    Requests = {q1, q2}
    Addresses = {ann, bob, eve}
    Bodies = {hello, spam}
    Hashes <- MCHashes
    HashOf <- MCHashOf
    NoClaim = NoClaim
    AllowedAddresses = {ann, bob}
    ZeroId = ZeroId
    NoRequest = NoRequest
    Receipts = {r1, r2}
    Lists <- MCLists
    Claim <- MCClaim
SPECIFICATION Spec
SYMMETRY RequestSymmetry
INVARIANTS
    NobodyGetsMore
    RecordsAreTrue
    EveryAttemptRecorded
    ForgeryIsHarmless
PROPERTY
    ImplementsLedger
CHECK_DEADLOCK FALSE
