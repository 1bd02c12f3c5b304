\* Goals of three recipients, three requests, every fault of the mailer.
CONSTANTS
    ann = ann
    bob = bob
    eve = eve
    typo = typo
    r1 = r1
    r2 = r2
    r3 = r3
    r4 = r4
    hello = hello
    Requests = {q1, q2, q3}
    Receipts = {r1, r2, r3, r4}
    Addresses = {ann, bob, eve, typo}
    Lists <- MCLists
    Bodies = {hello}
    Hashes = {"h"}
    HashOf <- MCHashOf
    Claim <- MCClaim
    NoClaim = NoClaim
    AllowedAddresses = {ann, bob}
    ZeroId = ZeroId
    NoRequest = NoRequest
    Goals <- MCGoals
    Malformed = {typo}
    None = None
SPECIFICATION LoopSpec
INVARIANTS
    LoopTypeOK
    CountsAreTrue
    NobodyMailedTwice
PROPERTY
    LoopEnds
CHECK_DEADLOCK FALSE
