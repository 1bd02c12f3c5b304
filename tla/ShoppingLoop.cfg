\* Every fault, prices that change, all three modes.
CONSTANTS
    c1 = c1
    p1 = p1
    p2 = p2
    q1 = q1
    q2 = q2
    Requests = {q1, q2}
    Receipts <- MCReceipts
    Customers = {c1}
    Products = {p1, p2}
    Offers <- MCOffers
    NoOffer = NoOffer
    NoClaim = NoClaim
    NoRequest = NoRequest
    Claim <- MCClaim
    Billable <- MCBillable
    Faults = {"db", "stripe", "drop"}
    IntMax = 7
    OverCap = 1
    Shopper = c1
    Goals <- MCGoals
    Cap = 3
    None = None
SPECIFICATION LoopSpec
INVARIANTS
    LoopTypeOK
    KnownWithinBudget
    SpentCoversCharges
    SkippingIsStopping
    NoDoublePurchase
PROPERTY
    LoopEnds
