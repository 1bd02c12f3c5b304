\* No faults: is a charge worth what the receipt commits to, decimals and all?
CONSTANTS
    q1 = q1
    q2 = q2
    r1 = r1
    r2 = r2
    c1 = c1
    c2 = c2
    p1 = p1
    Requests = {q1, q2}
    Receipts = {r1, r2}
    Customers = {c1, c2}
    Products = {p1}
    NoOffer = NoOffer
    NoClaim = NoClaim
    NoRequest = NoRequest
    Offers <- MCPrices
    Claim <- MCClaim
    Billable <- MCBillable
    IntMax = 3
    Faults = {}
SPECIFICATION Spec
SYMMETRY RequestSymmetry
INVARIANT
    ChargeIsWorthItsClaim
