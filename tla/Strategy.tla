------------------------------ MODULE Strategy ------------------------------
(***************************************************************************)
(* commerce/agent's DeterministicStrategy: which item of the catalog the   *)
(* loop buys next, and what it claims to spend on it.                      *)
(***************************************************************************)
EXTENDS Amounts, Sequences

CONSTANT OverCap   \* what per_action_cap mode adds to the limit ($1, 100 cents)

ASSUME StrategyAssumption == OverCap \in Nat \ {0}

Modes == {"plain", "per_action_cap", "amount_mismatch"}

\* Slip: the per-item limit is left to the gateway.
Candidates_AnyPrice(catalog, bought, goal) ==
    {i \in DOMAIN catalog : catalog[i].id \notin bought}

\* Catalog positions of the items that are not bought yet and within the
\* per-item limit.
Candidates(catalog, bought, goal) ==
    {i \in DOMAIN catalog :
        /\ catalog[i].id \notin bought
        /\ catalog[i].offer.amount <= goal.maxPerItem}

\* The order of the stable sort by price.
Precedes(catalog, i, j) ==
    \/ catalog[i].offer.amount < catalog[j].offer.amount
    \/ catalog[i].offer.amount = catalog[j].offer.amount /\ i <= j

\* Slip: the amount already spent is not added in.
Fitting_Each(catalog, spent, bought, goal) ==
    {i \in Candidates(catalog, bought, goal) :
        catalog[i].offer.amount <= goal.maxTotal}

\* The candidates that do not take the total over the goal.
Fitting(catalog, spent, bought, goal) ==
    {i \in Candidates(catalog, bought, goal) :
        Plus(spent, catalog[i].offer.amount) <= goal.maxTotal}

\* Slip: the dearest item that fits.
PickNext_Dearest(catalog, spent, bought, goal) ==
    LET fitting == Fitting(catalog, spent, bought, goal) IN
    IF fitting = {} THEN 0
    ELSE CHOOSE i \in fitting : \A j \in fitting : Precedes(catalog, j, i)

\* The first item in price order that does not take the total over the goal,
\* as a catalog position; 0 if there is none.
PickNext(catalog, spent, bought, goal) ==
    LET fitting == Fitting(catalog, spent, bought, goal) IN
    IF fitting = {} THEN 0
    ELSE CHOOSE i \in fitting : \A j \in fitting : Precedes(catalog, i, j)

\* What the agent claims for an item of the given price, never below zero.
ClaimAmount(price, goal) ==
    LET cents == CASE goal.mode = "per_action_cap" -> Plus(goal.maxPerItem, OverCap)
                   [] goal.mode = "amount_mismatch" -> price - 1
                   [] OTHER -> price
    IN IF cents < 0 THEN 0 ELSE cents
=============================================================================
