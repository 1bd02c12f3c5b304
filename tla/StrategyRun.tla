---------------------------- MODULE StrategyRun ----------------------------
(***************************************************************************)
(* The strategy driven as agent_loop::run drives it: pick, then either the *)
(* purchase goes through or the item is refused.                           *)
(***************************************************************************)
EXTENDS Strategy, FiniteSetsExt

CONSTANTS
    Prices,    \* the prices an item can have
    Limits,    \* the limits a goal can have
    Length     \* the longest catalog

VARIABLES catalog, goal, spent, bought, refused

vars == <<catalog, goal, spent, bought, refused>>

Items == UNION {[1..n -> Prices] : n \in 0..Length}

Init ==
    /\ \E prices \in Items :
          catalog = [i \in DOMAIN prices |->
                        [id |-> i,
                         offer |-> [amount |-> prices[i], currency |-> "usd"]]]
    /\ goal \in [maxTotal : Limits, maxPerItem : Limits, mode : Modes]
    /\ spent = 0
    /\ bought = {}
    /\ refused = {}

Picked == PickNext(catalog, spent, bought \cup refused, goal)

Buy ==
    /\ Picked # 0
    /\ spent' = Plus(spent, catalog[Picked].offer.amount)
    /\ bought' = bought \cup {catalog[Picked].id}
    /\ UNCHANGED <<catalog, goal, refused>>

Refuse ==
    /\ Picked # 0
    /\ refused' = refused \cup {catalog[Picked].id}
    /\ UNCHANGED <<catalog, goal, spent, bought>>

Next == Buy \/ Refuse

Spec == Init /\ [][Next]_vars

-----------------------------------------------------------------------------

\* The values of the constants that the theorems are about: positive prices
\* and limits, as the database and submit_goal accept them, and no two limits
\* whose sum wraps.
SafeConstants ==
    /\ Prices \subseteq 1..IntMax
    /\ Limits \subseteq 1..IntMax
    /\ Length \in Nat
    /\ \A l, m \in Limits : l + m <= IntMax

Cost(S) == SumFunctionOnSet([i \in DOMAIN catalog |-> catalog[i].offer.amount], S)

\* Taking the cheapest first is as good as any choice: when the loop ends
\* with nothing refused, no set of items that the goal allows is larger than
\* the set it bought - and the set it bought is one that the goal allows.
GreedyBuysTheMost ==
    Picked = 0 /\ refused = {} =>
        LET allowed == {S \in SUBSET Candidates(catalog, {}, goal) :
                            Cost(S) <= goal.maxTotal}
        IN bought \in allowed /\ \A S \in allowed : Cardinality(S) <= Cardinality(bought)

\* The comment on per_action_cap mode: the claim goes over the per-item
\* limit, which guarantees that the gateway rejects it.
OverCapIsOver ==
    \A i \in DOMAIN catalog :
        goal.mode = "per_action_cap"
            => ClaimAmount(catalog[i].offer.amount, goal) > goal.maxPerItem
=============================================================================
