--------------------------- MODULE MCShoppingLoop ---------------------------
(* ShoppingLoop on small instances.                                        *)
EXTENDS ShoppingLoop, TLC

CONSTANTS c1, p1, p2, q1, q2

Usd(n) == [amount |-> n, currency |-> "usd"]

MCOffers == {Usd(2), Usd(3)}

\* Two receipts for the claim that two items can be bought with.
MCReceipts == {r \in [amount : 1..3, copy : 1..2] : r.copy = 2 => r.amount = 2}
MCClaim == [r \in MCReceipts |-> [amount |-> r.amount, currency |-> "usd", decimals |-> 2]]

Goal(total, item, m) == [maxTotal |-> total, maxPerItem |-> item, mode |-> m]

\* Goals with room for two items and for one, with a price that is over the
\* per-item limit but not over MaxValue; a claim made to mismatch may meet a
\* new price; MaxValue stops the over-cap claim of one goal, not of the other.
MCGoals ==
    {Goal(4, 2, "plain"), Goal(3, 3, "amount_mismatch"),
     Goal(3, 3, "per_action_cap"), Goal(3, 2, "per_action_cap")}

MCPlainGoals == {Goal(3, 2, "plain")}

MCBillable == Customers \X Offers
=============================================================================
