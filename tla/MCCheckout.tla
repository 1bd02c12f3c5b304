----------------------------- MODULE MCCheckout -----------------------------
(* Checkout on small instances.                                            *)
EXTENDS Checkout, TLC

CONSTANTS q1, q2, r1, r2, c1, c2, p1

Offer(n, currency) == [amount |-> n, currency |-> currency]
ValueClaim(n, decimals) ==
    [amount |-> n, currency |-> "usd", decimals |-> decimals]

Low == Offer(1, "usd")
High == Offer(2, "usd")
Foreign == Offer(1, "eur")

\* r1 names the low price in units of its own decimals; r2 an amount that is
\* negative as an i64.
MCOffers == {Low, Foreign}
MCClaim == r1 :> ValueClaim(1, 3) @@ r2 :> ValueClaim(IntMax + 2, 2)
\* c2's id is none of Stripe's.
MCBillable == {<<c1, Low>>}

\* One receipt that is no value claim.
MCBadClaim == r1 :> ValueClaim(1, 2) @@ r2 :> NoClaim
MCPrices == {Low, High}
MCBillableAll == Customers \X MCPrices

RequestSymmetry == Permutations(Requests)
=============================================================================
