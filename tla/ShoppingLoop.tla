---------------------------- MODULE ShoppingLoop ----------------------------
(***************************************************************************)
(* One run of commerce/agent's loop, from the catalog fetch to its end,    *)
(* against the store of Checkout and a gateway.                            *)
(*                                                                         *)
(* The loop never sees the store's tables: it goes by the catalog it       *)
(* fetched once, the gateway's verdicts and the status of each answer,     *)
(* while prices change, requests are dropped and answers time out.         *)
(***************************************************************************)
EXTENDS Checkout, Strategy, FiniteSetsExt

CONSTANTS
    Shopper,   \* the customer the agent shops for (commerce_customer_id)
    Goals,     \* goals that submit_goal may have accepted
    Cap,       \* MaxValue of the delegation: the gateway's per-action limit
    None       \* no receipt in hand, no request in flight

ASSUME LoopAssumption ==
    /\ Shopper \in Customers
    /\ IsFiniteSet(Products)
    \* submit_goal takes no limit below 1.
    /\ Goals \subseteq [maxTotal : 1..IntMax, maxPerItem : 1..IntMax, mode : Modes]
    /\ Cap \in Nat
    /\ None \notin Receipts \cup Requests

VARIABLES
    goal,      \* the goal of this run
    step,      \* the await the loop is at
    catalog,   \* the products as fetched when the loop began, by price
    spent,     \* the loop's own total
    done,      \* bought_ids: products bought or given up on
    chosen,    \* catalog position of the item being bought
    ticket,    \* the receipt in hand
    attempt,   \* the checkout request in flight
    issued     \* receipts the gateway has issued (external)

private == <<goal, step, catalog, spent, done, chosen, ticket, attempt, issued>>
loopVars == <<vars, private>>

CatalogItem == [id : Products, offer : Offers]

LoopTypeOK ==
    /\ TypeOK
    /\ goal \in Goals
    /\ step \in {"catalog", "pick", "verify", "send", "await", "over"}
    /\ catalog \in Seq(CatalogItem)
    /\ Len(catalog) <= Cardinality(Products)
    /\ spent \in -(IntMax + 1)..IntMax
    /\ done \subseteq {catalog[i].id : i \in DOMAIN catalog}
    /\ chosen \in DOMAIN catalog \cup {0}
    /\ ticket \in Receipts \cup {None}
    /\ attempt \in Requests \cup {None}
    /\ issued \subseteq Receipts

LoopInit ==
    /\ Init
    /\ age = [r \in Receipts |-> "fresh"]
    /\ goal \in Goals
    /\ step = "catalog"
    /\ catalog = <<>>
    /\ spent = 0
    /\ done = {}
    /\ chosen = 0
    /\ ticket = None
    /\ attempt = None
    /\ issued = {}

-----------------------------------------------------------------------------
(* The loop                                                                *)

\* list_products: every product row, ORDER BY price_cents ASC.
Listings ==
    LET listed == {p \in Products : products[p] # NoOffer}
        orders == {f \in [1..Cardinality(listed) -> listed] :
                      \A i, j \in DOMAIN f :
                          i < j => /\ f[i] # f[j]
                                   /\ products[f[i]].amount <= products[f[j]].amount}
    IN {[i \in DOMAIN f |-> [id |-> f[i], offer |-> products[f[i]]]] : f \in orders}

FetchCatalog ==
    /\ step = "catalog"
    /\ \/ catalog' \in Listings /\ step' = "pick"
       \/ UNCHANGED catalog /\ step' = "over"
    /\ UNCHANGED <<vars, goal, spent, done, chosen, ticket, attempt, issued>>

Picked == PickNext(catalog, spent, done, goal)

Pick ==
    /\ step = "pick"
    /\ \/ Picked # 0 /\ chosen' = Picked /\ step' = "verify"
       \/ Picked = 0 /\ UNCHANGED chosen /\ step' = "over"
    /\ UNCHANGED <<vars, goal, catalog, spent, done, ticket, attempt, issued>>

Item == catalog[chosen]

ValueClaim ==
    [amount |-> ClaimAmount(Item.offer.amount, goal),
     currency |-> Item.offer.currency,
     decimals |-> CentDecimals]

\* verify_action approves and issues a fresh receipt for the claim, unless it
\* is over the delegation's MaxValue.
GatewayApproves ==
    /\ step = "verify"
    /\ ValueClaim.amount <= Cap
    /\ \E r \in Receipts \ issued :
          /\ Claim[r] = ValueClaim
          /\ ticket' = r
          /\ issued' = issued \cup {r}
    /\ step' = "send"
    /\ UNCHANGED <<vars, goal, catalog, spent, done, chosen, attempt>>

\* Slip: the loop picks again without giving up on the item.
GatewayRefuses_Forgetful ==
    /\ step = "verify"
    /\ step' = "pick"
    /\ UNCHANGED <<vars, goal, catalog, spent, done, chosen, ticket, attempt,
                   issued>>

\* Rejected for this item only: the loop gives up on the item.
GatewayRefuses ==
    /\ step = "verify"
    /\ done' = done \cup {Item.id}
    /\ step' = "pick"
    /\ UNCHANGED <<vars, goal, catalog, spent, chosen, ticket, attempt, issued>>

\* Revoked, expired, the cumulative cap, or no verdict at all: the loop ends.
GatewayEnds ==
    /\ step = "verify"
    /\ step' = "over"
    /\ UNCHANGED <<vars, goal, catalog, spent, done, chosen, ticket, attempt,
                   issued>>

\* StoreClient::checkout: the request reaches the store.
Send ==
    /\ step = "send"
    /\ \E q \in Requests :
          /\ Arrive(q, ticket, Shopper, Item.id)
          /\ attempt' = q
    /\ step' = "await"
    /\ UNCHANGED <<goal, catalog, spent, done, chosen, ticket, issued>>

\* Slip: a rejected item is not remembered.
Answered_Forgetful ==
    /\ step = "await"
    /\ pc[attempt] = "answered"
    /\ \/ /\ resp[attempt] = 200
          /\ spent' = Plus(spent, Item.offer.amount)
          /\ done' = done \cup {Item.id}
       \/ /\ resp[attempt] # 200
          /\ UNCHANGED <<spent, done>>
    /\ step' = "pick"
    /\ UNCHANGED <<vars, goal, catalog, chosen, ticket, attempt, issued>>

\* Slip: the item's place in the catalog is remembered, not its id.
Answered_Place ==
    /\ step = "await"
    /\ pc[attempt] = "answered"
    /\ \/ resp[attempt] = 200 /\ spent' = Plus(spent, Item.offer.amount)
       \/ resp[attempt] # 200 /\ UNCHANGED spent
    /\ done' = done \cup {chosen}
    /\ step' = "pick"
    /\ UNCHANGED <<vars, goal, catalog, chosen, ticket, attempt, issued>>

\* The answer is in.  Success counts the catalog price as spent; anything but
\* success counts as rejected by the store, with nothing spent.
Answered ==
    /\ step = "await"
    /\ pc[attempt] = "answered"
    /\ \/ resp[attempt] = 200 /\ spent' = Plus(spent, Item.offer.amount)
       \/ resp[attempt] # 200 /\ UNCHANGED spent
    /\ done' = done \cup {Item.id}
    /\ step' = "pick"
    /\ UNCHANGED <<vars, goal, catalog, chosen, ticket, attempt, issued>>

\* Slip: a transport error is taken for a rejection, and the loop goes on.
GiveUp_Carry ==
    /\ step \in {"send", "await"}
    /\ done' = done \cup {Item.id}
    /\ step' = "pick"
    /\ UNCHANGED <<vars, goal, catalog, spent, chosen, ticket, attempt, issued>>

\* No answer: the connection fails or 15 seconds are over.  The loop ends;
\* the store may still be at work on the request.
GiveUp ==
    /\ step \in {"send", "await"}
    /\ step' = "over"
    /\ UNCHANGED <<vars, goal, catalog, spent, done, chosen, ticket, attempt,
                   issued>>

LoopStep ==
    \/ FetchCatalog \/ Pick
    \/ GatewayApproves \/ GatewayRefuses \/ GatewayEnds
    \/ Send \/ Answered \/ GiveUp

\* Other users of the store change its catalog and its customers, and calls
\* that nobody waits for are executed; of the receipts, time only matters to
\* those that are issued.
StoreStep ==
    /\ \/ \E q \in Requests : Handle(q) \/ Drop(q)
       \/ Land
       \/ \E r \in issued : Tick(r)
       \/ \E p \in Products, o \in Offers : UpsertProduct(p, o)
       \/ \E c \in Customers : CreateCustomer(c)
    /\ UNCHANGED private

LoopNext == LoopStep \/ StoreStep

\* The runtime keeps polling the loop's task; every await of it ends, the
\* one on the store by the client's 15 second timeout.
LoopFairness == WF_loopVars(LoopStep)

LoopSpec == LoopInit /\ [][LoopNext]_loopVars /\ LoopFairness

-----------------------------------------------------------------------------
(* Properties                                                              *)

Total(S) == SumFunctionOnSet([c \in ChargeType |-> c.offer.amount], S)

\* What the goal's limits promise, of a set of charges.
WithinBudget(S) ==
    /\ Total(S) <= goal.maxTotal
    /\ \A c \in S : c.offer.amount <= goal.maxPerItem

\* The goal is "spend up to maxTotal, maxPerItem per item": of what Stripe
\* has charged, not only of what the loop believes it spent.
BudgetRespected == WithinBudget(charges)

\* Charges that the store answered for with an error of its own: its audit
\* row failed, or Stripe's answer was lost.
Disowned == {c \in charges : resp[c.by] \in {500, 502}}

\* What a goal has to keep to for its limits to hold, beyond what submit_goal
\* checks: the sums of its limits do not wrap, and a claim made to be refused
\* (per_action_cap mode) is over the delegation's MaxValue.
GoalIsSafe ==
    /\ goal.maxTotal + goal.maxPerItem <= IntMax
    /\ goal.mode = "per_action_cap" =>
          /\ goal.maxPerItem + OverCap <= IntMax
          /\ goal.maxPerItem + OverCap > Cap

\* Disowned charges apart, the limits of such a goal hold whatever is dropped,
\* delayed or repriced - also after a timeout, when the last request may yet
\* be charged.  (MaxValue does not see to it: it may be over the per-item
\* limit, and the price may have risen by the time the store looks.)
KnownWithinBudget == GoalIsSafe => WithinBudget(charges \ Disowned)

\* The loop's running total never falls behind the card.  A product is in
\* done once the loop has heard the answer to its checkout: what has been
\* charged for those and not disowned it has counted, the last one included.
SpentCoversCharges ==
    GoalIsSafe =>
        Total({c \in charges \ Disowned : req[c.by].product \in done}) <= spent

\* strategy.rs says it stops when the next item in price order would exceed
\* the budget; the code skips that item and goes on.  The two agree, whatever
\* was bought, refused or given up on before.
SkippingIsStopping ==
    LET rest == Candidates(catalog, done, goal) IN
    GoalIsSafe =>
        /\ rest = {} => Picked = 0
        /\ \A next \in rest :
              (\A i \in rest : Precedes(catalog, next, i)) =>
                  Picked = IF spent + catalog[next].offer.amount > goal.maxTotal
                           THEN 0 ELSE next

\* However answers are lost, no product is charged twice in one run.
NoDoublePurchase ==
    \A c, d \in charges :
        req[c.by].product = req[d.by].product => c = d

\* The loop comes to its end, whatever the gateway and the store do.
LoopEnds == <>(step = "over")
=============================================================================
