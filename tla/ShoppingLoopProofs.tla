------------------------- MODULE ShoppingLoopProofs -------------------------
(***************************************************************************)
(* Theorems about the loop of commerce/agent against the store, for any    *)
(* goals, catalogs, prices, requests and receipts, whatever the gateway    *)
(* and the store do.                                                       *)
(***************************************************************************)
EXTENDS ShoppingLoop, CheckoutProofs, StrategyProofs, TLAPS

-----------------------------------------------------------------------------
(* The loop's own state                                                    *)

Working == {"verify", "send", "await"}

\* What the loop has in hand at each of its awaits.
InHand ==
    /\ goal \in Goals
    /\ step \in {"catalog", "pick", "over"} \cup Working
    /\ catalog \in Seq(CatalogItem) /\ Len(catalog) <= Cardinality(Products)
    /\ spent \in -(IntMax + 1)..IntMax
    /\ done \subseteq {catalog[i].id : i \in DOMAIN catalog}
    /\ chosen \in DOMAIN catalog \cup {0}
    /\ step \in Working => chosen # 0
    /\ step = "catalog" => done = {} /\ chosen = 0
    /\ ticket \in Receipts \cup {None}
    /\ step = "send" => ticket \in Receipts
    /\ attempt \in Requests \cup {None}
    /\ step = "await" => attempt \in Requests
    /\ issued \subseteq Receipts

LEMMA PlusRange ==
    ASSUME NEW x \in -(IntMax + 1)..IntMax, NEW y \in 1..IntMax
    PROVE  /\ Plus(x, y) \in -(IntMax + 1)..IntMax
           /\ x + y <= IntMax => Plus(x, y) = x + y
BY AmountsAssumption DEF Plus, Width

LEMMA GoalTypes ==
    ASSUME InHand
    PROVE  /\ goal.maxTotal \in 1..IntMax
           /\ goal.maxPerItem \in 1..IntMax
           /\ goal.mode \in Modes
           /\ IntMax \in Nat
BY LoopAssumption, AmountsAssumption DEF InHand

LEMMA CatalogTypes ==
    ASSUME NEW cat \in Seq(CatalogItem)
    PROVE  /\ Len(cat) \in Nat
           /\ DOMAIN cat = 1..Len(cat)
           /\ IsFiniteSet(DOMAIN cat)
           /\ \A i \in DOMAIN cat : /\ i \in Nat \ {0}
                                    /\ cat[i].id \in Products
                                    /\ cat[i].offer \in Offers
                                    /\ cat[i].offer.amount \in 1..IntMax
<1>1. Len(cat) \in Nat /\ DOMAIN cat = 1..Len(cat)
  OBVIOUS
<1>2. IsFiniteSet(1..Len(cat))
  BY <1>1, FS_Interval
<1>3. ASSUME NEW i \in DOMAIN cat
      PROVE  /\ i \in Nat \ {0}
             /\ cat[i].id \in Products
             /\ cat[i].offer \in Offers
  <2>1. cat[i] \in CatalogItem
    BY <1>1
  <2> QED
    BY <1>1, <2>1 DEF CatalogItem
<1> QED
  BY <1>1, <1>2, <1>3, CheckoutAssumption

-----------------------------------------------------------------------------
(* The strategy's choice                                                   *)

\* What the strategy picks is a new item that fits the goal.
LEMMA PickedFits ==
    ASSUME catalog \in Seq(CatalogItem), Picked # 0
    PROVE  /\ Picked \in DOMAIN catalog
           /\ catalog[Picked].id \notin done
           /\ catalog[Picked].offer.amount <= goal.maxPerItem
           /\ Plus(spent, catalog[Picked].offer.amount) <= goal.maxTotal
<1>1. IsCatalog(catalog)
  BY CatalogTypes, AmountsAssumption DEF IsCatalog
<1>2. Picked \in Fitting(catalog, spent, done, goal)
  BY <1>1, PickedIsFirst DEF Picked
<1> QED
  BY <1>2 DEF Fitting, Candidates

-----------------------------------------------------------------------------
(* Typing                                                                  *)

LEMMA ListingTypes ==
    ASSUME Typed, NEW cat \in Listings
    PROVE  cat \in Seq(CatalogItem) /\ Len(cat) <= Cardinality(Products)
<1> DEFINE listed == {p \in Products : products[p] # NoOffer}
           n == Cardinality(listed)
<1>1. /\ n \in Nat /\ Cardinality(Products) \in Nat
      /\ n <= Cardinality(Products)
  BY LoopAssumption, FS_Subset, FS_CardinalityType
<1>2. PICK f \in [1..n -> listed] :
         cat = [i \in DOMAIN f |-> [id |-> f[i], offer |-> products[f[i]]]]
  BY Zenon DEF Listings
<1>3. \A p \in listed : [id |-> p, offer |-> products[p]] \in CatalogItem
  BY DEF Typed, TypeOK, CatalogItem
<1> HIDE DEF listed, n
<1>4. cat \in [1..n -> CatalogItem]
  BY <1>2, <1>3
<1>5. cat \in Seq(CatalogItem) /\ Len(cat) = n
  BY <1>1, <1>4
<1> QED
  BY <1>1, <1>5

LEMMA InitInHand == LoopInit => InHand
<1> SUFFICES ASSUME LoopInit PROVE InHand
  OBVIOUS
<1>1. Len(<<>>) = 0 /\ <<>> \in Seq(CatalogItem) /\ DOMAIN <<>> = {}
  OBVIOUS
<1>2. Cardinality(Products) \in Nat /\ IntMax \in Nat
  BY LoopAssumption, AmountsAssumption, FS_CardinalityType
<1> QED
  BY <1>1, <1>2 DEF LoopInit, InHand, Working

LEMMA NextInHand ==
    ASSUME Typed, InHand, [LoopNext]_loopVars
    PROVE  InHand'
<1> USE DEF InHand, Working
<1>1. CASE UNCHANGED private
  BY <1>1 DEF private
<1>2. CASE FetchCatalog
  <2>1. CASE UNCHANGED catalog
    BY <1>2, <2>1 DEF FetchCatalog
  <2>2. CASE catalog' \in Listings /\ step' = "pick"
    <3>1. catalog' \in Seq(CatalogItem) /\ Len(catalog') <= Cardinality(Products)
      BY <2>2, ListingTypes
    <3> QED
      BY <1>2, <2>2, <3>1 DEF FetchCatalog
  <2> QED
    BY <1>2, <2>1, <2>2 DEF FetchCatalog
<1>3. CASE Pick
  BY <1>3, PickedFits DEF Pick
<1>4. CASE GatewayApproves
  BY <1>4 DEF GatewayApproves
<1>5. CASE GatewayRefuses
  BY <1>5 DEF GatewayRefuses, Item
<1>6. CASE Send
  BY <1>6 DEF Send
<1>7. CASE Answered
  <2>1. Item.offer.amount \in 1..IntMax /\ chosen \in DOMAIN catalog
    BY <1>7, CatalogTypes DEF Answered, Item
  <2>2. spent' \in -(IntMax + 1)..IntMax
    BY <1>7, <2>1, PlusRange DEF Answered
  <2> QED
    BY <1>7, <2>1, <2>2 DEF Answered, Item
<1>8. CASE GatewayEnds \/ GiveUp
  BY <1>8 DEF GatewayEnds, GiveUp
<1> QED
  BY <1>1, <1>2, <1>3, <1>4, <1>5, <1>6, <1>7, <1>8
  DEF LoopNext, LoopStep, StoreStep, loopVars

-----------------------------------------------------------------------------
(* The store under the loop is the store                                   *)

LEMMA LoopStepIsStoreStep ==
    ASSUME InHand, [LoopNext]_loopVars
    PROVE  [Next]_vars
<1>1. CASE UNCHANGED vars
  BY <1>1
<1>2. CASE Send
  <2>1. PICK q \in Requests : Arrive(q, ticket, Shopper, Item.id)
    BY <1>2 DEF Send
  <2>2. Item.id \in Products /\ ticket \in Receipts /\ Shopper \in Customers
    BY <1>2, CatalogTypes, LoopAssumption DEF Send, InHand, Working, Item
  <2>3. Receive(q)
    BY <2>1, <2>2 DEF Receive
  <2> QED
    BY <2>3 DEF Next
<1>3. CASE StoreStep
  BY <1>3 DEF StoreStep, InHand, Next, Environment
<1> QED
  BY <1>1, <1>2, <1>3
  DEF LoopNext, LoopStep, loopVars, FetchCatalog, Pick, GatewayApproves,
      GatewayRefuses, GatewayEnds, Answered, GiveUp

\* Whatever the loop and the gateway do, the store sees only what it is
\* specified for: all that is proved of Spec holds here too.
THEOREM LoopRunsStore == LoopSpec => Spec
<1>1. LoopInit => Init
  BY DEF LoopInit
<1>2. Typed /\ InHand /\ [LoopNext]_loopVars => Typed' /\ InHand' /\ [Next]_vars
  BY LoopStepIsStoreStep, NextInHand, NextTyped
<1>3. LoopInit => Typed /\ InHand
  BY <1>1, InitInHand, InitTyped
<1> QED
  BY <1>1, <1>2, <1>3, PTL DEF LoopSpec, Spec

\* The loop and the store keep their types.
THEOREM LoopTypeCorrect == LoopSpec => []LoopTypeOK
<1>1. Typed /\ InHand /\ [LoopNext]_loopVars => Typed' /\ InHand'
  BY LoopStepIsStoreStep, NextInHand, NextTyped
<1>2. LoopInit => Typed /\ InHand
  BY InitInHand, InitTyped DEF LoopInit
<1>3. Typed /\ InHand => LoopTypeOK
  BY DEF Typed, InHand, LoopTypeOK, Working
<1> QED
  BY <1>1, <1>2, <1>3, PTL DEF LoopSpec

-----------------------------------------------------------------------------
(* What has become of the loop's requests                                  *)

Tried(q) == pc[q] # "idle"
Settled == \A q \in Requests : Tried(q) => pc[q] = "answered"

\* Every request but the last one is answered, and before the next one is sent
\* the last one is, too.
OneInFlight ==
    /\ \A q \in Requests :
          /\ Tried(q) => req[q] \in RequestType
          /\ Tried(q) /\ q # attempt => pc[q] = "answered"
          /\ pc[q] = "answered" <=> resp[q] # 0
    /\ step \in {"catalog", "pick", "verify", "send"} => Settled
    /\ step = "await" => Tried(attempt)

\* No two requests are for one product: what has been tried is done with once
\* its answer was heard, and the item in hand is new until then.
OneTryPerProduct ==
    /\ \A q, u \in Requests :
          Tried(q) /\ Tried(u) /\ req[q].product = req[u].product => q = u
    /\ step = "catalog" => \A q \in Requests : ~Tried(q)
    /\ step \in {"pick", "verify", "send"} =>
          \A q \in Requests : Tried(q) => req[q].product \in done
    /\ step = "await" =>
          /\ req[attempt].product = Item.id
          /\ \A q \in Requests : Tried(q) => req[q].product \in done \cup {Item.id}
    /\ step \in Working => Item.id \notin done
    /\ \A q \in Requests :
          Tried(q) /\ req[q].product \in done => pc[q] = "answered"

\* What receipts commit to stays within the delegation's MaxValue.
UnderCap ==
    /\ \A r \in issued : Claim[r].amount \in Nat /\ Claim[r].amount <= Cap
    /\ step = "send" => ticket \in issued
    /\ \A q \in Requests : Tried(q) => req[q].receipt \in issued

\* The item in hand fits the goal, and its receipt commits to no more than
\* its price.
Fits ==
    /\ spent \in Nat /\ spent <= goal.maxTotal
    /\ step \in Working =>
          /\ Item.offer.amount <= goal.maxPerItem
          /\ spent + Item.offer.amount <= goal.maxTotal
    /\ step = "send" => Claim[ticket].amount <= Item.offer.amount
    /\ \A q \in Requests : Tried(q) => Claim[req[q].receipt].amount <= goal.maxPerItem

\* The charges the store owns up to, and those of them the loop has heard of.
Known == charges \ Disowned
Heard == {c \in Known : req[c.by].product \in done}

\* The running total covers what the loop has heard of, and it leaves room
\* for the one request that it has not heard of.
Covered ==
    /\ IsFiniteSet(charges)
    /\ Total(Heard) <= spent
    /\ \A q \in Requests :
          Tried(q) /\ req[q].product \notin done =>
              /\ q = attempt /\ chosen # 0 /\ step \in {"await", "over"}
              /\ Claim[req[q].receipt].amount <= Item.offer.amount
              /\ spent + Item.offer.amount <= goal.maxTotal

-----------------------------------------------------------------------------
(* What steps do, as far as the loop can tell                              *)

\* A step of q's handler.
HandlerStep(q) ==
    /\ pc[q] \in Awaiting
    /\ pc'[q] \in Awaiting \cup Over
    /\ \A u \in Requests \ {q} : pc'[u] = pc[u] /\ resp'[u] = resp[u]
    /\ resp[q] = 0 => (pc'[q] = "answered" <=> resp'[q] # 0)
    /\ UNCHANGED <<private, req>>
    /\ charges' \in {charges, charges \cup {ChargeOf(q)}}

\* Stripe executes a call that nobody waits for.
LateStep(c) ==
    /\ c \in lateCharges
    /\ charges' = charges \cup {c}
    /\ UNCHANGED <<private, pc, req, resp>>

LEMMA StoreEffect ==
    ASSUME Typed, StoreStep
    PROVE  \/ UNCHANGED <<private, pc, req, resp, charges>>
           \/ \E q \in Requests : HandlerStep(q)
           \/ \E c \in lateCharges : LateStep(c)
<1> USE DEF Typed, TypeOK, HandlerStep, Awaiting, Over, Goto, Answer, store, handlers
<1>1. ASSUME NEW q \in Requests, Handle(q), UNCHANGED private
      PROVE  HandlerStep(q)
  <2>1. CASE ConsumeReceipt(q) \/ RefuseReplay(q) \/ ReplayStoreFails(q)
    BY <1>1, <2>1 DEF ConsumeReceipt, RefuseReplay, ReplayStoreFails
  <2>2. CASE LookupProduct(q)
    BY <1>1, <2>2 DEF LookupProduct
  <2>3. CASE RecordRejection(q) \/ LookupCustomer(q) \/ LookupFails(q)
    BY <1>1, <2>3 DEF RecordRejection, LookupCustomer, LookupFails
  <2>4. CASE ChargeSucceeds(q) \/ ChargeFails(q) \/ ChargeImpossible(q)
    BY <1>1, <2>4 DEF ChargeSucceeds, ChargeFails, ChargeImpossible
  <2>5. CASE RecordSuccess(q) \/ RecordFailure(q)
    BY <1>1, <2>5 DEF RecordSuccess, RecordFailure
  <2> QED
    BY <1>1, <2>1, <2>2, <2>3, <2>4, <2>5 DEF Handle
<1>2. ASSUME NEW q \in Requests, Drop(q), UNCHANGED private
      PROVE  HandlerStep(q)
  BY <1>2 DEF Drop
<1>3. ASSUME NEW r, Tick(r) PROVE UNCHANGED <<pc, req, resp, charges>>
  BY <1>3 DEF Tick
<1>4. ASSUME NEW p, NEW o, UpsertProduct(p, o) PROVE UNCHANGED <<pc, req, resp, charges>>
  BY <1>4 DEF UpsertProduct
<1>5. ASSUME NEW c, CreateCustomer(c) PROVE UNCHANGED <<pc, req, resp, charges>>
  BY <1>5 DEF CreateCustomer
<1>6. ASSUME Land, UNCHANGED private
      PROVE  \/ UNCHANGED <<private, pc, req, resp, charges>>
             \/ \E c \in lateCharges : LateStep(c)
  BY <1>6 DEF Land, LandReceipt, LandCharge, LandRow, LateStep
<1> QED
  BY <1>1, <1>2, <1>3, <1>4, <1>5, <1>6 DEF StoreStep

\* The loop's request reaches the store.
SendStep(q) ==
    /\ pc[q] = "idle"
    /\ pc'[q] \in {"consume", "answered"}
    /\ pc'[q] = "answered" <=> resp'[q] # 0
    /\ req'[q] \in RequestType
    /\ req'[q].product = Item.id
    /\ req'[q].receipt = ticket
    /\ \A u \in Requests \ {q} : pc'[u] = pc[u] /\ req'[u] = req[u] /\ resp'[u] = resp[u]
    /\ UNCHANGED charges
    /\ attempt' = q
    /\ step = "send" /\ step' = "await"
    /\ UNCHANGED <<goal, catalog, spent, done, chosen, ticket, issued>>

LEMMA SendEffect ==
    ASSUME Typed, InHand, OneInFlight, Send
    PROVE  \E q \in Requests : SendStep(q)
<1>1. PICK q \in Requests : Arrive(q, ticket, Shopper, Item.id) /\ attempt' = q
  BY DEF Send
<1>2. Item.id \in Products /\ ticket \in Receipts /\ Shopper \in Customers
  BY CatalogTypes, LoopAssumption DEF Send, InHand, Working, Item
<1>3. [customer |-> Shopper, product |-> Item.id, receipt |-> ticket] \in RequestType
  BY <1>2 DEF RequestType
<1>4. pc[q] = "idle" /\ resp[q] = 0
  BY <1>1 DEF Arrive, OneInFlight
<1>5. SendStep(q)
  BY <1>1, <1>3, <1>4 DEF Typed, TypeOK, Send, SendStep, Arrive, Goto, Answer, store
<1> QED
  BY <1>5

\* The other steps of the loop leave the store alone.
LEMMA LoopEffect ==
    ASSUME LoopStep, ~Send
    PROVE  UNCHANGED vars /\ UNCHANGED <<goal, attempt>>
BY DEF LoopStep, FetchCatalog, Pick, GatewayApproves, GatewayRefuses, GatewayEnds,
       Answered, GiveUp

-----------------------------------------------------------------------------
(* One request at a time                                                   *)

LEMMA NextOneInFlight ==
    ASSUME Typed, InHand, OneInFlight, [LoopNext]_loopVars
    PROVE  OneInFlight'
<1> USE DEF OneInFlight, Settled, Tried, Awaiting, Over
<1>1. ASSUME UNCHANGED <<pc, req, resp, attempt>>,
             step' \in {"catalog", "pick", "verify", "send"} => Settled,
             step' = "await" => step = "await"
      PROVE  OneInFlight'
  BY <1>1
<1>2. ASSUME NEW q \in Requests, HandlerStep(q)
      PROVE  OneInFlight'
  <2>1. q = attempt /\ step \notin {"catalog", "pick", "verify", "send"} /\ resp[q] = 0
    BY <1>2 DEF HandlerStep
  <2> QED
    BY <1>2, <2>1 DEF HandlerStep, private
<1>3. ASSUME NEW q \in Requests, SendStep(q)
      PROVE  OneInFlight'
  BY <1>3 DEF SendStep
<1>4. CASE StoreStep
  BY <1>1, <1>2, <1>4, StoreEffect DEF private, LateStep
<1>5. CASE Send
  BY <1>3, <1>5, SendEffect
<1>6. CASE LoopStep /\ ~Send
  <2>1. UNCHANGED <<pc, req, resp, attempt>>
    BY <1>6, LoopEffect DEF vars, handlers
  <2>2. step' # "await"
    BY <1>6 DEF LoopStep, FetchCatalog, Pick, GatewayApproves, GatewayRefuses,
       GatewayEnds, Answered, GiveUp
  <2>3. step' \in {"catalog", "pick", "verify", "send"} => Settled
    BY <1>6 DEF LoopStep, FetchCatalog, Pick, GatewayApproves, GatewayRefuses,
       GatewayEnds, Answered, GiveUp, InHand
  <2> QED
    BY <1>1, <2>1, <2>2, <2>3
<1>7. CASE UNCHANGED loopVars
  BY <1>1, <1>7 DEF loopVars, vars, handlers, private
<1> QED
  BY <1>4, <1>5, <1>6, <1>7 DEF LoopNext

LEMMA NextOneTry ==
    ASSUME Typed, InHand, OneInFlight, OneTryPerProduct, [LoopNext]_loopVars
    PROVE  OneTryPerProduct'
<1> USE DEF OneTryPerProduct
<1>1. CASE StoreStep
  <2>1. /\ UNCHANGED <<private, req>>
        /\ \A q \in Requests : /\ Tried(q)' <=> Tried(q)
                               /\ pc[q] = "answered" => pc'[q] = "answered"
    BY <1>1, StoreEffect DEF HandlerStep, LateStep, Tried, Awaiting, Over
  <2> QED
    BY <2>1 DEF private, Item
<1>2. ASSUME NEW q \in Requests, SendStep(q)
      PROVE  OneTryPerProduct'
  <2>1. \A u \in Requests : Tried(u)' <=> Tried(u) \/ u = q
    BY <1>2 DEF SendStep, Tried
  <2>2. /\ req'[q].product = Item.id /\ Item.id \notin done
        /\ \A u \in Requests \ {q} :
              req'[u] = req[u] /\ (Tried(u) => req[u].product \in done)
        /\ ~Tried(q)
    BY <1>2 DEF SendStep, Tried, Working
  <2>3. Item' = Item /\ done' = done /\ step' = "await" /\ attempt' = q /\ step = "send"
    BY <1>2 DEF SendStep, Item
  <2>4. \A u \in Requests \ {q} : pc'[u] = pc[u]
    BY <1>2 DEF SendStep
  <2> QED
    BY <2>1, <2>2, <2>3, <2>4 DEF Working
<1>3. CASE Send
  BY <1>2, <1>3, SendEffect
<1>4. CASE LoopStep /\ ~Send
  <2>1. UNCHANGED <<pc, req, attempt>> /\ \A q \in Requests : Tried(q)' <=> Tried(q)
    BY <1>4, LoopEffect DEF vars, handlers, Tried
  <2>2. CASE FetchCatalog
    BY <2>1, <2>2 DEF FetchCatalog, Working
  <2>3. CASE Pick
    BY <2>1, <2>3, PickedFits DEF Pick, Item, InHand, Working
  <2>4. CASE GatewayApproves
    BY <2>1, <2>4 DEF GatewayApproves, Item, Working
  <2>5. CASE GatewayRefuses
    BY <2>1, <2>5 DEF GatewayRefuses, Working, OneInFlight, Settled
  <2>6. CASE Answered
    <3>1. /\ step = "await" /\ step' = "pick" /\ done' = done \cup {Item.id}
          /\ pc[attempt] = "answered"
      BY <2>6 DEF Answered
    <3>2. \A q \in Requests : Tried(q) => pc[q] = "answered"
      BY <3>1 DEF OneInFlight
    <3> QED
      BY <2>1, <3>1, <3>2 DEF Working
  <2>7. CASE GatewayEnds \/ GiveUp
    BY <2>1, <2>7 DEF GatewayEnds, GiveUp, Working
  <2> QED
    BY <1>4, <2>2, <2>3, <2>4, <2>5, <2>6, <2>7 DEF LoopStep
<1>5. CASE UNCHANGED loopVars
  BY <1>5 DEF loopVars, vars, handlers, private, Tried, Item
<1> QED
  BY <1>1, <1>3, <1>4, <1>5 DEF LoopNext

LoopInv == InHand /\ OneInFlight /\ OneTryPerProduct

LEMMA LoopCorrect == LoopSpec => [](LoopInv /\ RedemptionInv)
<1>1. LoopInit => LoopInv
  <2> SUFFICES ASSUME LoopInit PROVE LoopInv
    OBVIOUS
  <2>1. OneInFlight /\ OneTryPerProduct
    BY DEF LoopInit, Init, OneInFlight, OneTryPerProduct, Settled, Tried, Working
  <2> QED
    BY <2>1, InitInHand DEF LoopInv
<1>2. RedemptionInv /\ LoopInv /\ [LoopNext]_loopVars => LoopInv'
  BY NextInHand, NextOneInFlight, NextOneTry DEF LoopInv, RedemptionInv, Typed
<1> QED
  BY <1>1, <1>2, LoopRunsStore, RedemptionCorrect, PTL DEF LoopSpec

\* However answers are lost, no product is charged twice in one run.
THEOREM NothingIsBoughtTwice == LoopSpec => []NoDoublePurchase
<1>1. LoopInv /\ RedemptionInv => NoDoublePurchase
  <2> SUFFICES ASSUME LoopInv, RedemptionInv, NEW c \in charges, NEW d \in charges,
                      req[c.by].product = req[d.by].product
               PROVE  c = d
    BY DEF NoDoublePurchase
  <2>1. \A e \in charges : e.by \in Requests /\ Tried(e.by) /\ e = ChargeOf(e.by)
    BY OneActor DEF RedemptionInv, ChargesAccounted, Tried, Over
  <2>2. c.by = d.by
    BY <2>1 DEF LoopInv, OneTryPerProduct
  <2> QED
    BY <2>1, <2>2
<1> QED
  BY <1>1, LoopCorrect, PTL

-----------------------------------------------------------------------------
(* The delegation's limit                                                  *)

\* What the card is charged, whatever prices become.
ChargesUnderCap == \A c \in charges : c.offer.amount <= Cap

LEMMA ClaimTypes ==
    ASSUME InHand, step \in Working
    PROVE  /\ chosen \in DOMAIN catalog
           /\ Item.id \in Products
           /\ Item.offer.amount \in 1..IntMax
           /\ ValueClaim.amount \in Nat
           /\ goal.mode # "per_action_cap" => ValueClaim.amount <= Item.offer.amount
           /\ goal.mode = "per_action_cap" /\ goal.maxPerItem + OverCap <= IntMax
                 => ValueClaim.amount = goal.maxPerItem + OverCap
<1>1. /\ chosen \in DOMAIN catalog /\ Item.id \in Products
      /\ Item.offer.amount \in 1..IntMax
  BY CatalogTypes DEF InHand, Item
<1>2. /\ goal.maxPerItem \in 1..IntMax /\ IntMax \in Nat /\ goal.mode \in Modes
      /\ OverCap \in Nat
  BY GoalTypes, StrategyAssumption
<1> DEFINE price == Item.offer.amount
           limit == goal.maxPerItem
<1>3. ValueClaim.amount = ClaimAmount(price, goal)
  BY DEF ValueClaim
<1>4. CASE goal.mode = "per_action_cap"
  <2>1. ClaimAmount(price, goal) = LET cents == Plus(limit, OverCap)
                                   IN  IF cents < 0 THEN 0 ELSE cents
    BY <1>4 DEF ClaimAmount
  <2>2. Plus(limit, OverCap) \in Int
    BY <1>2 DEF Plus, Width
  <2>3. limit + OverCap <= IntMax => Plus(limit, OverCap) = limit + OverCap
    BY <1>2 DEF Plus, Width
  <2>4. ClaimAmount(price, goal) \in Nat
    BY <2>1, <2>2
  <2>5. limit + OverCap <= IntMax => ClaimAmount(price, goal) = limit + OverCap
    BY <1>2, <2>1, <2>3
  <2> QED
    BY <1>1, <1>3, <1>4, <2>4, <2>5
<1>5. CASE goal.mode = "amount_mismatch"
  BY <1>1, <1>2, <1>3, <1>5 DEF ClaimAmount
<1>6. CASE goal.mode = "plain"
  BY <1>1, <1>2, <1>3, <1>6 DEF ClaimAmount
<1> QED
  BY <1>2, <1>4, <1>5, <1>6 DEF Modes

LEMMA NextUnderCap ==
    ASSUME Typed, InHand, OneInFlight, UnderCap, [LoopNext]_loopVars
    PROVE  UnderCap'
<1> USE DEF UnderCap
<1>1. CASE StoreStep
  <2>1. UNCHANGED <<private, req>> /\ \A q \in Requests : Tried(q)' <=> Tried(q)
    BY <1>1, StoreEffect DEF HandlerStep, LateStep, Tried, Awaiting, Over
  <2> QED
    BY <2>1 DEF private
<1>2. ASSUME NEW q \in Requests, SendStep(q)
      PROVE  UnderCap'
  BY <1>2 DEF SendStep, Tried
<1>3. CASE Send
  BY <1>2, <1>3, SendEffect
<1>4. CASE LoopStep /\ ~Send
  <2>1. UNCHANGED req /\ \A q \in Requests : Tried(q)' <=> Tried(q)
    BY <1>4, LoopEffect DEF vars, handlers, Tried
  <2>2. CASE FetchCatalog \/ Pick
    BY <2>1, <2>2 DEF FetchCatalog, Pick
  <2>3. CASE GatewayApproves
    <3>1. PICK r \in Receipts : Claim[r] = ValueClaim /\ ticket' = r /\ issued' = issued \cup {r}
      BY <2>3 DEF GatewayApproves
    <3>2. Claim[r].amount \in Nat /\ Claim[r].amount <= Cap
      BY <2>3, <3>1, ClaimTypes DEF GatewayApproves, Working
    <3> QED
      BY <2>1, <3>1, <3>2
  <2>4. CASE GatewayRefuses \/ GatewayEnds
    BY <2>1, <2>4 DEF GatewayRefuses, GatewayEnds
  <2>5. CASE Answered \/ GiveUp
    BY <2>1, <2>5 DEF Answered, GiveUp
  <2> QED
    BY <1>4, <2>2, <2>3, <2>4, <2>5 DEF LoopStep
<1>5. CASE UNCHANGED loopVars
  BY <1>5 DEF loopVars, vars, handlers, private, Tried
<1> QED
  BY <1>1, <1>3, <1>4, <1>5 DEF LoopNext

\* Each charge, made or on its way, is of the units that a tried request's
\* receipt commits to.
LEMMA CallsBacked ==
    ASSUME RedemptionInv, NEW c \in ChargeCalls
    PROVE  /\ c.by \in Requests /\ Tried(c.by)
           /\ c = ChargeOf(c.by)
           /\ c.offer.amount = Claim[req[c.by].receipt].amount
           /\ c \in ChargeType
           /\ c.offer.amount \in 1..IntMax
           /\ pc[c.by] \in {"recordSuccess", "recordFailure"} \cup Over
<1>1. /\ c.by \in Requests /\ c.receipt = req[c.by].receipt /\ c = ChargeOf(c.by)
      /\ pc[c.by] \in {"recordSuccess", "recordFailure"} \cup Over
  BY OneActor DEF RedemptionInv, ChargesAccounted
<1>2. c \in ChargeType
  BY CallsTyped DEF RedemptionInv, Typed
<1>3. c.offer \in Offers /\ c.offer.amount = Claim[c.receipt].amount
  BY ChargeIsCommitment
<1> QED
  BY <1>1, <1>2, <1>3, CheckoutAssumption DEF Tried, Over

LEMMA ChargesBacked ==
    ASSUME RedemptionInv, NEW c \in charges
    PROVE  /\ c.by \in Requests /\ Tried(c.by)
           /\ c = ChargeOf(c.by)
           /\ c.offer.amount = Claim[req[c.by].receipt].amount
           /\ c \in ChargeType
           /\ c.offer.amount \in 1..IntMax
           /\ pc[c.by] \in {"recordSuccess", "recordFailure"} \cup Over
BY CallsBacked DEF ChargeCalls

\* Whatever prices become between the gateway's verdict and Stripe, no charge
\* is over the MaxValue of the delegation.
THEOREM ChargedWithinCap == LoopSpec => []ChargesUnderCap
<1>1. LoopInit => UnderCap
  BY DEF LoopInit, Init, UnderCap, Tried
<1>2. RedemptionInv /\ LoopInv /\ UnderCap /\ [LoopNext]_loopVars => UnderCap'
  BY NextUnderCap DEF LoopInv, RedemptionInv, Typed
<1>3. RedemptionInv /\ UnderCap => ChargesUnderCap
  BY ChargesBacked DEF ChargesUnderCap, UnderCap
<1> QED
  BY <1>1, <1>2, <1>3, LoopCorrect, PTL DEF LoopSpec

-----------------------------------------------------------------------------
(* The goal's limits                                                       *)

LEMMA NextFits ==
    ASSUME GoalIsSafe,
           Typed, InHand, OneInFlight, UnderCap, Fits, [LoopNext]_loopVars
    PROVE  Fits'
<1> USE DEF Fits
<1>0. /\ goal.maxTotal \in Nat /\ goal.maxPerItem \in Nat /\ IntMax \in Nat
      /\ goal.maxTotal + goal.maxPerItem <= IntMax
      /\ spent \in Nat /\ spent <= goal.maxTotal
  BY GoalTypes DEF GoalIsSafe
<1>1. CASE StoreStep
  <2>1. UNCHANGED <<private, req>> /\ \A q \in Requests : Tried(q)' <=> Tried(q)
    BY <1>1, StoreEffect DEF HandlerStep, LateStep, Tried, Awaiting, Over
  <2> QED
    BY <2>1 DEF private, Item
<1>2. ASSUME NEW q \in Requests, SendStep(q)
      PROVE  Fits'
  <2>1. /\ Claim[ticket].amount \in Nat /\ Claim[ticket].amount <= Item.offer.amount
        /\ Item.offer.amount \in Nat /\ Item.offer.amount <= goal.maxPerItem
    BY <1>0, <1>2, ClaimTypes DEF UnderCap, SendStep, Working
  <2>2. Claim[ticket].amount <= goal.maxPerItem
    BY <1>0, <2>1
  <2>3. Item' = Item /\ UNCHANGED <<goal, spent>> /\ step' = "await" /\ step = "send"
    BY <1>2 DEF SendStep, Item
  <2>4. \A u \in Requests : Tried(u)' => Claim[req'[u].receipt].amount <= goal.maxPerItem
    BY <1>2, <2>2 DEF SendStep, Tried
  <2> QED
    BY <2>3, <2>4 DEF Working
<1>3. CASE Send
  BY <1>2, <1>3, SendEffect
<1>4. CASE LoopStep /\ ~Send
  <2>1. UNCHANGED <<goal, req>> /\ \A q \in Requests : Tried(q)' <=> Tried(q)
    BY <1>4, LoopEffect DEF vars, handlers, Tried
  <2>2. CASE FetchCatalog
    BY <2>1, <2>2 DEF FetchCatalog, Working
  <2>3. CASE Pick
    <3>1. CASE step' = "over"
      BY <2>1, <2>3, <3>1 DEF Pick, Working
    <3>2. CASE Picked # 0 /\ chosen' = Picked /\ step' = "verify"
      <4>1. /\ Item'.offer.amount \in 1..IntMax
            /\ Item'.offer.amount <= goal.maxPerItem
            /\ Plus(spent, Item'.offer.amount) <= goal.maxTotal
        BY <2>3, <3>2, PickedFits, CatalogTypes DEF Pick, Item, InHand
      <4>2. spent + Item'.offer.amount <= IntMax
        BY <1>0, <4>1
      <4>3. spent + Item'.offer.amount <= goal.maxTotal
        BY <1>0, <4>1, <4>2 DEF Plus, Width
      <4> QED
        BY <2>1, <2>3, <3>2, <4>1, <4>3 DEF Pick
    <3> QED
      BY <2>3, <3>1, <3>2 DEF Pick
  <2>4. CASE GatewayApproves
    <3>1. PICK r \in Receipts : Claim[r] = ValueClaim /\ ticket' = r
      BY <2>4 DEF GatewayApproves
    <3>2. Item' = Item /\ step = "verify" /\ step' = "send" /\ UNCHANGED spent
          /\ ValueClaim.amount <= Cap
      BY <2>4 DEF GatewayApproves, Item
    <3>3. ValueClaim.amount <= Item.offer.amount
      <4>1. goal.mode # "per_action_cap"
        <5> SUFFICES ASSUME goal.mode = "per_action_cap" PROVE FALSE
          OBVIOUS
        <5>1. /\ goal.maxPerItem + OverCap <= IntMax
              /\ goal.maxPerItem + OverCap > Cap
          BY DEF GoalIsSafe
        <5>2. ValueClaim.amount = goal.maxPerItem + OverCap
          BY <3>2, <5>1, ClaimTypes DEF Working
        <5> QED
          BY <1>0, <3>2, <5>1, <5>2, LoopAssumption, StrategyAssumption
      <4> QED
        BY <3>2, <4>1, ClaimTypes DEF Working
    <3> QED
      BY <2>1, <3>1, <3>2, <3>3 DEF Working
  <2>5. CASE GatewayRefuses \/ GatewayEnds
    BY <2>1, <2>5 DEF GatewayRefuses, GatewayEnds, Working
  <2>6. CASE Answered
    <3>1. /\ Item.offer.amount \in 1..IntMax
          /\ Item.offer.amount <= goal.maxPerItem
          /\ spent + Item.offer.amount <= goal.maxTotal
      BY <2>6, ClaimTypes DEF Answered, Working
    <3>2. spent + Item.offer.amount <= IntMax
      BY <1>0, <3>1
    <3>3. Plus(spent, Item.offer.amount) = spent + Item.offer.amount
      BY <1>0, <3>1, <3>2 DEF Plus, Width
    <3>4. spent' \in Nat /\ spent' <= goal.maxTotal
      BY <1>0, <2>6, <3>1, <3>3 DEF Answered
    <3> QED
      BY <2>1, <2>6, <3>4 DEF Answered, Working
  <2>7. CASE GiveUp
    BY <2>1, <2>7 DEF GiveUp, Working
  <2> QED
    BY <1>4, <2>2, <2>3, <2>4, <2>5, <2>6, <2>7 DEF LoopStep
<1>5. CASE UNCHANGED loopVars
  BY <1>5 DEF loopVars, vars, handlers, private, Tried, Item
<1> QED
  BY <1>1, <1>3, <1>4, <1>5 DEF LoopNext

-----------------------------------------------------------------------------
(* The running total                                                       *)

LEMMA Totals ==
    ASSUME NEW S \in SUBSET ChargeType, IsFiniteSet(S)
    PROVE  /\ Total({}) = 0
           /\ Total(S) \in Nat
           /\ \A c \in ChargeType \ S : Total(S \cup {c}) = Total(S) + c.offer.amount
<1> DEFINE w == [c \in ChargeType |-> c.offer.amount]
<1>1. \A c \in ChargeType : w[c] = c.offer.amount /\ w[c] \in Nat
  <2> SUFFICES ASSUME NEW c \in ChargeType PROVE c.offer.amount \in Nat
    OBVIOUS
  <2>1. c.offer \in Offers
    BY DEF ChargeType
  <2> QED
    BY <2>1, CheckoutAssumption
<1>2. \A T : Total(T) = SumFunctionOnSet(w, T)
  BY DEF Total
<1> HIDE DEF w
<1>3. SumFunctionOnSet(w, {}) = 0
  BY SumEmpty
<1>4. SumFunctionOnSet(w, S) \in Nat
  BY <1>1, SumNat
<1>5. ASSUME NEW c \in ChargeType \ S
      PROVE  SumFunctionOnSet(w, S \cup {c}) = SumFunctionOnSet(w, S) + w[c]
  BY <1>1, SumAdd
<1> QED
  BY <1>1, <1>2, <1>3, <1>4, <1>5

\* What the loop has not heard of is one charge at most, its last request's.
LEMMA KnownAndHeard ==
    ASSUME RedemptionInv, Covered
    PROVE  /\ Known \in SUBSET ChargeType /\ Heard \in SUBSET ChargeType
           /\ IsFiniteSet(Known) /\ IsFiniteSet(Heard)
           /\ \/ Known = Heard
              \/ \E c \in charges : /\ c \notin Heard /\ Known = Heard \cup {c}
                                    /\ req[c.by].product \notin done
<1>1. Known \in SUBSET charges /\ Heard \in SUBSET Known
  BY DEF Known, Heard
<1>2. /\ Known \in SUBSET ChargeType /\ Heard \in SUBSET ChargeType
      /\ IsFiniteSet(Known) /\ IsFiniteSet(Heard)
  BY <1>1, FS_Subset DEF RedemptionInv, TypeOK, Covered
<1>3. CASE Known = Heard
  BY <1>2, <1>3
<1>4. CASE Known # Heard
  <2>1. PICK c \in Known : c \notin Heard
    BY <1>1, <1>4
  <2>2. \A d \in Known \ Heard : d.by = attempt /\ d = ChargeOf(d.by)
    BY <1>1, ChargesBacked DEF Heard, Covered
  <2>3. Known = Heard \cup {c}
    BY <1>1, <2>1, <2>2
  <2> QED
    BY <1>1, <1>2, <2>1, <2>3 DEF Heard
<1> QED
  BY <1>3, <1>4

\* What the request under way does concerns no product that is done with.
LEMMA HandlerCovered ==
    ASSUME RedemptionInv, OneInFlight, OneTryPerProduct, Covered,
           NEW q \in Requests, HandlerStep(q)
    PROVE  Covered'
<1>1. /\ Tried(q) /\ pc[q] # "answered" /\ req[q].product \notin done
      /\ \A u \in Requests : Tried(u)' <=> Tried(u)
  BY DEF OneTryPerProduct, HandlerStep, Awaiting, Over, Tried
<1>2. IsFiniteSet(charges')
  BY FS_AddElement DEF Covered, HandlerStep
<1>3. ChargeOf(q).by = q
  BY DEF ChargeOf
<1>4. /\ \A c \in charges : c.by \in Requests
      /\ \A c \in charges' \ charges : c.by = q
      /\ charges \subseteq charges'
      /\ \A u \in Requests \ {q} : resp'[u] = resp[u]
      /\ UNCHANGED <<req, done>>
  BY <1>3, ChargesBacked DEF HandlerStep, private
<1>5. Heard' = Heard
  BY <1>1, <1>4 DEF Heard, Known, Disowned
<1>6. Total(Heard)' = Total(Heard)
  BY <1>5 DEF Total
<1> QED
  BY <1>1, <1>2, <1>6 DEF Covered, HandlerStep, private, Item

\* A charge that is made after its answer was heard is one that the answer
\* disowned: 200 means it is there already, a 4xx that no call is on its way.
LEMMA LateCovered ==
    ASSUME RedemptionInv, AnswerTellsOutcome, OneInFlight, OneTryPerProduct, Covered,
           NEW c \in lateCharges, LateStep(c)
    PROVE  Covered'
<1>1. c \in ChargeCalls
  BY DEF ChargeCalls
<1>2. c.by \in Requests /\ Tried(c.by) /\ c = ChargeOf(c.by)
  BY <1>1, CallsBacked
<1>3. charges' = charges \cup {c} /\ UNCHANGED <<private, pc, req, resp>>
  BY DEF LateStep
<1>4. IsFiniteSet(charges')
  BY <1>3, FS_AddElement DEF Covered
<1>5. Heard' = Heard
  <2>1. CASE c \in charges
    BY <1>3, <2>1 DEF Heard, Known, Disowned, private
  <2>2. CASE req[c.by].product \notin done
    BY <1>3, <2>2 DEF Heard, Known, Disowned, private
  <2>3. CASE c \notin charges /\ req[c.by].product \in done
    <3>1. pc[c.by] = "answered" /\ resp[c.by] # 0
      BY <1>2, <2>3 DEF OneTryPerProduct, OneInFlight
    <3>2. resp[c.by] \in {200, 400, 401, 404, 409, 500, 502}
      BY <1>2, <3>1 DEF RedemptionInv, TypeOK, Codes
    <3>3. resp[c.by] \in {500, 502}
      BY <1>1, <1>2, <2>3, <3>2 DEF AnswerTellsOutcome
    <3> QED
      BY <1>3, <3>3 DEF Heard, Known, Disowned, private
  <2> QED
    BY <2>1, <2>2, <2>3
<1>6. Total(Heard)' = Total(Heard)
  BY <1>5 DEF Total
<1> QED
  BY <1>3, <1>4, <1>6 DEF Covered, private, Item, Tried

LEMMA SendCovered ==
    ASSUME RedemptionInv, InHand, OneTryPerProduct, Fits, Covered,
           NEW q \in Requests, SendStep(q)
    PROVE  Covered'
<1>1. \A c \in charges : c.by \in Requests \ {q}
  BY ChargesBacked DEF SendStep, Tried
<1>2. Heard' = Heard
  BY <1>1 DEF Heard, Known, Disowned, SendStep
<1>3. Total(Heard)' = Total(Heard)
  BY <1>2 DEF Total
<1>4. /\ Claim[ticket].amount <= Item.offer.amount
      /\ spent + Item.offer.amount <= goal.maxTotal
      /\ chosen # 0
  BY DEF Fits, InHand, SendStep, Working
<1>5. \A u \in Requests \ {q} : Tried(u) => req[u].product \in done
  BY DEF OneTryPerProduct, SendStep
<1>6. \A u \in Requests \ {q} : (Tried(u)' <=> Tried(u)) /\ req'[u] = req[u]
  BY DEF SendStep, Tried
<1>7. Item' = Item
  BY DEF Item, SendStep
<1> QED
  BY <1>3, <1>4, <1>5, <1>6, <1>7 DEF Covered, SendStep

LEMMA AnsweredCovered ==
    ASSUME GoalIsSafe, RedemptionInv, AnswerTellsOutcome, InHand, OneInFlight,
           OneTryPerProduct, Fits, Covered, Answered
    PROVE  Covered'
<1>1. /\ attempt \in Requests /\ pc[attempt] = "answered" /\ step = "await"
      /\ UNCHANGED <<charges, pc, req, resp, attempt>> /\ step' = "pick"
      /\ done' = done \cup {Item.id}
  BY DEF Answered, InHand, vars, store, handlers
<1>2. /\ IsFiniteSet(charges) /\ Total(Heard) <= spent
      /\ Tried(attempt) /\ req[attempt].product = Item.id /\ Item.id \notin done
      /\ Claim[req[attempt].receipt].amount <= Item.offer.amount
  BY <1>1 DEF Covered, OneInFlight, OneTryPerProduct, Working
<1>3. \A q \in Requests : Tried(q)' => req'[q].product \in done'
  BY <1>1 DEF OneTryPerProduct, Tried
<1>4. /\ spent \in Nat /\ Item.offer.amount \in 1..IntMax /\ IntMax \in Nat
      /\ Plus(spent, Item.offer.amount) = spent + Item.offer.amount
  <2>1. /\ Item.offer.amount \in 1..IntMax
        /\ Item.offer.amount <= goal.maxPerItem
        /\ goal.maxTotal \in Nat /\ goal.maxPerItem \in Nat /\ IntMax \in Nat
        /\ goal.maxTotal + goal.maxPerItem <= IntMax
        /\ spent \in Nat /\ spent <= goal.maxTotal
    BY <1>1, ClaimTypes, GoalTypes DEF Fits, GoalIsSafe, Working
  <2>2. spent + Item.offer.amount <= IntMax
    BY <2>1
  <2> QED
    BY <2>1, <2>2 DEF Plus
<1>5. Known' = Known /\ Heard' = {c \in Known : req[c.by].product \in done \cup {Item.id}}
  BY <1>1 DEF Known, Heard, Disowned
<1>6. \A c \in Known : /\ c.by \in Requests /\ Tried(c.by) /\ c = ChargeOf(c.by)
                       /\ resp[c.by] \notin {500, 502} /\ c \in charges
  BY ChargesBacked DEF Known, Disowned
<1>7. \A c \in Known : req[c.by].product = Item.id <=> c.by = attempt
  BY <1>1, <1>2, <1>6 DEF OneTryPerProduct
<1>8. Total(Heard) \in Nat
  BY KnownAndHeard, Totals
<1>9. Total(Heard)' = Total(Heard')
  BY DEF Total
<1>10. CASE \E c \in Known : c.by = attempt
  <2>1. PICK c \in Known : c.by = attempt
    BY <1>10
  <2>2. resp[attempt] = 200
    <3>1. resp[attempt] \in {200, 400, 401, 404, 409, 500, 502}
      BY <1>1 DEF OneInFlight, RedemptionInv, TypeOK, Codes
    <3>2. c \in ChargeCalls
      BY <1>6 DEF ChargeCalls
    <3> QED
      BY <1>1, <1>6, <2>1, <3>1, <3>2 DEF AnswerTellsOutcome
  <2>3. spent' = spent + Item.offer.amount
    BY <1>4, <2>2 DEF Answered
  <2>4. c \notin Heard /\ Heard' = Heard \cup {c}
    BY <1>2, <1>5, <1>6, <1>7, <2>1 DEF Heard
  <2>5. c \in ChargeType /\ c.offer.amount \in Nat /\ c.offer.amount <= Item.offer.amount
    BY <1>2, <1>6, <2>1, ChargesBacked
  <2>6. Total(Heard') = Total(Heard) + c.offer.amount
    BY <2>4, <2>5, KnownAndHeard, Totals
  <2>7. Total(Heard') <= spent'
    BY <1>2, <1>4, <1>8, <2>3, <2>5, <2>6
  <2> QED
    BY <1>1, <1>2, <1>3, <1>9, <2>7 DEF Covered
<1>11. CASE ~ \E c \in Known : c.by = attempt
  <2>1. Heard' = Heard
    BY <1>5, <1>7, <1>11 DEF Heard
  <2>2. spent' \in {spent, spent + Item.offer.amount}
    BY <1>4 DEF Answered
  <2>3. Total(Heard)' <= spent'
    BY <1>2, <1>4, <1>8, <1>9, <2>1, <2>2
  <2> QED
    BY <1>1, <1>2, <1>3, <2>3 DEF Covered
<1> QED
  BY <1>10, <1>11

LEMMA NextCovered ==
    ASSUME GoalIsSafe, RedemptionInv, AnswerTellsOutcome, InHand, OneInFlight,
           OneTryPerProduct, Fits, Covered, [LoopNext]_loopVars
    PROVE  Covered'
<1>0. Typed
  BY DEF Typed, RedemptionInv
<1>1. ASSUME UNCHANGED <<pc, req, resp, charges, spent, done, attempt, goal, catalog, chosen>>,
             step' = step \/ step' = "over"
      PROVE  Covered'
  BY <1>1 DEF Covered, Tried, Known, Heard, Disowned, Total, Item
<1>2. CASE StoreStep
  BY <1>0, <1>1, <1>2, StoreEffect, HandlerCovered, LateCovered DEF private
<1>3. CASE Send
  BY <1>0, <1>3, SendEffect, SendCovered
<1>4. CASE Answered
  BY <1>4, AnsweredCovered
<1>5. CASE FetchCatalog \/ Pick \/ GatewayApproves \/ GatewayRefuses \/ GatewayEnds
  <2>1. /\ UNCHANGED <<pc, req, resp, charges, spent>>
        /\ step \in {"catalog", "pick", "verify"}
        /\ done' = done \/ (done' = done \cup {Item.id} /\ step = "verify")
    BY <1>5 DEF FetchCatalog, Pick, GatewayApproves, GatewayRefuses, GatewayEnds,
                vars, store, handlers
  <2>2. \A q \in Requests : Tried(q) => req[q].product \in done
    BY <2>1 DEF OneTryPerProduct
  <2>3. Heard' = Heard
    <3>1. Known' = Known /\ Heard' = {c \in Known : req[c.by].product \in done'}
      BY <2>1 DEF Heard, Known, Disowned
    <3>2. \A c \in Known : req[c.by].product \in done
      BY <2>2, ChargesBacked DEF Known
    <3> QED
      BY <2>1, <3>1, <3>2 DEF Heard
  <2>4. Total(Heard)' = Total(Heard)
    BY <2>3 DEF Total
  <2> QED
    BY <2>1, <2>2, <2>4 DEF Covered, Tried
<1>6. CASE GiveUp
  BY <1>1, <1>6 DEF GiveUp, vars, store, handlers
<1>7. CASE UNCHANGED loopVars
  BY <1>1, <1>7 DEF loopVars, vars, store, handlers, private
<1> QED
  BY <1>2, <1>3, <1>4, <1>5, <1>6, <1>7 DEF LoopNext, LoopStep

BudgetInv ==
    /\ LoopInv /\ RedemptionInv /\ AnswerTellsOutcome /\ UnderCap
    /\ GoalIsSafe => Fits /\ Covered

LEMMA BudgetCorrect == LoopSpec => []BudgetInv
<1>1. LoopInit => UnderCap /\ Fits /\ Covered
  <2> SUFFICES ASSUME LoopInit PROVE UnderCap /\ Fits /\ Covered
    OBVIOUS
  <2> USE DEF LoopInit, Init
  <2>1. UnderCap
    BY DEF UnderCap, Tried
  <2>2. Fits
    BY InitInHand, GoalTypes DEF Fits, Tried, Working
  <2>3. IsFiniteSet({}) /\ Total({}) = 0
    BY FS_EmptySet, Totals
  <2>4. Heard = {}
    BY DEF Heard, Known
  <2>5. spent = 0 /\ \A q \in Requests : ~Tried(q)
    BY DEF Tried
  <2> QED
    BY <2>1, <2>2, <2>3, <2>4, <2>5 DEF Covered
<1>2. ASSUME RedemptionInv, AnswerTellsOutcome, LoopInv, UnderCap,
             GoalIsSafe => Fits /\ Covered, [LoopNext]_loopVars
      PROVE  UnderCap' /\ (GoalIsSafe => Fits /\ Covered)'
  <2>1. goal' = goal
    BY <1>2 DEF LoopNext, LoopStep, StoreStep, FetchCatalog, Pick, GatewayApproves,
                GatewayRefuses, GatewayEnds, Send, Answered, GiveUp, loopVars, private
  <2>2. GoalIsSafe' <=> GoalIsSafe
    BY <2>1 DEF GoalIsSafe
  <2> QED
    BY <1>2, <2>2, NextUnderCap, NextFits, NextCovered DEF LoopInv, RedemptionInv, Typed
<1> QED
  BY <1>1, <1>2, LoopCorrect, LoopRunsStore, AnswersAreHonest, PTL
  DEF LoopSpec, BudgetInv

\* The loop's running total never falls behind the card: for a safe goal it
\* covers everything that was charged, and not disowned, for the products
\* whose answer it has heard.
THEOREM SpentCoversTheCard == LoopSpec => []SpentCoversCharges
<1>1. BudgetInv => SpentCoversCharges
  <2> SUFFICES ASSUME BudgetInv, GoalIsSafe PROVE Total(Heard) <= spent
    BY DEF SpentCoversCharges, Heard, Known
  <2> QED
    BY DEF BudgetInv, Covered
<1> QED
  BY <1>1, BudgetCorrect, PTL

\* Whatever is dropped, delayed or repriced, what Stripe has charged stays
\* within both limits of a safe goal, except for charges the store disowned
\* with a 500 or a 502.
THEOREM BudgetHolds == LoopSpec => []KnownWithinBudget
<1>1. BudgetInv => KnownWithinBudget
  <2> SUFFICES ASSUME BudgetInv, GoalIsSafe
               PROVE  /\ Total(Known) <= goal.maxTotal
                      /\ \A c \in Known : c.offer.amount <= goal.maxPerItem
    BY DEF KnownWithinBudget, WithinBudget, Known
  <2>1. /\ RedemptionInv /\ Covered /\ Total(Heard) <= spent
        /\ spent \in Nat /\ spent <= goal.maxTotal
        /\ goal.maxTotal \in Nat /\ IntMax \in Nat
    BY GoalTypes DEF BudgetInv, Covered, Fits, LoopInv
  <2>2. Total(Known) \in Nat /\ Total(Heard) \in Nat
    BY <2>1, KnownAndHeard, Totals
  <2>3. \A c \in Known : c.offer.amount <= goal.maxPerItem
    BY <2>1, ChargesBacked DEF BudgetInv, Fits, Known
  <2>4. CASE Known = Heard
    BY <2>1, <2>2, <2>3, <2>4
  <2>5. CASE \E c \in charges : /\ c \notin Heard /\ Known = Heard \cup {c}
                                /\ req[c.by].product \notin done
    <3>1. PICK c \in charges : /\ c \notin Heard /\ Known = Heard \cup {c}
                               /\ req[c.by].product \notin done
      BY <2>5
    <3>2. /\ c.by \in Requests /\ Tried(c.by) /\ c \in ChargeType
          /\ c.offer.amount = Claim[req[c.by].receipt].amount
          /\ c.offer.amount \in 1..IntMax
      BY <2>1, ChargesBacked
    <3>3. /\ chosen # 0
          /\ Claim[req[c.by].receipt].amount <= Item.offer.amount
          /\ spent + Item.offer.amount <= goal.maxTotal
      BY <2>1, <3>1, <3>2 DEF Covered
    <3>4. Item.offer.amount \in 1..IntMax
      BY <3>3, CatalogTypes DEF BudgetInv, LoopInv, InHand, Item
    <3>5. Total(Known) = Total(Heard) + c.offer.amount
      BY <2>1, <3>1, <3>2, KnownAndHeard, Totals
    <3>6. Total(Known) <= goal.maxTotal
      BY <2>1, <2>2, <3>2, <3>3, <3>4, <3>5
    <3> QED
      BY <2>3, <3>6
  <2> QED
    BY <2>1, <2>4, <2>5, KnownAndHeard
<1> QED
  BY <1>1, BudgetCorrect, PTL

\* An item that does not fit is skipped, not waited for, and yet nothing after
\* it is bought under a safe goal: the loop might as well have stopped there.
THEOREM SkippedIsStopped == LoopSpec => []SkippingIsStopping
<1>1. BudgetInv => SkippingIsStopping
  <2> DEFINE rest == Candidates(catalog, done, goal)
             cost(i) == catalog[i].offer.amount
  <2> SUFFICES ASSUME BudgetInv, GoalIsSafe
               PROVE  /\ rest = {} => Picked = 0
                      /\ \A next \in rest :
                            (\A i \in rest : Precedes(catalog, next, i)) =>
                                Picked = IF spent + cost(next) > goal.maxTotal
                                         THEN 0 ELSE next
    BY DEF SkippingIsStopping
  <2>1. /\ IntMax \in Nat /\ goal.maxTotal \in Nat /\ goal.maxPerItem \in Nat
        /\ goal.maxTotal + goal.maxPerItem <= IntMax
        /\ spent \in Nat /\ spent <= goal.maxTotal
        /\ catalog \in Seq(CatalogItem)
    BY GoalTypes DEF BudgetInv, Fits, LoopInv, InHand, GoalIsSafe
  <2>2. /\ \A i \in DOMAIN catalog : i \in Nat \ {0} /\ cost(i) \in Nat
        /\ IsCatalog(catalog)
    BY <2>1, CatalogTypes, AmountsAssumption DEF IsCatalog
  <2> DEFINE fitting == Fitting(catalog, spent, done, goal)
  <2>3. \A i \in rest : i \in DOMAIN catalog /\ Plus(spent, cost(i)) = spent + cost(i)
    <3> SUFFICES ASSUME NEW i \in rest
                 PROVE  i \in DOMAIN catalog /\ Plus(spent, cost(i)) = spent + cost(i)
      OBVIOUS
    <3>1. i \in DOMAIN catalog /\ cost(i) <= goal.maxPerItem /\ cost(i) \in Nat
      BY <2>2 DEF Candidates
    <3>2. ~(spent + cost(i) > IntMax)
      BY <2>1, <3>1
    <3> QED
      BY <3>1, <3>2 DEF Plus
  <2>4. fitting = {i \in rest : Plus(spent, cost(i)) <= goal.maxTotal}
    BY DEF Fitting
  <2>5. /\ Picked = 0 => fitting = {}
        /\ Picked # 0 => Picked \in fitting /\ \A j \in fitting : Precedes(catalog, Picked, j)
    BY <2>2, PickedIsFirst DEF Picked
  <2> HIDE DEF rest, fitting
  <2>6. rest = {} => Picked = 0
    BY <2>4, <2>5
  <2>7. ASSUME NEW next \in rest, \A i \in rest : Precedes(catalog, next, i)
        PROVE  Picked = IF spent + cost(next) > goal.maxTotal THEN 0 ELSE next
    <3>1. /\ next \in DOMAIN catalog /\ next \in Nat /\ cost(next) \in Nat
          /\ next \in fitting <=> spent + cost(next) <= goal.maxTotal
      BY <2>2, <2>3, <2>4
    <3>2. CASE Picked = 0
      BY <2>1, <2>5, <3>1, <3>2
    <3>3. CASE Picked # 0
      <4>1. /\ Picked \in rest /\ Picked \in Nat /\ cost(Picked) \in Nat
            /\ spent + cost(Picked) <= goal.maxTotal
        BY <2>2, <2>3, <2>4, <2>5, <3>3
      <4>2. Precedes(catalog, next, Picked)
        BY <2>7, <4>1
      <4>3. cost(next) <= cost(Picked)
        BY <3>1, <4>1, <4>2 DEF Precedes
      <4>4. spent + cost(next) <= goal.maxTotal /\ next \in fitting
        BY <2>1, <3>1, <4>1, <4>3
      <4>5. Precedes(catalog, Picked, next)
        BY <2>5, <3>3, <4>4
      <4>6. Picked = next
        BY <3>1, <4>1, <4>2, <4>5 DEF Precedes
      <4> QED
        BY <2>1, <3>1, <4>4, <4>6
    <3> QED
      BY <3>2, <3>3
  <2> QED
    BY <2>6, <2>7
<1> QED
  BY <1>1, BudgetCorrect, PTL
=============================================================================
