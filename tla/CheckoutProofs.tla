--------------------------- MODULE CheckoutProofs ---------------------------
(***************************************************************************)
(* Theorems about Checkout, for any number of requests, receipts,          *)
(* customers and products, any claims, and every combination of faults.    *)
(***************************************************************************)
EXTENDS Checkout, TLAPS

-----------------------------------------------------------------------------
(* Typing                                                                  *)

Typed == TypeOK /\ HasRequest /\ HasCart

LEMMA InitTyped == Init => Typed
BY CheckoutAssumption DEF Init, Typed, TypeOK, HasRequest, HasCart, Awaiting, Over, Codes

\* What a handler past its header carries.
LEMMA CarriesRequest ==
    ASSUME Typed, NEW q \in Requests, pc[q] \in Awaiting
    PROVE  /\ req[q] \in RequestType
           /\ req[q].receipt \in Receipts
           /\ req[q].product \in Products
BY DEF Typed, HasRequest, Presents, RequestType

LEMMA ReceiveTyped ==
    ASSUME Typed, NEW q \in Requests, Receive(q)
    PROVE  Typed'
<1>1. CASE RefuseHeader(q)
  BY <1>1 DEF RefuseHeader, Answer, Typed, TypeOK, HasRequest, HasCart, Presents,
              Awaiting, Over, Codes, store, late
<1>2. CASE \E r \in Receipts, c \in Customers, p \in Products : Arrive(q, r, c, p)
  <2>1. PICK r \in Receipts, c \in Customers, p \in Products : Arrive(q, r, c, p)
    BY <1>2
  <2>2. [customer |-> c, product |-> p, receipt |-> r] \in RequestType
    BY DEF RequestType
  <2>3. req' = [req EXCEPT ![q] = [customer |-> c, product |-> p, receipt |-> r]]
        /\ UNCHANGED <<store, late, age, cart>>
    BY <2>1 DEF Arrive
  <2>4. TypeOK'
    BY <2>1, <2>2, <2>3 DEF Arrive, Goto, Answer, Typed, TypeOK, Awaiting, Over,
                            Codes, store, late
  <2>5. pc'[q] = "consume" => Presents(q)'
    BY <2>1, <2>2, <2>3 DEF Arrive, Answer, Validates, Presents, Typed, TypeOK
  <2>6. /\ pc[q] = "idle" /\ pc'[q] \in {"consume", "answered"} /\ cart[q] = NoOffer
        /\ \A u \in Requests \ {q} : pc'[u] = pc[u] /\ (Presents(u) => Presents(u)')
    BY <2>1, <2>3 DEF Arrive, Goto, Answer, Typed, TypeOK, HasCart, Presents
  <2> QED
    BY <2>3, <2>4, <2>5, <2>6 DEF Typed, HasRequest, HasCart, Awaiting
<1> QED
  BY <1>1, <1>2 DEF Receive

LEMMA RecordsTyped ==
    ASSUME Typed, NEW q \in Requests, req[q] \in RequestType,
           cart[q] \in Offers
    PROVE  /\ ChargeOf(q) \in ChargeType
           /\ \A s \in Statuses : TransactionOf(q, s) \in TransactionType
BY DEF Typed, TypeOK, RequestType, ChargeOf, ChargeType, TransactionOf, TransactionType

\* Whatever is left behind has its type, too.
LEMMA UnansweredTyped ==
    ASSUME Typed, NEW q \in Requests, pc[q] \in Awaiting, Unanswered(q)
    PROVE  /\ lateReceipts' \subseteq Receipts
           /\ lateCharges' \subseteq ChargeType
           /\ lateRows' \subseteq TransactionType
<1> USE DEF Typed, TypeOK
<1>1. req[q] \in RequestType /\ req[q].receipt \in Receipts
  BY CarriesRequest
<1>2. CASE UNCHANGED late
  BY <1>2 DEF late
<1>3. CASE /\ pc[q] = "consume"
           /\ lateReceipts' = lateReceipts \cup {req[q].receipt}
           /\ UNCHANGED <<lateCharges, lateRows>>
  BY <1>1, <1>3
<1>4. CASE /\ pc[q] = "charge" /\ CanBill(q)
           /\ lateCharges' = lateCharges \cup {ChargeOf(q)}
           /\ UNCHANGED <<lateReceipts, lateRows>>
  <2>1. cart[q] \in Offers
    BY <1>4 DEF HasCart, Awaiting
  <2> QED
    BY <1>1, <1>4, <2>1, RecordsTyped
<1>5. CASE /\ \E status \in Statuses :
                 /\ Records(q, status)
                 /\ lateRows' = lateRows \cup {TransactionOf(q, status)}
           /\ UNCHANGED <<lateReceipts, lateCharges>>
  <2>1. cart[q] \in Offers
    BY <1>5 DEF HasCart, Awaiting, Records
  <2> QED
    BY <1>1, <1>5, <2>1, RecordsTyped
<1> QED
  BY <1>2, <1>3, <1>4, <1>5 DEF Unanswered, LeaveBehind

\* A handler's step that leaves its request and its cart as they are.
PlainStep(q) ==
    /\ pc[q] \in Awaiting
    /\ UNCHANGED <<products, customers, age, req, cart>>
    /\ consumed' \subseteq Receipts
    /\ charges' \subseteq ChargeType
    /\ transactions' \subseteq TransactionType
    /\ Unanswered(q)
    /\ pc' \in [Requests -> {"idle"} \cup Awaiting \cup Over]
    /\ resp' \in [Requests -> Codes]
    /\ \A u \in Requests \ {q} : pc'[u] = pc[u]
    /\ \/ pc'[q] \in Over
       \/ pc[q] = "consume" /\ pc'[q] = "product"
       \/ /\ pc[q] \in Awaiting \ {"consume", "product"}
          /\ pc'[q] \in Awaiting \ {"consume", "product"}

LEMMA PlainStepTyped ==
    ASSUME Typed, NEW q \in Requests, PlainStep(q)
    PROVE  Typed'
<1>1. TypeOK'
  <2>1. /\ lateReceipts' \subseteq Receipts
        /\ lateCharges' \subseteq ChargeType
        /\ lateRows' \subseteq TransactionType
    BY UnansweredTyped DEF PlainStep
  <2> QED
    BY <2>1 DEF Typed, TypeOK, PlainStep
<1>2. \A u \in Requests : Presents(u) => Presents(u)'
  BY DEF Presents, PlainStep
<1>3. HasRequest'
  BY <1>2 DEF Typed, HasRequest, PlainStep
<1>4. HasCart'
  <2>1. \A u \in Requests : (cart[u] # NoOffer => Presents(u))'
    BY <1>2 DEF Typed, HasCart, PlainStep
  <2>2. /\ pc'[q] \in {"idle", "consume", "product"} => cart[q] = NoOffer
        /\ pc'[q] \in Awaiting \ {"consume", "product"} => cart[q] \in Offers
    BY DEF Typed, HasCart, Awaiting, Over, PlainStep
  <2> QED
    BY <2>1, <2>2 DEF Typed, HasCart, PlainStep
<1> QED
  BY <1>1, <1>3, <1>4 DEF Typed

\* The handler writes its row or not, and everything stays typed.
LEMMA RowStepTyped ==
    ASSUME Typed, NEW q \in Requests, NEW status \in Statuses, Records(q, status),
           RowInserted(q, status) \/ RowNotInserted(q)
    PROVE  /\ pc[q] \in Awaiting
           /\ transactions' \subseteq TransactionType
           /\ Unanswered(q)
<1>1. pc[q] \in Awaiting /\ cart[q] \in Offers
  BY DEF Records, Typed, HasCart, Awaiting
<1>2. TransactionOf(q, status) \in TransactionType /\ transactions \subseteq TransactionType
  BY <1>1, CarriesRequest, RecordsTyped DEF Typed, TypeOK
<1> QED
  BY <1>1, <1>2 DEF RowInserted, RowNotInserted, Unanswered

LEMMA HandleTyped ==
    ASSUME Typed, NEW q \in Requests, Handle(q)
    PROVE  Typed'
<1> USE DEF Awaiting, Over, Codes, store, Goto, Answer
<1>0. /\ consumed \subseteq Receipts /\ charges \subseteq ChargeType
      /\ transactions \subseteq TransactionType
      /\ resp \in [Requests -> Codes]
      /\ pc \in [Requests -> {"idle"} \cup Awaiting \cup Over]
  BY DEF Typed, TypeOK
<1>1. CASE ConsumeReceipt(q)
  <2>1. req[q].receipt \in Receipts
    BY <1>1, CarriesRequest DEF ConsumeReceipt
  <2>2. PlainStep(q)
    BY <1>0, <1>1, <2>1 DEF ConsumeReceipt, PlainStep, Unanswered
  <2> QED
    BY <2>2, PlainStepTyped
<1>2. CASE RefuseReplay(q) \/ LookupCustomer(q) \/ LookupFails(q) \/ ChargeImpossible(q)
  <2>1. PlainStep(q)
    BY <1>0, <1>2 DEF RefuseReplay, LookupCustomer, LookupFails, ChargeImpossible,
                      PlainStep, Unanswered
  <2> QED
    BY <2>1, PlainStepTyped
<1>3. CASE ReplayStoreFails(q)
  <2>1. PlainStep(q)
    BY <1>0, <1>3 DEF ReplayStoreFails, PlainStep
  <2> QED
    BY <2>1, PlainStepTyped
<1>4. CASE LookupProduct(q)
  <2>1. /\ products[req[q].product] \in Offers \cup {NoOffer}
        /\ Presents(q)
    BY <1>4, CarriesRequest DEF LookupProduct, Typed, TypeOK, HasRequest
  <2>2. \A u \in Requests : Presents(u) => Presents(u)'
    BY <1>4 DEF LookupProduct, Presents
  <2>3. /\ pc[q] = "product"
        /\ cart' = [cart EXCEPT ![q] = products[req[q].product]]
        /\ \/ pc' = [pc EXCEPT ![q] = "answered"] /\ resp' = [resp EXCEPT ![q] = 404]
           \/ /\ products[req[q].product] # NoOffer
              /\ pc' = [pc EXCEPT ![q] = "reject"] /\ resp' = resp
           \/ /\ products[req[q].product] # NoOffer
              /\ pc' = [pc EXCEPT ![q] = "customer"] /\ resp' = resp
        /\ UNCHANGED <<store, late, age, req>>
    BY <1>4 DEF LookupProduct
  <2>4. TypeOK'
    BY <2>1, <2>3 DEF Typed, TypeOK, late
  <2>5. HasRequest'
    BY <2>1, <2>2, <2>3, <1>0 DEF Typed, HasRequest
  <2>6. HasCart'
    BY <2>1, <2>2, <2>3, <1>0 DEF Typed, HasCart, TypeOK
  <2> QED
    BY <2>4, <2>5, <2>6 DEF Typed
<1>5. CASE RecordRejection(q)
  <2>1. transactions' \subseteq TransactionType /\ Unanswered(q)
    BY <1>5, RowStepTyped DEF RecordRejection, Records, Statuses
  <2>2. PlainStep(q)
    BY <1>0, <1>5, <2>1 DEF RecordRejection, PlainStep
  <2> QED
    BY <2>2, PlainStepTyped
<1>6. CASE ChargeSucceeds(q)
  <2>1. cart[q] \in Offers /\ pc[q] = "charge"
    BY <1>6 DEF ChargeSucceeds, Typed, HasCart
  <2>2. ChargeOf(q) \in ChargeType
    BY <2>1, CarriesRequest, RecordsTyped
  <2>3. PlainStep(q)
    BY <1>0, <1>6, <2>2 DEF ChargeSucceeds, PlainStep, Unanswered
  <2> QED
    BY <2>3, PlainStepTyped
<1>7. CASE ChargeFails(q)
  <2>1. PlainStep(q)
    BY <1>0, <1>7 DEF ChargeFails, PlainStep, Unanswered
  <2> QED
    BY <2>1, PlainStepTyped
<1>8. CASE RecordSuccess(q)
  <2>1. transactions' \subseteq TransactionType /\ Unanswered(q)
    BY <1>8, RowStepTyped DEF RecordSuccess, Records, Statuses
  <2>2. PlainStep(q)
    BY <1>0, <1>8, <2>1 DEF RecordSuccess, PlainStep
  <2> QED
    BY <2>2, PlainStepTyped
<1>9. CASE RecordFailure(q)
  <2>1. transactions' \subseteq TransactionType /\ Unanswered(q)
    BY <1>9, RowStepTyped DEF RecordFailure, Records, Statuses
  <2>2. PlainStep(q)
    BY <1>0, <1>9, <2>1 DEF RecordFailure, PlainStep
  <2> QED
    BY <2>2, PlainStepTyped
<1> QED
  BY <1>1, <1>2, <1>3, <1>4, <1>5, <1>6, <1>7, <1>8, <1>9 DEF Handle

LEMMA DropTyped ==
    ASSUME Typed, NEW q \in Requests, Drop(q)
    PROVE  Typed'
<1>1. PlainStep(q)
  BY DEF Drop, Typed, TypeOK, PlainStep, Over, Awaiting, store
<1> QED
  BY <1>1, PlainStepTyped

LEMMA LandTyped ==
    ASSUME Typed, Land
    PROVE  Typed'
<1> USE DEF Typed, TypeOK, HasRequest, HasCart, Presents, handlers
<1>1. CASE \E r \in lateReceipts : LandReceipt(r)
  BY <1>1 DEF LandReceipt
<1>2. CASE \E c \in lateCharges : LandCharge(c)
  BY <1>2 DEF LandCharge
<1>3. CASE \E t \in lateRows : LandRow(t)
  BY <1>3 DEF LandRow
<1> QED
  BY <1>1, <1>2, <1>3 DEF Land

LEMMA EnvironmentTyped ==
    ASSUME Typed, Environment
    PROVE  Typed'
<1> USE DEF Typed, TypeOK, HasRequest, HasCart, Presents, store, late, handlers
<1>1. CASE \E r \in Receipts : Tick(r)
  BY <1>1 DEF Tick, Ages
<1>2. CASE \E p \in Products, o \in Offers : UpsertProduct(p, o)
  BY <1>2 DEF UpsertProduct
<1>3. CASE \E c \in Customers : CreateCustomer(c)
  BY <1>3 DEF CreateCustomer
<1> QED
  BY <1>1, <1>2, <1>3 DEF Environment

LEMMA NextTyped ==
    ASSUME Typed, [Next]_vars
    PROVE  Typed'
<1>1. CASE UNCHANGED vars
  BY <1>1 DEF vars, store, late, handlers, Typed, TypeOK, HasRequest, HasCart, Presents
<1>2. CASE Next
  BY <1>2, ReceiveTyped, HandleTyped, DropTyped, LandTyped, EnvironmentTyped DEF Next
<1> QED
  BY <1>1, <1>2

\* Every reachable state has its types: what the handlers write into the
\* tables are rows, whatever the requests are and whichever calls fail.
THEOREM TypeCorrect == Spec => []TypeOK
<1>1. Init => Typed
  BY InitTyped
<1>2. Typed /\ [Next]_vars => Typed'
  BY NextTyped
<1>3. Typed => TypeOK
  BY DEF Typed
<1> QED
  BY <1>1, <1>2, <1>3, PTL DEF Spec

-----------------------------------------------------------------------------
(* Redemption                                                              *)

Redemption ==
    /\ TakenIsConsumed
    /\ OneTaker
    /\ Matched
    /\ ChargesAccounted
    /\ RowsAccounted

LEMMA InitRedemption == Init => Redemption
BY DEF Init, Redemption, TakenIsConsumed, OneTaker, Matched, ChargesAccounted,
       RowsAccounted, ChargeCalls, RowCalls, Took, Redeems, Awaiting

\* Whose call it is, and that it stays the same as long as its request does.
LEMMA CallsTyped ==
    ASSUME Typed
    PROVE  /\ ChargeCalls \subseteq ChargeType
           /\ RowCalls \subseteq TransactionType
           /\ \A c \in ChargeCalls : c.by \in Requests
           /\ \A t \in RowCalls : t.by \in Requests
BY DEF Typed, TypeOK, ChargeCalls, RowCalls, ChargeType, TransactionType

LEMMA ReceiveRedemption ==
    ASSUME Typed, Redemption, NEW q \in Requests, Receive(q)
    PROVE  Redemption'
<1> USE DEF Typed, TypeOK, HasRequest, HasCart, Awaiting, Over, store, late, Goto,
            Answer, Redemption, Took, Redeems
<1>1. /\ pc[q] = "idle" /\ cart[q] = NoOffer
      /\ pc'[q] \in {"answered", "consume"}
      /\ \A u \in Requests \ {q} : pc'[u] = pc[u] /\ req'[u] = req[u]
      /\ UNCHANGED <<store, late, cart>>
  BY DEF Receive, RefuseHeader, Arrive
<1>2. \A u \in Requests : Took(u)' = (u # q /\ Took(u))
  BY <1>1
<1>3. TakenIsConsumed' /\ OneTaker'
  BY <1>1, <1>2 DEF TakenIsConsumed, OneTaker
<1>4. Matched'
  BY <1>1 DEF Matched, ChargeOf
<1>5. UNCHANGED <<ChargeCalls, RowCalls, charges>>
  BY <1>1 DEF ChargeCalls, RowCalls
<1>6. ChargesAccounted'
  <2>1. \A c \in ChargeCalls : c.by \in Requests \ {q}
    BY <1>1, CallsTyped DEF ChargesAccounted
  <2> QED
    BY <1>1, <1>5, <2>1 DEF ChargesAccounted, ChargeOf
<1>7. RowsAccounted'
  <2>1. \A t \in RowCalls : t.by \in Requests \ {q}
    BY <1>1, CallsTyped DEF RowsAccounted
  <2> QED
    BY <1>1, <1>5, <2>1 DEF RowsAccounted, TransactionOf, ChargeOf
<1> QED
  BY <1>3, <1>4, <1>6, <1>7

\* What a handler has to keep to if it changes neither its request nor its
\* cart and makes no new call.
LEMMA QuietStep ==
    ASSUME Typed, Redemption, NEW q \in Requests,
           UNCHANGED <<ChargeCalls, RowCalls, charges, req, cart>>,
           \A u \in Requests \ {q} : pc'[u] = pc[u],
           pc[q] \in Awaiting,
           Took(q)' => Took(q),
           consumed \subseteq consumed',
           \/ pc'[q] \in Over
           \/ pc[q] = "customer" /\ pc'[q] = "charge"
           \/ pc[q] = "charge" /\ pc'[q] = "recordFailure"
    PROVE  Redemption'
<1> USE DEF Typed, TypeOK, HasRequest, HasCart, Awaiting, Over, Redemption,
            Redeems
<1>1. \A u \in Requests : Took(u)' => Took(u)
  BY DEF Took
<1>2. TakenIsConsumed'
  BY <1>1 DEF TakenIsConsumed
<1>3. OneTaker'
  BY <1>1 DEF OneTaker
<1>4. Matched'
  BY DEF Matched, ChargeOf
<1>5. ChargesAccounted'
  BY CallsTyped DEF ChargesAccounted, ChargeOf
<1>6. RowsAccounted'
  BY CallsTyped DEF RowsAccounted, TransactionOf, ChargeOf
<1> QED
  BY <1>2, <1>3, <1>4, <1>5, <1>6

\* The INSERT that consumes a receipt makes its request the only taker.
LEMMA ConsumeRedemption ==
    ASSUME Typed, Redemption, NEW q \in Requests, ConsumeReceipt(q)
    PROVE  Redemption'
<1> USE DEF Typed, TypeOK, HasRequest, HasCart, Awaiting, Over, Redemption,
            Redeems
<1>1. /\ pc[q] = "consume" /\ cart[q] = NoOffer
      /\ pc' = [pc EXCEPT ![q] = "product"]
      /\ req[q].receipt \notin consumed
      /\ consumed' = consumed \cup {req[q].receipt}
      /\ UNCHANGED <<charges, transactions, late, req, cart>>
  BY DEF ConsumeReceipt, Goto
<1>2. \A u \in Requests \ {q} : Took(u)' = Took(u)
  BY <1>1 DEF Took
<1>3. \A u \in Requests \ {q} : Took(u) => req[u].receipt # req[q].receipt
  BY <1>1 DEF TakenIsConsumed
<1>4. TakenIsConsumed' /\ OneTaker'
  BY <1>1, <1>2, <1>3 DEF TakenIsConsumed, OneTaker
<1>5. Matched'
  BY <1>1 DEF Matched, ChargeOf
<1>6. UNCHANGED <<ChargeCalls, RowCalls>>
  BY <1>1 DEF ChargeCalls, RowCalls, late
<1>7. ChargesAccounted'
  <2>1. \A c \in ChargeCalls : c.by \in Requests \ {q}
    BY <1>1, CallsTyped DEF ChargesAccounted
  <2> QED
    BY <1>1, <1>6, <2>1 DEF ChargesAccounted, ChargeOf
<1>8. RowsAccounted'
  <2>1. \A t \in RowCalls : t.by \in Requests \ {q}
    BY <1>1, CallsTyped DEF RowsAccounted
  <2> QED
    BY <1>1, <1>6, <2>1 DEF RowsAccounted, TransactionOf, ChargeOf
<1> QED
  BY <1>4, <1>5, <1>7, <1>8

\* The product lookup fixes the cart; nothing refers to the old one.
LEMMA LookupRedemption ==
    ASSUME Typed, Redemption, NEW q \in Requests, LookupProduct(q)
    PROVE  Redemption'
<1> USE DEF Typed, TypeOK, HasRequest, HasCart, Awaiting, Over, Redemption,
            Redeems
<1>1. /\ pc[q] = "product" /\ cart[q] = NoOffer
      /\ \A u \in Requests \ {q} : pc'[u] = pc[u] /\ cart'[u] = cart[u]
      /\ UNCHANGED <<consumed, charges, transactions, late, req>>
  BY DEF LookupProduct, Goto, Answer, store
<1>2. \/ pc'[q] = "answered" /\ cart'[q] = NoOffer
      \/ pc'[q] = "reject" /\ ~Matches(req[q].receipt, cart'[q])
      \/ pc'[q] = "customer" /\ Matches(req[q].receipt, cart'[q])
  BY DEF LookupProduct, Goto, Answer, store
<1>3. Took(q) /\ \A u \in Requests \ {q} : Took(u)' = Took(u)
  BY <1>1 DEF Took
<1>4. TakenIsConsumed' /\ OneTaker'
  BY <1>1, <1>3 DEF TakenIsConsumed, OneTaker
<1>5. Matched'
  BY <1>1, <1>2 DEF Matched, ChargeOf
<1>6. UNCHANGED <<ChargeCalls, RowCalls>>
  BY <1>1 DEF ChargeCalls, RowCalls, late
<1>7. ChargesAccounted'
  <2>1. \A c \in ChargeCalls : c.by \in Requests \ {q}
    BY <1>1, CallsTyped DEF ChargesAccounted
  <2> QED
    BY <1>1, <1>6, <2>1 DEF ChargesAccounted, ChargeOf
<1>8. RowsAccounted'
  <2>1. \A t \in RowCalls : t.by \in Requests \ {q}
    BY <1>1, CallsTyped DEF RowsAccounted
  <2> QED
    BY <1>1, <1>6, <2>1 DEF RowsAccounted, TransactionOf, ChargeOf
<1> QED
  BY <1>4, <1>5, <1>7, <1>8

\* The Stripe call, executed now, later or never: one call, by the request
\* that took the receipt, of the offer that matched it.
LEMMA ChargeRedemption ==
    ASSUME Typed, Redemption, NEW q \in Requests,
           pc[q] = "charge",
           ChargeCalls' = ChargeCalls \cup {ChargeOf(q)},
           charges \subseteq charges',
           \A u \in Requests \ {q} : pc'[u] = pc[u],
           \/ pc'[q] = "recordSuccess" /\ ChargeOf(q) \in charges'
           \/ pc'[q] \in {"recordFailure"} \cup Over,
           UNCHANGED <<consumed, RowCalls, req, cart>>
    PROVE  Redemption'
<1> USE DEF Typed, TypeOK, HasRequest, HasCart, Awaiting, Over, Redemption,
            Redeems
<1>1. cart[q] # NoOffer /\ Took(q)
  BY CheckoutAssumption DEF Took
<1>2. \A u \in Requests : Took(u)' => Took(u)
  BY <1>1 DEF Took
<1>3. TakenIsConsumed' /\ OneTaker'
  BY <1>2 DEF TakenIsConsumed, OneTaker
<1>4. Matched'
  BY DEF Matched, ChargeOf
<1>5. ChargesAccounted'
  <2>1. ChargeOf(q).by = q /\ UNCHANGED ChargeOf(q)
    BY DEF ChargeOf
  <2>2. Matches(req[q].receipt, cart[q])
    BY DEF Matched
  <2>3. \A c \in ChargeCalls : c.by \in Requests \ {q}
    BY CallsTyped DEF ChargesAccounted
  <2>4. \A c \in ChargeCalls : UNCHANGED ChargeOf(c.by)
    BY DEF ChargeOf
  <2> QED
    BY <1>1, <2>1, <2>2, <2>3, <2>4 DEF ChargesAccounted
<1>6. RowsAccounted'
  <2>1. \A t \in RowCalls : t.by \in Requests \ {q}
    BY CallsTyped DEF RowsAccounted
  <2> QED
    BY <2>1 DEF RowsAccounted, TransactionOf, ChargeOf
<1> QED
  BY <1>3, <1>4, <1>5, <1>6

\* The audit row is the last thing a request does, and it does it once.
LEMMA RowRedemption ==
    ASSUME Typed, Redemption, NEW q \in Requests, NEW status \in Statuses,
           Records(q, status),
           RowCalls' = RowCalls \cup {TransactionOf(q, status)},
           \A u \in Requests \ {q} : pc'[u] = pc[u],
           pc'[q] \in Over,
           UNCHANGED <<consumed, ChargeCalls, charges, req, cart>>
    PROVE  Redemption'
<1> USE DEF Typed, TypeOK, HasRequest, HasCart, Awaiting, Over, Redemption,
            Redeems
<1>0. \/ pc[q] = "reject" /\ status = "rejected"
      \/ pc[q] = "recordSuccess" /\ status = "succeeded"
      \/ pc[q] = "recordFailure" /\ status = "failed"
  BY DEF Records
<1>1. cart[q] # NoOffer
  BY <1>0, CheckoutAssumption
<1>2. \A u \in Requests : Took(u)' => Took(u)
  BY <1>1 DEF Took
<1>3. TakenIsConsumed' /\ OneTaker'
  BY <1>2 DEF TakenIsConsumed, OneTaker
<1>4. Matched'
  BY DEF Matched, ChargeOf
<1>5. ChargesAccounted'
  BY <1>0, CallsTyped DEF ChargesAccounted, ChargeOf
<1>6. RowsAccounted'
  <2>1. /\ TransactionOf(q, status).by = q
        /\ TransactionOf(q, status).status = status
        /\ UNCHANGED TransactionOf(q, status)
    BY DEF TransactionOf
  <2>2. status = "rejected" <=> ~Matches(req[q].receipt, cart[q])
    BY <1>0 DEF Matched
  <2>3. \A t \in RowCalls : t.by \in Requests \ {q}
    BY <1>0, CallsTyped DEF RowsAccounted
  <2>4. \A t \in RowCalls : /\ UNCHANGED TransactionOf(t.by, t.status)
                            /\ UNCHANGED ChargeOf(t.by)
    BY DEF TransactionOf, ChargeOf
  <2>5. status = "succeeded" => ChargeOf(q)' \in charges
    BY <1>0 DEF Matched, ChargeOf
  <2> QED
    BY <1>1, <2>1, <2>2, <2>3, <2>4, <2>5 DEF RowsAccounted
<1> QED
  BY <1>3, <1>4, <1>5, <1>6

\* What giving up on a call adds to the calls on their way.
LEMMA UnansweredCalls ==
    ASSUME NEW q \in Requests, Unanswered(q), UNCHANGED <<charges, transactions>>
    PROVE  \/ UNCHANGED <<ChargeCalls, RowCalls>>
           \/ /\ pc[q] = "charge"
              /\ ChargeCalls' = ChargeCalls \cup {ChargeOf(q)}
              /\ UNCHANGED RowCalls
           \/ \E status \in Statuses :
                 /\ Records(q, status)
                 /\ RowCalls' = RowCalls \cup {TransactionOf(q, status)}
                 /\ UNCHANGED ChargeCalls
<1> USE DEF ChargeCalls, RowCalls
<1>1. CASE UNCHANGED <<lateCharges, lateRows>>
  BY <1>1
<1>2. CASE /\ pc[q] = "charge"
           /\ lateCharges' = lateCharges \cup {ChargeOf(q)}
           /\ UNCHANGED lateRows
  BY <1>2
<1>3. ASSUME NEW status \in Statuses, Records(q, status),
             lateRows' = lateRows \cup {TransactionOf(q, status)},
             UNCHANGED lateCharges
      PROVE  RowCalls' = RowCalls \cup {TransactionOf(q, status)} /\ UNCHANGED ChargeCalls
  BY <1>3
<1> QED
  BY <1>1, <1>2, <1>3 DEF Unanswered, LeaveBehind, late

\* A step that ends a handler and leaves its call unanswered.
LEMMA UnansweredRedemption ==
    ASSUME Typed, Redemption, NEW q \in Requests, pc[q] \in Awaiting,
           Unanswered(q),
           UNCHANGED <<store, req, cart>>,
           \A u \in Requests \ {q} : pc'[u] = pc[u],
           pc'[q] \in Over
    PROVE  Redemption'
<1>1. UNCHANGED <<charges, transactions, consumed>>
  BY DEF store
<1>2. CASE UNCHANGED <<ChargeCalls, RowCalls>>
  BY <1>1, <1>2, QuietStep DEF Took, Redeems, Over, Awaiting
<1>3. CASE /\ pc[q] = "charge"
           /\ ChargeCalls' = ChargeCalls \cup {ChargeOf(q)}
           /\ UNCHANGED RowCalls
  BY <1>1, <1>3, ChargeRedemption
<1>4. ASSUME NEW status \in Statuses, Records(q, status),
             RowCalls' = RowCalls \cup {TransactionOf(q, status)},
             UNCHANGED ChargeCalls
      PROVE  Redemption'
  BY <1>1, <1>4, RowRedemption
<1> QED
  BY <1>1, <1>2, <1>3, <1>4, UnansweredCalls

\* A step that writes the row of its await, or fails to.
LEMMA RecordRedemption ==
    ASSUME Typed, Redemption, NEW q \in Requests, NEW status \in Statuses,
           Records(q, status), pc[q] \in Awaiting,
           RowInserted(q, status) \/ RowNotInserted(q),
           UNCHANGED <<consumed, products, customers, charges, req, cart>>,
           \A u \in Requests \ {q} : pc'[u] = pc[u],
           pc'[q] \in Over
    PROVE  Redemption'
<1>1. CASE RowInserted(q, status)
  <2>1. /\ RowCalls' = RowCalls \cup {TransactionOf(q, status)}
        /\ UNCHANGED ChargeCalls
    BY <1>1 DEF RowInserted, RowCalls, ChargeCalls, late
  <2> QED
    BY <2>1, RowRedemption
<1>2. CASE RowNotInserted(q)
  BY <1>2, UnansweredRedemption DEF RowNotInserted, Unanswered, store
<1> QED
  BY <1>1, <1>2

LEMMA HandleRedemption ==
    ASSUME Typed, Redemption, NEW q \in Requests, Handle(q)
    PROVE  Redemption'
<1> USE DEF Goto, Answer, Over, Awaiting
<1>0. pc \in [Requests -> {"idle"} \cup Awaiting \cup Over]
  BY DEF Typed, TypeOK
<1>1. CASE ConsumeReceipt(q)
  BY <1>1, ConsumeRedemption
<1>2. CASE RefuseReplay(q)
  BY <1>0, <1>2, UnansweredRedemption DEF RefuseReplay, Unanswered
<1>3. CASE ReplayStoreFails(q)
  BY <1>0, <1>3, UnansweredRedemption DEF ReplayStoreFails
<1>4. CASE LookupProduct(q)
  BY <1>4, LookupRedemption
<1>5. CASE RecordRejection(q)
  BY <1>0, <1>5, RecordRedemption DEF RecordRejection, Records, Statuses
<1>6. CASE LookupCustomer(q)
  <2>1. UNCHANGED <<ChargeCalls, RowCalls, charges, consumed, req, cart>>
    BY <1>6 DEF LookupCustomer, ChargeCalls, RowCalls, store, late
  <2> QED
    BY <1>0, <1>6, <2>1, QuietStep DEF LookupCustomer, Took, Redeems
<1>7. CASE LookupFails(q)
  BY <1>0, <1>7, UnansweredRedemption DEF LookupFails, Unanswered
<1>8. CASE ChargeSucceeds(q)
  <2>1. /\ ChargeCalls' = ChargeCalls \cup {ChargeOf(q)}
        /\ charges' = charges \cup {ChargeOf(q)}
        /\ UNCHANGED <<RowCalls, consumed, req, cart>>
    BY <1>8 DEF ChargeSucceeds, ChargeCalls, RowCalls, late
  <2> QED
    BY <1>0, <1>8, <2>1, ChargeRedemption DEF ChargeSucceeds
<1>9. CASE ChargeFails(q)
  <2>1. /\ UNCHANGED <<charges, transactions, consumed, req, cart>>
        /\ Unanswered(q)
        /\ pc[q] = "charge" /\ pc'[q] = "recordFailure"
        /\ \A u \in Requests \ {q} : pc'[u] = pc[u]
    BY <1>0, <1>9 DEF ChargeFails, Unanswered, store
  <2>2. CASE UNCHANGED <<ChargeCalls, RowCalls>>
    BY <2>1, <2>2, QuietStep DEF Took, Redeems
  <2>3. CASE ChargeCalls' = ChargeCalls \cup {ChargeOf(q)} /\ UNCHANGED RowCalls
    BY <2>1, <2>3, ChargeRedemption
  <2> QED
    BY <2>1, <2>2, <2>3, UnansweredCalls DEF Records
<1>10. CASE ChargeImpossible(q)
  BY <1>0, <1>10, UnansweredRedemption DEF ChargeImpossible, Unanswered
<1>11. CASE RecordSuccess(q)
  BY <1>0, <1>11, RecordRedemption DEF RecordSuccess, Records, Statuses
<1>12. CASE RecordFailure(q)
  BY <1>0, <1>12, RecordRedemption DEF RecordFailure, Records, Statuses
<1> QED
  BY <1>1, <1>2, <1>3, <1>4, <1>5, <1>6, <1>7, <1>8, <1>9, <1>10, <1>11, <1>12
  DEF Handle

LEMMA DropRedemption ==
    ASSUME Typed, Redemption, NEW q \in Requests, Drop(q)
    PROVE  Redemption'
BY UnansweredRedemption DEF Drop, Typed, TypeOK, Over

\* Executing a call that is on its way makes no new one.
LEMMA LandedCalls ==
    ASSUME Land
    PROVE  /\ UNCHANGED <<ChargeCalls, RowCalls, customers, handlers>>
           /\ consumed \subseteq consumed'
           /\ charges \subseteq charges'
           /\ transactions \subseteq transactions'
<1> USE DEF ChargeCalls, RowCalls
<1>1. CASE \E r \in lateReceipts : LandReceipt(r)
  BY <1>1 DEF LandReceipt
<1>2. CASE \E c \in lateCharges : LandCharge(c)
  BY <1>2 DEF LandCharge
<1>3. CASE \E t \in lateRows : LandRow(t)
  BY <1>3 DEF LandRow
<1> QED
  BY <1>1, <1>2, <1>3 DEF Land

\* Steps that no handler takes.
LEMMA OutsideRedemption ==
    ASSUME Redemption, UNCHANGED <<ChargeCalls, RowCalls, handlers>>,
           consumed \subseteq consumed', charges \subseteq charges'
    PROVE  Redemption'
BY DEF handlers, Redeems, Redemption, TakenIsConsumed, OneTaker, Matched,
       ChargesAccounted, RowsAccounted, Took, ChargeOf, TransactionOf

LEMMA EnvironmentCalls ==
    ASSUME Environment \/ UNCHANGED vars
    PROVE  /\ UNCHANGED <<ChargeCalls, RowCalls, charges, transactions, consumed>>
           /\ UNCHANGED handlers
BY DEF Environment, Tick, UpsertProduct, CreateCustomer, store, late, handlers,
       vars, ChargeCalls, RowCalls

\* The inductive invariant: at any time at most one request has taken a
\* given receipt, and every charge and every row, made or on its way, is that
\* request's, of the offer it read, which for a charge is one that matched.
THEOREM RedemptionCorrect == Spec => []RedemptionInv
<1>1. Init => Typed /\ Redemption
  BY InitTyped, InitRedemption
<1>2. Typed /\ Redemption /\ [Next]_vars => (Typed /\ Redemption)'
  <2> SUFFICES ASSUME Typed, Redemption, [Next]_vars
               PROVE  (Typed /\ Redemption)'
    OBVIOUS
  <2>1. Typed'
    BY NextTyped
  <2>2. CASE Environment \/ UNCHANGED vars
    BY <2>1, <2>2, EnvironmentCalls, OutsideRedemption
  <2>3. CASE Land
    BY <2>1, <2>3, LandedCalls, OutsideRedemption
  <2>4. CASE \E q \in Requests : Receive(q) \/ Handle(q) \/ Drop(q)
    BY <2>1, <2>4, ReceiveRedemption, HandleRedemption, DropRedemption
  <2> QED
    BY <2>2, <2>3, <2>4 DEF Next
<1>3. Typed /\ Redemption => RedemptionInv
  BY DEF Typed, Redemption, RedemptionInv
<1> QED
  BY <1>1, <1>2, <1>3, PTL DEF Spec

-----------------------------------------------------------------------------
(* What follows from it                                                    *)

LEMMA OneActor ==
    ASSUME RedemptionInv
    PROVE  /\ \A c \in ChargeCalls : /\ c.by \in Requests
                                     /\ c.receipt = req[c.by].receipt
                                     /\ c.offer = cart[c.by]
                                     /\ c.customer = req[c.by].customer
           /\ \A t \in RowCalls : /\ t.by \in Requests
                                  /\ t.receipt = req[t.by].receipt
                                  /\ t.offer = cart[t.by]
                                  /\ t.customer = req[t.by].customer
           /\ charges \subseteq ChargeCalls
           /\ transactions \subseteq RowCalls
<1> USE DEF RedemptionInv
<1>1. ASSUME NEW c \in ChargeCalls
      PROVE  c.by \in Requests /\ c = ChargeOf(c.by)
  BY CallsTyped DEF ChargesAccounted, Typed
<1>2. ASSUME NEW t \in RowCalls
      PROVE  t.by \in Requests /\ t = TransactionOf(t.by, t.status)
  BY CallsTyped DEF RowsAccounted, Typed
<1>3. charges \subseteq ChargeCalls /\ transactions \subseteq RowCalls
  BY DEF ChargeCalls, RowCalls
<1> QED
  BY <1>1, <1>2, <1>3 DEF ChargeOf, TransactionOf

\* No receipt is charged twice, however many requests present it and however
\* their handlers interleave, fail or are dropped.
THEOREM NeverChargedTwice == Spec => []AtMostOneCharge
<1>1. RedemptionInv => AtMostOneCharge
  <2> SUFFICES ASSUME RedemptionInv, NEW c \in charges, NEW d \in charges,
                      c.receipt = d.receipt
               PROVE  c = d
    BY DEF AtMostOneCharge
  <2>1. c.by = d.by
    BY OneActor DEF RedemptionInv, OneTaker, Took, ChargesAccounted
  <2> QED
    BY <2>1, OneActor DEF RedemptionInv, ChargesAccounted
<1> QED
  BY <1>1, RedemptionCorrect, PTL

\* What has matched is as many units of the same currency as the claim names:
\* a u64 that the cast makes negative is no price.
LEMMA MatchIsCommitment ==
    ASSUME NEW r \in Receipts, Claim[r] # NoClaim, NEW o \in Offers, Matches(r, o)
    PROVE  o.amount = Claim[r].amount /\ o.currency = Claim[r].currency
<1>1. /\ Claim[r].amount \in 0..(2 * (IntMax + 1) - 1) /\ o.amount \in 1..IntMax
      /\ IntMax \in Nat
  BY CheckoutAssumption, AmountsAssumption DEF Unsigned, Width
<1> QED
  BY <1>1 DEF Matches, AsSigned, Width

\* A charge, made or on its way, has matched its receipt.
LEMMA ChargeIsCommitment ==
    ASSUME RedemptionInv, NEW c \in ChargeCalls
    PROVE  /\ c.receipt \in Receipts /\ c.offer \in Offers
           /\ Claim[c.receipt] # NoClaim
           /\ c.offer.amount = Claim[c.receipt].amount
           /\ c.offer.currency = Claim[c.receipt].currency
<1>1. c \in ChargeType /\ c.receipt \in Receipts /\ c.offer \in Offers
  BY CallsTyped DEF RedemptionInv, Typed, ChargeType
<1>2. /\ c.by \in Requests /\ cart[c.by] # NoOffer
      /\ Matches(c.receipt, c.offer)
  BY OneActor DEF RedemptionInv, ChargesAccounted, Redeems
<1>3. Claim[c.receipt] # NoClaim
  BY <1>2, OneActor DEF RedemptionInv, HasCart, Presents
<1> QED
  BY <1>1, <1>2, <1>3, MatchIsCommitment

\* Prices may change at any moment, and a claim is cast before it is compared:
\* a charge is of as many units as its receipt names, in its currency.
THEOREM ChargedAsClaimed == Spec => []ChargeMatchesClaim
<1>1. RedemptionInv => ChargeMatchesClaim
  BY OneActor, ChargeIsCommitment DEF ChargeMatchesClaim
<1> QED
  BY <1>1, RedemptionCorrect, PTL

\* A receipt that was refused for its amount or currency is never charged.
THEOREM RefusedIsBurned == Spec => []RefusedNeverCharged
<1>1. RedemptionInv => RefusedNeverCharged
  <2> SUFFICES ASSUME RedemptionInv, NEW q \in Requests, Redeems(q),
                      ~Matches(req[q].receipt, cart[q]),
                      NEW c \in charges, c.receipt = req[q].receipt
               PROVE  FALSE
    BY DEF RefusedNeverCharged, ChargesUnder
  <2>1. c.by = q
    BY OneActor DEF RedemptionInv, OneTaker, Took, ChargesAccounted
  <2> QED
    BY <2>1, OneActor DEF RedemptionInv, ChargesAccounted
<1> QED
  BY <1>1, RedemptionCorrect, PTL

LEMMA Backed ==
    ASSUME RedemptionInv, NEW t \in transactions, t.status = "succeeded"
    PROVE  \E c \in charges : c.receipt = t.receipt
<1>1. ChargeOf(t.by) \in charges
  BY OneActor DEF RedemptionInv, RowsAccounted
<1>2. ChargeOf(t.by).receipt = t.receipt
  BY OneActor DEF ChargeOf
<1> QED
  BY <1>1, <1>2

\* A row and a charge under one receipt tell the same story.
THEOREM RowsMatchCharges == Spec => []RowAndChargeAgree
<1>1. RedemptionInv => RowAndChargeAgree
  <2> SUFFICES ASSUME RedemptionInv, NEW t \in transactions, NEW c \in charges,
                      c.receipt = t.receipt
               PROVE  /\ t.by = c.by
                      /\ t.customer = c.customer
                      /\ t.offer = c.offer
                      /\ t.status # "rejected"
    BY Backed DEF RowAndChargeAgree, ChargesUnder
  <2>1. t.by = c.by
    BY OneActor
    DEF RedemptionInv, OneTaker, Took, RowsAccounted, ChargesAccounted
  <2> QED
    BY <2>1, OneActor DEF RedemptionInv, RowsAccounted, ChargesAccounted
<1> QED
  BY <1>1, RedemptionCorrect, PTL

-----------------------------------------------------------------------------
(* A receipt that is spent stays spent                                     *)

\* A handler's step touches its own position only, gets past the replay store
\* only with a receipt that was not consumed, and makes only calls of its
\* own, from awaits past the replay store.
OwnStep(q) ==
    /\ \A u \in Requests \ {q} : pc'[u] = pc[u] /\ req'[u] = req[u]
    /\ pc'[q] \in Awaiting \ {"consume"} =>
          /\ req'[q] = req[q]
          /\ \/ pc[q] \in Awaiting \ {"consume"}
             \/ req[q].receipt \notin consumed
    /\ charges \subseteq charges' /\ transactions \subseteq transactions'
    /\ \/ ChargeCalls' = ChargeCalls
       \/ /\ pc[q] \in Awaiting \ {"consume"}
          /\ ChargeCalls' = ChargeCalls \cup {ChargeOf(q)}
    /\ \/ RowCalls' = RowCalls
       \/ /\ pc[q] \in Awaiting \ {"consume"}
          /\ \E s \in Statuses : RowCalls' = RowCalls \cup {TransactionOf(q, s)}

\* What a handler at await does with the calls, by the way the step goes.
LEMMA OwnCalls ==
    ASSUME NEW q \in Requests
    PROVE  /\ UNCHANGED <<store, late>> => UNCHANGED <<ChargeCalls, RowCalls>>
           /\ UNCHANGED <<charges, transactions>> /\ Unanswered(q) =>
                 \/ UNCHANGED <<ChargeCalls, RowCalls>>
                 \/ /\ pc[q] = "charge"
                    /\ ChargeCalls' = ChargeCalls \cup {ChargeOf(q)}
                    /\ UNCHANGED RowCalls
                 \/ /\ pc[q] \in {"reject", "recordSuccess", "recordFailure"}
                    /\ UNCHANGED ChargeCalls
                    /\ \E s \in Statuses : RowCalls' = RowCalls \cup {TransactionOf(q, s)}
<1>1. UNCHANGED <<store, late>> => UNCHANGED <<ChargeCalls, RowCalls>>
  BY DEF store, late, ChargeCalls, RowCalls
<1>2. \A s \in Statuses : Records(q, s) =>
          pc[q] \in {"reject", "recordSuccess", "recordFailure"}
  BY DEF Records
<1> QED
  BY <1>1, <1>2, UnansweredCalls

LEMMA StepsAreOwn ==
    ASSUME TypeOK, NEW q \in Requests, Receive(q) \/ Handle(q) \/ Drop(q)
    PROVE  OwnStep(q)
<1> USE DEF TypeOK, OwnStep, Awaiting, Over, Statuses, Goto, Answer
<1>0. UNCHANGED store => UNCHANGED <<charges, transactions, consumed>>
  BY DEF store
<1>1. CASE Receive(q)
  BY <1>0, <1>1, OwnCalls DEF Receive, RefuseHeader, Arrive
<1>2. CASE Handle(q)
  <2>1. CASE ConsumeReceipt(q)
    BY <2>1 DEF ConsumeReceipt, ChargeCalls, RowCalls, late
  <2>2. CASE RefuseReplay(q) \/ ReplayStoreFails(q)
    BY <1>0, <2>2, OwnCalls DEF RefuseReplay, ReplayStoreFails
  <2>3. CASE LookupProduct(q)
    BY <1>0, <2>3, OwnCalls DEF LookupProduct
  <2>4. CASE LookupCustomer(q) \/ LookupFails(q) \/ ChargeImpossible(q)
    BY <1>0, <2>4, OwnCalls DEF LookupCustomer, LookupFails, ChargeImpossible
  <2>5. CASE ChargeSucceeds(q)
    BY <2>5 DEF ChargeSucceeds, ChargeCalls, RowCalls, late
  <2>6. CASE ChargeFails(q)
    BY <1>0, <2>6, OwnCalls DEF ChargeFails, Unanswered
  <2>7. ASSUME NEW s \in Statuses, RowInserted(q, s)
        PROVE  /\ lateCharges' = lateCharges
               /\ transactions \subseteq transactions'
               /\ RowCalls' = RowCalls \cup {TransactionOf(q, s)}
    BY <2>7 DEF RowInserted, RowCalls, late
  <2>8. ASSUME RowNotInserted(q)
        PROVE  UNCHANGED transactions /\ Unanswered(q)
    BY <2>8 DEF RowNotInserted, Unanswered
  <2>9. CASE RecordRejection(q) \/ RecordSuccess(q) \/ RecordFailure(q)
    <3>1. /\ pc[q] \in {"reject", "recordSuccess", "recordFailure"}
          /\ pc'[q] = "answered"
          /\ \A u \in Requests \ {q} : pc'[u] = pc[u]
          /\ UNCHANGED <<charges, req>>
          /\ (\E s \in Statuses : RowInserted(q, s)) \/ RowNotInserted(q)
      BY <2>9 DEF RecordRejection, RecordSuccess, RecordFailure
    <3>2. CASE \E s \in Statuses : RowInserted(q, s)
      BY <2>7, <3>1, <3>2 DEF ChargeCalls
    <3>3. CASE RowNotInserted(q)
      BY <2>8, <3>1, <3>3, OwnCalls
    <3> QED
      BY <3>1, <3>2, <3>3
  <2> QED
    BY <1>2, <2>1, <2>2, <2>3, <2>4, <2>5, <2>6, <2>9 DEF Handle
<1>3. CASE Drop(q)
  BY <1>0, <1>3, OwnCalls DEF Drop
<1> QED
  BY <1>1, <1>2, <1>3

LEMMA OwnStepLeavesBurned ==
    ASSUME NEW q \in Requests, OwnStep(q),
           NEW r \in consumed, ~TakenUp(r)
    PROVE  /\ ~TakenUp(r)'
           /\ ChargeCallsUnder(r)' = ChargeCallsUnder(r)
           /\ RowCallsUnder(r)' = RowCallsUnder(r)
<1>1. \A u \in Requests : pc[u] \in Awaiting \ {"consume"} => req[u].receipt # r
  BY DEF TakenUp
<1>2. ~TakenUp(r)'
  <2> SUFFICES ASSUME NEW u \in Requests, pc'[u] \in Awaiting \ {"consume"}
               PROVE  req'[u].receipt # r
    BY DEF TakenUp
  <2>1. CASE u = q
    BY <1>1, <2>1 DEF OwnStep
  <2>2. CASE u # q
    BY <1>1, <2>2 DEF OwnStep
  <2> QED
    BY <2>1, <2>2
<1>3. ChargeCallsUnder(r)' = ChargeCallsUnder(r)
  <2>1. pc[q] \in Awaiting \ {"consume"} => ChargeOf(q).receipt # r
    BY <1>1 DEF ChargeOf
  <2> QED
    BY <2>1 DEF OwnStep, ChargeCallsUnder
<1>4. RowCallsUnder(r)' = RowCallsUnder(r)
  <2>1. pc[q] \in Awaiting \ {"consume"} =>
            \A s \in Statuses : TransactionOf(q, s).receipt # r
    BY <1>1 DEF TransactionOf
  <2> QED
    BY <2>1 DEF OwnStep, RowCallsUnder
<1> QED
  BY <1>2, <1>3, <1>4

\* Once the handler that consumed a receipt is gone, the receipt is spent:
\* no later step of any request takes it up or makes a call under it, and
\* late calls only turn into what they were sent for.
THEOREM BurnedForGood == Spec => BurnedStaysBurned
<1> DEFINE Burned ==
      \A r \in consumed :
          ~TakenUp(r) => /\ ~TakenUp(r)'
                         /\ ChargeCallsUnder(r)' = ChargeCallsUnder(r)
                         /\ RowCallsUnder(r)' = RowCallsUnder(r)
<1>1. TypeOK /\ [Next]_vars => [Burned]_vars
  <2> SUFFICES ASSUME TypeOK, Next
               PROVE  Burned
    OBVIOUS
  <2>1. CASE Environment \/ Land
    <3>1. UNCHANGED <<pc, req, ChargeCalls, RowCalls>>
      BY <2>1, EnvironmentCalls, LandedCalls DEF handlers
    <3> QED
      BY <3>1 DEF TakenUp, ChargeCallsUnder, RowCallsUnder
  <2>2. ASSUME NEW q \in Requests, Receive(q) \/ Handle(q) \/ Drop(q)
        PROVE  Burned
    BY <2>2, StepsAreOwn, OwnStepLeavesBurned
  <2> QED
    BY <2>1, <2>2 DEF Next
<1> QED
  BY <1>1, TypeCorrect, PTL DEF Spec, BurnedStaysBurned

-----------------------------------------------------------------------------
(* What an answer tells                                                    *)

\* A status is given once, with the answer that ends the request.
AnsweredOnce == \A q \in Requests : resp[q] # 0 => pc[q] = "answered"

AnswerInv == AnsweredOnce /\ AnswerTellsOutcome

\* What q was told, as a statement of its own.
Told(q) ==
    /\ resp[q] # 0 => pc[q] = "answered"
    /\ resp[q] = 200 => /\ ChargeOf(q) \in charges
                        /\ TransactionOf(q, "succeeded") \in transactions
    /\ resp[q] \in {400, 401, 404, 409} =>
          /\ \A c \in ChargeCalls : c.by # q
          /\ \A t \in RowCalls : t.by = q => t.status = "rejected"

LEMMA ToldAll == AnswerInv <=> \A q \in Requests : Told(q)
BY DEF AnswerInv, AnsweredOnce, AnswerTellsOutcome, Told

\* The handlers of other requests do not disturb what u was told.
LEMMA OthersKeepAnswer ==
    ASSUME NEW q \in Requests, OwnStep(q), NEW u \in Requests \ {q}, Told(u),
           resp'[u] = resp[u], cart'[u] = cart[u]
    PROVE  Told(u)'
<1>1. pc'[u] = pc[u] /\ req'[u] = req[u]
  BY DEF OwnStep
<1>2. ChargeOf(u)' = ChargeOf(u) /\ TransactionOf(u, "succeeded")' = TransactionOf(u, "succeeded")
  BY <1>1 DEF ChargeOf, TransactionOf
<1>3. \A c \in ChargeCalls' : c \in ChargeCalls \/ c.by = q
  BY DEF OwnStep, ChargeOf
<1>4. \A t \in RowCalls' : t \in RowCalls \/ t.by = q
  BY DEF OwnStep, TransactionOf
<1>5. charges \subseteq charges' /\ transactions \subseteq transactions'
  BY DEF OwnStep
<1> QED
  BY <1>1, <1>2, <1>3, <1>4, <1>5 DEF Told

\* What a step of q's own handler tells q.
OwnAnswer(q) ==
    \/ /\ resp'[q] = resp[q]
       /\ resp[q] = 0
    \/ /\ pc'[q] = "answered"
       /\ resp'[q] \in {500, 502}
    \/ /\ pc'[q] = "answered"
       /\ resp'[q] \in {400, 401, 404, 409}
       /\ pc[q] \in {"idle", "consume", "product", "reject", "customer"}
       /\ ChargeCalls' = ChargeCalls
       /\ \/ RowCalls' = RowCalls
          \/ RowCalls' = RowCalls \cup {TransactionOf(q, "rejected")}
    \/ /\ pc'[q] = "answered"
       /\ resp'[q] = 200
       /\ pc[q] = "recordSuccess"
       /\ UNCHANGED <<charges, req, cart>>
       /\ transactions' = transactions \cup {TransactionOf(q, "succeeded")}

LEMMA StepsAnswer ==
    ASSUME TypeOK, AnsweredOnce, NEW q \in Requests,
           Receive(q) \/ Handle(q) \/ Drop(q)
    PROVE  /\ OwnAnswer(q)
           /\ \A u \in Requests \ {q} : resp'[u] = resp[u] /\ cart'[u] = cart[u]
<1> USE DEF TypeOK, Awaiting, Over, Goto, Answer, AnsweredOnce
<1>0. UNCHANGED <<store, late>> => UNCHANGED <<ChargeCalls, RowCalls>>
  BY OwnCalls
<1>1. CASE Receive(q)
  BY <1>0, <1>1 DEF Receive, RefuseHeader, Arrive, OwnAnswer
<1>2. CASE Handle(q)
  <2>1. CASE ConsumeReceipt(q) \/ RefuseReplay(q) \/ ReplayStoreFails(q)
    BY <1>0, <2>1 DEF ConsumeReceipt, RefuseReplay, ReplayStoreFails, OwnAnswer
  <2>2. CASE LookupProduct(q)
    BY <1>0, <2>2 DEF LookupProduct, OwnAnswer
  <2>3. CASE LookupCustomer(q) \/ LookupFails(q)
    BY <1>0, <2>3 DEF LookupCustomer, LookupFails, OwnAnswer
  <2>4. CASE ChargeSucceeds(q) \/ ChargeFails(q) \/ ChargeImpossible(q)
    BY <2>4 DEF ChargeSucceeds, ChargeFails, ChargeImpossible, OwnAnswer
  <2>5. CASE RecordRejection(q)
    <3>1. /\ pc[q] = "reject" /\ pc'[q] = "answered" /\ resp'[q] = 400
          /\ RowInserted(q, "rejected") \/ RowNotInserted(q)
          /\ UNCHANGED <<charges, cart>>
          /\ \A u \in Requests \ {q} : resp'[u] = resp[u]
      BY <2>5 DEF RecordRejection
    <3>2. CASE RowInserted(q, "rejected")
      BY <3>1, <3>2 DEF RowInserted, OwnAnswer, ChargeCalls, RowCalls, late
    <3>3. CASE RowNotInserted(q)
      <4>1. UNCHANGED transactions /\ Unanswered(q)
        BY <3>3 DEF RowNotInserted, Unanswered
      <4>2. \A status \in Statuses : Records(q, status) => status = "rejected"
        BY <3>1 DEF Records
      <4>3. \/ UNCHANGED <<ChargeCalls, RowCalls>>
            \/ /\ RowCalls' = RowCalls \cup {TransactionOf(q, "rejected")}
               /\ UNCHANGED ChargeCalls
        BY <3>1, <4>1, <4>2, UnansweredCalls
      <4> QED
        BY <3>1, <4>3 DEF OwnAnswer
    <3> QED
      BY <3>1, <3>2, <3>3
  <2>6. CASE RecordSuccess(q) \/ RecordFailure(q)
    BY <2>6 DEF RecordSuccess, RecordFailure, RowInserted, RowNotInserted, OwnAnswer
  <2> QED
    BY <1>2, <2>1, <2>2, <2>3, <2>4, <2>5, <2>6 DEF Handle
<1>3. CASE Drop(q)
  BY <1>3 DEF Drop, OwnAnswer
<1> QED
  BY <1>1, <1>2, <1>3

LEMMA OwnAnswerTells ==
    ASSUME RedemptionInv, NEW q \in Requests, OwnAnswer(q)
    PROVE  Told(q)'
<1>1. CASE resp'[q] = 0 \/ resp'[q] \in {500, 502}
  BY <1>1 DEF OwnAnswer, Told
<1>2. CASE resp'[q] = 200
  BY <1>2 DEF OwnAnswer, RedemptionInv, Matched, ChargeOf, TransactionOf, Told
<1>3. CASE resp'[q] \in {400, 401, 404, 409}
  <2>1. /\ pc'[q] = "answered"
        /\ pc[q] \in {"idle", "consume", "product", "reject", "customer"}
        /\ ChargeCalls' = ChargeCalls
        /\ \/ RowCalls' = RowCalls
           \/ RowCalls' = RowCalls \cup {TransactionOf(q, "rejected")}
    BY <1>3 DEF OwnAnswer
  <2>2. \A c \in ChargeCalls : c.by # q
    BY <2>1 DEF RedemptionInv, ChargesAccounted, Over
  <2>3. \A t \in RowCalls : t.by # q
    BY <2>1 DEF RedemptionInv, RowsAccounted, Over
  <2>4. TransactionOf(q, "rejected").status = "rejected"
    BY DEF TransactionOf
  <2> QED
    BY <1>3, <2>1, <2>2, <2>3, <2>4 DEF Told
<1> QED
  BY <1>1, <1>2, <1>3 DEF OwnAnswer

\* A 200 stands for a charge and its row; a 4xx for a card that this request
\* has not charged and will not - under every fault and interleaving.
THEOREM AnswersAreHonest == Spec => []AnswerTellsOutcome
<1>1. Init => AnswerInv
  BY DEF Init, AnswerInv, AnsweredOnce, AnswerTellsOutcome
<1>2. RedemptionInv /\ AnswerInv /\ [Next]_vars => AnswerInv'
  <2> SUFFICES ASSUME RedemptionInv, AnswerInv, [Next]_vars,
                      NEW u \in Requests
               PROVE  Told(u)'
    BY ToldAll DEF Told, AnswerInv, AnsweredOnce, AnswerTellsOutcome
  <2>1. Told(u)
    BY ToldAll
  <2>2. CASE UNCHANGED vars \/ Environment \/ Land
    <3>1. /\ UNCHANGED <<ChargeCalls, RowCalls, handlers>>
          /\ charges \subseteq charges' /\ transactions \subseteq transactions'
      BY <2>2, LandedCalls, EnvironmentCalls
    <3> QED
      BY <2>1, <3>1 DEF Told, handlers, ChargeOf, TransactionOf
  <2>3. ASSUME NEW q \in Requests, Receive(q) \/ Handle(q) \/ Drop(q)
        PROVE  Told(u)'
    <3>1. OwnStep(q)
      BY <2>3, StepsAreOwn DEF RedemptionInv
    <3>2. OwnAnswer(q) /\ \A w \in Requests \ {q} : resp'[w] = resp[w] /\ cart'[w] = cart[w]
      BY <2>3, StepsAnswer DEF RedemptionInv, AnswerInv
    <3> QED
      BY <2>1, <3>1, <3>2, OthersKeepAnswer, OwnAnswerTells
  <2> QED
    BY <2>2, <2>3 DEF Next
<1>3. AnswerInv => AnswerTellsOutcome
  BY DEF AnswerInv
<1> QED
  BY <1>1, <1>2, <1>3, RedemptionCorrect, PTL DEF Spec

-----------------------------------------------------------------------------
(* The store implements the receipt ledger                                 *)

LEMMA ConsumeIsLedgerStep ==
    ASSUME NEW r \in Receipts, UNCHANGED charges,
           consumed' \in {consumed, consumed \cup {r}}
    PROVE  [Ledger!Next]_(Ledger!ledger)
<1>1. UNCHANGED Redemptions
  BY DEF Redemptions
<1>2. CASE r \in consumed \/ UNCHANGED consumed
  BY <1>1, <1>2 DEF Ledger!ledger
<1>3. CASE r \notin consumed /\ consumed' = consumed \cup {r}
  BY <1>1, <1>3 DEF Ledger!Next, Ledger!Consume
<1> QED
  BY <1>2, <1>3

\* A charge that Stripe makes, while its handler waits for it or later.
LEMMA ChargeIsLedgerStep ==
    ASSUME NEW c, c.by \in Requests, c.receipt \in consumed,
           <<c.receipt, c.offer>> \in Commitments,
           \A d \in charges : d.receipt = c.receipt => d = c,
           UNCHANGED consumed, charges' = charges \cup {c}
    PROVE  [Ledger!Next]_(Ledger!ledger)
<1> DEFINE Entry(d) == [by |-> d.by, receipt |-> d.receipt, what |-> d.offer]
<1>1. CASE c \in charges
  <2>1. charges' = charges
    BY <1>1
  <2> QED
    BY <2>1 DEF Ledger!ledger, Redemptions
<1>2. CASE c \notin charges
  <2>1. Redemptions = {Entry(d) : d \in charges} /\ Redemptions' = {Entry(d) : d \in charges'}
    BY DEF Redemptions
  <2>2. \A d \in charges : Entry(d).receipt # c.receipt
    BY <1>2
  <2>3. Entry(c) = [by |-> c.by, receipt |-> c.receipt, what |-> c.offer]
    OBVIOUS
  <2> HIDE DEF Entry
  <2>4. Redemptions' = Redemptions \cup {Entry(c)}
    BY <2>1
  <2>5. \A e \in Redemptions : e.receipt # c.receipt
    BY <2>1, <2>2
  <2>6. Ledger!Redeem(c.by, c.receipt, c.offer)
    BY <2>3, <2>4, <2>5 DEF Ledger!Redeem
  <2>7. c.receipt \in Receipts
    BY DEF Commitments
  <2>8. \E pair \in Commitments : pair[1] = c.receipt /\ Ledger!Redeem(c.by, c.receipt, pair[2])
    <3>1. <<c.receipt, c.offer>>[1] = c.receipt /\ <<c.receipt, c.offer>>[2] = c.offer
      OBVIOUS
    <3> QED
      BY <2>6, <3>1
  <2> QED
    BY <2>7, <2>8 DEF Ledger!Next
<1> QED
  BY <1>1, <1>2

\* What a call to Stripe is about, at its await and once it is on its way.
LEMMA CallIsCommitment ==
    ASSUME RedemptionInv, NEW c,
           \/ c \in ChargeCalls
           \/ \E q \in Requests : pc[q] = "charge" /\ c = ChargeOf(q)
    PROVE  /\ c.by \in Requests /\ c.receipt \in consumed
           /\ <<c.receipt, c.offer>> \in Commitments
           /\ \A d \in charges : d.receipt = c.receipt => d = c
<1>1. /\ c.by \in Requests /\ c.receipt = req[c.by].receipt /\ c = ChargeOf(c.by)
      /\ c.offer = cart[c.by] /\ Took(c.by)
      /\ Matches(c.receipt, c.offer) /\ c.receipt \in Receipts
      /\ c.offer \in Offers /\ Claim[c.receipt] # NoClaim
  <2>1. CASE c \in ChargeCalls
    BY <2>1, OneActor, ChargeIsCommitment DEF RedemptionInv, ChargesAccounted, Took
  <2>2. CASE \E q \in Requests : pc[q] = "charge" /\ c = ChargeOf(q)
    <3>1. PICK q \in Requests : pc[q] = "charge" /\ c = ChargeOf(q)
      BY <2>2
    <3>2. c.by = q /\ c.receipt = req[q].receipt /\ c.offer = cart[q]
      BY <3>1 DEF ChargeOf
    <3>3. Presents(q) /\ cart[q] \in Offers /\ Took(q) /\ Matches(req[q].receipt, cart[q])
      BY <3>1 DEF RedemptionInv, HasRequest, HasCart, Matched, Took, Awaiting
    <3> QED
      BY <3>1, <3>2, <3>3 DEF Presents, RequestType
  <2> QED
    BY <2>1, <2>2
<1>2. c.receipt \in consumed
  BY <1>1 DEF RedemptionInv, TakenIsConsumed
<1>3. <<c.receipt, c.offer>> \in Commitments
  <2>1. c.offer.amount = Claim[c.receipt].amount /\ c.offer.currency = Claim[c.receipt].currency
    BY <1>1, MatchIsCommitment
  <2> QED
    BY <1>1, <2>1 DEF Commitments
<1>4. ASSUME NEW d \in charges, d.receipt = c.receipt
      PROVE  d = c
  <2>1. d.by \in Requests /\ d.receipt = req[d.by].receipt /\ d = ChargeOf(d.by) /\ Took(d.by)
    BY OneActor DEF RedemptionInv, ChargesAccounted, Took
  <2>2. d.by = c.by
    BY <1>1, <1>4, <2>1 DEF RedemptionInv, OneTaker
  <2> QED
    BY <1>1, <2>1, <2>2
<1> QED
  BY <1>1, <1>2, <1>3, <1>4

\* The checkout handler, with every crash, every fault and every late call,
\* does no more than the ledger allows: consume a receipt, or redeem a
\* consumed one once, for the units and the currency it commits to.
THEOREM StoreImplementsLedger == Spec => ImplementsLedger
<1>1. Init => Ledger!Init
  BY DEF Init, Ledger!Init, Redemptions
<1>2. RedemptionInv /\ [Next]_vars => [Ledger!Next]_(Ledger!ledger)
  <2> SUFFICES ASSUME RedemptionInv, [Next]_vars
               PROVE  [Ledger!Next]_(Ledger!ledger)
    OBVIOUS
  <2>1. ASSUME UNCHANGED <<consumed, charges>>
        PROVE  [Ledger!Next]_(Ledger!ledger)
    BY <2>1 DEF Ledger!ledger, Redemptions
  <2>2. CASE Environment \/ UNCHANGED vars
    BY <2>1, <2>2, EnvironmentCalls
  <2>3. CASE Land
    <3>1. CASE \E r \in lateReceipts : LandReceipt(r)
      BY <3>1, ConsumeIsLedgerStep DEF LandReceipt, RedemptionInv, TypeOK
    <3>2. ASSUME NEW c \in lateCharges, LandCharge(c)
          PROVE  [Ledger!Next]_(Ledger!ledger)
      <4>1. c \in ChargeCalls
        BY DEF ChargeCalls
      <4>2. UNCHANGED consumed /\ charges' = charges \cup {c}
        BY <3>2 DEF LandCharge
      <4> QED
        BY <4>1, <4>2, CallIsCommitment, ChargeIsLedgerStep
    <3>3. CASE \E t \in lateRows : LandRow(t)
      BY <2>1, <3>3 DEF LandRow
    <3> QED
      BY <2>3, <3>1, <3>2, <3>3 DEF Land
  <2>4. ASSUME NEW q \in Requests, Receive(q) \/ Drop(q)
        PROVE  [Ledger!Next]_(Ledger!ledger)
    BY <2>1, <2>4 DEF Receive, RefuseHeader, Arrive, Drop, store
  <2>5. ASSUME NEW q \in Requests, Handle(q)
        PROVE  [Ledger!Next]_(Ledger!ledger)
    <3>1. CASE ConsumeReceipt(q)
      <4>1. req[q].receipt \in Receipts
        BY <3>1 DEF ConsumeReceipt, RedemptionInv, HasRequest, Presents, RequestType, Awaiting
      <4> QED
        BY <3>1, <4>1, ConsumeIsLedgerStep DEF ConsumeReceipt
    <3>2. CASE ChargeSucceeds(q)
      <4>1. /\ pc[q] = "charge" /\ UNCHANGED consumed
            /\ charges' = charges \cup {ChargeOf(q)}
        BY <3>2 DEF ChargeSucceeds
      <4> QED
        BY <4>1, CallIsCommitment, ChargeIsLedgerStep
    <3> QED
      BY <2>1, <2>5, <3>1, <3>2
      DEF Handle, RefuseReplay, ReplayStoreFails, LookupProduct, RecordRejection,
          LookupCustomer, LookupFails, ChargeFails, ChargeImpossible,
          RecordSuccess, RecordFailure, store
  <2> QED
    BY <2>2, <2>3, <2>4, <2>5 DEF Next
<1> QED
  BY <1>1, <1>2, RedemptionCorrect, PTL DEF Spec, ImplementsLedger, Ledger!Spec
=============================================================================
