------------------------------ MODULE Checkout ------------------------------
(***************************************************************************)
(* POST /store/v1/checkout of commerce/store: the trust boundary between   *)
(* an agent that holds a receipt and the card that gets charged.           *)
(*                                                                         *)
(* Any number of checkouts run at once.  Every await of the handler - the  *)
(* replay store, the product and customer lookups, Stripe, the audit row - *)
(* is a step of its own, so any other request, a price change or a dropped *)
(* connection can fall between two of them.  A call to Postgres or Stripe  *)
(* that nobody waits for any more is still on its way: it takes effect at  *)
(* any later time, or never.                                               *)
(***************************************************************************)
EXTENDS Amounts

CONSTANTS
    Requests,    \* HTTP checkout attempts; a retry is another request
    Receipts,    \* genuine receipts, signed by the trusted executor
    Customers,   \* customer ids a request can name
    Products,    \* product ids a request can name
    Offers,      \* the [amount, currency] a product can be sold at, in cents
    NoOffer,     \* no such product / product not looked up yet
    NoClaim,     \* the receipt carries a descriptor that is no value claim
    Claim,       \* Claim[r]: [amount, currency, decimals], r's value claim
    Billable,    \* <<customer, offer>>: Stripe id and currency both parse
    NoRequest,   \* a request that has not got past its header
    Faults       \* which kinds of fault the run admits

FaultKinds == {"db", "stripe", "drop"}
RequestType == [customer : Customers, product : Products, receipt : Receipts]

ASSUME CheckoutAssumption ==
    /\ Faults \subseteq FaultKinds
    /\ NoOffer \notin Offers
    \* price_cents is a BIGINT with CHECK (price_cents > 0).
    /\ \A o \in Offers : o.amount \in 1..IntMax
    /\ \A r \in Receipts : Claim[r] # NoClaim => /\ Claim[r].amount \in Unsigned
                                                 /\ Claim[r].decimals \in Nat
    /\ Billable \subseteq Customers \X Offers
    /\ NoRequest \notin RequestType

VARIABLES
    consumed,      \* table consumed_receipts
    products,      \* table products: the offer each product stands at
    customers,     \* table customers
    transactions,  \* table transactions, the audit trail
    charges,       \* the payment intents Stripe has accepted (external)
    lateReceipts,  \* receipts, charges and rows sent to Postgres or Stripe
    lateCharges,   \* by a call that no handler waits for any more and that
    lateRows,      \* may still be executed
    age,           \* where each receipt stands against the freshness window
    pc,            \* the await each handler is at
    req,           \* what each request carries
    cart,          \* the product row the handler read
    resp           \* the HTTP status each request was answered with, 0 if none

store == <<consumed, products, customers, transactions, charges>>
late == <<lateReceipts, lateCharges, lateRows>>
handlers == <<pc, req, cart, resp>>
vars == <<store, late, age, handlers>>

Awaiting == {"consume", "product", "reject", "customer", "charge",
             "recordSuccess", "recordFailure"}
Over == {"answered", "dropped"}
Ages == {"future", "fresh", "stale"}
Statuses == {"succeeded", "failed", "rejected"}
Codes == {0, 200, 400, 401, 404, 409, 500, 502}

ChargeType == [by : Requests, receipt : Receipts, customer : Customers,
               offer : Offers]
TransactionType == [by : Requests, receipt : Receipts, customer : Customers,
                    product : Products, offer : Offers, status : Statuses]

TypeOK ==
    /\ consumed \subseteq Receipts
    /\ products \in [Products -> Offers \cup {NoOffer}]
    /\ customers \subseteq Customers
    /\ transactions \subseteq TransactionType
    /\ charges \subseteq ChargeType
    /\ lateReceipts \subseteq Receipts
    /\ lateCharges \subseteq ChargeType
    /\ lateRows \subseteq TransactionType
    /\ age \in [Receipts -> Ages]
    /\ pc \in [Requests -> {"idle"} \cup Awaiting \cup Over]
    /\ req \in [Requests -> RequestType \cup {NoRequest}]
    /\ cart \in [Requests -> Offers \cup {NoOffer}]
    /\ resp \in [Requests -> Codes]

Init ==
    /\ consumed = {}
    /\ products \in [Products -> Offers \cup {NoOffer}]
    /\ customers \in SUBSET Customers
    /\ transactions = {}
    /\ charges = {}
    /\ lateReceipts = {}
    /\ lateCharges = {}
    /\ lateRows = {}
    /\ age \in [Receipts -> Ages]
    /\ pc = [q \in Requests |-> "idle"]
    /\ req = [q \in Requests |-> NoRequest]
    /\ cart = [q \in Requests |-> NoOffer]
    /\ resp = [q \in Requests |-> 0]

-----------------------------------------------------------------------------
(* Helpers of the handler steps                                            *)

Goto(q, await) ==
    /\ pc' = [pc EXCEPT ![q] = await]
    /\ UNCHANGED resp

Answer(q, code) ==
    /\ pc' = [pc EXCEPT ![q] = "answered"]
    /\ resp' = [resp EXCEPT ![q] = code]

\* What the SDK checks before it touches the replay store: the descriptor
\* decodes to a value claim and executed_at lies in the freshness window.
Validates(r) ==
    /\ Claim[r] # NoClaim
    /\ age[r] = "fresh"

\* The comparison of a claim with a product row: the currencies, and the
\* claim's amount cast to i64 with the price.  The claim's decimals are not
\* looked at.
Matches(r, row) ==
    /\ Claim[r].currency = row.currency
    /\ AsSigned(Claim[r].amount) = row.amount

\* Slip: the price is read again for the Stripe call.
ChargeOf_CurrentPrice(q) ==
    [by |-> q, receipt |-> req[q].receipt, customer |-> req[q].customer,
     offer |-> products[req[q].product]]

\* The Stripe call made for q, tagged with the receipt in its metadata.
ChargeOf(q) ==
    [by |-> q, receipt |-> req[q].receipt, customer |-> req[q].customer,
     offer |-> cart[q]]

\* Slip: ... or for the audit row.
TransactionOf_CurrentPrice(q, status) ==
    [by |-> q, receipt |-> req[q].receipt, customer |-> req[q].customer,
     product |-> req[q].product, offer |-> products[req[q].product],
     status |-> status]

TransactionOf(q, status) ==
    [by |-> q, receipt |-> req[q].receipt, customer |-> req[q].customer,
     product |-> req[q].product, offer |-> cart[q], status |-> status]

\* Stripe's types take the customer's id and the currency.
CanBill(q) == <<req[q].customer, cart[q]>> \in Billable

\* transactions.customer_id REFERENCES customers(id): the INSERT of a row
\* whose customer does not exist is refused.
CustomerExists(q) == req[q].customer \in customers

RowInserted(q, status) ==
    /\ CustomerExists(q)
    /\ transactions' = transactions \cup {TransactionOf(q, status)}
    /\ UNCHANGED late

\* The row that the handler of q writes at its await.
Records(q, status) ==
    <<pc[q], status>> \in {<<"reject", "rejected">>,
                           <<"recordSuccess", "succeeded">>,
                           <<"recordFailure", "failed">>}

\* q stops waiting for the call it is at, which may still be executed.
LeaveBehind(q) ==
    \/ /\ pc[q] = "consume"
       /\ lateReceipts' = lateReceipts \cup {req[q].receipt}
       /\ UNCHANGED <<lateCharges, lateRows>>
    \/ /\ pc[q] = "charge" /\ CanBill(q)
       /\ lateCharges' = lateCharges \cup {ChargeOf(q)}
       /\ UNCHANGED <<lateReceipts, lateRows>>
    \/ /\ \E status \in Statuses :
             /\ Records(q, status)
             /\ lateRows' = lateRows \cup {TransactionOf(q, status)}
       /\ UNCHANGED <<lateReceipts, lateCharges>>

\* The call q is at ends without an answer.
Unanswered(q) == UNCHANGED late \/ LeaveBehind(q)

RowNotInserted(q) ==
    /\ \/ ~CustomerExists(q) /\ UNCHANGED late
       \/ "db" \in Faults /\ Unanswered(q)
    /\ UNCHANGED transactions

-----------------------------------------------------------------------------
(* The handler                                                             *)

\* No usable receipt: header absent, not UTF-8 or unparseable (400), signed
\* by an executor the store does not trust or with a bad signature (401).
\* The handler awaits nothing, reads no table and writes no row.
RefuseHeader(q) ==
    /\ pc[q] = "idle"
    /\ \E code \in {400, 401} : Answer(q, code)
    /\ UNCHANGED <<store, late, age, req, cart>>

\* A genuine receipt arrives.  One that does not validate is answered before
\* the replay store sees it, so it is not consumed.
Arrive(q, r, c, p) ==
    /\ pc[q] = "idle"
    /\ req' = [req EXCEPT ![q] = [customer |-> c, product |-> p,
                                  receipt |-> r]]
    /\ \/ Validates(r) /\ Goto(q, "consume")
       \/ ~Validates(r) /\ Answer(q, 400)
    /\ UNCHANGED <<store, late, age, cart>>

\* Slip: the row count of the INSERT is not looked at.
ConsumeReceipt_Unchecked(q) ==
    /\ pc[q] = "consume"
    /\ consumed' = consumed \cup {req[q].receipt}
    /\ Goto(q, "product")
    /\ UNCHANGED <<products, customers, transactions, charges, late, age, req, cart>>

\* INSERT INTO consumed_receipts ... ON CONFLICT DO NOTHING, one row affected.
ConsumeReceipt(q) ==
    /\ pc[q] = "consume"
    /\ req[q].receipt \notin consumed
    /\ consumed' = consumed \cup {req[q].receipt}
    /\ Goto(q, "product")
    /\ UNCHANGED <<products, customers, transactions, charges, late, age, req, cart>>

\* ... no row affected: the receipt was there already.
RefuseReplay(q) ==
    /\ pc[q] = "consume"
    /\ req[q].receipt \in consumed
    /\ Answer(q, 409)
    /\ UNCHANGED <<store, late, age, req, cart>>

\* ... or the query fails; the INSERT may be executed all the same.
ReplayStoreFails(q) ==
    /\ "db" \in Faults
    /\ pc[q] = "consume"
    /\ Unanswered(q)
    /\ Answer(q, 500)
    /\ UNCHANGED <<store, age, req, cart>>

\* Slip: a mismatch gives the receipt back, as if it had never been consumed.
LookupProduct_Unburned(q) ==
    /\ pc[q] = "product"
    /\ LET row == products[req[q].product] IN
        /\ cart' = [cart EXCEPT ![q] = row]
        /\ \/ row = NoOffer /\ Answer(q, 404) /\ UNCHANGED consumed
           \/ /\ row # NoOffer /\ ~Matches(req[q].receipt, row)
              /\ Goto(q, "reject")
              /\ consumed' = consumed \ {req[q].receipt}
           \/ /\ row # NoOffer /\ Matches(req[q].receipt, row)
              /\ Goto(q, "customer")
              /\ UNCHANGED consumed
    /\ UNCHANGED <<products, customers, transactions, charges, late, age, req>>

\* Slip: the early return for a product that does not exist is missing.
LookupProduct_NoReturn(q) ==
    /\ pc[q] = "product"
    /\ LET row == products[req[q].product] IN
        /\ cart' = [cart EXCEPT ![q] = row]
        /\ \/ row = NoOffer /\ Goto(q, "reject")
           \/ row # NoOffer /\ ~Matches(req[q].receipt, row) /\ Goto(q, "reject")
           \/ row # NoOffer /\ Matches(req[q].receipt, row) /\ Goto(q, "customer")
    /\ UNCHANGED <<store, late, age, req>>

\* get_product, and the amount and currency match that runs on its result
\* before the next await.
LookupProduct(q) ==
    /\ pc[q] = "product"
    /\ LET row == products[req[q].product] IN
        /\ cart' = [cart EXCEPT ![q] = row]
        /\ \/ row = NoOffer /\ Answer(q, 404)
           \/ row # NoOffer /\ ~Matches(req[q].receipt, row) /\ Goto(q, "reject")
           \/ row # NoOffer /\ Matches(req[q].receipt, row) /\ Goto(q, "customer")
    /\ UNCHANGED <<store, late, age, req>>

\* rejected_with_record: the outcome of the INSERT is ignored.
RecordRejection(q) ==
    /\ pc[q] = "reject"
    /\ \/ RowInserted(q, "rejected")
       \/ RowNotInserted(q)
    /\ Answer(q, 400)
    /\ UNCHANGED <<consumed, products, customers, charges, age, req, cart>>

\* get_customer: None ends the request.
LookupCustomer(q) ==
    /\ pc[q] = "customer"
    /\ \/ CustomerExists(q) /\ Goto(q, "charge")
       \/ ~CustomerExists(q) /\ Answer(q, 404)
    /\ UNCHANGED <<store, late, age, req, cart>>

LookupFails(q) ==
    /\ "db" \in Faults
    /\ pc[q] \in {"product", "customer"}
    /\ Answer(q, 500)
    /\ UNCHANGED <<store, late, age, req, cart>>

\* charge_customer returns Ok: Stripe has accepted the intent.  The status it
\* comes back with is not looked at, so one that is still processing, and may
\* yet fail, is a charge to the store like any other.
ChargeSucceeds(q) ==
    /\ pc[q] = "charge"
    /\ CanBill(q)
    /\ charges' = charges \cup {ChargeOf(q)}
    /\ Goto(q, "recordSuccess")
    /\ UNCHANGED <<consumed, products, customers, transactions, late, age, req, cart>>

\* StripeError::Declined, or StripeError::Call with nothing charged (no saved
\* payment method, the customer lookup failed) - or with only the answer lost,
\* and the charge made, or still to be made.
ChargeFails(q) ==
    /\ pc[q] = "charge"
    /\ CanBill(q)
    /\ \/ UNCHANGED late
       \/ "stripe" \in Faults /\ LeaveBehind(q)
    /\ Goto(q, "recordFailure")
    /\ UNCHANGED <<store, age, req, cart>>

\* StripeError::InvalidCustomerId or UnsupportedCurrency: no call, no row.
ChargeImpossible(q) ==
    /\ pc[q] = "charge"
    /\ ~CanBill(q)
    /\ Answer(q, 500)
    /\ UNCHANGED <<store, late, age, req, cart>>

\* Slip: the success path ignores the outcome of the INSERT too.
RecordSuccess_Ignored(q) ==
    /\ pc[q] = "recordSuccess"
    /\ \/ RowInserted(q, "succeeded")
       \/ RowNotInserted(q)
    /\ Answer(q, 200)
    /\ UNCHANGED <<consumed, products, customers, charges, age, req, cart>>

\* The success path answers 200 only if the row is known to be there.
RecordSuccess(q) ==
    /\ pc[q] = "recordSuccess"
    /\ \/ RowInserted(q, "succeeded") /\ Answer(q, 200)
       \/ RowNotInserted(q) /\ Answer(q, 500)
    /\ UNCHANGED <<consumed, products, customers, charges, age, req, cart>>

\* The failure path also ignores the outcome of the INSERT.
RecordFailure(q) ==
    /\ pc[q] = "recordFailure"
    /\ \/ RowInserted(q, "failed")
       \/ RowNotInserted(q)
    /\ Answer(q, 502)
    /\ UNCHANGED <<consumed, products, customers, charges, age, req, cart>>

\* The client hangs up or the process dies: the handler future is dropped at
\* the await it is at and no later line of it runs.  What it had already sent
\* to Postgres or to Stripe may still take effect, whatever happens meanwhile.
Drop(q) ==
    /\ "drop" \in Faults
    /\ pc[q] \in Awaiting
    /\ Unanswered(q)
    /\ pc' = [pc EXCEPT ![q] = "dropped"]
    /\ UNCHANGED <<store, age, req, cart, resp>>

-----------------------------------------------------------------------------
(* What was sent and is no longer waited for                               *)

LandReceipt(r) ==
    /\ r \in lateReceipts
    /\ consumed' = consumed \cup {r}
    /\ lateReceipts' = lateReceipts \ {r}
    /\ UNCHANGED <<products, customers, transactions, charges,
                   lateCharges, lateRows, age, handlers>>

LandCharge(c) ==
    /\ c \in lateCharges
    /\ charges' = charges \cup {c}
    /\ lateCharges' = lateCharges \ {c}
    /\ UNCHANGED <<consumed, products, customers, transactions,
                   lateReceipts, lateRows, age, handlers>>

\* The foreign key holds for a late row as for any other.
LandRow(t) ==
    /\ t \in lateRows
    /\ t.customer \in customers
    /\ transactions' = transactions \cup {t}
    /\ lateRows' = lateRows \ {t}
    /\ UNCHANGED <<consumed, products, customers, charges,
                   lateReceipts, lateCharges, age, handlers>>

Land ==
    \/ \E r \in lateReceipts : LandReceipt(r)
    \/ \E c \in lateCharges : LandCharge(c)
    \/ \E t \in lateRows : LandRow(t)

-----------------------------------------------------------------------------
(* What goes on around the handler                                         *)

\* The clock moves a receipt into and then out of the freshness window.
Tick(r) ==
    /\ \/ age[r] = "future" /\ age' = [age EXCEPT ![r] = "fresh"]
       \/ age[r] = "fresh" /\ age' = [age EXCEPT ![r] = "stale"]
    /\ UNCHANGED <<store, late, handlers>>

\* upsert_product: a new product, or a new price for an old one.
UpsertProduct(p, o) ==
    /\ products' = [products EXCEPT ![p] = o]
    /\ UNCHANGED <<consumed, customers, transactions, charges, late, age, handlers>>

CreateCustomer(c) ==
    /\ c \notin customers
    /\ customers' = customers \cup {c}
    /\ UNCHANGED <<consumed, products, transactions, charges, late, age, handlers>>

Receive(q) ==
    \/ RefuseHeader(q)
    \/ \E r \in Receipts, c \in Customers, p \in Products : Arrive(q, r, c, p)

\* One step of the handler of q once its request is in.
Handle(q) ==
    \/ ConsumeReceipt(q) \/ RefuseReplay(q) \/ ReplayStoreFails(q)
    \/ LookupProduct(q) \/ RecordRejection(q)
    \/ LookupCustomer(q) \/ LookupFails(q)
    \/ ChargeSucceeds(q) \/ ChargeFails(q) \/ ChargeImpossible(q)
    \/ RecordSuccess(q) \/ RecordFailure(q)

Environment ==
    \/ \E r \in Receipts : Tick(r)
    \/ \E p \in Products, o \in Offers : UpsertProduct(p, o)
    \/ \E c \in Customers : CreateCustomer(c)

Next ==
    \/ \E q \in Requests : Receive(q) \/ Handle(q) \/ Drop(q)
    \/ Land
    \/ Environment

Spec == Init /\ [][Next]_vars

-----------------------------------------------------------------------------
(* Properties                                                              *)

\* q got as far as reading the cart: of all the requests that present one
\* receipt only the first to consume it ever does.
Redeems(q) == cart[q] # NoOffer

\* The Stripe calls and the INSERTs of rows that were ever made under a
\* receipt and were executed or may still be.
ChargeCalls == charges \cup lateCharges
RowCalls == transactions \cup lateRows

ChargesUnder(r) == {c \in charges : c.receipt = r}
ChargeCallsUnder(r) == {c \in ChargeCalls : c.receipt = r}
RowCallsUnder(r) == {t \in RowCalls : t.receipt = r}

\* However many requests present one receipt, at once or one after another,
\* wherever they are dropped and however late their calls are executed, the
\* card is charged at most once under it (the race that try_consume_receipt's
\* INSERT has to decide).
AtMostOneCharge ==
    \A c, d \in charges : c.receipt = d.receipt => c = d

\* The card is charged as many units as the receipt names, in its currency,
\* whatever happens to the product's price between the lookup and the Stripe
\* call, and although the handler compares the price with a u64 it has cast
\* to i64.  What a unit is worth is another matter, see ChargeIsWorthItsClaim.
ChargeMatchesClaim ==
    \A c \in charges :
        /\ c.offer.amount = Claim[c.receipt].amount
        /\ c.offer.currency = Claim[c.receipt].currency

\* A price has two decimals: price_cents, and ValueClaim in the agent's loop.
CentDecimals == 2

\* checkout.rs says of a cart that differs from what the agent committed to
\* spending that the receipt is not honoured: what is charged is worth what
\* the receipt names, in the decimals the receipt gives.
ChargeIsWorthItsClaim ==
    \A c \in charges :
        c.offer.amount * 10^Claim[c.receipt].decimals
            = Claim[c.receipt].amount * 10^CentDecimals

\* The BEHAVIOR NOTE of checkout.rs: a receipt that did not match the cart
\* it was presented for is never redeemed for any other transaction - not by
\* a retry after the price has come back to the amount it commits to.
RefusedNeverCharged ==
    \A q \in Requests :
        /\ Redeems(q)
        /\ ~Matches(req[q].receipt, cart[q])
        => ChargesUnder(req[q].receipt) = {}

\* The two books agree, wherever a handler was cut off between them and
\* however late a call is executed: a row that says succeeded stands for a
\* charge, and a row under a charged receipt is from the request that was
\* charged, for the same customer and the same amount.  (A charge may lack
\* its row, and a failed row may hide a charge.)
RowAndChargeAgree ==
    \A t \in transactions :
        /\ t.status = "succeeded" => ChargesUnder(t.receipt) # {}
        /\ \A c \in ChargesUnder(t.receipt) :
              /\ t.by = c.by
              /\ t.customer = c.customer
              /\ t.offer = c.offer
              /\ t.status # "rejected"

\* Once a receipt is consumed and the handler that consumed it is gone, it
\* is spent for good: nobody takes it up again, and no step of anyone calls
\* Stripe or writes a row under it.  What is charged and recorded under it
\* from then on is what that handler had sent already: steps only move calls
\* from those that are on their way to those that are executed.
TakenUp(r) ==
    \E q \in Requests : pc[q] \in Awaiting \ {"consume"} /\ req[q].receipt = r

BurnedStaysBurned ==
    [][\A r \in consumed :
          ~TakenUp(r) => /\ ~TakenUp(r)'
                         /\ ChargeCallsUnder(r)' = ChargeCallsUnder(r)
                         /\ RowCallsUnder(r)' = RowCallsUnder(r)]_vars

\* What a client may conclude from the status it gets, under any fault: 200
\* means the card was charged and a succeeded row is there, a 4xx that this
\* request has not charged it and never will - no call of it is on its way
\* either.  (A 409 says nothing of the request that used the receipt up,
\* which may well have charged.)  Only 500, 502 and no answer leave it open.
AnswerTellsOutcome ==
    \A q \in Requests :
        /\ resp[q] = 200 =>
              /\ ChargeOf(q) \in charges
              /\ TransactionOf(q, "succeeded") \in transactions
        /\ resp[q] \in {400, 401, 404, 409} =>
              /\ \A c \in ChargeCalls : c.by # q
              /\ \A t \in RowCalls : t.by = q => t.status = "rejected"

\* checkout.rs says that the audit trail captures the rejection of a receipt
\* that does not match its cart.
AuditTrailCapturesMismatch ==
    \A q \in Requests :
        /\ pc[q] = "answered"
        /\ Redeems(q)
        /\ ~Matches(req[q].receipt, cart[q])
        => TransactionOf(q, "rejected") \in transactions

-----------------------------------------------------------------------------
(* The inductive invariant behind these properties                         *)

\* q carries a receipt that is a value claim.
Presents(q) ==
    /\ req[q] \in RequestType
    /\ Claim[req[q].receipt] # NoClaim

\* A handler past its header does.
HasRequest == \A q \in Requests : pc[q] \in Awaiting => Presents(q)

\* Only a request whose cart holds an offer is at, or past, the match.
HasCart ==
    \A q \in Requests :
        /\ pc[q] \in {"idle", "consume", "product"} => cart[q] = NoOffer
        /\ pc[q] \in Awaiting \ {"consume", "product"} => cart[q] \in Offers
        /\ cart[q] # NoOffer => Presents(q)

\* The requests whose INSERT consumed their receipt, as far as it matters:
\* they are still at work on it, or they have read a cart for it.
Took(q) == Redeems(q) \/ pc[q] \in Awaiting \ {"consume"}

TakenIsConsumed == \A q \in Requests : Took(q) => req[q].receipt \in consumed

OneTaker ==
    \A q, u \in Requests :
        Took(q) /\ Took(u) /\ req[q].receipt = req[u].receipt => q = u

\* The handler's position tells whether its cart matched its receipt.
Matched ==
    \A q \in Requests :
        /\ pc[q] = "reject" => ~Matches(req[q].receipt, cart[q])
        /\ pc[q] \in {"customer", "charge", "recordSuccess", "recordFailure"}
              => Matches(req[q].receipt, cart[q])
        /\ pc[q] = "recordSuccess" => ChargeOf(q) \in charges

\* Every charge, made or on its way, is the one Stripe call of a request that
\* took its receipt.
ChargesAccounted ==
    \A c \in ChargeCalls :
        /\ c = ChargeOf(c.by)
        /\ Redeems(c.by)
        /\ Matches(req[c.by].receipt, cart[c.by])
        /\ pc[c.by] \in {"recordSuccess", "recordFailure"} \cup Over

\* Every row, written or on its way, is the last thing its request did.
RowsAccounted ==
    /\ \A t \in RowCalls :
          /\ t = TransactionOf(t.by, t.status)
          /\ Redeems(t.by)
          /\ t.status = "rejected" <=> ~Matches(req[t.by].receipt, cart[t.by])
          /\ t.status = "succeeded" => ChargeOf(t.by) \in charges
          /\ pc[t.by] \in Over
    /\ \A t, u \in RowCalls : t.by = u.by => t = u

\* The whole of it: only the request that consumed a receipt acts under it,
\* and what it charges and records is fixed by what it read.
RedemptionInv ==
    /\ TypeOK
    /\ HasRequest
    /\ HasCart
    /\ TakenIsConsumed
    /\ OneTaker
    /\ Matched
    /\ ChargesAccounted
    /\ RowsAccounted

-----------------------------------------------------------------------------
(* The promise that the store keeps                                        *)

\* What a receipt commits to, in units: its decimals stay out of it, as they
\* do in the code.
Commitments ==
    {pair \in Receipts \X Offers :
        LET claim == Claim[pair[1]] IN
        /\ claim # NoClaim
        /\ pair[2].amount = claim.amount
        /\ pair[2].currency = claim.currency}

Redemptions ==
    {[by |-> c.by, receipt |-> c.receipt, what |-> c.offer] : c \in charges}

Ledger == INSTANCE ReceiptLedger
    WITH Attempts <- Requests,
         Authorises <- Commitments,
         effects <- Redemptions

\* Every step of the store is a step of the ledger or changes nothing in it.
ImplementsLedger == Ledger!Spec
=============================================================================
