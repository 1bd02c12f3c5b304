# Verification of maat-demos

TLA+ models, TLC runs and TLAPS proofs for the Maat demonstration suite: three
pairs of an **agent** (an autonomous program that acts under a delegation) and
a **resource** (a service that acts only on a receipt the gateway issued for
one exact action).

The promise behind all three is the same, and it is what most of this project
is about: *a receipt stands behind at most one effect, and that effect is
exactly what the receipt commits to* - while requests run concurrently, are
retried, are cut off at any await, and databases and Stripe fail. (The runner and the mailer
keep it; the store does for the units and the currency of an amount, not for its
decimals, see section 5.)

## 1. Inventory

### Resources

| Part | State | Operations | Talks to |
|---|---|---|---|
| `commerce/store` (checkout) | Postgres: `consumed_receipts`, `products`, `customers`, `transactions`; payment intents at Stripe | `POST /store/v1/checkout`; `upsert_product`, `create_customer` (operations of the repository that change what checkout reads) | Stripe, the trusted executor's public key |
| `deploy/runner` | Postgres: `consumed_receipts`, `deploys` | `POST /runner/v1/deploy` (execution is a stub) | the executor's key |
| `email-outreach/mailer` | Postgres: `consumed_receipts`, `sends` | `POST /mailer/v1/send` (sending is a stub) | the executor's key |

Each handler is one async function. It validates the receipt through the
SDK's `ReceiptValidator` (signature, executor, descriptor, freshness), which
ends in an `INSERT ... ON CONFLICT DO NOTHING` into `consumed_receipts`; it
then compares what the request asks for with what the receipt commits to,
acts, and writes an audit row. *Hard*: every await is a place where another
request runs, a price changes, or the connection is dropped and the rest of
the function never runs; a query that fails, and a call that nobody waits for
any more, may be executed, at once or later; Stripe may charge and not be heard; audit rows are written on some paths, ignored on
others, and must be written on one.

*Correct* means: one effect per receipt; the effect is what the receipt
commits to; a receipt that was refused is burned for good; a row that claims
an effect is true; 200 is only answered when effect and row are there; a 4xx
means that there was no effect.

### Agents

| Part | State | Operations |
|---|---|---|
| `commerce/agent` store and handlers | SQLite row `delegation`; in memory `delegation`, `phase`, `current_goal` behind one lock | accept and clear a delegation, submit a goal, restart |
| `commerce/agent` loop | the goal, the catalog fetched once, `spent`, `bought_ids`, the receipt in hand | fetch, pick, verify with the gateway, check out, finish |
| `commerce/agent` strategy | none | `pick_next` |
| `email-outreach/agent`, `deploy/agent` store and handlers | SQLite row `delegation`; in memory `delegation` and `phase`, no goal | as commerce/agent, but `submit_goal` reads the phase under one lock and sets it under another |
| `email-outreach/agent` loop | the goal, how far it has come, `sent`, `rejected`, the receipt in hand | one receipt and one send per recipient |
| `deploy/agent` loop | the goal, the receipt in hand | one receipt, one deploy |
| activity log, in each agent | SQLite table, broadcast channel | record, snapshot and stream (SSE) |

*Hard*: database and memory are written in two steps by requests that overlap
or are dropped in between; loops run while the delegation is replaced or
cleared; the client's 15 second timeout races the store, which may still
charge; every answer but success is taken for a rejection that cost nothing;
loops set the phase at their end, whatever it is by then; in the two smaller
agents two goals can pass the check of the phase before one of them sets it.
*Correct* means: the phase tells the truth about the delegation and the loop,
Active always ends, the card is not charged beyond the goal, nothing is bought
and nobody mailed twice for one goal, each deployment answers to one goal, what
the agent counts and reports is true, and the loop ends.

### How they interact

    operator --HTTP--> agent handlers --spawn--> loop --HTTP--> gateway (external)
                          |  phase, delegation    |
                        SQLite                    +--X-Maat-Receipt--> resource --> Stripe (external)
                                                                          |
                                                                       Postgres

The agent and its resource share nothing but HTTP and the receipt, so in the
compositions (`ShoppingLoop`, `OutreachLoop`, `DeployAgent`) they share only
the requests, their answers and the clock.

## 2. Modules

| Module | Models | Composes |
|---|---|---|
| `ReceiptLedger` | abstract: what every resource promises of receipts | - |
| `Amounts` | the integers of commerce: the width of `i64`, the cast from `u64`, sums that wrap | - |
| `Checkout` | commerce/store's checkout handler, its tables, Stripe | `Amounts`; implements `ReceiptLedger` |
| `Runner` | deploy/runner's deploy handler | implements `ReceiptLedger` |
| `Mailer` | email-outreach/mailer's send handler | implements `ReceiptLedger` |
| `Strategy` | `pick_next` and what the loop claims for an item | `Amounts` |
| `StrategyRun` | the strategy driven to its end as the loop drives it, over any catalog and goal | `Strategy` |
| `ShoppingLoop` | one run of commerce/agent's loop with its store client | `Checkout`, `Strategy` |
| `AgentStore` | commerce/agent's phase machine, delegation, handlers, loops, restarts | - |
| `AgentControl` | the control plane of email-outreach/agent, repeated by deploy/agent | - |
| `DeployAgent` | deploy/agent: its control plane and a loop per goal | `AgentControl`, `Runner` |
| `OutreachLoop` | one run of email-outreach/agent's loop with its mailer client | `Mailer` |
| `CheckoutProofs`, `AgentStoreProofs`, `MailerProofs`, `StrategyRunProofs` | theorems and proofs | their components |
| `DeployAgentProofs` | theorems and proofs of `Runner`, then of `DeployAgent` with `AgentControl` | |
| `OutreachLoopProofs`, `ShoppingLoopProofs` | theorems and proofs of the loops | the proofs of `Mailer` and of `Checkout` |
| `StrategyProofs` | lemmas: the strategy's choice, sums over finite sets | |
| `MC*` | instances for TLC (`StrategyRun` is given its constants by its two cfgs) | |

Operators named `X_Something` with a comment that starts with "Slip:" are
plausible mistakes in `X`. They are part of no specification. Each property is
checked against at least one of them put in place of `X`, to be sure that it
can fail.

### State and actions against the code

**Resources.** `pc[q]` is the await that the handler of request `q` is at; a
step is what the handler does from one await to the next. In `Checkout`:
`consume` is the INSERT in `try_consume_receipt`, `product`, `customer` are the
lookups, `charge` is `charge_customer`, `reject`, `recordSuccess`,
`recordFailure` the three places that call `record_transaction`. The
amount and currency match has no await of its own and is part of
`LookupProduct`. In `Runner` and `Mailer`, `recordInvalid` is the audit row of
a receipt that does not validate, `decide` is everything from the validated
receipt to the stub's execution.

- `Drop(q)` is axum dropping the handler future when the client hangs up, and
  the process ending: no later line runs, but what was sent to Postgres or
  Stripe may still be executed. Tables survive; handlers hold nothing else, so
  a restart needs no action of its own.
- A failing query (`"db"`, `dbFails`) may or may not have been executed.
- In `Checkout` a call that nobody waits for any more - its handler was dropped,
  its query failed, its answer was lost - goes into `lateReceipts`, `lateCharges`
  or `lateRows` and is executed by `LandReceipt`, `LandCharge` or `LandRow` at any
  later time, or never, whatever other requests do meanwhile. `Runner` and
  `Mailer` only ever leave an INSERT behind, and there it is executed in the step
  that leaves it, or not at all: a coarser model, named again in section 6.
- `ChargeFails` covers a declined card, a call that never reached Stripe and,
  with `"stripe"`, a charge whose answer was lost and that was made, or is still
  to be made.
- A *charge* is a payment intent Stripe has accepted. The code ignores the
  status it comes back with (`stripe_client.rs:116`), so the model does too:
  an intent that is still processing and fails later is a charge here.
- The foreign key from `transactions` to `customers` is in the model
  (`CustomerExists`): it is what makes the row of a mismatch fail.
- The receipt's age is `future`, `fresh` or `stale` and moves on by `Tick`.
  Signatures are not computed: a receipt is genuine or a forgery that may show
  any id (`ArriveForged`). SHA-256 is `HashOf`.
- `Claim[r]` is the value claim of receipt `r` as it stands in the descriptor:
  an amount that is a `u64`, a currency and decimals, or `NoClaim`. `Matches` is
  the comparison of the code: the currencies, and `AsSigned` of the amount
  (`claim.amount as i64`) with the price. It does not look at the decimals, as
  the code does not; what follows from that is `Checkout_decimals`. `ChargeOf`
  takes the price of the product row, not the claim, as the code does.

**ShoppingLoop.** `step` is the await the loop is at. A checkout request of
the loop is `Arrive` of `Checkout`; the store's own steps, price changes and
drops interleave with the loop. The catalog is fetched once, as in the code;
`GiveUp` is a transport error or the timeout, after which the store may still
be at work. The gateway approves with a fresh receipt for exactly the claim,
refuses the item, or ends the run; that it never approves more than the
delegation's `MaxValue` (`Cap`) is an assumption about an external service.

**AgentStore.** A handler is one HTTP request; `acceptDb`/`acceptMem` and
`clearDb`/`clearMem` are the two writes of accepting and clearing. Spawning a
loop is part of `SetGoal`, there is no await between the lock and the spawn.
`LeaveLoop` stands for all of the shopping, which `ShoppingLoop` details.
`operator` is chosen once per behaviour, so one run answers for three kinds of
use: `any` (no restraint, drops and failing queries), `waits` (the delegation
is left alone while the agent is Active or another request is in flight) and
`serial` (one request at a time, no drops, no failures). What is said of the
last two is the operator's duty: `WaitingIsSafe`, `GoalEndsWithItsLoop`,
`RowIsActiveDelegation`, and `SerialIsSafe` of `AgentControl`, exclude the
overlaps in which the code lets loops, row and memory come apart. What holds
through those overlaps, and all that is promised then, is `PhaseIsTrue`.

**AgentControl and DeployAgent.** The store and the handlers of the two smaller
agents are the same code, so `AgentControl` is translated once, from
email-outreach/agent, and checked together with the loop of deploy/agent. It has
no Next of its own: `DeployAgent` puts its steps together. `submit_goal` is two
steps, `CheckPhase` and `SetActive`, with other requests, loops and a restart in
between; `SetActive` includes the spawn. A task is the loop of one accepted goal
and is named by the request it sends to the runner, so `asked[t]`, `ticket[t]`
and the runner's `executed` can be compared. `verify`, `send`, `await` are its
awaits on the gateway and the runner; `abort` and `finish` are the log entries
it writes before it sets the phase. `report[t]` is what it has logged of its
outcome. `RestartAgent` ends every task and request but not what is already at
the runner. In `operator = "serial"` the operator waits for each answer and
leaves the delegation alone while the agent is Active; requests are dropped and
queries fail all the same.

**OutreachLoop.** `at` is how many recipients the loop has begun with, `sent`
and `rejected` are the two counters of the code. A send is `ArriveGenuine` of
`Mailer`, whose own steps, drops and failing queries interleave. An address
without an @ (`Malformed`) is skipped. An answer of any status but success
counts as rejected, as in the code; a transport error or the timeout (`GiveUp`)
ends the loop, and the mailer may still be at work.

## 3. Runs

| Run | Result | What it shows |
|---|---|---|
| `Checkout` | pass | one charge per receipt, of as many units of the currency as it names; refused receipts burned; rows, answers and charges agree; refinement of `ReceiptLedger` |
| `Checkout_audit` | violated | a mismatch does not always leave the audit row the module comment promises |
| `Checkout_decimals` | violated | a receipt whose amount is in other decimals than cents is charged all the same, for another sum of money than it names |
| `Strategy_overflow` | violated | `max_per_item + 100` wraps for a limit near `i64::MAX`, and the claim is not above the limit |
| `ShoppingLoop` | pass | for goals that are safe: budget (apart from charges the store disowned), running total, skipping an item is the same as stopping; for every goal: nothing bought twice, the loop ends |
| `ShoppingLoop_budget` | violated | a charge whose row could not be written is answered with 500, counted as nothing, and the goal is overspent |
| `AgentStore` | pass | phase, delegation and loops under three kinds of operator; Active always ends |
| `AgentStore_active` | violated | Active without a delegation: clear while a loop runs, its end sets Idle, the next goal is accepted |
| `Runner` | pass | one deployment per receipt, as claimed; deployed rows are true; every answered attempt has its row while no query fails; refinement |
| `DeployAgent` | pass | the phase of the two-step control plane tells the truth; an operator who takes turns is safe; each deployment answers to one goal and the activity log is true about it |
| `OutreachLoop` | pass | nobody is mailed more often than the goal names them, the closing counters are true, the loop ends |
| `Mailer` | pass | nobody gets more mail than the receipts commit to; forgeries are harmless; rows as for the runner; refinement |

Bounds. *Resources*: two requests that may carry the same receipt are enough
for every race on a receipt - every property speaks of at most two requests
under one receipt - and the proofs need no bound at all. Two receipts
let one request burn a receipt while another succeeds; prices can change at
any time, so the price can go away from a claim and come back. In `Checkout` `i64` has 8
values (`IntMax` = 3): `r1` names its amount in three decimals, the amount of
`r2` is over `IntMax`, so its cast is negative, and an offer in another currency
is there to be refused. The mailer's lists contain the two orders of a pair, a
duplicate, a forbidden address and nobody at all: the ways in which a comparison
of lists can go wrong. (A receipt that commits to nobody lets a request send to
nobody and leaves a row that says sent; no claim of the run is empty, and the
theorems, which are about any lists, include it.) *ShoppingLoop*: two products,
prices 2 and 3 that move at any time, and two requests, so that the second
purchase happens after whatever the first one left behind. Its goals: a plain
one with total 4 and 2 per item, so that the dearer item is over the per-item
limit; one for the claim that is a cent low; and two in `per_action_cap` mode
whose claims are over `MaxValue` (`Cap` = 3) and equal to it. The last one is
not `GoalIsSafe`, and the store does charge more than it allows: on this
instance `KnownWithinBudget` is violated when its condition is left out.
`IntMax` is 7, so that no sum of this instance wraps. Receipts claim 1 to 3, and
the claim of 2 has a second copy. *AgentStore*: four API requests, two loops, two delegations, one
restart: the shortest interesting histories (goal, clear, goal; goal, accept,
goal) take three requests. *DeployAgent*: three API requests, two loops, two
delegations, one restart; two requests are what it takes for two goals to pass
the check, the third is an accept or a clear between them, and the two targets
are one the runner allows and one it does not. Every receipt is fresh at first,
since the gateway issues it just then, and may go stale before it is shown.
*OutreachLoop*: two goals of three recipients, one that names somebody twice,
one with an address that the mailer refuses and one without an @; the second goal
leaves a receipt over, so that a loop that tried again would find one.
*Strategy_overflow*: small catalogs and goals; the width of `i64` is scaled down
to `IntMax`, and `OverCap` to match, so that sums wrap.

Deadlock is checked in the Checkout and ShoppingLoop runs (prices can always
change) and switched off in Runner, Mailer, AgentStore, DeployAgent and OutreachLoop, where all requests can be over and the system rests. The type
invariants of `Runner` and `Mailer` are conjuncts of `DeployTypeOK` and of
OutreachLoop's `LoopTypeOK`.

Fairness. Only the liveness properties assume any. `LoopEnds`, of both loops: weak
fairness of the loop's next step - tokio polls a task that is ready, each
await on the resource ends by reqwest's timeout (`catalog.rs:42`,
`mailer_client.rs:37`), and the
gateway's SDK call is assumed to answer or to fail. Nothing is assumed of the
resource: the loop ends even if it never answers. `ActiveEnds`: weak fairness of
each spawned loop, which is the same assumption with `LoopEnds` in place of the
loop's inside. No fairness is assumed of HTTP requests or of the operator.

## 4. Proofs

TLAPS proves every invariant, action property and refinement that the passing
runs check, and `GreedyBuysTheMost`, which no run does, for every number of requests, receipts, customers, products,
recipients, loops and delegations, every claim and every combination of faults.
Only liveness (`LoopEnds` of both loops, `ActiveEnds`) is left to TLC alone: it
rests on fairness and ENABLED, which the prover does not handle.

*Assumptions.* The named ones of the modules, which say that the values that
stand for "none" are not values, that a task is named by a request and goals
name targets (`DeployAssumption`), that the goals of a run, its lists and its
amounts are of their types (an amount is between 1 and `IntMax`: the columns are
`BIGINT` with a check, and `submit_goal` refuses limits that are not positive),
and that a catalog is finite. One theorem has a hypothesis of its own,
`SafeConstants` of `GreedyIsBest`. What `BudgetHolds` and `SpentCoversTheCard`
need of a goal is part of the properties they prove; see `ShoppingLoopProofs`.

*Shape.* Each proof has a typing invariant, then the invariant that is
inductive, with one lemma for each kind of step, then what follows from it. TLC
finds the inductive invariants true on the instances of the runs, too.

### Resources

`CheckoutProofs`

- `TypeCorrect`: with `HasRequest` and `HasCart`, typing is inductive.
- `RedemptionCorrect`: the invariant `RedemptionInv`. *At most one charge* is
  not inductive: a second request might already sit at `charge` with the same
  receipt. What excludes this is that only the request whose INSERT consumed
  the receipt gets past `consume` (`TakenIsConsumed`, `OneTaker`); that the
  handler's position fixes whether its cart matched (`Matched`); and that every charge and every row, executed or still on its way, is accounted for
  by the position of the one request that made it (`ChargesAccounted`,
  `RowsAccounted`: both are about `charges \cup lateCharges` and
  `transactions \cup lateRows`, or a call that lands late would come from
  nowhere). There is one lemma per way in
  which a step can disturb this: the INSERT, the lookup, a charge, a row, a call
  that lands, and steps that do none of these.
- From it `NeverChargedTwice`, `RefusedIsBurned`, `RowsMatchCharges` and
  `ChargedAsClaimed`. For the last: a price is positive, so the claim it was found
  equal to had not wrapped in the cast, and the charge is as many units as the
  receipt names. What a unit is worth depends on the decimals, which the code
  does not compare, and the theorem does not claim it.
- `AnswersAreHonest`: what a status tells is inductive relative to
  `RedemptionInv`; a 4xx is only answered from positions that have charged
  nothing, and an answered request never charges again.
- `BurnedForGood`: an action property. Calls that are on their way land at any
  time, so the charges under a spent receipt may well grow; what cannot grow is
  the set of calls, executed or not, because a handler's step only adds to those
  under its own receipt, and a consumed receipt whose handler is gone is taken up
  by nobody.
- `StoreImplementsLedger`: every step consumes a receipt, redeems a consumed
  one once for the units and currency it names, or changes nothing of the ledger.

`DeployAgentProofs`, first part, and `MailerProofs`: the same argument with one
position fewer, and more to say about rows, since these two write one for every
attempt.

- `RedemptionCorrect`: `TakenIsConsumed` and `OneTaker` as above. Deployments
  and mail are accounted for by the position of their request, and a request at
  its row has done what the row will say. `RowsAccounted`: a row is the last
  thing its request does. `AnswersAccounted`: without faults no answer goes out
  before its row is there, and a 200 never.
- `DeploysMatchClaims`, `NobodyIsSentMore`: one effect per receipt, permitted
  by it. For the mailer it takes that equal multisets of recipients have the
  same number of copies for each address, whatever their order.
- `RecordsTellTheTruth`, `AttemptsAreRecorded`, and `ForgeryDoesNothing`: a
  receipt is only used up by a request that showed the genuine one
  (`ConsumedIsGenuine`).
- `RunnerImplementsLedger`, `MailerImplementsLedger`.

### Agents

`AgentStoreProofs`

- `AgentTypeCorrect` and `PhaseTellsTruth`, from `PhaseInv`, which adds that an
  accept under way carries a delegation.
- `WaitingKeepsSafe`, `GoalsAreKept`: that loops do not overlap is not
  inductive. `WaitingInv` adds why: a request about the delegation is alone in
  flight and finds no loop, and a running loop keeps the phase Active and the
  goal its own.
- `RowIsKept`: `SerialInv` says how far the row is ahead of the memory between
  the two writes of a request.

`DeployAgentProofs`, second part

- `DeployPhaseTellsTruth`, `TakingTurnsIsSafe` from `ControlInv`. The second
  needs `TurnsAreKept`: a request that has passed the check of the phase is
  alone, and no loop is there that could change what it has read.
- `EveryDeployAnswers` from `AnswerInv`: only tasks send to the runner, each
  once, with what it has in hand, and what it has in hand is fixed from then on -
  which is why a restart or a timeout cannot make a deployment nobody asked for.
- `ReportsTellTruth` from `ReportInv`: how the runner's answers stand to what it
  has done (`RunnerTruth`) and how the log stands to the answers
  (`ReportTruth`). That "aborted" and "refused" *stay* true is because such a
  task never sends.

### Compositions

`AgentRunsRunner`, `LoopRunsMailer` and `LoopRunsStore` prove that every step of
a composition is a step of its resource or leaves it alone: the agent's
specification implies the resource's. So each theorem about a resource holds
under its agent too, and the proofs about the loops start from it.
`DeployTypeCorrect` and the two `LoopTypeCorrect` put the types together.

`OutreachLoopProofs`, from `LoopInv`:

- `OneInFlight`: every request but the last is answered, and before the next
  one is sent the last one is, too.
- `OneTryPerTurn`: no address has been tried more often than its turn has come,
  which with one mailing per request gives `NobodyIsMailedTwice`. The turn in
  hand does not count until its request is out; without this the invariant is
  not inductive.
- `SentIsHeard`, `EachIsCounted`: `sent` is the number of 200s heard, and every
  turn of a well-formed address is counted once, but for the request the loop
  waits for or gave up on. With what a 200 and a refusal tell (`AnswersTell`)
  this gives `CountsTellTruth`.

`ShoppingLoopProofs`:

- `NothingIsBoughtTwice` from `OneInFlight` and `OneTryPerProduct`: what has
  been tried is done with, but for the item in hand, and that one is new until
  its request is out.
- `ChargedWithinCap`, which no run lists: prices may change between the
  gateway's verdict and Stripe, and still no charge is over the delegation's
  `MaxValue`.
- `BudgetHolds` and `SpentCoversTheCard`. That the charges are within the goal
  is not inductive: the next one could be too much. `Fits` says that the item in
  hand fits next to `spent`; `Covered` says that `spent` covers all charges that
  the store owns up to, or all but that of the request the loop waits for or gave
  up on, with room for that one. A product is in `done` once the loop has heard,
  which is what `SpentCoversCharges` goes by: the last purchase counts as soon as
  its answer is in. The charge of a request is what its receipt names
  (`RedemptionInv`), not its price at the time, and this is why a price that
  rises meanwhile does no harm.
- `SkippedIsStopped`: if the first item of what is left does not fit, no later
  one does (`PickedIsFirst` of `StrategyProofs`).

Both budget theorems are about goals with `GoalIsSafe`. The code enforces
neither part of it, and TLC finds `KnownWithinBudget` without it violated:

- No sum of the goal's limits wraps. `spent + price` in `strategy.rs:60` is not
  checked, and a sum that has wrapped is within any budget.
- In `per_action_cap` mode the claim, `max_per_item + 100`, is over the
  delegation's `MaxValue`, as the mode's comment takes for granted
  (`strategy.rs:66-70`). With a delegation of a higher limit the gateway approves
  the claim, and when the price happens to rise to it before the checkout the
  store charges it.

### The strategy

`StrategyRunProofs`, `GreedyIsBest`, for any catalog of positive prices and any
limits whose sums do not wrap (`SafeConstants`): what is bought comes before all
that is left in the order of the sort, and what is left does not fit
(`CheapestFirst`). A larger selection within the goal would therefore cost at
least as much as all bought and one more (`LargerCostsMore`), which is over the
total. The theorem takes the place of a run.

`StrategyProofs` has the lemmas. A sum over a set is a recursive function that
takes the elements in an arbitrary order; that the order does not matter, and
what adding or exchanging an element does, are inductions over
finite sets. They are written without a schema: among the subsets that violate
the claim there is a smallest one (`SmallestSet`, from the well-foundedness of
inclusion on finite sets), and that one is refuted.

## 5. Where code and documentation disagree

1. `checkout.rs:17-18` says that the audit trail captures the rejection of a
   receipt that does not match. The row is inserted before the customer is
   looked up and its error is ignored, so for an unknown customer id the foreign
   key refuses it (`Checkout_audit`).
2. `strategy.rs:68-70` says that `per_action_cap` mode guarantees a rejection
   on MaxValue. For a limit within 100 of `i64::MAX` the sum wraps
   (`Strategy_overflow`). `submit_goal` accepts such a limit.
3. The goal is "spend up to" its total. The loop counts any answer but success
   as nothing spent, also a 500 or 502 for a card that was charged
   (`ShoppingLoop_budget`). Apart from such charges the budget holds for goals
   with `GoalIsSafe` (`KnownWithinBudget`), and two more things break it for
   others: limits near `i64::MAX`, where `spent + price` wraps, and
   `per_action_cap` mode under a delegation whose `MaxValue` is above the claim.
4. `agent_loop.rs:3-4` says that Active means that a delegation is present.
   `set_goal` looks at the phase only (`AgentStore_active`);
   `WaitingIsSafe` shows what the operator has to do for it to hold.
5. `checkout.rs:85-88` says that a receipt whose amount differs from the cart is
   refused, and `0001_initial.sql:4-6` that the comparison is unambiguous because
   all amounts are in minor units like `MaxValue`. A claim has decimals of its
   own, and the handler does not look at them: 1999 with three decimals is
   charged as 19.99 (`Checkout_decimals`). The agent of this repository always
   claims two decimals (`agent_loop.rs:127-132`).
6. `0001_initial.sql:28` says "One row per checkout attempt - successful or
   failed". A header or receipt that does not validate, a replay, a product or
   customer that does not exist and a failing lookup are answered without a row
   (`RefuseHeader`, `Arrive`, `RefuseReplay`, `LookupProduct`, `LookupCustomer`,
   `LookupFails`), and so are a customer or a currency that Stripe's types refuse
   (`ChargeImpossible`).
7. `0001_initial.sql:55-58` says that "a receipt might exist in transactions
   multiple times (once succeeded, then presented again ...)". No second
   presentation gets past the replay store, and none is recorded: by
   `RedemptionCorrect` (`RowsAccounted` with `OneTaker`) a receipt has one row at
   most. The runner and the mailer do record replays.

Items 6 and 7 need no run: the exits named write no row.

## 6. Not modelled, and why

- The activity log's storage and its stream. Writes to it ignore every error, it
  is trimmed to 200 entries, and nothing in the system acts on it: it is a
  best-effort view. What is modelled of it is what it says of a deploy goal and
  of an outreach, because an operator goes by that. (Reading the code shows two
  things no run is needed for: commerce/agent's stream subscribes after it has
  read its snapshot, `handlers/mod.rs:144-158`, so an entry in between is in
  neither; and "of {} attempted", email-outreach `agent_loop.rs:140`, counts the
  recipients of the goal, also those after the loop broke off.)
- The identity row, written once at the first start, and the status view, which
  only reads.
- Configuration and start-up: environment variables become constants. The
  executor's key is fetched once at the start, so its
  rotation is out of the model.
- Stripe, the gateway, the Maat SDK and the protocol library are not part of the
  repository; they are modelled as the code uses them.
- Late INSERTs of `Runner` and `Mailer`. A query that was sent before its handler
  was dropped or failed is executed in that step or never; in `Checkout` it is
  executed at any later time.
- `testkit` and the tests.
- Delegation expiry in the agent: it is checked when a delegation is accepted
  and otherwise left to the gateway.

## 7. What is left

1. An abstract specification of an agent - goals that begin, have at most the
   effects they name, and end - that `ShoppingLoop`, `OutreachLoop` and
   `DeployAgent` implement, as the resources implement `ReceiptLedger`.
2. Theorems about what the operator's restraint gives commerce/agent when
   requests are dropped and queries fail.
3. Key rotation as an environment action of the resources.
