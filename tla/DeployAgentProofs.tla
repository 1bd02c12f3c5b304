------------------------- MODULE DeployAgentProofs -------------------------
(***************************************************************************)
(* Theorems about deploy/runner, for any number of requests, receipts and  *)
(* targets, any claims and allow-lists, and every combination of faults;   *)
(* then about deploy/agent with its control plane, for any number of       *)
(* requests, goals, delegations and restarts, whatever the gateway and the *)
(* runner do.                                                              *)
(***************************************************************************)
EXTENDS DeployAgent, TLAPS

-----------------------------------------------------------------------------
(* The runner: typing                                                      *)

\* Where a handler has been past validate(), or is still in it.
Validated == {"consume", "decide", "reject", "record"}

\* What the request of a handler is known to be at each await: one that goes
\* on past the signature and the window shows a receipt with a TargetClaim.
HasRequest ==
    \A q \in Requests :
        /\ pc[q] = "idle" => req[q] = NoRequest
        /\ pc[q] \in Awaiting => req[q] \in RequestType
        /\ pc[q] \in Validated =>
              req[q].receipt \in Receipts /\ Claim[req[q].receipt] # NoClaim

Typed == TypeOK /\ HasRequest

LEMMA InitTyped == Init => Typed
BY RunnerAssumption DEF Init, Typed, TypeOK, HasRequest, Validated, Awaiting, Over

\* What a request or its claim can be a row of.
LEMMA RowsTyped ==
    ASSUME Typed, NEW q \in Requests, req[q] \in RequestType
    PROVE  /\ Requested(q) \in Target
           /\ \A w \in Target, s \in {"deployed", "rejected"} : RowOf(q, w, s) \in Row
           /\ req[q].receipt \in Receipts /\ Claim[req[q].receipt] # NoClaim =>
                 Claimed(q) \in Target /\ RejectedTarget(q) \in Target
BY RunnerAssumption
DEF Typed, TypeOK, RequestType, Requested, Claimed, RejectedTarget, Target, RowOf, Row

LEMMA ReceiveTyped ==
    ASSUME Typed, NEW q \in Requests, Receive(q)
    PROVE  Typed'
<1> USE DEF Typed, TypeOK, HasRequest, Validated, Awaiting, Over, tables, Goto,
            Answer, Invalid
<1>1. CASE RefuseHeader(q)
  BY <1>1 DEF RefuseHeader
<1>2. ASSUME NEW t \in Target, NEW r \in Receipts \cup {ZeroId}
      PROVE  [target |-> t, receipt |-> r] \in RequestType
  BY DEF RequestType
<1>3. ASSUME NEW t \in Target, ArriveMalformed(q, t)
      PROVE  Typed'
  BY <1>2, <1>3 DEF ArriveMalformed, Arrive
<1>4. ASSUME NEW t \in Target, NEW r \in Receipts, ArriveForged(q, t, r)
      PROVE  Typed'
  BY <1>2, <1>4 DEF ArriveForged, Arrive
<1>5. ASSUME NEW t \in Target, NEW r \in Receipts, ArriveGenuine(q, t, r)
      PROVE  Typed'
  BY <1>2, <1>5 DEF ArriveGenuine, Arrive, Validates
<1> QED
  BY <1>1, <1>3, <1>4, <1>5 DEF Receive

LEMMA HandleTyped ==
    ASSUME Typed, NEW q \in Requests, Handle(q)
    PROVE  Typed'
<1> USE DEF Typed, TypeOK, HasRequest, Validated, Awaiting, Over, tables, Goto,
            Answer, Invalid
<1>1. CASE ConsumeReceipt(q)
  BY <1>1 DEF ConsumeReceipt
<1>2. CASE RefuseReplay(q)
  BY <1>2 DEF RefuseReplay
<1>3. CASE ReplayStoreFails(q)
  BY <1>3 DEF ReplayStoreFails
<1>4. CASE RecordInvalid(q)
  BY <1>4, RowsTyped DEF RecordInvalid, Record
<1>5. CASE Decide(q)
  BY <1>5, RowsTyped DEF Decide, Execution
<1>6. CASE RecordRejection(q)
  BY <1>6, RowsTyped DEF RecordRejection, Record
<1>7. CASE RecordDeploy(q)
  BY <1>7, RowsTyped DEF RecordDeploy, Record
<1> QED
  BY <1>1, <1>2, <1>3, <1>4, <1>5, <1>6, <1>7 DEF Handle

LEMMA DropTyped ==
    ASSUME Typed, NEW q \in Requests, Drop(q)
    PROVE  Typed'
BY RowsTyped
DEF Drop, Typed, TypeOK, HasRequest, Validated, Awaiting, Over, tables

LEMMA TickTyped ==
    ASSUME Typed, NEW r \in Receipts, Tick(r)
    PROVE  Typed'
BY DEF Tick, Typed, TypeOK, HasRequest, Ages, tables, handlers

LEMMA NextTyped ==
    ASSUME Typed, [Next]_vars
    PROVE  Typed'
<1>1. CASE UNCHANGED vars
  BY <1>1 DEF vars, tables, handlers, Typed, TypeOK, HasRequest
<1>2. CASE Next
  BY <1>2, ReceiveTyped, HandleTyped, DropTyped, TickTyped DEF Next
<1> QED
  BY <1>1, <1>2

\* Every reachable state has its types: whatever a header shows and whichever
\* queries fail, what the handlers write into the tables are rows.
THEOREM TypeCorrect == Spec => []TypeOK
<1>1. Init => Typed
  BY InitTyped
<1>2. Typed /\ [Next]_vars => Typed'
  BY NextTyped
<1>3. Typed => TypeOK
  BY DEF Typed
<1> QED
  BY <1>1, <1>2, <1>3, PTL DEF Spec

-----------------------------------------------------------------------------
(* The inductive invariant                                                 *)

Deployed(q) == \E x \in executed : x.by = q

\* From the INSERT that consumes its receipt on, a request that may still
\* deploy, or has.
Took(q) == pc[q] \in {"decide", "reject", "record"} \/ Deployed(q)

TakenIsConsumed == \A q \in Requests : Took(q) => req[q].receipt \in consumed

OneTaker ==
    \A q, u \in Requests :
        Took(q) /\ Took(u) /\ req[q].receipt = req[u].receipt => q = u

\* Every deployment is what its request asked for and was permitted, and the
\* request is at the row of it, or gone; no request gets there without one.
DeploymentsAccounted ==
    /\ \A x \in executed :
          /\ x = [by |-> x.by, receipt |-> req[x.by].receipt,
                  target |-> Requested(x.by)]
          /\ Permitted(x.by)
          /\ pc[x.by] \in {"record"} \cup Over
    /\ \A q \in Requests : pc[q] = "record" => Deployed(q)

\* A row is the last thing its request does, and tells what it did.
RowsAccounted ==
    \A t \in deploys :
        /\ t = RowOf(t.by, t.target, t.status)
        /\ pc[t.by] \in Over
        /\ t.status = "deployed" <=> Deployed(t.by)
        /\ t.status = "deployed" => t.target = Requested(t.by)
        /\ \A u \in deploys : u.by = t.by => u = t

\* Without faults no answer goes out before its row is there, and a 200 never.
AnswersAccounted ==
    \A q \in Requests :
        /\ ~dbFails /\ pc[q] = "answered" /\ req[q] # NoRequest =>
              \E t \in deploys : t.by = q
        /\ resp[q] = 200 =>
              /\ pc[q] = "answered"
              /\ RowOf(q, Requested(q), "deployed") \in deploys

Redemption ==
    /\ TakenIsConsumed
    /\ OneTaker
    /\ DeploymentsAccounted
    /\ RowsAccounted
    /\ AnswersAccounted

LEMMA InitRedemption == Init => Redemption
BY DEF Init, Redemption, TakenIsConsumed, OneTaker, DeploymentsAccounted,
       RowsAccounted, AnswersAccounted, Took, Deployed, Over

LEMMA ReceiveRedemption ==
    ASSUME Typed, Redemption, NEW q \in Requests, Receive(q)
    PROVE  Redemption'
<1> USE DEF Typed, TypeOK, HasRequest, Redemption
<1>1. /\ pc[q] = "idle" /\ req[q] = NoRequest
      /\ pc'[q] \in {"answered", "consume", "recordInvalid"}
      /\ pc'[q] = "answered" => req'[q] = NoRequest
      /\ resp'[q] = resp[q] \/ resp'[q] \in {400, 401}
      /\ \A u \in Requests \ {q} :
            pc'[u] = pc[u] /\ req'[u] = req[u] /\ resp'[u] = resp[u]
      /\ UNCHANGED <<tables, executed, dbFails>>
  BY DEF Receive, RefuseHeader, ArriveMalformed, ArriveForged, ArriveGenuine,
         Arrive, Goto, Answer, Invalid
<1> USE DEF tables
<1>2. /\ \A x \in executed : x.by \in Requests \ {q}
      /\ \A t \in deploys : t.by \in Requests \ {q}
  BY <1>1 DEF DeploymentsAccounted, RowsAccounted, Execution, Row, Over
<1>3. \A u \in Requests : Deployed(u)' = Deployed(u) /\ ~Deployed(q)
  BY <1>1, <1>2 DEF Deployed
<1>4. \A u \in Requests : Took(u)' => Took(u) /\ u # q
  BY <1>1, <1>3 DEF Took
<1>5. TakenIsConsumed' /\ OneTaker'
  BY <1>1, <1>4 DEF TakenIsConsumed, OneTaker
<1>6. DeploymentsAccounted'
  BY <1>1, <1>2, <1>3 DEF DeploymentsAccounted, Permitted, Requested, Claimed
<1>7. RowsAccounted'
  BY <1>1, <1>2, <1>3 DEF RowsAccounted, RowOf, Requested
<1>8. AnswersAccounted'
  <2>1. resp'[q] # 200
    BY <1>1 DEF AnswersAccounted
  <2>2. \A u \in Requests \ {q} : UNCHANGED RowOf(u, Requested(u), "deployed")
    BY <1>1 DEF RowOf, Requested
  <2> QED
    BY <1>1, <2>1, <2>2 DEF AnswersAccounted
<1> QED
  BY <1>5, <1>6, <1>7, <1>8

\* What a handler has to keep to if it adds no deployment and no row.
LEMMA QuietStep ==
    ASSUME Typed, Redemption, NEW q \in Requests,
           UNCHANGED <<deploys, executed, req, dbFails>>,
           \A u \in Requests \ {q} : pc'[u] = pc[u] /\ resp'[u] = resp[u],
           pc[q] \in Awaiting,
           Took(q)' => Took(q),
           consumed \subseteq consumed',
           pc'[q] \in {"recordInvalid", "reject"} \cup Over,
           pc[q] = "record" => pc'[q] \in Over,
           pc'[q] = "answered" => dbFails,
           resp'[q] # 200
    PROVE  Redemption'
<1> USE DEF Typed, TypeOK, HasRequest, Redemption, Awaiting, Over
<1>1. /\ \A x \in executed : x.by \in Requests
      /\ \A t \in deploys : t.by \in Requests
  BY DEF Execution, Row
<1>2. \A u \in Requests : Deployed(u)' = Deployed(u)
  BY DEF Deployed
<1>3. \A u \in Requests : Took(u)' => Took(u)
  BY <1>2 DEF Took
<1>4. TakenIsConsumed' /\ OneTaker'
  BY <1>3 DEF TakenIsConsumed, OneTaker
<1>5. DeploymentsAccounted'
  BY <1>1, <1>2 DEF DeploymentsAccounted, Permitted, Requested, Claimed
<1>6. RowsAccounted'
  BY <1>1, <1>2 DEF RowsAccounted, RowOf, Requested
<1>7. AnswersAccounted'
  BY DEF AnswersAccounted, RowOf, Requested
<1> QED
  BY <1>4, <1>5, <1>6, <1>7

\* The INSERT that consumes a receipt makes its request the only taker.
LEMMA ConsumeRedemption ==
    ASSUME Typed, Redemption, NEW q \in Requests, ConsumeReceipt(q)
    PROVE  Redemption'
<1> USE DEF Typed, TypeOK, HasRequest, Redemption, Awaiting, Over
<1>1. /\ pc[q] = "consume"
      /\ pc' = [pc EXCEPT ![q] = "decide"]
      /\ req[q].receipt \notin consumed
      /\ consumed' = consumed \cup {req[q].receipt}
      /\ UNCHANGED <<deploys, executed, req, resp, dbFails>>
  BY DEF ConsumeReceipt, Goto
<1>2. /\ \A x \in executed : x.by \in Requests
      /\ \A t \in deploys : t.by \in Requests
  BY DEF Execution, Row
<1>3. \A u \in Requests : Deployed(u)' = Deployed(u)
  BY <1>1 DEF Deployed
<1>4. \A u \in Requests \ {q} : Took(u)' = Took(u)
  BY <1>1, <1>3 DEF Took
<1>5. \A u \in Requests \ {q} : Took(u) => req[u].receipt # req[q].receipt
  BY <1>1 DEF TakenIsConsumed
<1>6. TakenIsConsumed' /\ OneTaker'
  BY <1>1, <1>4, <1>5 DEF TakenIsConsumed, OneTaker
<1>7. DeploymentsAccounted'
  BY <1>1, <1>2, <1>3 DEF DeploymentsAccounted, Permitted, Requested, Claimed
<1>8. RowsAccounted'
  BY <1>1, <1>2, <1>3 DEF RowsAccounted, RowOf, Requested
<1>9. AnswersAccounted'
  BY <1>1 DEF AnswersAccounted, RowOf, Requested
<1> QED
  BY <1>6, <1>7, <1>8, <1>9

\* The decision: one deployment, by the request that took the receipt, of what
\* it asked for, or none and the request can never deploy.
LEMMA DecideRedemption ==
    ASSUME Typed, Redemption, NEW q \in Requests, Decide(q)
    PROVE  Redemption'
<1> USE DEF Typed, TypeOK, HasRequest, Redemption, Awaiting, Over
<1> DEFINE x == [by |-> q, receipt |-> req[q].receipt, target |-> Requested(q)]
<1>1. /\ pc[q] = "decide" /\ resp[q] # 200
      /\ UNCHANGED <<consumed, deploys, req, resp, dbFails>>
      /\ \A u \in Requests \ {q} : pc'[u] = pc[u]
  BY DEF Decide, Goto, tables, AnswersAccounted
<1>2. CASE ~Permitted(q)
  <2>1. pc'[q] = "reject" /\ UNCHANGED executed
    BY <1>2 DEF Decide, Goto
  <2> QED
    BY <1>1, <2>1, QuietStep DEF Took
<1>3. CASE Permitted(q)
  <2>1. pc'[q] = "record" /\ executed' = executed \cup {x}
    BY <1>3 DEF Decide, Goto
  <2>2. x.by = q /\ UNCHANGED x
    BY <1>1 DEF Requested
  <2>3. /\ \A y \in executed : y.by \in Requests \ {q}
        /\ \A t \in deploys : t.by \in Requests \ {q}
    BY <1>1 DEF Execution, Row, DeploymentsAccounted, RowsAccounted
  <2>4. /\ Deployed(q)'
        /\ \A u \in Requests \ {q} : Deployed(u)' = Deployed(u)
    BY <2>1, <2>2 DEF Deployed
  <2>5. Took(q) /\ \A u \in Requests : Took(u)' => Took(u)
    BY <1>1, <2>4 DEF Took
  <2>6. TakenIsConsumed' /\ OneTaker'
    BY <1>1, <2>5 DEF TakenIsConsumed, OneTaker
  <2>7. DeploymentsAccounted'
    <3>1. \A u \in Requests : Permitted(u)' = Permitted(u)
      BY <1>1 DEF Permitted, Requested, Claimed
    <3> QED
      BY <1>1, <1>3, <2>1, <2>2, <2>3, <2>4, <3>1 DEF DeploymentsAccounted, Requested
  <2>8. RowsAccounted'
    BY <1>1, <2>3, <2>4 DEF RowsAccounted, RowOf, Requested
  <2>9. AnswersAccounted'
    BY <1>1, <2>1 DEF AnswersAccounted, RowOf, Requested
  <2> QED
    BY <2>6, <2>7, <2>8, <2>9
<1> QED
  BY <1>2, <1>3

\* The audit row is the last thing a request does, and it does it once.
LEMMA RowRedemption ==
    ASSUME Typed, Redemption, NEW q \in Requests,
           NEW target, NEW status \in {"deployed", "rejected"},
           \/ pc[q] \in {"recordInvalid", "reject"} /\ status = "rejected"
           \/ pc[q] = "record" /\ status = "deployed" /\ target = Requested(q),
           deploys' = deploys \cup {RowOf(q, target, status)},
           \A u \in Requests \ {q} : pc'[u] = pc[u] /\ resp'[u] = resp[u],
           pc'[q] \in Over,
           resp'[q] = 200 => pc'[q] = "answered" /\ status = "deployed",
           UNCHANGED <<consumed, executed, req, dbFails>>
    PROVE  Redemption'
<1> USE DEF Typed, TypeOK, HasRequest, Redemption, Awaiting, Over
<1> DEFINE entry == RowOf(q, target, status)
<1>1. /\ entry.by = q /\ entry.status = status /\ entry.target = target
      /\ UNCHANGED entry
  BY DEF RowOf
<1>2. /\ \A x \in executed : x.by \in Requests
      /\ \A t \in deploys : t.by \in Requests \ {q}
  BY DEF Execution, Row, RowsAccounted
<1>3. \A u \in Requests : Deployed(u)' = Deployed(u)
  BY DEF Deployed
<1>4. status = "deployed" <=> Deployed(q)
  BY DEF DeploymentsAccounted, Deployed
<1>5. \A u \in Requests : Took(u)' => Took(u)
  BY <1>3 DEF Took
<1>6. TakenIsConsumed' /\ OneTaker'
  BY <1>5 DEF TakenIsConsumed, OneTaker
<1>7. DeploymentsAccounted'
  BY <1>2, <1>3 DEF DeploymentsAccounted, Permitted, Requested, Claimed
<1>8. RowsAccounted'
  <2>1. \A t \in deploys : UNCHANGED RowOf(t.by, t.target, t.status)
                            /\ UNCHANGED Requested(t.by)
    BY DEF RowOf, Requested
  <2>2. UNCHANGED Requested(q)
    BY DEF Requested
  <2> QED
    BY <1>1, <1>2, <1>3, <1>4, <2>1, <2>2 DEF RowsAccounted
<1>9. AnswersAccounted'
  <2>1. ASSUME NEW u \in Requests \ {q}
        PROVE  /\ pc'[u] = pc[u] /\ resp'[u] = resp[u] /\ req'[u] = req[u]
               /\ UNCHANGED RowOf(u, Requested(u), "deployed")
    BY DEF RowOf, Requested
  <2>2. entry \in deploys'
    OBVIOUS
  <2>3. resp'[q] = 200 => entry = RowOf(q, Requested(q), "deployed")'
    BY DEF RowOf, Requested
  <2> QED
    BY <1>1, <2>1, <2>2, <2>3 DEF AnswersAccounted
<1> QED
  BY <1>6, <1>7, <1>8, <1>9

LEMMA HandleRedemption ==
    ASSUME Typed, Redemption, NEW q \in Requests, Handle(q)
    PROVE  Redemption'
<1> USE DEF Goto, Answer, Invalid, tables, Awaiting, Over
<1>0. /\ pc \in [Requests -> {"idle"} \cup Awaiting \cup Over]
      /\ resp \in [Requests -> {0, 200, 400, 401, 409, 500}]
      /\ pc[q] \in Awaiting => resp[q] # 200
  BY DEF Typed, TypeOK, Redemption, AnswersAccounted
<1>1. CASE ConsumeReceipt(q)
  BY <1>1, ConsumeRedemption
<1>2. CASE RefuseReplay(q)
  BY <1>0, <1>2, QuietStep DEF RefuseReplay, Took, Deployed
<1>3. CASE ReplayStoreFails(q)
  BY <1>0, <1>3, QuietStep DEF ReplayStoreFails, Took, Deployed
<1>4. CASE RecordInvalid(q)
  <2>1. CASE deploys' = deploys \cup {RowOf(q, Requested(q), "rejected")}
    BY <1>0, <1>4, <2>1, RowRedemption DEF RecordInvalid
  <2>2. CASE dbFails /\ UNCHANGED deploys
    BY <1>0, <1>4, <2>2, QuietStep DEF RecordInvalid, Took, Deployed
  <2> QED
    BY <1>4, <2>1, <2>2 DEF RecordInvalid, Record
<1>5. CASE Decide(q)
  BY <1>5, DecideRedemption
<1>6. CASE RecordRejection(q)
  <2>1. CASE deploys' = deploys \cup {RowOf(q, RejectedTarget(q), "rejected")}
    BY <1>0, <1>6, <2>1, RowRedemption DEF RecordRejection
  <2>2. CASE dbFails /\ UNCHANGED deploys
    BY <1>0, <1>6, <2>2, QuietStep DEF RecordRejection, Took, Deployed
  <2> QED
    BY <1>6, <2>1, <2>2 DEF RecordRejection, Record
<1>7. CASE RecordDeploy(q)
  <2>1. CASE deploys' = deploys \cup {RowOf(q, Requested(q), "deployed")}
    BY <1>0, <1>7, <2>1, RowRedemption DEF RecordDeploy
  <2>2. CASE dbFails /\ UNCHANGED deploys /\ Answer(q, 500)
    BY <1>0, <1>7, <2>2, QuietStep DEF RecordDeploy, Took, Deployed
  <2> QED
    BY <1>7, <2>1, <2>2 DEF RecordDeploy, Record
<1> QED
  BY <1>1, <1>2, <1>3, <1>4, <1>5, <1>6, <1>7 DEF Handle

LEMMA DropRedemption ==
    ASSUME Typed, Redemption, NEW q \in Requests, Drop(q)
    PROVE  Redemption'
<1> USE DEF tables, Over, Awaiting
<1>0. /\ pc[q] \in Awaiting /\ resp[q] # 200
      /\ pc' = [pc EXCEPT ![q] = "dropped"]
      /\ pc \in [Requests -> {"idle"} \cup Awaiting \cup Over]
      /\ UNCHANGED <<executed, req, resp, dbFails>>
  BY DEF Drop, Typed, TypeOK, Redemption, AnswersAccounted
<1>1. CASE UNCHANGED deploys /\ consumed \subseteq consumed'
  BY <1>0, <1>1, QuietStep DEF Took, Deployed
<1>2. CASE UNCHANGED consumed /\ ~UNCHANGED deploys
  BY <1>0, <1>2, RowRedemption DEF Drop
<1> QED
  BY <1>1, <1>2 DEF Drop

LEMMA SameRedemption ==
    ASSUME Redemption, UNCHANGED <<tables, executed, handlers, dbFails>>
    PROVE  Redemption'
BY DEF tables, handlers, Redemption, TakenIsConsumed, OneTaker,
       DeploymentsAccounted, RowsAccounted, AnswersAccounted, Took, Deployed,
       RowOf, Permitted, Requested, Claimed

LEMMA NextRedemption ==
    ASSUME Typed, Redemption, [Next]_vars
    PROVE  Redemption'
<1>1. CASE UNCHANGED vars
  BY <1>1, SameRedemption DEF vars
<1>2. ASSUME NEW r \in Receipts, Tick(r)
      PROVE  Redemption'
  BY <1>2, SameRedemption DEF Tick
<1> QED
  BY <1>1, <1>2, ReceiveRedemption, HandleRedemption, DropRedemption DEF Next

\* The inductive invariant: at any time at most one request has taken a given
\* receipt, every deployment and every row is that request's, and no answer
\* gets ahead of its row unless a query failed.
THEOREM RedemptionCorrect == Spec => [](Typed /\ Redemption)
<1>1. Init => Typed /\ Redemption
  BY InitTyped, InitRedemption
<1>2. Typed /\ Redemption /\ [Next]_vars => (Typed /\ Redemption)'
  BY NextTyped, NextRedemption
<1> QED
  BY <1>1, <1>2, PTL DEF Spec

-----------------------------------------------------------------------------
(* What follows from it                                                    *)

LEMMA OneActor ==
    ASSUME Typed, Redemption
    PROVE  /\ \A x \in executed : /\ x.by \in Requests
                                   /\ x.receipt = req[x.by].receipt
                                   /\ x.target = Requested(x.by)
                                   /\ Took(x.by)
           /\ \A x, y \in executed : x.receipt = y.receipt => x = y
           /\ \A t \in deploys : t.by \in Requests /\ t.receipt = req[t.by].receipt
<1>1. ASSUME NEW x \in executed
      PROVE  /\ x.by \in Requests /\ x.receipt = req[x.by].receipt
             /\ x.target = Requested(x.by) /\ Took(x.by)
  BY DEF Typed, TypeOK, Execution, Redemption, DeploymentsAccounted, Took, Deployed
<1>2. ASSUME NEW x \in executed, NEW y \in executed, x.receipt = y.receipt
      PROVE  x = y
  <2>1. x.by = y.by
    BY <1>1, <1>2 DEF Redemption, OneTaker
  <2> QED
    BY <2>1 DEF Redemption, DeploymentsAccounted
<1>3. ASSUME NEW t \in deploys
      PROVE  t.by \in Requests /\ t.receipt = req[t.by].receipt
  BY DEF Typed, TypeOK, Row, Redemption, RowsAccounted, RowOf
<1> QED
  BY <1>1, <1>2, <1>3

\* No receipt stands behind two deployments, and every deployment is of what
\* its receipt commits to and of what the configuration allows.
THEOREM DeploysMatchClaims == Spec => []DeployedAsClaimed
<1>1. Typed /\ Redemption => DeployedAsClaimed
  <2> SUFFICES ASSUME Typed, Redemption, NEW x \in executed
               PROVE  /\ x.target = Claim[x.receipt]
                      /\ x.target.environment \in AllowedEnvironments
                      /\ x.target.service \in AllowedServices
                      /\ \A y \in executed : y.receipt = x.receipt => y = x
    BY DEF DeployedAsClaimed
  <2>1. Permitted(x.by)
    BY DEF Redemption, DeploymentsAccounted
  <2> QED
    BY <2>1, OneActor DEF Permitted, Requested, Claimed
<1> QED
  BY <1>1, RedemptionCorrect, PTL

\* A row that says deployed is true and alone under its receipt, and so is an
\* answer that says so - whichever INSERT failed, with or without its row.
THEOREM RecordsTellTheTruth == Spec => []RecordsAreTrue
<1>1. Typed /\ Redemption => RecordsAreTrue
  <2> SUFFICES ASSUME Typed, Redemption
               PROVE  RecordsAreTrue
    OBVIOUS
  <2>1. ASSUME NEW t \in deploys, t.status = "deployed"
        PROVE  \E x \in executed :
                  x.by = t.by /\ x.receipt = t.receipt /\ x.target = t.target
    <3>1. PICK x \in executed : x.by = t.by
      BY <2>1 DEF Redemption, RowsAccounted, Deployed
    <3> QED
      BY <2>1, <3>1, OneActor DEF Redemption, RowsAccounted
  <2>2. ASSUME NEW t \in deploys, NEW u \in deploys, t.status = "deployed",
               u.status = "deployed", u.receipt = t.receipt
        PROVE  u = t
    <3>1. Took(t.by) /\ Took(u.by)
      BY <2>2 DEF Redemption, RowsAccounted, Took
    <3>2. u.by = t.by
      BY <2>2, <3>1, OneActor DEF Redemption, OneTaker
    <3> QED
      BY <3>2 DEF Redemption, RowsAccounted
  <2>3. \A q \in Requests :
            pc[q] = "answered" /\ resp[q] = 200 =>
                RowOf(q, Requested(q), "deployed") \in deploys
    BY DEF Redemption, AnswersAccounted
  <2> QED
    BY <2>1, <2>2, <2>3 DEF RecordsAreTrue
<1> QED
  BY <1>1, RedemptionCorrect, PTL

\* Refused or not, each answered attempt has its one row in the audit trail as
\* long as the database works.
THEOREM AttemptsAreRecorded == Spec => []EveryAttemptRecorded
<1>1. Typed /\ Redemption => EveryAttemptRecorded
  <2> SUFFICES ASSUME Typed, Redemption, ~dbFails, NEW q \in Requests,
                      pc[q] = "answered", req[q] # NoRequest
               PROVE  \E t \in deploys :
                         /\ t.by = q
                         /\ t.status = "deployed" <=> \E x \in executed : x.by = q
                         /\ \A u \in deploys : u.by = q => u = t
    BY DEF EveryAttemptRecorded
  <2>1. PICK t \in deploys : t.by = q
    BY DEF Redemption, AnswersAccounted
  <2> QED
    BY <2>1 DEF Redemption, RowsAccounted, Deployed
<1> QED
  BY <1>1, RedemptionCorrect, PTL

-----------------------------------------------------------------------------
(* The runner implements the receipt ledger                                *)

Authority == {<<r, Claim[r]>> : r \in Receipts}

LEMMA ConsumeIsLedgerStep ==
    ASSUME NEW r \in Receipts, UNCHANGED executed,
           consumed' \in {consumed, consumed \cup {r}}
    PROVE  [Ledger!Next]_(Ledger!ledger)
<1>1. UNCHANGED Redemptions
  BY DEF Redemptions
<1>2. CASE UNCHANGED consumed
  BY <1>1, <1>2 DEF Ledger!ledger
<1>3. CASE r \notin consumed /\ consumed' = consumed \cup {r}
  BY <1>1, <1>3 DEF Ledger!Next, Ledger!Consume
<1> QED
  BY <1>2, <1>3

\* The one step that deploys redeems a receipt that is consumed, that nobody
\* else can have redeemed, and that commits to what is deployed.
LEMMA DecideIsLedgerStep ==
    ASSUME Typed, Redemption, NEW q \in Requests, Decide(q)
    PROVE  [Ledger!Next]_(Ledger!ledger)
<1> DEFINE r == req[q].receipt
           x == [by |-> q, receipt |-> r, target |-> Requested(q)]
           Entry(e) == [by |-> e.by, receipt |-> e.receipt, what |-> e.target]
<1>1. /\ UNCHANGED consumed
      /\ \/ UNCHANGED executed
         \/ Permitted(q) /\ executed' = executed \cup {x}
  BY DEF Decide, tables
<1>2. CASE UNCHANGED executed
  BY <1>1, <1>2 DEF Ledger!ledger, Redemptions
<1>3. CASE Permitted(q) /\ executed' = executed \cup {x}
  <2>1. /\ r \in Receipts /\ r \in consumed
        /\ Requested(q) = Claim[r]
    BY <1>3 DEF Decide, Typed, HasRequest, Validated, Redemption, TakenIsConsumed,
                Took, Permitted, Claimed
  <2>2. Entry(x) = [by |-> q, receipt |-> r, what |-> Claim[r]]
    BY <2>1
  <2>3. Redemptions = {Entry(e) : e \in executed}
        /\ Redemptions' = {Entry(e) : e \in executed'}
    BY DEF Redemptions
  <2>4. \A e \in executed : e.receipt # r
    <3> SUFFICES ASSUME NEW e \in executed, e.receipt = r PROVE FALSE
      OBVIOUS
    <3>1. Took(q) /\ pc[q] = "decide"
      BY DEF Decide, Took
    <3>2. e.by = q
      BY <3>1, OneActor DEF Redemption, OneTaker
    <3> QED
      BY <3>1, <3>2 DEF Redemption, DeploymentsAccounted, Over
  <2>5. \A e \in Redemptions : e.receipt # r
    BY <2>3, <2>4
  <2> HIDE DEF Entry
  <2>6. Redemptions' = Redemptions \cup {Entry(x)}
    BY <1>3, <2>3
  <2>7. <<r, Claim[r]>> \in Authority
    BY <2>1 DEF Authority
  <2>8. Ledger!Redeem(q, r, Claim[r])
    BY <1>1, <2>1, <2>2, <2>5, <2>6, <2>7 DEF Ledger!Redeem, Authority
  <2>9. \E pair \in Authority : pair[1] = r /\ Ledger!Redeem(q, r, pair[2])
    <3>1. <<r, Claim[r]>>[1] = r /\ <<r, Claim[r]>>[2] = Claim[r]
      OBVIOUS
    <3> QED
      BY <2>7, <2>8, <3>1
  <2> QED
    BY <2>1, <2>9 DEF Ledger!Next, Authority
<1> QED
  BY <1>1, <1>2, <1>3

\* The deploy handler, with every crash and every fault, does no more than the
\* ledger allows: consume a receipt, or redeem a consumed one once, for what
\* it commits to.
THEOREM RunnerImplementsLedger == Spec => ImplementsLedger
<1>1. Init => Ledger!Init
  BY DEF Init, Ledger!Init, Redemptions
<1>2. Typed /\ Redemption /\ [Next]_vars => [Ledger!Next]_(Ledger!ledger)
  <2> SUFFICES ASSUME Typed, Redemption, [Next]_vars
               PROVE  [Ledger!Next]_(Ledger!ledger)
    OBVIOUS
  <2>1. ASSUME UNCHANGED <<consumed, executed>>
        PROVE  [Ledger!Next]_(Ledger!ledger)
    BY <2>1 DEF Ledger!ledger, Redemptions
  <2>2. ASSUME NEW q \in Requests, pc[q] = "consume", UNCHANGED executed,
               consumed' \in {consumed, consumed \cup {req[q].receipt}}
        PROVE  [Ledger!Next]_(Ledger!ledger)
    BY <2>2, ConsumeIsLedgerStep DEF Typed, HasRequest, Validated
  <2>3. CASE UNCHANGED vars
    BY <2>1, <2>3 DEF vars, tables
  <2>4. ASSUME NEW r \in Receipts, Tick(r)
        PROVE  [Ledger!Next]_(Ledger!ledger)
    BY <2>1, <2>4 DEF Tick, tables
  <2>5. ASSUME NEW q \in Requests, Receive(q)
        PROVE  [Ledger!Next]_(Ledger!ledger)
    BY <2>1, <2>5 DEF Receive, RefuseHeader, ArriveMalformed, ArriveForged,
                      ArriveGenuine, Arrive, tables
  <2>6. ASSUME NEW q \in Requests, Handle(q)
        PROVE  [Ledger!Next]_(Ledger!ledger)
    <3>1. CASE ConsumeReceipt(q) \/ ReplayStoreFails(q)
      BY <2>2, <3>1 DEF ConsumeReceipt, ReplayStoreFails
    <3>2. CASE Decide(q)
      BY <3>2, DecideIsLedgerStep
    <3> QED
      BY <2>1, <2>6, <3>1, <3>2
      DEF Handle, RefuseReplay, RecordInvalid, RecordRejection, RecordDeploy, tables
  <2>7. ASSUME NEW q \in Requests, Drop(q)
        PROVE  [Ledger!Next]_(Ledger!ledger)
    BY <2>1, <2>2, <2>7 DEF Drop, tables
  <2> QED
    BY <2>3, <2>4, <2>5, <2>6, <2>7 DEF Next
<1> QED
  BY <1>1, <1>2, RedemptionCorrect, PTL DEF Spec, ImplementsLedger, Ledger!Spec

-----------------------------------------------------------------------------
(* The agent's control plane                                               *)

\* Where a loop of deploy/agent can stand: Steps of AgentControl.
Steps == {"verify", "send", "await"}

\* An accept that is under way carries a delegation.
Carries ==
    \A c \in Calls : call[c] \in {"acceptDb", "acceptMem"} => pasted[c] # None

\* Why taking turns is safe: a request in flight is alone and finds no loop,
\* so the phase that submit_goal has read still holds when it sets it, and a
\* loop keeps the phase Active and with it the delegation in place.
TurnsAreKept ==
    operator = "serial" =>
        /\ \A c, d \in Calls : call[c] \in InFlight /\ call[d] \in InFlight => c = d
        /\ \A c \in Calls : call[c] \in InFlight => phase # "Active"
        /\ \A c \in Calls : call[c] = "set" => phase \in {"Ready", "Idle"}
        /\ \A t \in Tasks : Live(t) => phase = "Active" /\ task[t] # "abort"

ControlInv ==
    /\ ControlTypeOK(Steps)
    /\ Carries
    /\ PhaseIsTrue
    /\ TurnsAreKept
    /\ SerialIsSafe

LEMMA InitControl == ControlInit => ControlInv
BY ControlAssumption DEF ControlInit, ControlInv, ControlTypeOK, Carries,
   PhaseIsTrue, TurnsAreKept, SerialIsSafe, Live, PhaseAtOpen, Phases, InFlight

\* What a request or a loop leaves alone stays true.
LEMMA SameControl ==
    ASSUME ControlInv, UNCHANGED controlVars
    PROVE  ControlInv'
BY DEF controlVars, inner, ControlInv, ControlTypeOK, Carries, PhaseIsTrue,
   TurnsAreKept, SerialIsSafe, Live

LEMMA CallControl ==
    ASSUME ControlInv, NEW c \in Calls, CallStep(c)
    PROVE  ControlInv'
<1> USE ControlAssumption DEF ControlInv, ControlTypeOK, Carries, PhaseIsTrue,
        TurnsAreKept, SerialIsSafe, Live, InFlight, Phases, CallAt, MayCall,
        inner
<1>1. CASE Refuse(c)
  BY <1>1 DEF Refuse
<1>2. ASSUME NEW d \in Delegations, BeginAccept(c, d)
      PROVE  ControlInv'
  BY <1>2 DEF BeginAccept, MayDelegate
<1>3. CASE AcceptPersist(c)
  BY <1>3 DEF AcceptPersist
<1>4. CASE AcceptApply(c)
  BY <1>4 DEF AcceptApply
<1>5. CASE BeginClear(c)
  BY <1>5 DEF BeginClear, MayDelegate
<1>6. CASE ClearPersist(c)
  BY <1>6 DEF ClearPersist
<1>7. CASE ClearApply(c)
  BY <1>7 DEF ClearApply
<1>8. CASE CheckPhase(c)
  BY <1>8 DEF CheckPhase
<1>9. CASE DropCall(c)
  BY <1>9 DEF DropCall
<1> QED
  BY <1>1, <1>2, <1>3, <1>4, <1>5, <1>6, <1>7, <1>8, <1>9 DEF CallStep

\* A goal is accepted: in turn, the phase is still what the check has seen.
LEMMA SubmitControl ==
    ASSUME ControlInv, NEW c \in Calls, NEW t \in Tasks, SetActive(c, t)
    PROVE  ControlInv'
BY DEF SetActive, ControlInv, ControlTypeOK, Carries, PhaseIsTrue, TurnsAreKept,
   SerialIsSafe, Live, InFlight, Phases, CallAt

LEMMA TaskControl ==
    ASSUME ControlInv, NEW t \in Tasks, TaskStep(t)
    PROVE  ControlInv'
<1> USE ControlAssumption DEF ControlInv, ControlTypeOK, Carries, PhaseIsTrue,
        TurnsAreKept, SerialIsSafe, Live, Phases, TaskAt, inner, Steps
<1>1. CASE Begin(t)
  BY <1>1 DEF Begin, ReadDelegation
<1>2. CASE Abort(t)
  BY <1>2 DEF Abort, AbortTask
<1>3. CASE End(t)
  BY <1>3 DEF End, EndTask
<1>4. ASSUME NEW from \in Steps, NEW to \in Steps \cup {"finish"}, Moves(t, from, to)
      PROVE  ControlInv'
  BY <1>4 DEF Moves
<1>5. CASE GatewayApproves(t) \/ GatewayRefuses(t) \/ Send(t) \/ Answered(t)
  BY <1>5, <1>4 DEF GatewayApproves, GatewayRefuses, Send, Answered
<1>6. CASE GiveUp(t)
  BY <1>6, <1>4 DEF GiveUp
<1> QED
  BY <1>1, <1>2, <1>3, <1>5, <1>6 DEF TaskStep

LEMMA RestartControl ==
    ASSUME ControlInv, Restart
    PROVE  ControlInv'
BY ControlAssumption DEF Restart, ControlInv, ControlTypeOK, Carries, PhaseIsTrue,
   TurnsAreKept, SerialIsSafe, Live, PhaseAtOpen, Phases, InFlight

LEMMA NextControl ==
    ASSUME ControlInv, [DeployNext]_deployVars
    PROVE  ControlInv'
<1>1. CASE Operate
  BY <1>1, CallControl DEF Operate
<1>2. CASE Submit
  BY <1>2, SubmitControl DEF Submit
<1>3. CASE RestartAgent
  BY <1>3, RestartControl DEF RestartAgent
<1>4. CASE RunnerStep \/ UNCHANGED deployVars
  BY <1>4, SameControl DEF RunnerStep, deployVars
<1> QED
  BY <1>1, <1>2, <1>3, <1>4, TaskControl DEF DeployNext

LEMMA ControlCorrect == DeploySpec => []ControlInv
<1>1. DeployInit => ControlInv
  BY InitControl DEF DeployInit
<1> QED
  BY <1>1, NextControl, PTL DEF DeploySpec

\* However requests, loops and restarts interleave, also with the phase checked
\* and set in two steps: Ready has a delegation, and while Active refuses
\* further goals a loop is there that will end it.
THEOREM DeployPhaseTellsTruth == DeploySpec => []PhaseIsTrue
<1>1. ControlInv => PhaseIsTrue
  BY DEF ControlInv
<1> QED
  BY <1>1, ControlCorrect, PTL

\* An operator who takes turns has one loop at a time, and it works with the
\* delegation in force, though requests are dropped and queries fail.
THEOREM TakingTurnsIsSafe == DeploySpec => []SerialIsSafe
<1>1. ControlInv => SerialIsSafe
  BY DEF ControlInv
<1> QED
  BY <1>1, ControlCorrect, PTL

-----------------------------------------------------------------------------
(* Goals and deployments                                                   *)

\* The request of a task has been sent with what the task had in hand, and the
\* task will never touch that again.
Sent(t) ==
    /\ t \in Tasks
    /\ task[t] \in {"await", "finish", "over"}
    /\ held[t] # None
    /\ req[t] = [target |-> asked[t], receipt |-> ticket[t]]

HandTypes ==
    /\ asked \in [Tasks -> Goals \cup {None}]
    /\ ticket \in [Tasks -> Receipts \cup {None}]
    /\ pc \in [Requests -> {"idle"} \cup Awaiting \cup Over]
    /\ req \in [Requests -> RequestType \cup {NoRequest}]

\* What a task must have in hand at each of its awaits.
HasInHand ==
    \A t \in Tasks :
        /\ task[t] \in Steps \cup {"start"} => asked[t] # None
        /\ task[t] \in Steps => held[t] # None
        /\ task[t] = "send" => ticket[t] # None

\* No request reaches the runner but those of the tasks.
OnlyTasksSend == \A q \in Requests : pc[q] # "idle" => Sent(q)

\* A deployment is what its request asked for.
ExecutedAsSent ==
    \A x \in executed :
        /\ x.by \in Requests
        /\ pc[x.by] # "idle"
        /\ x = [by |-> x.by, receipt |-> req[x.by].receipt,
                target |-> req[x.by].target]

AnswerInv ==
    /\ ControlInv
    /\ HandTypes
    /\ HasInHand
    /\ OnlyTasksSend
    /\ ExecutedAsSent

LEMMA InitAnswer == DeployInit => AnswerInv
BY InitControl DEF DeployInit, ControlInit, Init, AnswerInv, HandTypes, HasInHand,
   OnlyTasksSend, ExecutedAsSent, Sent, Steps

\* Steps of the API, of another process or of nobody: the tasks' hands and the
\* runner stay, tasks stay where they are or are over.
LEMMA QuietAnswer ==
    ASSUME AnswerInv, ControlInv', UNCHANGED <<vars, agentVars, held>>,
           \A t \in Tasks : task'[t] \in {task[t], "over"}
    PROVE  AnswerInv'
BY DEF AnswerInv, HandTypes, HasInHand, OnlyTasksSend, ExecutedAsSent, Sent, Steps,
   vars, tables, handlers, agentVars

LEMMA SubmitAnswer ==
    ASSUME AnswerInv, Submit
    PROVE  AnswerInv'
<1>1. ControlInv'
  BY SubmitControl DEF Submit, AnswerInv
<1>2. PICK c \in Calls, t \in Tasks, goal \in Goals :
          SetActive(c, t) /\ asked' = [asked EXCEPT ![t] = goal]
  BY DEF Submit
<1>3. /\ UNCHANGED <<pc, req, executed, ticket, held>>
      /\ task[t] = "none"
      /\ task' = [task EXCEPT ![t] = "start"]
  BY <1>2 DEF Submit, SetActive, vars, handlers
<1>4. goal # None
  BY DeployAssumption
<1> QED
  BY <1>1, <1>2, <1>3, <1>4 DEF AnswerInv, ControlInv, ControlTypeOK, HandTypes,
     HasInHand, OnlyTasksSend, ExecutedAsSent, Sent, Steps

LEMMA TaskAnswer ==
    ASSUME AnswerInv, NEW t \in Tasks, TaskStep(t)
    PROVE  AnswerInv'
<1> USE DeployAssumption
<1>1. ControlInv'
  BY TaskControl DEF AnswerInv
<1> USE DEF AnswerInv, ControlInv, ControlTypeOK, HandTypes, HasInHand, OnlyTasksSend,
        ExecutedAsSent, Sent, Steps, Moves, TaskAt
<1>2. CASE Begin(t)
  BY <1>1, <1>2 DEF Begin, ReadDelegation, vars, handlers, agentVars
<1>3. CASE Abort(t)
  BY <1>1, <1>3 DEF Abort, AbortTask, vars, handlers
<1>4. CASE End(t)
  BY <1>1, <1>4 DEF End, EndTask, vars, handlers, agentVars
<1>5. CASE GatewayApproves(t)
  BY <1>1, <1>5 DEF GatewayApproves, vars, handlers
<1>6. CASE GatewayRefuses(t)
  BY <1>1, <1>6 DEF GatewayRefuses, vars, handlers
<1>7. CASE Send(t)
  <2>1. /\ t \in Requests
        /\ asked[t] \in Target
        /\ ticket[t] \in Receipts
    BY <1>7 DEF Send
  <2>2. /\ req' = [req EXCEPT ![t] = [target |-> asked[t], receipt |-> ticket[t]]]
        /\ pc' \in {[pc EXCEPT ![t] = "consume"], [pc EXCEPT ![t] = "recordInvalid"]}
        /\ pc[t] = "idle"
        /\ UNCHANGED <<executed, asked, ticket, held>>
    BY <1>7 DEF Send, ArriveGenuine, Arrive, Goto, Invalid, agentVars
  <2>3. [target |-> asked[t], receipt |-> ticket[t]] \in RequestType
    BY <2>1 DEF RequestType
  <2> QED
    BY <1>1, <1>7, <2>1, <2>2, <2>3 DEF Send, Awaiting, Over
<1>8. CASE Answered(t)
  BY <1>1, <1>8 DEF Answered, vars, handlers
<1>9. CASE GiveUp(t)
  BY <1>1, <1>9 DEF GiveUp, vars, handlers
<1> QED
  BY <1>2, <1>3, <1>4, <1>5, <1>6, <1>7, <1>8, <1>9 DEF TaskStep

LEMMA RunnerAnswer ==
    ASSUME AnswerInv, RunnerStep
    PROVE  AnswerInv'
<1>1. ControlInv' /\ UNCHANGED <<task, held, asked, ticket>>
  BY SameControl DEF AnswerInv, RunnerStep, controlVars, agentVars
<1> USE DEF AnswerInv, HandTypes, HasInHand, OnlyTasksSend, ExecutedAsSent, Sent,
        Awaiting, Over
<1>2. ASSUME NEW q \in Requests, pc[q] # "idle", UNCHANGED <<req, executed>>,
             NEW to \in Awaiting \cup Over, pc' = [pc EXCEPT ![q] = to]
      PROVE  AnswerInv'
  BY <1>1, <1>2
<1>3. ASSUME NEW q \in Requests, Decide(q), ~UNCHANGED executed
      PROVE  AnswerInv'
  BY <1>1, <1>3 DEF Decide, Goto, Requested
<1>4. ASSUME NEW q \in Requests, Handle(q), UNCHANGED executed
      PROVE  AnswerInv'
  <2>1. \E to \in Awaiting \cup Over : pc' = [pc EXCEPT ![q] = to]
    BY <1>4 DEF Handle, ConsumeReceipt, RefuseReplay, ReplayStoreFails, RecordInvalid,
       Decide, RecordRejection, RecordDeploy, Goto, Invalid, Answer
  <2>2. pc[q] # "idle" /\ UNCHANGED req
    BY <1>4 DEF Handle, ConsumeReceipt, RefuseReplay, ReplayStoreFails, RecordInvalid,
       Decide, RecordRejection, RecordDeploy
  <2> QED
    BY <1>2, <1>4, <2>1, <2>2
<1>5. ASSUME NEW q \in Requests, Handle(q), ~UNCHANGED executed
      PROVE  Decide(q)
  BY <1>5 DEF Handle, ConsumeReceipt, RefuseReplay, ReplayStoreFails, RecordInvalid,
     RecordRejection, RecordDeploy
<1>6. ASSUME NEW q \in Requests, Drop(q)
      PROVE  AnswerInv'
  BY <1>2, <1>6 DEF Drop
<1>7. ASSUME NEW t \in Tasks, Tick(ticket[t])
      PROVE  AnswerInv'
  BY <1>1, <1>7 DEF Tick, handlers
<1> QED
  BY <1>3, <1>4, <1>5, <1>6, <1>7 DEF RunnerStep

LEMMA NextAnswer ==
    ASSUME AnswerInv, [DeployNext]_deployVars
    PROVE  AnswerInv'
<1>1. ControlInv'
  BY NextControl DEF AnswerInv
<1>2. CASE Operate
  <2>1. UNCHANGED <<task, held>>
    BY <1>2 DEF Operate, CallStep, Refuse, BeginAccept, AcceptPersist, AcceptApply,
       BeginClear, ClearPersist, ClearApply, CheckPhase, DropCall
  <2> QED
    BY <1>1, <1>2, <2>1, QuietAnswer DEF Operate
<1>3. CASE RestartAgent
  <2>1. \A t \in Tasks : task'[t] \in {task[t], "over"}
    BY <1>3 DEF RestartAgent, Restart
  <2>2. UNCHANGED held
    BY <1>3 DEF RestartAgent, Restart
  <2> QED
    BY <1>1, <1>3, <2>1, <2>2, QuietAnswer DEF RestartAgent
<1>4. CASE UNCHANGED deployVars
  BY <1>1, <1>4, QuietAnswer DEF deployVars, controlVars
<1> QED
  BY <1>2, <1>3, <1>4, SubmitAnswer, TaskAnswer, RunnerAnswer DEF DeployNext

\* Every deployment answers to one goal: of the target asked for, under the
\* receipt got for it while holding a delegation, and the only one of its task,
\* through lost answers, timeouts and restarts of the agent.
THEOREM EveryDeployAnswers == DeploySpec => []DeploysAnswerToGoals
<1>1. AnswerInv => DeploysAnswerToGoals
  <2> SUFFICES ASSUME AnswerInv, NEW x \in executed
               PROVE  /\ x.by \in Tasks
                      /\ x.target = asked[x.by]
                      /\ x.receipt = ticket[x.by]
                      /\ held[x.by] # None
                      /\ \A y \in executed : y.by = x.by => y = x
    BY DEF DeploysAnswerToGoals
  <2>1. Sent(x.by)
    BY DEF AnswerInv, OnlyTasksSend, ExecutedAsSent
  <2>2. req[x.by] = [target |-> asked[x.by], receipt |-> ticket[x.by]]
    BY <2>1 DEF Sent
  <2>3. \A y \in executed :
            y = [by |-> y.by, receipt |-> req[y.by].receipt, target |-> req[y.by].target]
    BY DEF AnswerInv, ExecutedAsSent
  <2>4. x.target = req[x.by].target /\ x.receipt = req[x.by].receipt
    BY <2>3
  <2> QED
    BY <2>1, <2>2, <2>3, <2>4 DEF Sent
<1> QED
  BY <1>1, InitAnswer, NextAnswer, PTL DEF DeploySpec

-----------------------------------------------------------------------------
(* What is reported                                                        *)

\* How the runner's answers stand to what it has done.
RunnerTruth ==
    /\ resp \in [Requests -> {0, 200, 400, 401, 409, 500}]
    /\ \A q \in Requests :
          /\ pc[q] = "record" => \E x \in executed : x.by = q
          /\ resp[q] = 200 =>
                /\ pc[q] = "answered"
                /\ \E x \in executed : x.by = q
                /\ RowOf(q, Requested(q), "deployed") \in deploys
    /\ \A x \in executed :
          \/ pc[x.by] \in {"record", "dropped"}
          \/ pc[x.by] = "answered" /\ resp[x.by] \in {200, 500}

\* How the log stands to the runner's answers.
ReportTruth ==
    /\ report \in [Tasks -> Reports]
    /\ \A t \in Tasks :
          /\ report[t] = "deployed" => pc[t] = "answered" /\ resp[t] = 200
          /\ report[t] = "rejected" => pc[t] = "answered" /\ resp[t] # 200
          /\ report[t] \in {"aborted", "refused"} =>
                pc[t] = "idle" /\ task[t] \in {"finish", "over"}

ReportInv ==
    /\ AnswerInv
    /\ RunnerTruth
    /\ ReportTruth

LEMMA InitReport == DeployInit => ReportInv
<1> SUFFICES ASSUME DeployInit PROVE RunnerTruth /\ ReportTruth
  BY InitAnswer DEF ReportInv
<1> QED
  BY DeployAssumption DEF DeployInit, Init, RunnerTruth, ReportTruth, Reports

\* The runner's own steps, and the one that takes a request in.
LEMMA HandleTruth ==
    ASSUME AnswerInv, RunnerTruth, NEW q \in Requests, Handle(q)
    PROVE  /\ RunnerTruth'
           /\ pc[q] \in Awaiting
           /\ \A p \in Requests \ {q} : pc'[p] = pc[p] /\ resp'[p] = resp[p]
<1> USE DEF AnswerInv, HandTypes, RunnerTruth, ExecutedAsSent, Awaiting, RowOf,
        Requested, Goto, Answer, Invalid, tables
<1>1. CASE ConsumeReceipt(q)
  BY <1>1 DEF ConsumeReceipt
<1>2. CASE RefuseReplay(q)
  BY <1>2 DEF RefuseReplay
<1>3. CASE ReplayStoreFails(q)
  BY <1>3 DEF ReplayStoreFails
<1>4. CASE RecordInvalid(q)
  BY <1>4 DEF RecordInvalid, Record
<1>5. CASE Decide(q)
  <2>1. pc[q] = "decide" /\ UNCHANGED <<resp, deploys, req>>
    BY <1>5 DEF Decide
  <2>2. CASE pc' = [pc EXCEPT ![q] = "reject"] /\ UNCHANGED executed
    BY <2>1, <2>2
  <2>3. ASSUME NEW x, x.by = q, executed' = executed \cup {x},
               pc' = [pc EXCEPT ![q] = "record"]
        PROVE  /\ RunnerTruth'
               /\ \A p \in Requests \ {q} : pc'[p] = pc[p] /\ resp'[p] = resp[p]
    <3>1. pc'[q] = "record" /\ \A p \in Requests \ {q} : pc'[p] = pc[p]
      BY <2>3
    <3>2. \A y \in executed' : y \in executed \/ y = x
      BY <2>3
    <3>3. x \in executed' /\ executed \subseteq executed'
      BY <2>3
    <3>4. ASSUME NEW p \in Requests, pc[p] = "record" \/ resp[p] = 200
          PROVE  \E y \in executed' : y.by = p
      <4>1. PICK y \in executed : y.by = p
        BY <3>4
      <4> QED
        BY <3>3, <4>1
    <3>5. ASSUME NEW p \in Requests, resp[p] = 200
          PROVE  p # q /\ RowOf(p, Requested(p), "deployed")' \in deploys'
      BY <2>1, <3>5
    <3>6. ASSUME NEW p \in Requests
          PROVE  /\ pc'[p] = "record" => \E y \in executed' : y.by = p
                 /\ resp'[p] = 200 =>
                      /\ pc'[p] = "answered"
                      /\ \E y \in executed' : y.by = p
                      /\ RowOf(p, Requested(p), "deployed")' \in deploys'
      <4>1. CASE p = q
        <5>1. resp'[p] # 200
          BY <2>1, <3>5, <4>1
        <5>2. \E y \in executed' : y.by = p
          BY <2>3, <3>3, <4>1
        <5> QED
          BY <5>1, <5>2
      <4>2. CASE p # q
        BY <2>1, <3>1, <3>4, <3>5, <4>2
      <4> QED
        BY <4>1, <4>2
    <3>7. \A y \in executed' :
              \/ pc'[y.by] \in {"record", "dropped"}
              \/ pc'[y.by] = "answered" /\ resp'[y.by] \in {200, 500}
      BY <2>1, <2>3, <3>1, <3>2
    <3> QED
      BY <2>1, <3>1, <3>6, <3>7
  <2>4. CASE ~Permitted(q)
    BY <1>5, <2>1, <2>2, <2>4 DEF Decide
  <2>5. CASE Permitted(q)
    <3> DEFINE x == [by |-> q, receipt |-> req[q].receipt, target |-> req[q].target]
    <3>1. executed' = executed \cup {x} /\ pc' = [pc EXCEPT ![q] = "record"]
      BY <1>5, <2>5 DEF Decide
    <3>2. x.by = q
      OBVIOUS
    <3> HIDE DEF x
    <3> QED
      BY <2>1, <2>3, <3>1, <3>2
  <2> QED
    BY <2>4, <2>5
<1>6. CASE RecordRejection(q)
  BY <1>6 DEF RecordRejection, Record
<1>7. CASE RecordDeploy(q)
  BY <1>7 DEF RecordDeploy, Record
<1> QED
  BY <1>1, <1>2, <1>3, <1>4, <1>5, <1>6, <1>7 DEF Handle

LEMMA DropTruth ==
    ASSUME AnswerInv, RunnerTruth, NEW q \in Requests, Drop(q)
    PROVE  /\ RunnerTruth'
           /\ pc[q] \in Awaiting
           /\ UNCHANGED resp
           /\ \A p \in Requests \ {q} : pc'[p] = pc[p]
BY DEF AnswerInv, HandTypes, RunnerTruth, ExecutedAsSent, Awaiting, RowOf, Requested,
   Drop, tables

LEMMA RunnerReport ==
    ASSUME ReportInv, RunnerStep
    PROVE  ReportInv'
<1>1. AnswerInv'
  BY RunnerAnswer DEF ReportInv
<1>2. UNCHANGED <<task, report>>
  BY DEF RunnerStep, controlVars, agentVars
<1>3. ASSUME NEW q \in Requests, RunnerTruth', pc[q] \in Awaiting,
             \A p \in Requests \ {q} : pc'[p] = pc[p] /\ resp'[p] = resp[p]
      PROVE  ReportInv'
  <2>1. \A t \in Tasks : t \in Requests
    BY DeployAssumption
  <2>2. ReportTruth'
    BY <1>2, <1>3, <2>1 DEF ReportInv, ReportTruth, Awaiting
  <2> QED
    BY <1>1, <1>3, <2>2 DEF ReportInv
<1>4. ASSUME NEW q \in Requests, Handle(q)
      PROVE  ReportInv'
  BY <1>3, <1>4, HandleTruth DEF ReportInv
<1>5. ASSUME NEW q \in Requests, Drop(q)
      PROVE  ReportInv'
  BY <1>3, <1>5, DropTruth DEF ReportInv
<1>6. ASSUME NEW t \in Tasks, Tick(ticket[t])
      PROVE  ReportInv'
  BY <1>1, <1>2, <1>6 DEF Tick, tables, handlers, ReportInv, RunnerTruth, ReportTruth,
     RowOf, Requested
<1> QED
  BY <1>4, <1>5, <1>6 DEF RunnerStep

LEMMA TaskReport ==
    ASSUME ReportInv, NEW t \in Tasks, TaskStep(t)
    PROVE  ReportInv'
<1>1. AnswerInv' /\ t \in Requests
  BY TaskAnswer, DeployAssumption DEF ReportInv
<1>2. UNCHANGED vars => RunnerTruth'
  BY DEF ReportInv, RunnerTruth, vars, tables, handlers, RowOf, Requested
<1> USE DEF ReportInv, AnswerInv, ControlInv, ControlTypeOK, OnlyTasksSend, Sent,
        ReportTruth, Reports, Moves, TaskAt
<1>3. CASE Begin(t)
  BY <1>1, <1>2, <1>3 DEF Begin, ReadDelegation, vars, handlers, agentVars
<1>11. ASSUME UNCHANGED vars, pc[t] = "idle", NEW outcome \in {"aborted", "refused"},
             report' = [report EXCEPT ![t] = outcome], task'[t] \in {"finish", "over"},
             \A u \in Tasks \ {t} : task'[u] = task[u]
      PROVE  ReportInv'
  <2>1. UNCHANGED <<pc, resp>>
    BY <1>11 DEF vars, handlers
  <2>2. ReportTruth'
    BY <1>11, <2>1
  <2> QED
    BY <1>1, <1>2, <1>11, <2>2
<1>4. CASE Abort(t)
  <2>1. pc[t] = "idle"
    BY <1>1, <1>4 DEF Abort, AbortTask
  <2> QED
    BY <1>4, <1>11, <2>1 DEF Abort, AbortTask
<1>5. CASE End(t)
  BY <1>1, <1>2, <1>5 DEF End, EndTask, vars, handlers, agentVars
<1>6. CASE GatewayApproves(t)
  BY <1>1, <1>2, <1>6 DEF GatewayApproves, vars, handlers
<1>7. CASE GatewayRefuses(t)
  <2>1. pc[t] = "idle"
    BY <1>1, <1>7 DEF GatewayRefuses
  <2> QED
    BY <1>7, <1>11, <2>1 DEF GatewayRefuses, Reported
<1>8. CASE Send(t)
  <2>1. /\ pc[t] = "idle"
        /\ req' = [req EXCEPT ![t] = [target |-> asked[t], receipt |-> ticket[t]]]
        /\ UNCHANGED <<executed, deploys, report>>
        /\ \/ pc' = [pc EXCEPT ![t] = "consume"] /\ UNCHANGED resp
           \/ /\ pc' = [pc EXCEPT ![t] = "recordInvalid"]
              /\ resp' = [resp EXCEPT ![t] = 400]
    BY <1>8 DEF Send, ArriveGenuine, Arrive, Goto, Invalid, agentVars, tables
  <2>2. RunnerTruth'
    <3>1. \A x \in executed : x.by # t
      BY <2>1 DEF ExecutedAsSent
    <3>2. \A q \in Requests \ {t} :
              /\ pc'[q] = pc[q] /\ resp'[q] = resp[q]
              /\ Requested(q)' = Requested(q)
              /\ RowOf(q, Requested(q), "deployed")' = RowOf(q, Requested(q), "deployed")
      BY <2>1 DEF RunnerTruth, HandTypes, RowOf, Requested
    <3>3. /\ pc'[t] \in {"consume", "recordInvalid"}
          /\ resp'[t] # 200
          /\ resp' \in [Requests -> {0, 200, 400, 401, 409, 500}]
      BY <1>1, <2>1 DEF RunnerTruth, HandTypes
    <3> HIDE DEF ReportTruth, OnlyTasksSend, ControlTypeOK, ControlInv
    <3> QED
      BY <2>1, <3>1, <3>2, <3>3 DEF RunnerTruth, ExecutedAsSent
  <2>3. ReportTruth'
    <3>1. \A u \in Tasks \ {t} : pc'[u] = pc[u] /\ resp'[u] = resp[u] /\ task'[u] = task[u]
      BY <1>1, <1>8, <2>1, DeployAssumption DEF Send, HandTypes, RunnerTruth
    <3>2. report[t] \notin {"deployed", "rejected", "aborted", "refused"}
      BY <1>8, <2>1 DEF Send
    <3> HIDE DEF OnlyTasksSend, ControlTypeOK, ControlInv, AnswerInv
    <3> QED
      BY <2>1, <3>1, <3>2
  <2> QED
    BY <1>1, <2>2, <2>3
<1>9. CASE Answered(t)
  BY <1>1, <1>2, <1>9 DEF Answered, Reported, vars, handlers
<1>10. CASE GiveUp(t)
  BY <1>1, <1>2, <1>10 DEF GiveUp, Reported, vars, handlers
<1> QED
  BY <1>3, <1>4, <1>5, <1>6, <1>7, <1>8, <1>9, <1>10 DEF TaskStep

LEMMA NextReport ==
    ASSUME ReportInv, [DeployNext]_deployVars
    PROVE  ReportInv'
<1>1. AnswerInv'
  BY NextAnswer DEF ReportInv
<1>2. ASSUME UNCHANGED <<vars, report>>,
             \A t \in Tasks : task'[t] = task[t] \/ task'[t] = "over" \/ task[t] = "none"
      PROVE  ReportInv'
  BY <1>1, <1>2 DEF ReportInv, RunnerTruth, ReportTruth, vars, tables, handlers, RowOf,
     Requested
<1>3. CASE Operate
  <2>1. UNCHANGED task
    BY <1>3 DEF Operate, CallStep, Refuse, BeginAccept, AcceptPersist, AcceptApply,
       BeginClear, ClearPersist, ClearApply, CheckPhase, DropCall
  <2> QED
    BY <1>2, <1>3, <2>1 DEF Operate, agentVars
<1>4. CASE Submit
  <2>1. \A t \in Tasks : task'[t] = task[t] \/ task[t] = "none"
    BY <1>4 DEF Submit, SetActive, ReportInv, AnswerInv, ControlInv, ControlTypeOK
  <2> QED
    BY <1>2, <1>4, <2>1 DEF Submit
<1>5. CASE RestartAgent
  <2>1. \A t \in Tasks : task'[t] \in {task[t], "over"}
    BY <1>5 DEF RestartAgent, Restart
  <2> QED
    BY <1>2, <1>5, <2>1 DEF RestartAgent, agentVars
<1>6. CASE UNCHANGED deployVars
  BY <1>2, <1>6 DEF deployVars, controlVars, agentVars
<1> QED
  BY <1>3, <1>4, <1>5, <1>6, TaskReport, RunnerReport DEF DeployNext

\* What the activity log says of a goal is true and stays so: "deployed" stands
\* for a deployment and its row, and where nothing was deployed according to a
\* report other than a 500 or a lost answer, nothing was and nothing will be.
THEOREM ReportsTellTruth == DeploySpec => []ReportsAreTrue
<1>1. ReportInv => ReportsAreTrue
  <2> SUFFICES ASSUME ReportInv, NEW t \in Tasks
               PROVE  /\ report[t] = "deployed" =>
                            /\ \E x \in executed : x.by = t
                            /\ RowOf(t, asked[t], "deployed") \in deploys
                      /\ \/ report[t] \in {"aborted", "refused"}
                         \/ report[t] = "rejected" /\ resp[t] # 500
                         => ~\E x \in executed : x.by = t
    BY DEF ReportsAreTrue
  <2>1. t \in Requests
    BY DeployAssumption
  <2>2. pc[t] # "idle" => Requested(t) = asked[t]
    <3>1. pc[t] # "idle" => req[t] = [target |-> asked[t], receipt |-> ticket[t]]
      BY <2>1 DEF ReportInv, AnswerInv, OnlyTasksSend, Sent
    <3> QED
      BY <3>1 DEF Requested
  <2>3. report[t] = "deployed" =>
            /\ \E x \in executed : x.by = t
            /\ RowOf(t, asked[t], "deployed") \in deploys
    BY <2>1, <2>2 DEF ReportInv, ReportTruth, RunnerTruth
  <2>4. ASSUME NEW x \in executed, x.by = t
        PROVE  /\ report[t] \notin {"aborted", "refused"}
               /\ report[t] = "rejected" => resp[t] = 500
    BY <2>4 DEF ReportInv, ReportTruth, RunnerTruth
  <2> QED
    BY <2>3, <2>4
<1> QED
  BY <1>1, InitReport, NextReport, PTL DEF DeploySpec

-----------------------------------------------------------------------------
(* The runner under the agent is the runner                                *)

LEMMA AgentStepIsRunnerStep ==
    ASSUME AnswerInv, [DeployNext]_deployVars
    PROVE  [Next]_vars
<1>1. CASE UNCHANGED vars
  BY <1>1
<1>2. ASSUME NEW t \in Tasks, Send(t)
      PROVE  Next
  <2>1. t \in Requests /\ asked[t] \in Target /\ ticket[t] \in Receipts
    BY <1>2, DeployAssumption DEF Send, Moves, AnswerInv, HandTypes, HasInHand, Steps
  <2>2. Receive(t)
    BY <1>2, <2>1 DEF Send, Receive
  <2> QED
    BY <2>1, <2>2 DEF Next
<1>3. CASE RunnerStep
  <2>1. ASSUME NEW t \in Tasks, task[t] = "send"
        PROVE  ticket[t] \in Receipts
    BY <2>1 DEF AnswerInv, HandTypes, HasInHand, Steps
  <2> QED
    BY <1>3, <2>1 DEF RunnerStep, Next
<1>4. CASE \E t \in Tasks : TaskStep(t)
  BY <1>1, <1>2, <1>4
  DEF TaskStep, Begin, Abort, GatewayApproves, GatewayRefuses, Answered, GiveUp, End
<1> QED
  BY <1>1, <1>3, <1>4 DEF DeployNext, deployVars, Operate, Submit, RestartAgent

\* Whatever the agent, its operator and the gateway do, the runner sees only
\* what it is specified for: all that is proved of Spec holds here too.
THEOREM AgentRunsRunner == DeploySpec => Spec
<1>1. DeployInit => Init
  BY DEF DeployInit
<1>2. AnswerInv /\ [DeployNext]_deployVars => [Next]_vars
  BY AgentStepIsRunnerStep
<1>3. DeployInit => AnswerInv
  BY InitAnswer
<1>4. AnswerInv /\ [DeployNext]_deployVars => AnswerInv'
  BY NextAnswer
<1> QED
  BY <1>1, <1>2, <1>3, <1>4, PTL DEF DeploySpec, Spec

AgentTypes ==
    /\ issued \subseteq Receipts
    /\ report \in [Tasks -> Reports]

LEMMA NextAgentTypes ==
    ASSUME AgentTypes, [DeployNext]_deployVars
    PROVE  AgentTypes'
<1> USE DEF AgentTypes, Reports, agentVars
<1>1. CASE UNCHANGED <<issued, report>>
  BY <1>1
<1>2. ASSUME NEW t \in Tasks, TaskStep(t)
      PROVE  AgentTypes'
  BY <1>1, <1>2 DEF TaskStep, Begin, Abort, GatewayApproves, GatewayRefuses, Send,
                    Answered, GiveUp, End, Reported
<1> QED
  BY <1>1, <1>2 DEF DeployNext, deployVars, Operate, Submit, RestartAgent, RunnerStep

\* Agent, gateway and runner together keep their types, however the loops of
\* overlapping goals interleave with the API and the runner's handlers.
THEOREM DeployTypeCorrect == DeploySpec => []DeployTypeOK
<1>1. DeployInit => AgentTypes
  BY DEF DeployInit, AgentTypes, Reports
<1>2. AgentTypes /\ [DeployNext]_deployVars => AgentTypes'
  BY NextAgentTypes
<1>3. DeployInit => AnswerInv
  BY InitAnswer
<1>4. AnswerInv /\ [DeployNext]_deployVars => AnswerInv'
  BY NextAnswer
<1>5. AgentTypes /\ AnswerInv /\ TypeOK => DeployTypeOK
  BY DEF AgentTypes, AnswerInv, ControlInv, HandTypes, DeployTypeOK, Steps
<1> QED
  BY <1>1, <1>2, <1>3, <1>4, <1>5, AgentRunsRunner, TypeCorrect, PTL DEF DeploySpec
=============================================================================
