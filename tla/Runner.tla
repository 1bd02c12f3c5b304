------------------------------- MODULE Runner -------------------------------
(***************************************************************************)
(* POST /runner/v1/deploy of deploy/runner: the trust boundary between an  *)
(* agent that holds a receipt and the deployment of a service.             *)
(*                                                                         *)
(* Unlike the store's checkout, a receipt that does not validate leaves a  *)
(* row too, under the ids its header shows - whether or not it is genuine. *)
(***************************************************************************)
EXTENDS Naturals

CONSTANTS
    Requests,      \* HTTP deploy attempts
    Receipts,      \* receipt ids of genuine receipts
    Environments, Services, Commits,
    Claim,         \* Claim[r]: the target that receipt r commits to
    NoClaim,       \* a descriptor that is no TargetClaim
    AllowedEnvironments, AllowedServices,    \* config.rs
    ZeroId,        \* the id recorded for a receipt that does not parse
    NoRequest      \* a request that has not got past its header

Target == [environment : Environments, service : Services, commit : Commits]
RequestType == [target : Target, receipt : Receipts \cup {ZeroId}]

ASSUME RunnerAssumption ==
    /\ Claim \in [Receipts -> Target \cup {NoClaim}]
    /\ NoClaim \notin Target
    /\ ZeroId \notin Receipts
    /\ NoRequest \notin RequestType

VARIABLES
    consumed,   \* table consumed_receipts
    deploys,    \* table deploys, the audit trail
    executed,   \* what was deployed (the stub execution)
    age,        \* where each receipt stands against the freshness window
    pc, req, resp,
    dbFails     \* whether this is a behaviour in which queries may fail

tables == <<consumed, deploys>>
handlers == <<pc, req, resp>>
vars == <<tables, executed, age, handlers, dbFails>>

Awaiting == {"consume", "decide", "recordInvalid", "reject", "record"}
Over == {"answered", "dropped"}
Ages == {"future", "fresh", "stale"}

Row == [by : Requests, receipt : Receipts \cup {ZeroId}, target : Target,
        status : {"deployed", "rejected"}]
Execution == [by : Requests, receipt : Receipts, target : Target]

\* resp is the status a request is going to be answered with, final once its
\* pc is "answered".
TypeOK ==
    /\ consumed \subseteq Receipts
    /\ deploys \subseteq Row
    /\ executed \subseteq Execution
    /\ age \in [Receipts -> Ages]
    /\ pc \in [Requests -> {"idle"} \cup Awaiting \cup Over]
    /\ req \in [Requests -> RequestType \cup {NoRequest}]
    /\ resp \in [Requests -> {0, 200, 400, 401, 409, 500}]
    /\ dbFails \in BOOLEAN

Init ==
    /\ consumed = {}
    /\ deploys = {}
    /\ executed = {}
    /\ age \in [Receipts -> Ages]
    /\ pc = [q \in Requests |-> "idle"]
    /\ req = [q \in Requests |-> NoRequest]
    /\ resp = [q \in Requests |-> 0]
    /\ dbFails \in BOOLEAN

-----------------------------------------------------------------------------
(* The handler                                                             *)

Goto(q, await) ==
    /\ pc' = [pc EXCEPT ![q] = await]
    /\ UNCHANGED resp

Answer(q, code) ==
    /\ pc' = [pc EXCEPT ![q] = "answered"]
    /\ resp' = [resp EXCEPT ![q] = code]

\* validate() failed: record the failure, then answer with its status.
Invalid(q, code) ==
    /\ pc' = [pc EXCEPT ![q] = "recordInvalid"]
    /\ resp' = [resp EXCEPT ![q] = code]

Validates(r) ==
    /\ Claim[r] # NoClaim
    /\ age[r] = "fresh"

Requested(q) == req[q].target
Claimed(q) == Claim[req[q].receipt]

RowOf(q, target, status) ==
    [by |-> q, receipt |-> req[q].receipt, target |-> target, status |-> status]

\* The INSERT succeeds, or fails with or without its row.
Record(row) ==
    \/ deploys' = deploys \cup {row}
    \/ dbFails /\ UNCHANGED deploys

\* X-Maat-Receipt is absent or not UTF-8: no row.
RefuseHeader(q) ==
    /\ pc[q] = "idle"
    /\ Answer(q, 400)
    /\ UNCHANGED <<tables, executed, age, req, dbFails>>

\* The header is readable; what it shows of ids is peeked at first.
Arrive(q, target, r) ==
    /\ pc[q] = "idle"
    /\ req' = [req EXCEPT ![q] = [target |-> target, receipt |-> r]]
    /\ UNCHANGED <<tables, executed, age, dbFails>>

\* It is no receipt: the ids are all zeros.
ArriveMalformed(q, target) ==
    /\ Arrive(q, target, ZeroId)
    /\ Invalid(q, 400)

\* It parses, but another executor signed it or the signature is wrong.  The
\* id it shows may be that of a genuine receipt.
ArriveForged(q, target, r) ==
    /\ Arrive(q, target, r)
    /\ Invalid(q, 401)

ArriveGenuine(q, target, r) ==
    /\ Arrive(q, target, r)
    /\ \/ Validates(r) /\ Goto(q, "consume")
       \/ ~Validates(r) /\ Invalid(q, 400)

\* Slip: the row count of the INSERT is not looked at.
ConsumeReceipt_Unchecked(q) ==
    /\ pc[q] = "consume"
    /\ consumed' = consumed \cup {req[q].receipt}
    /\ Goto(q, "decide")
    /\ UNCHANGED <<deploys, executed, age, req, dbFails>>

ConsumeReceipt(q) ==
    /\ pc[q] = "consume"
    /\ req[q].receipt \notin consumed
    /\ consumed' = consumed \cup {req[q].receipt}
    /\ Goto(q, "decide")
    /\ UNCHANGED <<deploys, executed, age, req, dbFails>>

\* Slip: a replay is answered without its audit row.
RefuseReplay_Unrecorded(q) ==
    /\ pc[q] = "consume"
    /\ req[q].receipt \in consumed
    /\ Answer(q, 409)
    /\ UNCHANGED <<tables, executed, age, req, dbFails>>

RefuseReplay(q) ==
    /\ pc[q] = "consume"
    /\ req[q].receipt \in consumed
    /\ Invalid(q, 409)
    /\ UNCHANGED <<tables, executed, age, req, dbFails>>

ReplayStoreFails(q) ==
    /\ dbFails
    /\ pc[q] = "consume"
    /\ consumed' \in {consumed, consumed \cup {req[q].receipt}}
    /\ Invalid(q, 500)
    /\ UNCHANGED <<deploys, executed, age, req, dbFails>>

RecordInvalid(q) ==
    /\ pc[q] = "recordInvalid"
    /\ Record(RowOf(q, Requested(q), "rejected"))
    /\ Goto(q, "answered")
    /\ UNCHANGED <<consumed, executed, age, req, dbFails>>

\* Slip: only the commit is compared with the claim.
Permitted_CommitOnly(q) ==
    /\ Claimed(q).commit = Requested(q).commit
    /\ Requested(q).environment \in AllowedEnvironments
    /\ Requested(q).service \in AllowedServices

\* Environment, service and commit are those of the claim, and environment
\* and service are on the allow-lists.
Permitted(q) ==
    /\ Claimed(q) = Requested(q)
    /\ Requested(q).environment \in AllowedEnvironments
    /\ Requested(q).service \in AllowedServices

\* validate() returned Ok.  The comparisons and the stub execution follow
\* without an await.
Decide(q) ==
    /\ pc[q] = "decide"
    /\ \/ /\ Permitted(q)
          /\ executed' = executed \cup
                 {[by |-> q, receipt |-> req[q].receipt, target |-> Requested(q)]}
          /\ Goto(q, "record")
       \/ /\ ~Permitted(q)
          /\ UNCHANGED executed
          /\ Goto(q, "reject")
    /\ UNCHANGED <<tables, age, req, dbFails>>

\* rejected(): the row takes environment and service from the request, the
\* commit from the claim.
RejectedTarget(q) ==
    [environment |-> Requested(q).environment, service |-> Requested(q).service,
     commit |-> Claimed(q).commit]

RecordRejection(q) ==
    /\ pc[q] = "reject"
    /\ Record(RowOf(q, RejectedTarget(q), "rejected"))
    /\ Answer(q, 400)
    /\ UNCHANGED <<consumed, executed, age, req, dbFails>>

\* Slip: the failure of the INSERT is ignored here as it is elsewhere.
RecordDeploy_Ignored(q) ==
    /\ pc[q] = "record"
    /\ Record(RowOf(q, Requested(q), "deployed"))
    /\ Answer(q, 200)
    /\ UNCHANGED <<consumed, executed, age, req, dbFails>>

\* Only a row that is known to be there is answered with 200.
RecordDeploy(q) ==
    /\ pc[q] = "record"
    /\ \/ /\ deploys' = deploys \cup {RowOf(q, Requested(q), "deployed")}
          /\ Answer(q, 200)
       \/ /\ dbFails
          /\ Record(RowOf(q, Requested(q), "deployed"))
          /\ Answer(q, 500)
    /\ UNCHANGED <<consumed, executed, age, req, dbFails>>

\* The handler is dropped at its await; a query already sent may still run.
Drop(q) ==
    /\ pc[q] \in Awaiting
    /\ pc' = [pc EXCEPT ![q] = "dropped"]
    /\ \/ UNCHANGED tables
       \/ /\ pc[q] = "consume"
          /\ consumed' = consumed \cup {req[q].receipt}
          /\ UNCHANGED deploys
       \/ /\ \/ /\ pc[q] = "recordInvalid"
                /\ deploys' = deploys \cup {RowOf(q, Requested(q), "rejected")}
             \/ /\ pc[q] = "reject"
                /\ deploys' = deploys \cup {RowOf(q, RejectedTarget(q), "rejected")}
             \/ /\ pc[q] = "record"
                /\ deploys' = deploys \cup {RowOf(q, Requested(q), "deployed")}
          /\ UNCHANGED consumed
    /\ UNCHANGED <<executed, age, req, resp, dbFails>>

Tick(r) ==
    /\ \/ age[r] = "future" /\ age' = [age EXCEPT ![r] = "fresh"]
       \/ age[r] = "fresh" /\ age' = [age EXCEPT ![r] = "stale"]
    /\ UNCHANGED <<tables, executed, handlers, dbFails>>

Receive(q) ==
    \/ RefuseHeader(q)
    \/ \E t \in Target :
          \/ ArriveMalformed(q, t)
          \/ \E r \in Receipts : ArriveForged(q, t, r) \/ ArriveGenuine(q, t, r)

Handle(q) ==
    \/ ConsumeReceipt(q) \/ RefuseReplay(q) \/ ReplayStoreFails(q)
    \/ RecordInvalid(q) \/ Decide(q)
    \/ RecordRejection(q) \/ RecordDeploy(q)

Next ==
    \/ \E q \in Requests : Receive(q) \/ Handle(q) \/ Drop(q)
    \/ \E r \in Receipts : Tick(r)

Spec == Init /\ [][Next]_vars

-----------------------------------------------------------------------------
(* Properties                                                              *)

\* One receipt, one deployment, however often and by whomever it is shown -
\* and exactly of the target it commits to, on the allow-lists.
DeployedAsClaimed ==
    \A x \in executed :
        /\ x.target = Claim[x.receipt]
        /\ x.target.environment \in AllowedEnvironments
        /\ x.target.service \in AllowedServices
        /\ \A y \in executed : y.receipt = x.receipt => y = x

\* The records are true, whatever failed around them: a row that says deployed
\* stands for a deployment by its request, under that receipt, of that target,
\* and is the only such row; and 200 is only answered when that row is there.
RecordsAreTrue ==
    /\ \A t \in deploys :
          t.status = "deployed" =>
              /\ \E x \in executed :
                    x.by = t.by /\ x.receipt = t.receipt /\ x.target = t.target
              /\ \A u \in deploys :
                    u.status = "deployed" /\ u.receipt = t.receipt => u = t
    /\ \A q \in Requests :
          pc[q] = "answered" /\ resp[q] = 200 =>
              RowOf(q, Requested(q), "deployed") \in deploys

\* The module comment: validation failures - signature, freshness, replay -
\* produce audit rows like all other outcomes.  So as long as no
\* query fails, every request with a readable header that is answered has
\* exactly one row, and only the one that deployed says so.
EveryAttemptRecorded ==
    ~dbFails =>
        \A q \in Requests :
            pc[q] = "answered" /\ req[q] # NoRequest =>
                \E t \in deploys :
                    /\ t.by = q
                    /\ t.status = "deployed" <=> \E x \in executed : x.by = q
                    /\ \A u \in deploys : u.by = q => u = t

-----------------------------------------------------------------------------

Redemptions ==
    {[by |-> x.by, receipt |-> x.receipt, what |-> x.target] : x \in executed}

Ledger == INSTANCE ReceiptLedger
    WITH Attempts <- Requests,
         Authorises <- {<<r, Claim[r]>> : r \in Receipts},
         effects <- Redemptions

\* Every step of the runner is a step of the ledger or changes nothing in it.
ImplementsLedger == Ledger!Spec
=============================================================================
