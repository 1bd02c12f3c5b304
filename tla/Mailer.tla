------------------------------- MODULE Mailer -------------------------------
(***************************************************************************)
(* POST /mailer/v1/send of email-outreach/mailer: the trust boundary       *)
(* between an agent that holds a receipt and the people who get mail.      *)
(*                                                                         *)
(* A receipt commits to a list of recipients and to the hash of the body.  *)
(* The handler compares the lists sorted, so it is the multiset of the     *)
(* recipients that counts, and only the hash of the body.                  *)
(***************************************************************************)
EXTENDS Naturals, FiniteSets, Sequences

CONSTANTS
    Requests,      \* HTTP send attempts
    Receipts,      \* receipt ids of genuine receipts
    Addresses,     \* what a request or a claim may name as a recipient
    Lists,         \* the recipient lists that occur
    Bodies, Hashes,
    HashOf,        \* hex_digest: HashOf[b] is the hash of body b
    Claim,         \* Claim[r]: the recipients and hash receipt r commits to
    NoClaim,       \* a descriptor that is no RecipientClaim
    AllowedAddresses,   \* well-formed, in a domain of config.rs's allow-list
    ZeroId,        \* the id recorded for a receipt that does not parse
    NoRequest      \* a request that has not got past its header

Content == [recipients : Lists, hash : Hashes]
RequestType == [recipients : Lists, body : Bodies,
                receipt : Receipts \cup {ZeroId}, genuine : BOOLEAN]

ASSUME MailerAssumption ==
    /\ Lists \subseteq Seq(Addresses)
    /\ HashOf \in [Bodies -> Hashes]
    /\ Claim \in [Receipts -> Content \cup {NoClaim}]
    /\ NoClaim \notin Content
    /\ ZeroId \notin Receipts
    /\ NoRequest \notin RequestType

VARIABLES
    consumed,   \* table consumed_receipts
    sends,      \* table sends, the audit trail
    mail,       \* what was sent (the stub-send)
    age,        \* where each receipt stands against the freshness window
    pc, req, resp,
    dbFails     \* whether this is a behaviour in which queries may fail

tables == <<consumed, sends>>
handlers == <<pc, req, resp>>
vars == <<tables, mail, age, handlers, dbFails>>

Awaiting == {"consume", "decide", "recordInvalid", "reject", "record"}
Over == {"answered", "dropped"}
Ages == {"future", "fresh", "stale"}

Row == [by : Requests, receipt : Receipts \cup {ZeroId}, content : Content,
        status : {"sent", "rejected"}]
Mail == [by : Requests, receipt : Receipts, recipients : Lists, body : Bodies]

\* resp is the status a request is going to be answered with, final once its
\* pc is "answered".
TypeOK ==
    /\ consumed \subseteq Receipts
    /\ sends \subseteq Row
    /\ mail \subseteq Mail
    /\ age \in [Receipts -> Ages]
    /\ pc \in [Requests -> {"idle"} \cup Awaiting \cup Over]
    /\ req \in [Requests -> RequestType \cup {NoRequest}]
    /\ resp \in [Requests -> {0, 200, 400, 401, 409, 500}]
    /\ dbFails \in BOOLEAN

Init ==
    /\ consumed = {}
    /\ sends = {}
    /\ mail = {}
    /\ age \in [Receipts -> Ages]
    /\ pc = [q \in Requests |-> "idle"]
    /\ req = [q \in Requests |-> NoRequest]
    /\ resp = [q \in Requests |-> 0]
    /\ dbFails \in BOOLEAN

-----------------------------------------------------------------------------
(* The handler                                                             *)

Goto(q, await) ==
    /\ pc' = [pc EXCEPT ![q] = await]
    /\ UNCHANGED resp

Answer(q, code) ==
    /\ pc' = [pc EXCEPT ![q] = "answered"]
    /\ resp' = [resp EXCEPT ![q] = code]

\* validate() failed: record the failure, then answer with its status.
Invalid(q, code) ==
    /\ pc' = [pc EXCEPT ![q] = "recordInvalid"]
    /\ resp' = [resp EXCEPT ![q] = code]

Validates(r) ==
    /\ Claim[r] # NoClaim
    /\ age[r] = "fresh"

Claimed(q) == Claim[req[q].receipt]
Requested(q) == [recipients |-> req[q].recipients, hash |-> HashOf[req[q].body]]

RowOf(q, content, status) ==
    [by |-> q, receipt |-> req[q].receipt, content |-> content, status |-> status]

\* The INSERT succeeds, or fails with or without its row.
Record(row) ==
    \/ sends' = sends \cup {row}
    \/ dbFails /\ UNCHANGED sends

\* X-Maat-Receipt is absent or not UTF-8: no row.
RefuseHeader(q) ==
    /\ pc[q] = "idle"
    /\ Answer(q, 400)
    /\ UNCHANGED <<tables, mail, age, req, dbFails>>

\* The header is readable; what it shows of ids is peeked at first.
Arrive(q, recipients, body, r, genuine) ==
    /\ pc[q] = "idle"
    /\ req' = [req EXCEPT ![q] = [recipients |-> recipients, body |-> body,
                                  receipt |-> r, genuine |-> genuine]]
    /\ UNCHANGED <<tables, mail, age, dbFails>>

\* It is no receipt: the ids are all zeros.
ArriveMalformed(q, recipients, body) ==
    /\ Arrive(q, recipients, body, ZeroId, FALSE)
    /\ Invalid(q, 400)

\* Slip: the signature is checked after the receipt has been consumed.
ArriveForged_Consumed(q, recipients, body, r) ==
    /\ Arrive(q, recipients, body, r, FALSE)
    /\ Goto(q, "consume")

\* It parses, but another executor signed it or the signature is wrong.  The
\* id it shows may be that of a genuine receipt.
ArriveForged(q, recipients, body, r) ==
    /\ Arrive(q, recipients, body, r, FALSE)
    /\ Invalid(q, 401)

ArriveGenuine(q, recipients, body, r) ==
    /\ Arrive(q, recipients, body, r, TRUE)
    /\ \/ Validates(r) /\ Goto(q, "consume")
       \/ ~Validates(r) /\ Invalid(q, 400)

\* Slip: the row count of the INSERT is not looked at.
ConsumeReceipt_Unchecked(q) ==
    /\ pc[q] = "consume"
    /\ consumed' = consumed \cup {req[q].receipt}
    /\ Goto(q, "decide")
    /\ UNCHANGED <<sends, mail, age, req, dbFails>>

ConsumeReceipt(q) ==
    /\ pc[q] = "consume"
    /\ req[q].receipt \notin consumed
    /\ consumed' = consumed \cup {req[q].receipt}
    /\ Goto(q, "decide")
    /\ UNCHANGED <<sends, mail, age, req, dbFails>>

\* Slip: a replay is answered without its audit row.
RefuseReplay_Unrecorded(q) ==
    /\ pc[q] = "consume"
    /\ req[q].receipt \in consumed
    /\ Answer(q, 409)
    /\ UNCHANGED <<tables, mail, age, req, dbFails>>

RefuseReplay(q) ==
    /\ pc[q] = "consume"
    /\ req[q].receipt \in consumed
    /\ Invalid(q, 409)
    /\ UNCHANGED <<tables, mail, age, req, dbFails>>

ReplayStoreFails(q) ==
    /\ dbFails
    /\ pc[q] = "consume"
    /\ consumed' \in {consumed, consumed \cup {req[q].receipt}}
    /\ Invalid(q, 500)
    /\ UNCHANGED <<sends, mail, age, req, dbFails>>

\* The row of a receipt that did not validate shows what was asked for.
RecordInvalid(q) ==
    /\ pc[q] = "recordInvalid"
    /\ Record(RowOf(q, Requested(q), "rejected"))
    /\ Goto(q, "answered")
    /\ UNCHANGED <<consumed, mail, age, req, dbFails>>

\* How often each address occurs in a list: what is left of it once sorted.
Occurrences(list) ==
    [a \in Addresses |-> Cardinality({i \in DOMAIN list : list[i] = a})]

\* Slip: the lists are compared as sets.
Permitted_AsSets(q) ==
    /\ {Claimed(q).recipients[i] : i \in DOMAIN Claimed(q).recipients}
          = {req[q].recipients[i] : i \in DOMAIN req[q].recipients}
    /\ Claimed(q).hash = Requested(q).hash
    /\ \A i \in DOMAIN req[q].recipients : req[q].recipients[i] \in AllowedAddresses

\* The recipients and the hash are those of the claim, and each recipient is
\* an address in an allowed domain.
Permitted(q) ==
    /\ Occurrences(Claimed(q).recipients) = Occurrences(req[q].recipients)
    /\ Claimed(q).hash = Requested(q).hash
    /\ \A i \in DOMAIN req[q].recipients : req[q].recipients[i] \in AllowedAddresses

\* validate() returned Ok.  The comparisons and the stub-send follow without
\* an await.
Decide(q) ==
    /\ pc[q] = "decide"
    /\ \/ /\ Permitted(q)
          /\ mail' = mail \cup {[by |-> q, receipt |-> req[q].receipt,
                                 recipients |-> req[q].recipients,
                                 body |-> req[q].body]}
          /\ Goto(q, "record")
       \/ /\ ~Permitted(q)
          /\ UNCHANGED mail
          /\ Goto(q, "reject")
    /\ UNCHANGED <<tables, age, req, dbFails>>

\* rejected(): the row shows what the receipt commits to.
RecordRejection(q) ==
    /\ pc[q] = "reject"
    /\ Record(RowOf(q, Claimed(q), "rejected"))
    /\ Answer(q, 400)
    /\ UNCHANGED <<consumed, mail, age, req, dbFails>>

\* Slip: the failure of the INSERT is ignored here as it is elsewhere.
RecordSend_Ignored(q) ==
    /\ pc[q] = "record"
    /\ Record(RowOf(q, Claimed(q), "sent"))
    /\ Answer(q, 200)
    /\ UNCHANGED <<consumed, mail, age, req, dbFails>>

\* Only a row that is known to be there is answered with 200.
RecordSend(q) ==
    /\ pc[q] = "record"
    /\ \/ /\ sends' = sends \cup {RowOf(q, Claimed(q), "sent")}
          /\ Answer(q, 200)
       \/ /\ dbFails
          /\ Record(RowOf(q, Claimed(q), "sent"))
          /\ Answer(q, 500)
    /\ UNCHANGED <<consumed, mail, age, req, dbFails>>

\* The row that the INSERT a dropped handler waits for would write.
PendingRow(q) ==
    CASE pc[q] = "recordInvalid" -> RowOf(q, Requested(q), "rejected")
      [] pc[q] = "reject" -> RowOf(q, Claimed(q), "rejected")
      [] pc[q] = "record" -> RowOf(q, Claimed(q), "sent")

\* The handler is dropped at its await; a query already sent may still run.
Drop(q) ==
    /\ pc[q] \in Awaiting
    /\ pc' = [pc EXCEPT ![q] = "dropped"]
    /\ \/ UNCHANGED tables
       \/ /\ pc[q] = "consume"
          /\ consumed' = consumed \cup {req[q].receipt}
          /\ UNCHANGED sends
       \/ /\ pc[q] \in {"recordInvalid", "reject", "record"}
          /\ sends' = sends \cup {PendingRow(q)}
          /\ UNCHANGED consumed
    /\ UNCHANGED <<mail, age, req, resp, dbFails>>

Tick(r) ==
    /\ \/ age[r] = "future" /\ age' = [age EXCEPT ![r] = "fresh"]
       \/ age[r] = "fresh" /\ age' = [age EXCEPT ![r] = "stale"]
    /\ UNCHANGED <<tables, mail, handlers, dbFails>>

Receive(q) ==
    \/ RefuseHeader(q)
    \/ \E to \in Lists, body \in Bodies :
          \/ ArriveMalformed(q, to, body)
          \/ \E r \in Receipts :
                ArriveForged(q, to, body, r) \/ ArriveGenuine(q, to, body, r)

Handle(q) ==
    \/ ConsumeReceipt(q) \/ RefuseReplay(q) \/ ReplayStoreFails(q)
    \/ RecordInvalid(q) \/ Decide(q)
    \/ RecordRejection(q) \/ RecordSend(q)

Next ==
    \/ \E q \in Requests : Receive(q) \/ Handle(q) \/ Drop(q)
    \/ \E r \in Receipts : Tick(r)

Spec == Init /\ [][Next]_vars

-----------------------------------------------------------------------------
(* Properties                                                              *)

\* How many copies address a was sent under receipt r, over all requests.
CopiesTo(a, r) ==
    Cardinality({copy \in mail \X UNION {DOMAIN list : list \in Lists} :
                    /\ copy[1].receipt = r
                    /\ copy[2] \in DOMAIN copy[1].recipients
                    /\ copy[1].recipients[copy[2]] = a})

\* However often and by whomever a receipt is shown, nobody gets more mail
\* under it than it commits to, and nobody outside the allow-list any.
NobodyGetsMore ==
    \A r \in Receipts, a \in Addresses :
        CopiesTo(a, r) > 0 =>
            /\ CopiesTo(a, r) <= Occurrences(Claim[r].recipients)[a]
            /\ a \in AllowedAddresses

\* The records are true, whatever failed around them: a row that says sent
\* stands for mail its request sent to these recipients, in some order, with a
\* body of that hash, and is the only such row; and 200 is only answered when
\* that row is there.
RecordsAreTrue ==
    /\ \A t \in sends :
          t.status = "sent" =>
              /\ \E m \in mail :
                    /\ m.by = t.by
                    /\ m.receipt = t.receipt
                    /\ Occurrences(m.recipients) = Occurrences(t.content.recipients)
                    /\ HashOf[m.body] = t.content.hash
              /\ \A u \in sends :
                    u.status = "sent" /\ u.receipt = t.receipt => u = t
    /\ \A q \in Requests :
          pc[q] = "answered" /\ resp[q] = 200 =>
              RowOf(q, Claimed(q), "sent") \in sends

\* A forged copy of a receipt is harmless, though its row shows the id of
\* the genuine one: it does not use the receipt up, and sends nothing.
ForgeryIsHarmless ==
    /\ \A r \in consumed :
          \E q \in Requests :
              req[q] # NoRequest /\ req[q].genuine /\ req[q].receipt = r
    /\ \A m \in mail : req[m.by].genuine

\* The module comment: validation failures now produce audit rows.  As
\* long as no query fails, each request with a readable header that is
\* answered leaves exactly one row, and only the one that sent mail says so.
EveryAttemptRecorded ==
    ~dbFails =>
        \A q \in Requests :
            pc[q] = "answered" /\ req[q] # NoRequest =>
                \E t \in sends :
                    /\ t.by = q
                    /\ t.status = "sent" <=> \E m \in mail : m.by = q
                    /\ \A u \in sends : u.by = q => u = t

-----------------------------------------------------------------------------

Redemptions ==
    {[by |-> m.by, receipt |-> m.receipt,
      what |-> <<Occurrences(m.recipients), HashOf[m.body]>>] : m \in mail}

Ledger == INSTANCE ReceiptLedger
    WITH Attempts <- Requests,
         Authorises <- {<<r, <<Occurrences(Claim[r].recipients), Claim[r].hash>>>> :
                           r \in {s \in Receipts : Claim[s] # NoClaim}},
         effects <- Redemptions

\* Every step of the mailer is a step of the ledger or changes nothing in it.
ImplementsLedger == Ledger!Spec
=============================================================================
