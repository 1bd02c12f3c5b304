---------------------------- MODULE MailerProofs ----------------------------
(***************************************************************************)
(* Theorems about Mailer, for any number of requests, receipts, recipients *)
(* and bodies, any claims and allow-list, and every combination of faults. *)
(***************************************************************************)
EXTENDS Mailer, FiniteSetTheorems, TLAPS

-----------------------------------------------------------------------------
(* Typing                                                                  *)

\* Where a handler has been past validate(), or is still in it.
Validated == {"consume", "decide", "reject", "record"}

\* What the request of a handler is known to be at each await: one that goes
\* on past the signature and the window shows a genuine receipt that holds a
\* RecipientClaim.
HasRequest ==
    \A q \in Requests :
        /\ pc[q] = "idle" => req[q] = NoRequest
        /\ pc[q] \in Awaiting => req[q] \in RequestType
        /\ pc[q] \in Validated =>
              /\ req[q].genuine
              /\ req[q].receipt \in Receipts
              /\ Claim[req[q].receipt] # NoClaim

Typed == TypeOK /\ HasRequest

LEMMA InitTyped == Init => Typed
BY MailerAssumption DEF Init, Typed, TypeOK, HasRequest, Validated, Awaiting, Over

\* What a request or its claim can be a row of.
LEMMA RowsTyped ==
    ASSUME Typed, NEW q \in Requests, req[q] \in RequestType
    PROVE  /\ Requested(q) \in Content
           /\ \A c \in Content, s \in {"sent", "rejected"} : RowOf(q, c, s) \in Row
           /\ req[q].receipt \in Receipts /\ Claim[req[q].receipt] # NoClaim =>
                 Claimed(q) \in Content
BY MailerAssumption
DEF Typed, TypeOK, RequestType, Requested, Claimed, Content, RowOf, Row

\* A request comes in: it goes on only with a genuine receipt with a claim.
LEMMA ArriveTyped ==
    ASSUME Typed, NEW q \in Requests, pc[q] = "idle",
           NEW new \in RequestType, req' = [req EXCEPT ![q] = new],
           UNCHANGED <<tables, mail, age, dbFails>>,
           \/ Invalid(q, 400) \/ Invalid(q, 401)
           \/ /\ Goto(q, "consume")
              /\ new.genuine /\ new.receipt \in Receipts /\ Claim[new.receipt] # NoClaim
    PROVE  Typed'
BY DEF Typed, TypeOK, HasRequest, Validated, Awaiting, Over, tables, Goto, Invalid

LEMMA ReceiveTyped ==
    ASSUME Typed, NEW q \in Requests, Receive(q)
    PROVE  Typed'
<1>1. CASE RefuseHeader(q)
  BY <1>1 DEF RefuseHeader, Answer, Typed, TypeOK, HasRequest, Validated,
              Awaiting, Over, tables
<1>2. ASSUME NEW to \in Lists, NEW body \in Bodies, ArriveMalformed(q, to, body)
      PROVE  Typed'
  <2> DEFINE new == [recipients |-> to, body |-> body, receipt |-> ZeroId,
                     genuine |-> FALSE]
  <2>1. new \in RequestType
    BY DEF RequestType
  <2>2. /\ pc[q] = "idle" /\ req' = [req EXCEPT ![q] = new] /\ Invalid(q, 400)
        /\ UNCHANGED <<tables, mail, age, dbFails>>
    BY <1>2 DEF ArriveMalformed, Arrive
  <2> HIDE DEF new
  <2> QED
    BY <2>1, <2>2, ArriveTyped
<1>3. ASSUME NEW to \in Lists, NEW body \in Bodies, NEW r \in Receipts,
             ArriveForged(q, to, body, r)
      PROVE  Typed'
  <2> DEFINE new == [recipients |-> to, body |-> body, receipt |-> r,
                     genuine |-> FALSE]
  <2>1. new \in RequestType
    BY DEF RequestType
  <2>2. /\ pc[q] = "idle" /\ req' = [req EXCEPT ![q] = new] /\ Invalid(q, 401)
        /\ UNCHANGED <<tables, mail, age, dbFails>>
    BY <1>3 DEF ArriveForged, Arrive
  <2> HIDE DEF new
  <2> QED
    BY <2>1, <2>2, ArriveTyped
<1>4. ASSUME NEW to \in Lists, NEW body \in Bodies, NEW r \in Receipts,
             ArriveGenuine(q, to, body, r)
      PROVE  Typed'
  <2> DEFINE new == [recipients |-> to, body |-> body, receipt |-> r,
                     genuine |-> TRUE]
  <2>1. new \in RequestType /\ new.genuine /\ new.receipt = r
    BY DEF RequestType
  <2>2. /\ pc[q] = "idle" /\ req' = [req EXCEPT ![q] = new]
        /\ UNCHANGED <<tables, mail, age, dbFails>>
        /\ \/ Invalid(q, 400)
           \/ Goto(q, "consume") /\ Claim[r] # NoClaim
    BY <1>4 DEF ArriveGenuine, Arrive, Validates
  <2> HIDE DEF new
  <2> QED
    BY <2>1, <2>2, ArriveTyped
<1> QED
  BY <1>1, <1>2, <1>3, <1>4 DEF Receive

LEMMA HandleTyped ==
    ASSUME Typed, NEW q \in Requests, Handle(q)
    PROVE  Typed'
<1> USE DEF Typed, TypeOK, HasRequest, Validated, Awaiting, Over, tables, Goto,
            Answer, Invalid
<1>1. CASE ConsumeReceipt(q)
  BY <1>1 DEF ConsumeReceipt
<1>2. CASE RefuseReplay(q)
  BY <1>2 DEF RefuseReplay
<1>3. CASE ReplayStoreFails(q)
  BY <1>3 DEF ReplayStoreFails
<1>4. CASE RecordInvalid(q)
  BY <1>4, RowsTyped DEF RecordInvalid, Record
<1>5. CASE Decide(q)
  <2>1. [by |-> q, receipt |-> req[q].receipt, recipients |-> req[q].recipients,
         body |-> req[q].body] \in Mail
    BY <1>5 DEF Decide, Mail, RequestType
  <2> QED
    BY <1>5, <2>1 DEF Decide
<1>6. CASE RecordRejection(q)
  BY <1>6, RowsTyped DEF RecordRejection, Record
<1>7. CASE RecordSend(q)
  BY <1>7, RowsTyped DEF RecordSend, Record
<1> QED
  BY <1>1, <1>2, <1>3, <1>4, <1>5, <1>6, <1>7 DEF Handle

LEMMA DropTyped ==
    ASSUME Typed, NEW q \in Requests, Drop(q)
    PROVE  Typed'
BY RowsTyped
DEF Drop, PendingRow, Typed, TypeOK, HasRequest, Validated, Awaiting, Over, tables

LEMMA TickTyped ==
    ASSUME Typed, NEW r \in Receipts, Tick(r)
    PROVE  Typed'
BY DEF Tick, Typed, TypeOK, HasRequest, Ages, tables, handlers

LEMMA NextTyped ==
    ASSUME Typed, [Next]_vars
    PROVE  Typed'
<1>1. CASE UNCHANGED vars
  BY <1>1 DEF vars, tables, handlers, Typed, TypeOK, HasRequest
<1>2. CASE Next
  BY <1>2, ReceiveTyped, HandleTyped, DropTyped, TickTyped DEF Next
<1> QED
  BY <1>1, <1>2

\* Every reachable state has its types: whatever a header shows and whichever
\* queries fail, what the handlers write into the tables are rows.
THEOREM TypeCorrect == Spec => []TypeOK
<1>1. Init => Typed
  BY InitTyped
<1>2. Typed /\ [Next]_vars => Typed'
  BY NextTyped
<1>3. Typed => TypeOK
  BY DEF Typed
<1> QED
  BY <1>1, <1>2, <1>3, PTL DEF Spec

-----------------------------------------------------------------------------
(* The inductive invariant                                                 *)

Mailed(q) == \E m \in mail : m.by = q

\* What a request puts in the mail.
MailOf(q) ==
    [by |-> q, receipt |-> req[q].receipt, recipients |-> req[q].recipients,
     body |-> req[q].body]

\* From the INSERT that consumes its receipt on, a request that may still
\* send, or has.
Took(q) == pc[q] \in {"decide", "reject", "record"} \/ Mailed(q)

TakenIsConsumed == \A q \in Requests : Took(q) => req[q].receipt \in consumed

OneTaker ==
    \A q, u \in Requests :
        Took(q) /\ Took(u) /\ req[q].receipt = req[u].receipt => q = u

\* All mail is what its request asked for and was permitted under a genuine
\* receipt, and the request is at the row of it, or gone; no request gets
\* there without having sent.
MailAccounted ==
    /\ \A m \in mail :
          /\ m = MailOf(m.by)
          /\ Permitted(m.by)
          /\ req[m.by].genuine
          /\ pc[m.by] \in {"record"} \cup Over
    /\ \A q \in Requests : pc[q] = "record" => Mailed(q)

\* A receipt is only used up by a request that showed the genuine one.
ConsumedIsGenuine ==
    \A r \in consumed :
        \E q \in Requests :
            req[q] # NoRequest /\ req[q].genuine /\ req[q].receipt = r

\* A row is the last thing its request does, and tells what it did.
RowsAccounted ==
    \A t \in sends :
        /\ t = RowOf(t.by, t.content, t.status)
        /\ pc[t.by] \in Over
        /\ t.status = "sent" <=> Mailed(t.by)
        /\ t.status = "sent" => t.content = Claimed(t.by)
        /\ \A u \in sends : u.by = t.by => u = t

\* Without faults no answer goes out before its row is there, and a 200 never.
AnswersAccounted ==
    \A q \in Requests :
        /\ ~dbFails /\ pc[q] = "answered" /\ req[q] # NoRequest =>
              \E t \in sends : t.by = q
        /\ resp[q] = 200 =>
              /\ pc[q] = "answered"
              /\ RowOf(q, Claimed(q), "sent") \in sends

Redemption ==
    /\ TakenIsConsumed
    /\ OneTaker
    /\ MailAccounted
    /\ ConsumedIsGenuine
    /\ RowsAccounted
    /\ AnswersAccounted

LEMMA InitRedemption == Init => Redemption
BY DEF Init, Redemption, TakenIsConsumed, OneTaker, MailAccounted, ConsumedIsGenuine,
       RowsAccounted, AnswersAccounted, Took, Mailed, Over

LEMMA ReceiveRedemption ==
    ASSUME Typed, Redemption, NEW q \in Requests, Receive(q)
    PROVE  Redemption'
<1> USE DEF Typed, TypeOK, HasRequest, Redemption
<1>1. /\ pc[q] = "idle" /\ req[q] = NoRequest
      /\ pc'[q] \in {"answered", "consume", "recordInvalid"}
      /\ pc'[q] = "answered" => req'[q] = NoRequest
      /\ resp'[q] = resp[q] \/ resp'[q] \in {400, 401}
      /\ \A u \in Requests \ {q} :
            pc'[u] = pc[u] /\ req'[u] = req[u] /\ resp'[u] = resp[u]
      /\ UNCHANGED <<tables, mail, dbFails>>
  BY DEF Receive, RefuseHeader, ArriveMalformed, ArriveForged, ArriveGenuine,
         Arrive, Goto, Answer, Invalid
<1> USE DEF tables
<1>2. /\ \A m \in mail : m.by \in Requests \ {q}
      /\ \A t \in sends : t.by \in Requests \ {q}
  BY <1>1 DEF MailAccounted, RowsAccounted, Mail, Row, Over
<1>3. \A u \in Requests : Mailed(u)' = Mailed(u) /\ ~Mailed(q)
  BY <1>1, <1>2 DEF Mailed
<1>4. \A u \in Requests : Took(u)' => Took(u) /\ u # q
  BY <1>1, <1>3 DEF Took
<1>5. TakenIsConsumed' /\ OneTaker'
  BY <1>1, <1>4 DEF TakenIsConsumed, OneTaker
<1>6. MailAccounted'
  BY <1>1, <1>2, <1>3 DEF MailAccounted, MailOf, Permitted, Requested, Claimed
<1>7. ConsumedIsGenuine'
  BY <1>1 DEF ConsumedIsGenuine
<1>8. RowsAccounted'
  BY <1>1, <1>2, <1>3 DEF RowsAccounted, RowOf, Claimed
<1>9. AnswersAccounted'
  <2>1. resp'[q] # 200
    BY <1>1 DEF AnswersAccounted
  <2>2. \A u \in Requests \ {q} : UNCHANGED RowOf(u, Claimed(u), "sent")
    BY <1>1 DEF RowOf, Claimed
  <2> QED
    BY <1>1, <2>1, <2>2 DEF AnswersAccounted
<1> QED
  BY <1>5, <1>6, <1>7, <1>8, <1>9

\* Only a request that is past the signature uses up the receipt it shows.
LEMMA ConsumedStep ==
    ASSUME Typed, Redemption, NEW q \in Requests, UNCHANGED req,
           \/ UNCHANGED consumed
           \/ pc[q] = "consume" /\ consumed' = consumed \cup {req[q].receipt}
    PROVE  ConsumedIsGenuine'
<1>1. pc[q] = "consume" => req[q] # NoRequest /\ req[q].genuine
  BY MailerAssumption DEF Typed, HasRequest, Validated, Awaiting
<1> QED
  BY <1>1 DEF Redemption, ConsumedIsGenuine

\* What a handler has to keep to if it sends no mail and adds no row.
LEMMA QuietStep ==
    ASSUME Typed, Redemption, NEW q \in Requests,
           UNCHANGED <<sends, mail, req, dbFails>>,
           \A u \in Requests \ {q} : pc'[u] = pc[u] /\ resp'[u] = resp[u],
           pc[q] \in Awaiting,
           Took(q)' => Took(q),
           \/ UNCHANGED consumed
           \/ pc[q] = "consume" /\ consumed' = consumed \cup {req[q].receipt},
           pc'[q] \in {"recordInvalid", "reject"} \cup Over,
           pc[q] = "record" => pc'[q] \in Over,
           pc'[q] = "answered" => dbFails,
           resp'[q] # 200
    PROVE  Redemption'
<1> USE DEF Typed, TypeOK, HasRequest, Redemption, Awaiting, Over
<1>1. /\ \A m \in mail : m.by \in Requests
      /\ \A t \in sends : t.by \in Requests
  BY DEF Mail, Row
<1>0. ConsumedIsGenuine'
  BY ConsumedStep
<1>2. \A u \in Requests : Mailed(u)' = Mailed(u)
  BY DEF Mailed
<1>3. \A u \in Requests : Took(u)' => Took(u)
  BY <1>2 DEF Took
<1>4. TakenIsConsumed' /\ OneTaker'
  BY <1>3 DEF TakenIsConsumed, OneTaker
<1>5. MailAccounted'
  BY <1>1, <1>2 DEF MailAccounted, MailOf, Permitted, Requested, Claimed
<1>6. RowsAccounted'
  BY <1>1, <1>2 DEF RowsAccounted, RowOf, Claimed
<1>7. AnswersAccounted'
  BY DEF AnswersAccounted, RowOf, Claimed
<1> QED
  BY <1>0, <1>4, <1>5, <1>6, <1>7

\* The INSERT that consumes a receipt makes its request the only taker.
LEMMA ConsumeRedemption ==
    ASSUME Typed, Redemption, NEW q \in Requests, ConsumeReceipt(q)
    PROVE  Redemption'
<1> USE DEF Typed, TypeOK, HasRequest, Redemption, Awaiting, Over
<1>1. /\ pc[q] = "consume"
      /\ pc' = [pc EXCEPT ![q] = "decide"]
      /\ req[q].receipt \notin consumed
      /\ consumed' = consumed \cup {req[q].receipt}
      /\ UNCHANGED <<sends, mail, req, resp, dbFails>>
  BY DEF ConsumeReceipt, Goto
<1>2. /\ \A m \in mail : m.by \in Requests
      /\ \A t \in sends : t.by \in Requests
  BY DEF Mail, Row
<1>3. \A u \in Requests : Mailed(u)' = Mailed(u)
  BY <1>1 DEF Mailed
<1>4. \A u \in Requests \ {q} : Took(u)' = Took(u)
  BY <1>1, <1>3 DEF Took
<1>5. \A u \in Requests \ {q} : Took(u) => req[u].receipt # req[q].receipt
  BY <1>1 DEF TakenIsConsumed
<1>6. TakenIsConsumed' /\ OneTaker'
  BY <1>1, <1>4, <1>5 DEF TakenIsConsumed, OneTaker
<1>7. MailAccounted'
  BY <1>1, <1>2, <1>3 DEF MailAccounted, MailOf, Permitted, Requested, Claimed
<1>8. RowsAccounted'
  BY <1>1, <1>2, <1>3 DEF RowsAccounted, RowOf, Claimed
<1>9. AnswersAccounted'
  BY <1>1 DEF AnswersAccounted, RowOf, Claimed
<1>10. ConsumedIsGenuine'
  BY <1>1, ConsumedStep DEF Validated
<1> QED
  BY <1>6, <1>7, <1>8, <1>9, <1>10

\* The decision: mail from the request that took the receipt, to whom it asked
\* for, or none and the request can never send any.
LEMMA DecideRedemption ==
    ASSUME Typed, Redemption, NEW q \in Requests, Decide(q)
    PROVE  Redemption'
<1> USE DEF Typed, TypeOK, HasRequest, Redemption, Awaiting, Over
<1>1. /\ pc[q] = "decide" /\ resp[q] # 200
      /\ UNCHANGED <<consumed, sends, req, resp, dbFails>>
      /\ \A u \in Requests \ {q} : pc'[u] = pc[u]
  BY DEF Decide, Goto, tables, AnswersAccounted
<1>2. CASE ~Permitted(q)
  <2>1. pc'[q] = "reject" /\ UNCHANGED mail
    BY <1>2 DEF Decide, Goto
  <2> QED
    BY <1>1, <2>1, QuietStep DEF Took
<1>3. CASE Permitted(q)
  <2>1. pc'[q] = "record" /\ mail' = mail \cup {MailOf(q)}
    BY <1>3 DEF Decide, Goto, MailOf
  <2>2. MailOf(q).by = q /\ \A u \in Requests : UNCHANGED MailOf(u)
    BY <1>1 DEF MailOf
  <2>3. /\ \A y \in mail : y.by \in Requests \ {q}
        /\ \A t \in sends : t.by \in Requests \ {q}
    BY <1>1 DEF Mail, Row, MailAccounted, RowsAccounted
  <2>4. /\ Mailed(q)'
        /\ \A u \in Requests \ {q} : Mailed(u)' = Mailed(u)
    BY <2>1, <2>2 DEF Mailed
  <2>5. Took(q) /\ \A u \in Requests : Took(u)' => Took(u)
    BY <1>1, <2>4 DEF Took
  <2>6. TakenIsConsumed' /\ OneTaker'
    BY <1>1, <2>5 DEF TakenIsConsumed, OneTaker
  <2>7. MailAccounted'
    <3>1. \A u \in Requests : Permitted(u)' = Permitted(u)
      BY <1>1 DEF Permitted, Requested, Claimed
    <3> QED
      BY <1>1, <1>3, <2>1, <2>2, <2>3, <2>4, <3>1 DEF MailAccounted, Validated
  <2>8. RowsAccounted'
    BY <1>1, <2>3, <2>4 DEF RowsAccounted, RowOf, Claimed
  <2>9. AnswersAccounted'
    BY <1>1, <2>1 DEF AnswersAccounted, RowOf, Claimed
  <2>10. ConsumedIsGenuine'
    BY <1>1 DEF ConsumedIsGenuine
  <2> QED
    BY <2>6, <2>7, <2>8, <2>9, <2>10
<1> QED
  BY <1>2, <1>3

\* The audit row is the last thing a request does, and it does it once.
LEMMA RowRedemption ==
    ASSUME Typed, Redemption, NEW q \in Requests,
           NEW content, NEW status \in {"sent", "rejected"},
           \/ pc[q] \in {"recordInvalid", "reject"} /\ status = "rejected"
           \/ pc[q] = "record" /\ status = "sent" /\ content = Claimed(q),
           sends' = sends \cup {RowOf(q, content, status)},
           \A u \in Requests \ {q} : pc'[u] = pc[u] /\ resp'[u] = resp[u],
           pc'[q] \in Over,
           resp'[q] = 200 => pc'[q] = "answered" /\ status = "sent",
           UNCHANGED <<consumed, mail, req, dbFails>>
    PROVE  Redemption'
<1> USE DEF Typed, TypeOK, HasRequest, Redemption, Awaiting, Over
<1> DEFINE row == RowOf(q, content, status)
<1>1. /\ row.by = q /\ row.status = status /\ row.content = content
      /\ UNCHANGED row
  BY DEF RowOf
<1>2. /\ \A m \in mail : m.by \in Requests
      /\ \A t \in sends : t.by \in Requests \ {q}
  BY DEF Mail, Row, RowsAccounted
<1>3. \A u \in Requests : Mailed(u)' = Mailed(u)
  BY DEF Mailed
<1>4. status = "sent" <=> Mailed(q)
  BY DEF MailAccounted, Mailed
<1>5. \A u \in Requests : Took(u)' => Took(u)
  BY <1>3 DEF Took
<1>6. TakenIsConsumed' /\ OneTaker'
  BY <1>5 DEF TakenIsConsumed, OneTaker
<1>7. MailAccounted'
  BY <1>2, <1>3 DEF MailAccounted, MailOf, Permitted, Requested, Claimed
<1>8. RowsAccounted'
  <2>1. \A t \in sends : UNCHANGED RowOf(t.by, t.content, t.status)
                          /\ UNCHANGED Claimed(t.by)
    BY DEF RowOf, Claimed
  <2>2. UNCHANGED Claimed(q)
    BY DEF Claimed
  <2> QED
    BY <1>1, <1>2, <1>3, <1>4, <2>1, <2>2 DEF RowsAccounted
<1>9. AnswersAccounted'
  <2>1. ASSUME NEW u \in Requests \ {q}
        PROVE  /\ pc'[u] = pc[u] /\ resp'[u] = resp[u] /\ req'[u] = req[u]
               /\ UNCHANGED RowOf(u, Claimed(u), "sent")
    BY DEF RowOf, Claimed
  <2>2. row \in sends'
    OBVIOUS
  <2>3. resp'[q] = 200 => row = RowOf(q, Claimed(q), "sent")'
    BY DEF RowOf, Claimed
  <2> QED
    BY <1>1, <2>1, <2>2, <2>3 DEF AnswersAccounted
<1>10. ConsumedIsGenuine'
  BY DEF ConsumedIsGenuine
<1> QED
  BY <1>6, <1>7, <1>8, <1>9, <1>10

LEMMA HandleRedemption ==
    ASSUME Typed, Redemption, NEW q \in Requests, Handle(q)
    PROVE  Redemption'
<1> USE DEF Goto, Answer, Invalid, tables, Awaiting, Over
<1>0. /\ pc \in [Requests -> {"idle"} \cup Awaiting \cup Over]
      /\ resp \in [Requests -> {0, 200, 400, 401, 409, 500}]
      /\ pc[q] \in Awaiting => resp[q] # 200
  BY DEF Typed, TypeOK, Redemption, AnswersAccounted
<1>1. CASE ConsumeReceipt(q)
  BY <1>1, ConsumeRedemption
<1>2. CASE RefuseReplay(q)
  BY <1>0, <1>2, QuietStep DEF RefuseReplay, Took, Mailed
<1>3. CASE ReplayStoreFails(q)
  BY <1>0, <1>3, QuietStep DEF ReplayStoreFails, Took, Mailed
<1>4. CASE RecordInvalid(q)
  <2>1. CASE sends' = sends \cup {RowOf(q, Requested(q), "rejected")}
    BY <1>0, <1>4, <2>1, RowRedemption DEF RecordInvalid
  <2>2. CASE dbFails /\ UNCHANGED sends
    BY <1>0, <1>4, <2>2, QuietStep DEF RecordInvalid, Took, Mailed
  <2> QED
    BY <1>4, <2>1, <2>2 DEF RecordInvalid, Record
<1>5. CASE Decide(q)
  BY <1>5, DecideRedemption
<1>6. CASE RecordRejection(q)
  <2>1. CASE sends' = sends \cup {RowOf(q, Claimed(q), "rejected")}
    BY <1>0, <1>6, <2>1, RowRedemption DEF RecordRejection
  <2>2. CASE dbFails /\ UNCHANGED sends
    BY <1>0, <1>6, <2>2, QuietStep DEF RecordRejection, Took, Mailed
  <2> QED
    BY <1>6, <2>1, <2>2 DEF RecordRejection, Record
<1>7. CASE RecordSend(q)
  <2>1. CASE sends' = sends \cup {RowOf(q, Claimed(q), "sent")}
    BY <1>0, <1>7, <2>1, RowRedemption DEF RecordSend
  <2>2. CASE dbFails /\ UNCHANGED sends /\ Answer(q, 500)
    BY <1>0, <1>7, <2>2, QuietStep DEF RecordSend, Took, Mailed
  <2> QED
    BY <1>7, <2>1, <2>2 DEF RecordSend, Record
<1> QED
  BY <1>1, <1>2, <1>3, <1>4, <1>5, <1>6, <1>7 DEF Handle

LEMMA DropRedemption ==
    ASSUME Typed, Redemption, NEW q \in Requests, Drop(q)
    PROVE  Redemption'
<1> USE DEF tables, Over, Awaiting
<1>0. /\ pc[q] \in Awaiting /\ resp[q] # 200
      /\ pc' = [pc EXCEPT ![q] = "dropped"]
      /\ pc \in [Requests -> {"idle"} \cup Awaiting \cup Over]
      /\ UNCHANGED <<mail, req, resp, dbFails>>
  BY DEF Drop, Typed, TypeOK, Redemption, AnswersAccounted
<1>1. CASE UNCHANGED tables
  BY <1>0, <1>1, QuietStep DEF Took, Mailed
<1>2. CASE /\ pc[q] = "consume"
           /\ consumed' = consumed \cup {req[q].receipt}
           /\ UNCHANGED sends
  BY <1>0, <1>2, QuietStep DEF Took, Mailed
<1>3. CASE /\ pc[q] \in {"recordInvalid", "reject", "record"}
           /\ sends' = sends \cup {PendingRow(q)}
           /\ UNCHANGED consumed
  <2>1. CASE pc[q] = "recordInvalid"
    BY <1>0, <1>3, <2>1, RowRedemption DEF PendingRow
  <2>2. CASE pc[q] = "reject"
    BY <1>0, <1>3, <2>2, RowRedemption DEF PendingRow
  <2>3. CASE pc[q] = "record"
    BY <1>0, <1>3, <2>3, RowRedemption DEF PendingRow
  <2> QED
    BY <1>3, <2>1, <2>2, <2>3
<1> QED
  BY <1>1, <1>2, <1>3 DEF Drop

LEMMA SameRedemption ==
    ASSUME Redemption, UNCHANGED <<tables, mail, handlers, dbFails>>
    PROVE  Redemption'
BY DEF tables, handlers, Redemption, TakenIsConsumed, OneTaker,
       MailAccounted, ConsumedIsGenuine, RowsAccounted, AnswersAccounted,
       Took, Mailed, MailOf, RowOf, Permitted, Requested, Claimed

LEMMA NextRedemption ==
    ASSUME Typed, Redemption, [Next]_vars
    PROVE  Redemption'
<1>1. CASE UNCHANGED vars
  BY <1>1, SameRedemption DEF vars
<1>2. ASSUME NEW r \in Receipts, Tick(r)
      PROVE  Redemption'
  BY <1>2, SameRedemption DEF Tick
<1> QED
  BY <1>1, <1>2, ReceiveRedemption, HandleRedemption, DropRedemption DEF Next

\* The inductive invariant: at any time at most one request has taken a given
\* receipt, every deployment and every row is that request's, and no answer
\* gets ahead of its row unless a query failed.
THEOREM RedemptionCorrect == Spec => [](Typed /\ Redemption)
<1>1. Init => Typed /\ Redemption
  BY InitTyped, InitRedemption
<1>2. Typed /\ Redemption /\ [Next]_vars => (Typed /\ Redemption)'
  BY NextTyped, NextRedemption
<1> QED
  BY <1>1, <1>2, PTL DEF Spec

-----------------------------------------------------------------------------
(* What follows from it                                                    *)

LEMMA OneActor ==
    ASSUME Typed, Redemption
    PROVE  /\ \A m \in mail : /\ m.by \in Requests
                               /\ m = MailOf(m.by)
                               /\ m.receipt \in Receipts
                               /\ m.recipients \in Lists
                               /\ Took(m.by)
                               /\ Permitted(m.by)
           /\ \A m, n \in mail : m.receipt = n.receipt => m = n
           /\ \A t \in sends : t.by \in Requests /\ t.receipt = req[t.by].receipt
<1>1. ASSUME NEW m \in mail
      PROVE  /\ m.by \in Requests /\ m = MailOf(m.by) /\ m.receipt \in Receipts
             /\ m.recipients \in Lists
             /\ Took(m.by) /\ Permitted(m.by)
  BY DEF Typed, TypeOK, Mail, Redemption, MailAccounted, Took, Mailed
<1>2. ASSUME NEW m \in mail, NEW n \in mail, m.receipt = n.receipt
      PROVE  m = n
  <2>1. m.receipt = req[m.by].receipt /\ n.receipt = req[n.by].receipt
    BY <1>1 DEF MailOf
  <2>2. m.by = n.by
    BY <1>1, <1>2, <2>1 DEF Redemption, OneTaker
  <2> QED
    BY <1>1, <2>2
<1>3. ASSUME NEW t \in sends
      PROVE  t.by \in Requests /\ t.receipt = req[t.by].receipt
  BY DEF Typed, TypeOK, Row, Redemption, RowsAccounted, RowOf
<1> QED
  BY <1>1, <1>2, <1>3

\* Where an address stands in a list is counted by a number.
LEMMA OccurrencesCount ==
    ASSUME NEW list \in Seq(Addresses), NEW a \in Addresses
    PROVE  LET places == {i \in DOMAIN list : list[i] = a}
           IN  /\ IsFiniteSet(places)
               /\ Cardinality(places) \in Nat
               /\ Occurrences(list)[a] = Cardinality(places)
<1> DEFINE places == {i \in DOMAIN list : list[i] = a}
<1>1. DOMAIN list = 1..Len(list) /\ Len(list) \in Nat
  OBVIOUS
<1>2. IsFiniteSet(1..Len(list))
  BY <1>1, FS_Interval
<1>3. places \in SUBSET (1..Len(list))
  BY <1>1
<1>4. IsFiniteSet(places)
  BY <1>2, <1>3, FS_Subset
<1> QED
  BY <1>4, FS_CardinalityType DEF Occurrences

\* All copies under one receipt are of one mail, so they are counted by the
\* places of the address in its list.
LEMMA CopiesAreOneMail ==
    ASSUME Typed, Redemption, NEW m \in mail, NEW a \in Addresses
    PROVE  CopiesTo(a, m.receipt) <= Occurrences(m.recipients)[a]
<1> DEFINE copies == {copy \in mail \X UNION {DOMAIN list : list \in Lists} :
                         /\ copy[1].receipt = m.receipt
                         /\ copy[2] \in DOMAIN copy[1].recipients
                         /\ copy[1].recipients[copy[2]] = a}
           places == {i \in DOMAIN m.recipients : m.recipients[i] = a}
           place == [copy \in copies |-> copy[2]]
<1>1. \A copy \in copies : copy = <<m, copy[2]>> /\ copy[2] \in places
  BY OneActor
<1>2. place \in Injection(copies, places)
  BY <1>1 DEF Injection, IsInjective
<1>3. /\ IsFiniteSet(places)
      /\ Occurrences(m.recipients)[a] = Cardinality(places)
  <2>1. m.recipients \in Seq(Addresses)
    BY OneActor, MailerAssumption
  <2> QED
    BY <2>1, OccurrencesCount
<1>4. CopiesTo(a, m.receipt) = Cardinality(copies)
  BY DEF CopiesTo
<1> HIDE DEF copies, places, place
<1> QED
  BY <1>2, <1>3, <1>4, FS_Injection

\* However often and by whomever a receipt is shown, each address gets at most
\* the copies the receipt commits to, and only if it is in an allowed domain.
THEOREM NobodyIsSentMore == Spec => []NobodyGetsMore
<1>1. Typed /\ Redemption => NobodyGetsMore
  <2> SUFFICES ASSUME Typed, Redemption, NEW r \in Receipts, NEW a \in Addresses,
                      CopiesTo(a, r) > 0
               PROVE  /\ CopiesTo(a, r) <= Occurrences(Claim[r].recipients)[a]
                      /\ a \in AllowedAddresses
    BY DEF NobodyGetsMore
  <2> DEFINE copies == {copy \in mail \X UNION {DOMAIN list : list \in Lists} :
                           /\ copy[1].receipt = r
                           /\ copy[2] \in DOMAIN copy[1].recipients
                           /\ copy[1].recipients[copy[2]] = a}
  <2>1. copies # {}
    BY FS_EmptySet DEF CopiesTo
  <2>2. PICK copy \in copies : TRUE
    BY <2>1
  <2> DEFINE m == copy[1]
  <2>3. /\ m \in mail /\ m.receipt = r
        /\ \E i \in DOMAIN m.recipients : m.recipients[i] = a
    BY <2>2
  <2> HIDE DEF m, copies
  <2>4. /\ m.receipt = req[m.by].receipt
        /\ m.recipients = req[m.by].recipients
    BY <2>3, OneActor DEF MailOf
  <2>5. Permitted(m.by)
    BY <2>3, OneActor
  <2>6. Occurrences(Claim[r].recipients) = Occurrences(m.recipients)
    BY <2>3, <2>4, <2>5 DEF Permitted, Claimed
  <2>7. a \in AllowedAddresses
    BY <2>3, <2>4, <2>5 DEF Permitted
  <2> QED
    BY <2>3, <2>6, <2>7, CopiesAreOneMail
<1> QED
  BY <1>1, RedemptionCorrect, PTL

\* A row that says sent is true and alone under its receipt, and so is an
\* answer that says so - whichever INSERT failed, with or without its row.
THEOREM RecordsTellTheTruth == Spec => []RecordsAreTrue
<1>1. Typed /\ Redemption => RecordsAreTrue
  <2> SUFFICES ASSUME Typed, Redemption
               PROVE  RecordsAreTrue
    OBVIOUS
  <2>1. ASSUME NEW t \in sends, t.status = "sent"
        PROVE  \E m \in mail :
                  /\ m.by = t.by
                  /\ m.receipt = t.receipt
                  /\ Occurrences(m.recipients) = Occurrences(t.content.recipients)
                  /\ HashOf[m.body] = t.content.hash
    <3>1. PICK m \in mail : m.by = t.by
      BY <2>1 DEF Redemption, RowsAccounted, Mailed
    <3>2. /\ m.receipt = req[t.by].receipt /\ t.receipt = req[t.by].receipt
          /\ m.recipients = req[t.by].recipients /\ m.body = req[t.by].body
      BY <3>1, OneActor DEF MailOf
    <3>3. t.content = Claimed(t.by) /\ Permitted(t.by)
      BY <2>1, <3>1, OneActor DEF Redemption, RowsAccounted
    <3> QED
      BY <3>1, <3>2, <3>3 DEF Permitted, Requested
  <2>2. ASSUME NEW t \in sends, NEW u \in sends, t.status = "sent",
               u.status = "sent", u.receipt = t.receipt
        PROVE  u = t
    <3>1. Took(t.by) /\ Took(u.by)
      BY <2>2 DEF Redemption, RowsAccounted, Took
    <3>2. u.by = t.by
      BY <2>2, <3>1, OneActor DEF Redemption, OneTaker
    <3> QED
      BY <3>2 DEF Redemption, RowsAccounted
  <2>3. \A q \in Requests :
            pc[q] = "answered" /\ resp[q] = 200 =>
                RowOf(q, Claimed(q), "sent") \in sends
    BY DEF Redemption, AnswersAccounted
  <2> QED
    BY <2>1, <2>2, <2>3 DEF RecordsAreTrue
<1> QED
  BY <1>1, RedemptionCorrect, PTL

\* Showing a forged copy neither uses the genuine receipt up nor sends mail.
THEOREM ForgeryDoesNothing == Spec => []ForgeryIsHarmless
<1>1. Typed /\ Redemption => ForgeryIsHarmless
  BY DEF Redemption, ConsumedIsGenuine, MailAccounted, ForgeryIsHarmless
<1> QED
  BY <1>1, RedemptionCorrect, PTL

\* Refused or not, each answered attempt has its one row in the audit trail as
\* long as the database works.
THEOREM AttemptsAreRecorded == Spec => []EveryAttemptRecorded
<1>1. Typed /\ Redemption => EveryAttemptRecorded
  <2> SUFFICES ASSUME Typed, Redemption, ~dbFails, NEW q \in Requests,
                      pc[q] = "answered", req[q] # NoRequest
               PROVE  \E t \in sends :
                         /\ t.by = q
                         /\ t.status = "sent" <=> \E m \in mail : m.by = q
                         /\ \A u \in sends : u.by = q => u = t
    BY DEF EveryAttemptRecorded
  <2>1. PICK t \in sends : t.by = q
    BY DEF Redemption, AnswersAccounted
  <2> QED
    BY <2>1 DEF Redemption, RowsAccounted, Mailed
<1> QED
  BY <1>1, RedemptionCorrect, PTL

-----------------------------------------------------------------------------
(* The mailer implements the receipt ledger                                *)

\* What a receipt commits to, as far as the handler compares it.
Commitment(r) == <<Occurrences(Claim[r].recipients), Claim[r].hash>>

Authority ==
    {<<r, <<Occurrences(Claim[r].recipients), Claim[r].hash>>>> :
        r \in {s \in Receipts : Claim[s] # NoClaim}}

LEMMA ConsumeIsLedgerStep ==
    ASSUME NEW r \in Receipts, UNCHANGED mail,
           consumed' \in {consumed, consumed \cup {r}}
    PROVE  [Ledger!Next]_(Ledger!ledger)
<1>1. UNCHANGED Redemptions
  BY DEF Redemptions
<1>2. CASE UNCHANGED consumed
  BY <1>1, <1>2 DEF Ledger!ledger
<1>3. CASE r \notin consumed /\ consumed' = consumed \cup {r}
  BY <1>1, <1>3 DEF Ledger!Next, Ledger!Consume
<1> QED
  BY <1>2, <1>3

\* The one step that sends mail redeems a receipt that is consumed, that nobody
\* else can have redeemed, and that commits to what is sent.
LEMMA DecideIsLedgerStep ==
    ASSUME Typed, Redemption, NEW q \in Requests, Decide(q)
    PROVE  [Ledger!Next]_(Ledger!ledger)
<1> DEFINE r == req[q].receipt
           Entry(m) == [by |-> m.by, receipt |-> m.receipt,
                        what |-> <<Occurrences(m.recipients), HashOf[m.body]>>]
<1>1. /\ UNCHANGED consumed
      /\ \/ UNCHANGED mail
         \/ Permitted(q) /\ mail' = mail \cup {MailOf(q)}
  BY DEF Decide, MailOf, tables
<1>2. CASE UNCHANGED mail
  BY <1>1, <1>2 DEF Ledger!ledger, Redemptions
<1>3. CASE Permitted(q) /\ mail' = mail \cup {MailOf(q)}
  <2>1. r \in Receipts /\ r \in consumed /\ Claim[r] # NoClaim
    BY DEF Decide, Typed, HasRequest, Validated, Redemption, TakenIsConsumed, Took
  <2>2. Entry(MailOf(q)) = [by |-> q, receipt |-> r, what |-> Commitment(r)]
    BY <1>3 DEF MailOf, Permitted, Claimed, Requested, Commitment
  <2>3. /\ Redemptions = {Entry(m) : m \in mail}
        /\ Redemptions' = {Entry(m) : m \in mail'}
    BY DEF Redemptions
  <2>4. \A m \in mail : m.receipt # r
    <3> SUFFICES ASSUME NEW m \in mail, m.receipt = r PROVE FALSE
      OBVIOUS
    <3>1. Took(q) /\ pc[q] = "decide"
      BY DEF Decide, Took
    <3>2. m.receipt = req[m.by].receipt /\ Took(m.by) /\ m.by \in Requests
      BY OneActor DEF MailOf
    <3>3. m.by = q
      BY <3>1, <3>2 DEF Redemption, OneTaker
    <3> QED
      BY <3>1, <3>3 DEF Redemption, MailAccounted, Over
  <2>5. \A e \in Redemptions : e.receipt # r
    BY <2>3, <2>4
  <2> HIDE DEF Entry
  <2>6. Redemptions' = Redemptions \cup {Entry(MailOf(q))}
    BY <1>3, <2>3
  <2>7. <<r, Commitment(r)>> \in Authority
    BY <2>1 DEF Authority, Commitment
  <2>8. Ledger!Redeem(q, r, Commitment(r))
    BY <1>1, <2>1, <2>2, <2>5, <2>6, <2>7 DEF Ledger!Redeem, Authority
  <2>9. \E pair \in Authority : pair[1] = r /\ Ledger!Redeem(q, r, pair[2])
    <3>1. <<r, Commitment(r)>>[1] = r /\ <<r, Commitment(r)>>[2] = Commitment(r)
      OBVIOUS
    <3> QED
      BY <2>7, <2>8, <3>1
  <2> QED
    BY <2>1, <2>9 DEF Ledger!Next, Authority
<1> QED
  BY <1>1, <1>2, <1>3

\* The send handler, with every crash and every fault, does no more than the
\* ledger allows: consume a receipt, or redeem a consumed one once, for what
\* it commits to.
THEOREM MailerImplementsLedger == Spec => ImplementsLedger
<1>1. Init => Ledger!Init
  BY DEF Init, Ledger!Init, Redemptions
<1>2. Typed /\ Redemption /\ [Next]_vars => [Ledger!Next]_(Ledger!ledger)
  <2> SUFFICES ASSUME Typed, Redemption, [Next]_vars
               PROVE  [Ledger!Next]_(Ledger!ledger)
    OBVIOUS
  <2>1. ASSUME UNCHANGED <<consumed, mail>>
        PROVE  [Ledger!Next]_(Ledger!ledger)
    BY <2>1 DEF Ledger!ledger, Redemptions
  <2>2. ASSUME NEW q \in Requests, pc[q] = "consume", UNCHANGED mail,
               consumed' \in {consumed, consumed \cup {req[q].receipt}}
        PROVE  [Ledger!Next]_(Ledger!ledger)
    BY <2>2, ConsumeIsLedgerStep DEF Typed, HasRequest, Validated
  <2>3. CASE UNCHANGED vars
    BY <2>1, <2>3 DEF vars, tables
  <2>4. ASSUME NEW r \in Receipts, Tick(r)
        PROVE  [Ledger!Next]_(Ledger!ledger)
    BY <2>1, <2>4 DEF Tick, tables
  <2>5. ASSUME NEW q \in Requests, Receive(q)
        PROVE  [Ledger!Next]_(Ledger!ledger)
    BY <2>1, <2>5 DEF Receive, RefuseHeader, ArriveMalformed, ArriveForged,
                      ArriveGenuine, Arrive, tables
  <2>6. ASSUME NEW q \in Requests, Handle(q)
        PROVE  [Ledger!Next]_(Ledger!ledger)
    <3>1. CASE ConsumeReceipt(q) \/ ReplayStoreFails(q)
      BY <2>2, <3>1 DEF ConsumeReceipt, ReplayStoreFails
    <3>2. CASE Decide(q)
      BY <3>2, DecideIsLedgerStep
    <3> QED
      BY <2>1, <2>6, <3>1, <3>2
      DEF Handle, RefuseReplay, RecordInvalid, RecordRejection, RecordSend, tables
  <2>7. ASSUME NEW q \in Requests, Drop(q)
        PROVE  [Ledger!Next]_(Ledger!ledger)
    BY <2>1, <2>2, <2>7 DEF Drop, tables
  <2> QED
    BY <2>3, <2>4, <2>5, <2>6, <2>7 DEF Next
<1> QED
  BY <1>1, <1>2, RedemptionCorrect, PTL DEF Spec, ImplementsLedger, Ledger!Spec
=============================================================================
