------------------------- MODULE OutreachLoopProofs -------------------------
(***************************************************************************)
(* Theorems about the loop of email-outreach/agent against the mailer, for *)
(* any goal, any number of recipients, requests and receipts, whatever the *)
(* gateway and the mailer do.                                              *)
(***************************************************************************)
EXTENDS OutreachLoop, MailerProofs, TLAPS

-----------------------------------------------------------------------------
(* The loop's own state                                                    *)

Working == {"verify", "send", "await"}

\* What the loop has in hand at each of its awaits.
InHand ==
    /\ goal \in Goals
    /\ step \in {"start", "next", "complete", "over"} \cup Working
    /\ at \in 0..Len(goal.recipients)
    /\ step \in Working => at > 0
    /\ ticket \in Receipts \cup {None}
    /\ step = "send" => ticket \in Receipts
    /\ attempt \in Requests \cup {None}
    /\ step = "await" => attempt \in Requests
    /\ issued \subseteq Receipts

LEMMA GoalTypes ==
    ASSUME InHand
    PROVE  /\ goal.recipients \in Seq(Addresses)
           /\ Len(goal.recipients) \in Nat /\ Len(goal.recipients) > 0
           /\ DOMAIN goal.recipients = 1..Len(goal.recipients)
           /\ goal.body \in Bodies
           /\ at \in Nat
           /\ \A i \in 1..at : i \in DOMAIN goal.recipients /\ goal.recipients[i] \in Addresses
           /\ step \in Working => Recipient \in Addresses
<1>1. /\ goal.recipients \in Seq(Addresses) /\ goal.body \in Bodies
      /\ Len(goal.recipients) > 0
  BY LoopAssumption DEF InHand
<1>2. /\ Len(goal.recipients) \in Nat /\ at \in Nat /\ at <= Len(goal.recipients)
      /\ DOMAIN goal.recipients = 1..Len(goal.recipients)
      /\ step \in Working => at > 0
  BY <1>1 DEF InHand
<1>3. \A i \in 1..Len(goal.recipients) : goal.recipients[i] \in Addresses
  BY <1>1
<1> QED
  BY <1>1, <1>2, <1>3 DEF Recipient

LEMMA InitInHand == LoopInit => InHand
BY LoopAssumption DEF LoopInit, InHand, Working

LEMMA NextInHand ==
    ASSUME InHand, [LoopNext]_loopVars
    PROVE  InHand'
<1> USE DEF InHand, Working, counters
<1>0. Len(goal.recipients) \in Nat /\ at \in Nat
  BY GoalTypes
<1>1. CASE UNCHANGED private
  BY <1>1 DEF private
<1>2. CASE Begin \/ NoMoreRecipients \/ GatewayRefuses \/ GatewayFails
  BY <1>2 DEF Begin, NoMoreRecipients, GatewayRefuses, GatewayFails
<1>3. CASE NextRecipient
  BY <1>0, <1>3 DEF NextRecipient
<1>4. CASE GatewayApproves
  BY <1>4 DEF GatewayApproves
<1>5. CASE Send
  BY <1>5 DEF Send
<1>6. CASE Answered \/ GiveUp \/ Complete
  BY <1>6 DEF Answered, GiveUp, Complete
<1> QED
  BY <1>1, <1>2, <1>3, <1>4, <1>5, <1>6 DEF LoopNext, LoopStep, MailerStep, loopVars

-----------------------------------------------------------------------------
(* The mailer under the loop is the mailer                                 *)

LEMMA LoopStepIsMailerStep ==
    ASSUME InHand, [LoopNext]_loopVars
    PROVE  [Next]_vars
<1>1. CASE UNCHANGED vars
  BY <1>1
<1>2. CASE Send
  <2>1. PICK q \in Requests : ArriveGenuine(q, <<Recipient>>, goal.body, ticket)
    BY <1>2 DEF Send
  <2>2. /\ <<Recipient>> \in Lists /\ goal.body \in Bodies /\ ticket \in Receipts
    BY <1>2, GoalTypes, LoopAssumption DEF Send, InHand, Working
  <2>3. Receive(q)
    BY <2>1, <2>2 DEF Receive
  <2> QED
    BY <2>3 DEF Next
<1>3. CASE MailerStep
  BY <1>3 DEF MailerStep, InHand, Next
<1> QED
  BY <1>1, <1>2, <1>3
  DEF LoopNext, LoopStep, loopVars, Begin, NextRecipient, NoMoreRecipients,
      GatewayApproves, GatewayRefuses, GatewayFails, Answered, GiveUp, Complete

\* Whatever the loop and the gateway do, the mailer sees only what it is
\* specified for: all that is proved of Spec holds here too.
THEOREM LoopRunsMailer == LoopSpec => Spec
<1>1. LoopInit => Init
  BY DEF LoopInit
<1>2. InHand /\ [LoopNext]_loopVars => [Next]_vars
  BY LoopStepIsMailerStep
<1> QED
  BY <1>1, <1>2, InitInHand, NextInHand, PTL DEF LoopSpec, Spec

-----------------------------------------------------------------------------
(* What has become of the loop's requests                                  *)

Tried(q) == pc[q] # "idle"
Settled == \A q \in Requests : Tried(q) => pc[q] = "answered"

\* Every request is of this goal, to one recipient; all but the last one are
\* answered, and before the next one is sent the last one is, too.
OneInFlight ==
    /\ \A q \in Requests :
          Tried(q) =>
              /\ req[q].body = goal.body
              /\ \E a \in Addresses : req[q].recipients = <<a>>
              /\ q # attempt => pc[q] = "answered"
    /\ step \in {"start", "next", "verify", "send"} => Settled
    /\ step = "await" => Tried(attempt)

\* An answer other than a 500 tells whether mail went out.
AnswersTell ==
    \A q \in Requests : Mailed(q) /\ pc[q] = "answered" => resp[q] \in {200, 500}

\* The recipients whose turn has come, but for the one whose request is still
\* to be sent.
TurnsTaken == IF step \in {"verify", "send"} THEN 1..(at - 1) ELSE 1..at

TriedFor(a) == {q \in Requests : Tried(q) /\ req[q].recipients = <<a>>}
TurnsOf(a) == {i \in TurnsTaken : goal.recipients[i] = a}

\* No address is tried more often than its turn has come.
OneTryPerTurn ==
    \A a \in Addresses :
        /\ IsFiniteSet(TriedFor(a))
        /\ Cardinality(TriedFor(a)) <= Cardinality(TurnsOf(a))

\* The mail that was answered with 200, and what of it the loop has heard of
\* once it no longer waits for its last request.
Confirmed == {m \in mail : resp[m.by] = 200}
Heard == {m \in Confirmed : m.by # attempt}

\* The recipients with an @ whose turn has begun.
WellFormed == {i \in 1..at : goal.recipients[i] \notin Malformed}

\* The counter of sent mail is exact while every answer has been heard, and
\* leaves out at most the last request after that.
SentIsHeard ==
    /\ IsFiniteSet(mail)
    /\ \/ Settled /\ step # "await" /\ sent = Cardinality(Confirmed)
       \/ /\ step \in {"await", "complete", "over"}
          /\ attempt \in Requests /\ Tried(attempt)
          /\ sent = Cardinality(Heard)

EachIsCounted ==
    /\ sent \in Nat /\ rejected \in Nat /\ sent + rejected <= at
    /\ step \in {"start", "next"} => sent + rejected = Cardinality(WellFormed)
    /\ step \in Working => sent + rejected + 1 = Cardinality(WellFormed)

LoopInv ==
    /\ InHand
    /\ OneInFlight
    /\ AnswersTell
    /\ OneTryPerTurn
    /\ SentIsHeard
    /\ EachIsCounted

\* A step of q's handler, as far as the loop can tell.
HandlerStep(q) ==
    /\ pc[q] \in Awaiting
    /\ pc'[q] \in Awaiting \cup Over
    /\ \A u \in Requests \ {q} : pc'[u] = pc[u] /\ resp'[u] = resp[u]
    /\ UNCHANGED <<private, req>>
    /\ \/ UNCHANGED mail
       \/ mail' = mail \cup {MailOf(q)} /\ pc'[q] = "record"
    /\ pc'[q] = "answered" /\ Mailed(q) => resp'[q] \in {200, 500}

LEMMA MailerEffect ==
    ASSUME Typed, Redemption, MailerStep
    PROVE  \/ UNCHANGED <<private, pc, req, resp, mail>>
           \/ \E q \in Requests : HandlerStep(q)
<1> USE DEF Typed, TypeOK, HandlerStep, Awaiting, Over, Goto, Answer, Invalid, tables
<1>0. \A q \in Requests : Mailed(q) => pc[q] \in {"record"} \cup Over
  BY DEF Redemption, MailAccounted, Mailed
<1>1. ASSUME NEW q \in Requests, Handle(q), UNCHANGED private
      PROVE  HandlerStep(q)
  <2>1. CASE ConsumeReceipt(q) \/ RefuseReplay(q) \/ ReplayStoreFails(q)
    BY <1>0, <1>1, <2>1 DEF ConsumeReceipt, RefuseReplay, ReplayStoreFails
  <2>2. CASE Decide(q)
    BY <1>1, <2>2 DEF Decide, MailOf
  <2>3. CASE RecordInvalid(q) \/ RecordRejection(q)
    BY <1>0, <1>1, <2>3 DEF RecordInvalid, RecordRejection
  <2>4. CASE RecordSend(q)
    BY <1>1, <2>4 DEF RecordSend
  <2> QED
    BY <1>1, <2>1, <2>2, <2>3, <2>4 DEF Handle
<1>2. ASSUME NEW q \in Requests, Drop(q), UNCHANGED private
      PROVE  HandlerStep(q)
  BY <1>2 DEF Drop
<1>3. ASSUME Tick(ticket), UNCHANGED private
      PROVE  UNCHANGED <<private, pc, req, resp, mail>>
  BY <1>3 DEF Tick, handlers
<1> QED
  BY <1>1, <1>2, <1>3 DEF MailerStep

\* The loop's request reaches the mailer.
SendStep(q) ==
    /\ pc[q] = "idle"
    /\ pc'[q] \in {"consume", "recordInvalid"}
    /\ req'[q].recipients = <<Recipient>>
    /\ req'[q].body = goal.body
    /\ \A u \in Requests \ {q} : pc'[u] = pc[u] /\ req'[u] = req[u] /\ resp'[u] = resp[u]
    /\ UNCHANGED mail
    /\ attempt' = q
    /\ step = "send" /\ step' = "await"
    /\ UNCHANGED <<goal, at, counters, ticket, issued>>

LEMMA SendEffect ==
    ASSUME Typed, Send
    PROVE  \E q \in Requests : SendStep(q)
BY DEF Typed, TypeOK, Send, SendStep, ArriveGenuine, Arrive, Goto, Invalid

\* The other steps of the loop leave the mailer alone.
LEMMA LoopEffect ==
    ASSUME LoopStep, ~Send
    PROVE  UNCHANGED vars /\ UNCHANGED <<goal, attempt>>
BY DEF LoopStep, Begin, NextRecipient, NoMoreRecipients, GatewayApproves,
       GatewayRefuses, GatewayFails, Answered, GiveUp, Complete

LEMMA NoMailBefore ==
    ASSUME Typed, Redemption
    PROVE  /\ \A m \in mail : /\ m.by \in Requests /\ pc[m.by] \in {"record"} \cup Over
                               /\ m = MailOf(m.by)
           /\ \A q \in Requests : Mailed(q) => pc[q] \in {"record"} \cup Over
BY DEF Typed, TypeOK, Mail, Redemption, MailAccounted, Mailed

-----------------------------------------------------------------------------
(* One request at a time                                                   *)

LEMMA NextOneInFlight ==
    ASSUME Typed, Redemption, InHand, OneInFlight, AnswersTell, [LoopNext]_loopVars
    PROVE  OneInFlight' /\ AnswersTell'
<1> USE DEF OneInFlight, Settled, Tried, Awaiting, Over
<1>1. ASSUME UNCHANGED <<pc, req, resp, mail, goal, attempt>>,
             step' \in {"start", "next", "verify", "send"} => Settled,
             step' = "await" => step = "await"
      PROVE  OneInFlight' /\ AnswersTell'
  BY <1>1 DEF AnswersTell, Mailed
<1>2. ASSUME NEW q \in Requests, HandlerStep(q)
      PROVE  OneInFlight' /\ AnswersTell'
  <2>1. q = attempt /\ step \notin {"start", "next", "verify", "send"}
    BY <1>2 DEF HandlerStep
  <2>2. OneInFlight'
    BY <1>2, <2>1 DEF HandlerStep, private
  <2>3. \A u \in Requests : Mailed(u)' /\ pc'[u] = "answered" => Mailed(u)
    BY <1>2 DEF HandlerStep, Mailed, MailOf
  <2> QED
    BY <1>2, <2>2, <2>3 DEF AnswersTell, HandlerStep
<1>3. ASSUME NEW q \in Requests, SendStep(q)
      PROVE  OneInFlight' /\ AnswersTell'
  <2>1. Recipient \in Addresses
    BY <1>3, GoalTypes DEF SendStep, Working
  <2>2. OneInFlight'
    BY <1>3, <2>1 DEF SendStep
  <2>3. \A u \in Requests : Mailed(u)' = Mailed(u)
    BY <1>3 DEF SendStep, Mailed
  <2> QED
    BY <1>3, <2>2, <2>3 DEF AnswersTell, SendStep
<1>4. CASE MailerStep
  BY <1>1, <1>2, <1>4, MailerEffect DEF private
<1>5. CASE Send
  BY <1>3, <1>5, SendEffect
<1>6. CASE LoopStep /\ ~Send
  <2>1. UNCHANGED <<pc, req, resp, mail, goal, attempt>>
    BY <1>6, LoopEffect DEF vars, handlers
  <2>2. step' # "await"
    BY <1>6 DEF LoopStep, Begin, NextRecipient, NoMoreRecipients, GatewayApproves,
       GatewayRefuses, GatewayFails, Answered, GiveUp, Complete
  <2>3. step' \in {"start", "next", "verify", "send"} => Settled
    BY <1>6 DEF LoopStep, Begin, NextRecipient, NoMoreRecipients, GatewayApproves,
       GatewayRefuses, GatewayFails, Answered, GiveUp, Complete, InHand
  <2> QED
    BY <1>1, <2>1, <2>2, <2>3
<1>7. CASE UNCHANGED loopVars
  BY <1>1, <1>7 DEF loopVars, vars, handlers, private
<1> QED
  BY <1>4, <1>5, <1>6, <1>7 DEF LoopNext

-----------------------------------------------------------------------------
(* One try per turn                                                        *)

LEMMA PlacesFinite ==
    ASSUME NEW n \in Nat, NEW places \in SUBSET (1..n)
    PROVE  /\ IsFiniteSet(places)
           /\ Cardinality(places) \in Nat
           /\ Cardinality(places) <= n
<1>1. IsFiniteSet(1..n) /\ Cardinality(1..n) = n
  BY FS_Interval
<1> QED
  BY <1>1, FS_Subset, FS_CardinalityType

LEMMA TurnsFinite ==
    ASSUME NEW a
    PROVE  /\ at \in Nat =>
                 IsFiniteSet(TurnsOf(a)) /\ Cardinality(TurnsOf(a)) \in Nat
           /\ at' \in Nat =>
                 IsFiniteSet(TurnsOf(a)') /\ Cardinality(TurnsOf(a)') \in Nat
<1>1. at \in Nat => TurnsOf(a) \in SUBSET (1..at)
  BY DEF TurnsOf, TurnsTaken
<1>2. at' \in Nat => TurnsOf(a)' \in SUBSET (1..at')
  BY DEF TurnsOf, TurnsTaken
<1> QED
  BY <1>1, <1>2, PlacesFinite

\* Nobody is tried, and turns only come.
LEMMA QuietTries ==
    ASSUME InHand, InHand', OneTryPerTurn,
           \A q \in Requests : Tried(q)' <=> Tried(q),
           UNCHANGED <<req, goal>>,
           TurnsTaken \subseteq TurnsTaken'
    PROVE  OneTryPerTurn'
<1> SUFFICES ASSUME NEW a \in Addresses
             PROVE  /\ IsFiniteSet(TriedFor(a)')
                    /\ Cardinality(TriedFor(a)') <= Cardinality(TurnsOf(a)')
  BY DEF OneTryPerTurn
<1>1. TriedFor(a)' = TriedFor(a)
  BY DEF TriedFor
<1>2. TurnsOf(a) \in SUBSET (TurnsOf(a)')
  BY DEF TurnsOf
<1>3. /\ IsFiniteSet(TurnsOf(a)') /\ Cardinality(TurnsOf(a)') \in Nat
      /\ Cardinality(TurnsOf(a)) \in Nat
  <2>1. at \in Nat /\ at' \in Nat
    BY DEF InHand
  <2> QED
    BY <2>1, TurnsFinite
<1>4. Cardinality(TurnsOf(a)) <= Cardinality(TurnsOf(a)')
  BY <1>2, <1>3, FS_Subset
<1>5. IsFiniteSet(TriedFor(a)) /\ Cardinality(TriedFor(a)) \in Nat
  BY FS_CardinalityType DEF OneTryPerTurn
<1> QED
  BY <1>1, <1>3, <1>4, <1>5 DEF OneTryPerTurn

\* The try of a recipient uses up the turn that the loop has begun.
LEMMA SendTries ==
    ASSUME InHand, InHand', OneTryPerTurn, NEW q \in Requests, SendStep(q)
    PROVE  OneTryPerTurn'
<1> SUFFICES ASSUME NEW a \in Addresses
             PROVE  /\ IsFiniteSet(TriedFor(a)')
                    /\ Cardinality(TriedFor(a)') <= Cardinality(TurnsOf(a)')
  BY DEF OneTryPerTurn
<1>1. at \in Nat /\ at > 0
  BY GoalTypes DEF InHand, SendStep, Working
<1>2. TurnsTaken = 1..(at - 1) /\ TurnsTaken' = (1..(at - 1)) \cup {at}
  BY <1>1 DEF TurnsTaken, SendStep
<1>3. IsFiniteSet(TriedFor(a)) /\ Cardinality(TriedFor(a)) \in Nat
      /\ IsFiniteSet(TurnsOf(a)) /\ Cardinality(TurnsOf(a)) \in Nat
      /\ Cardinality(TriedFor(a)) <= Cardinality(TurnsOf(a))
  BY <1>1, FS_CardinalityType, TurnsFinite DEF OneTryPerTurn
<1>4. CASE Recipient = a
  <2>1. TriedFor(a)' = TriedFor(a) \cup {q} /\ q \notin TriedFor(a)
    BY <1>4 DEF TriedFor, Tried, SendStep
  <2>2. TurnsOf(a)' = TurnsOf(a) \cup {at} /\ at \notin TurnsOf(a)
    BY <1>1, <1>2, <1>4 DEF TurnsOf, Recipient, SendStep
  <2>3. /\ IsFiniteSet(TriedFor(a) \cup {q})
        /\ Cardinality(TriedFor(a) \cup {q}) = Cardinality(TriedFor(a)) + 1
    BY <1>3, <2>1, FS_AddElement
  <2>4. Cardinality(TurnsOf(a) \cup {at}) = Cardinality(TurnsOf(a)) + 1
    BY <1>3, <2>2, FS_AddElement
  <2> QED
    BY <1>3, <2>1, <2>2, <2>3, <2>4
<1>5. CASE Recipient # a
  <2>1. TriedFor(a)' = TriedFor(a)
    BY <1>5 DEF TriedFor, Tried, SendStep
  <2>2. TurnsOf(a)' = TurnsOf(a)
    BY <1>1, <1>2, <1>5 DEF TurnsOf, Recipient, SendStep
  <2> QED
    BY <1>3, <2>1, <2>2
<1> QED
  BY <1>4, <1>5

LEMMA NextOneTry ==
    ASSUME Typed, Redemption, InHand, InHand', OneTryPerTurn, [LoopNext]_loopVars
    PROVE  OneTryPerTurn'
<1>0. at \in Nat
  BY GoalTypes
<1>1. CASE MailerStep
  <2>1. UNCHANGED <<private, req>> /\ \A q \in Requests : Tried(q)' <=> Tried(q)
    BY <1>1, MailerEffect DEF HandlerStep, Tried, Awaiting, Over
  <2>2. UNCHANGED <<TurnsTaken, goal>>
    BY <2>1 DEF TurnsTaken, private
  <2> QED
    BY <2>1, <2>2, QuietTries
<1>2. CASE Send
  BY <1>2, SendEffect, SendTries
<1>3. CASE LoopStep /\ ~Send
  <2>1. UNCHANGED <<req, goal>> /\ \A q \in Requests : Tried(q)' <=> Tried(q)
    BY <1>3, LoopEffect DEF vars, handlers, Tried
  <2>2. TurnsTaken \subseteq TurnsTaken'
    BY <1>0, <1>3 DEF LoopStep, Begin, NextRecipient, NoMoreRecipients,
       GatewayApproves, GatewayRefuses, GatewayFails, Answered, GiveUp, Complete,
       TurnsTaken
  <2> QED
    BY <2>1, <2>2, QuietTries
<1>4. CASE UNCHANGED loopVars
  BY <1>4, QuietTries DEF loopVars, vars, handlers, private, Tried, TurnsTaken
<1> QED
  BY <1>1, <1>2, <1>3, <1>4 DEF LoopNext

-----------------------------------------------------------------------------
(* The counters                                                            *)

\* A 200 is mail, and an answered request that is not in the mail is no 200.
LEMMA ConfirmedIsMailed ==
    ASSUME Typed, Redemption, NEW q \in Requests, resp[q] = 200
    PROVE  Mailed(q) /\ MailOf(q) \in mail
<1>1. RowOf(q, Claimed(q), "sent") \in sends
  BY DEF Redemption, AnswersAccounted
<1>2. Mailed(q)
  BY <1>1 DEF Redemption, RowsAccounted, RowOf
<1> QED
  BY <1>2, NoMailBefore DEF Mailed

LEMMA ConfirmedFinite ==
    ASSUME IsFiniteSet(mail)
    PROVE  /\ IsFiniteSet(Confirmed) /\ Cardinality(Confirmed) \in Nat
           /\ IsFiniteSet(Heard) /\ Cardinality(Heard) \in Nat
           /\ Cardinality(Heard) <= Cardinality(Confirmed)
           /\ Cardinality(Confirmed) <= Cardinality(mail)
<1>1. Confirmed \in SUBSET mail /\ Heard \in SUBSET Confirmed
  BY DEF Confirmed, Heard
<1>2. IsFiniteSet(Confirmed)
  BY <1>1, FS_Subset
<1> QED
  BY <1>1, <1>2, FS_Subset, FS_CardinalityType

\* The handler of the last request works on; the loop has not counted it.
LEMMA HandlerSent ==
    ASSUME Typed, Redemption, OneInFlight, SentIsHeard, NEW q \in Requests, HandlerStep(q)
    PROVE  SentIsHeard'
<1>1. q = attempt /\ ~Settled
  BY DEF OneInFlight, Settled, Tried, HandlerStep, Awaiting
<1>2. /\ step \in {"await", "complete", "over"} /\ Tried(attempt)
      /\ sent = Cardinality(Heard)
      /\ IsFiniteSet(mail)
  BY <1>1 DEF SentIsHeard
<1>3. IsFiniteSet(mail')
  BY <1>2, FS_AddElement DEF HandlerStep
<1>4. MailOf(q).by = q
  BY DEF MailOf
<1>5. Heard' = Heard
  BY <1>1, <1>4, NoMailBefore DEF Heard, Confirmed, HandlerStep, private
<1>6. Tried(attempt)'
  BY <1>1 DEF Tried, HandlerStep, private, Awaiting, Over
<1> QED
  BY <1>1, <1>2, <1>3, <1>5, <1>6 DEF SentIsHeard, HandlerStep, private, counters

LEMMA SendSent ==
    ASSUME Typed, Redemption, SentIsHeard, NEW q \in Requests, SendStep(q)
    PROVE  SentIsHeard'
<1>1. sent = Cardinality(Confirmed) /\ IsFiniteSet(mail)
  BY DEF SentIsHeard, SendStep
<1>2. \A m \in mail : m.by \in Requests \ {q}
  BY NoMailBefore DEF SendStep, Over
<1>3. Heard' = Confirmed
  BY <1>2 DEF Heard, Confirmed, SendStep
<1> QED
  BY <1>1, <1>3 DEF SentIsHeard, SendStep, Tried, counters

LEMMA AnsweredSent ==
    ASSUME Typed, Redemption, InHand, OneInFlight, SentIsHeard, Answered
    PROVE  SentIsHeard'
<1>1. /\ sent = Cardinality(Heard) /\ IsFiniteSet(mail)
      /\ attempt \in Requests /\ pc[attempt] = "answered"
      /\ UNCHANGED <<mail, pc, resp, attempt>> /\ step' = "next"
  BY DEF SentIsHeard, Answered, InHand, vars, handlers
<1>2. Settled'
  BY <1>1 DEF OneInFlight, Settled, Tried
<1>3. IsFiniteSet(Heard)
  BY <1>1, ConfirmedFinite
<1>4. UNCHANGED Confirmed
  BY <1>1 DEF Confirmed
<1>5. CASE resp[attempt] = 200
  <2>1. /\ Confirmed = Heard \cup {MailOf(attempt)}
        /\ MailOf(attempt) \notin Heard
    <3>1. MailOf(attempt) \in mail /\ MailOf(attempt).by = attempt
      BY <1>1, <1>5, ConfirmedIsMailed DEF MailOf
    <3>2. \A m \in mail : m.by = attempt => m = MailOf(attempt)
      BY NoMailBefore
    <3> QED
      BY <1>5, <3>1, <3>2 DEF Heard, Confirmed
  <2>2. Cardinality(Confirmed) = Cardinality(Heard) + 1
    BY <1>3, <2>1, FS_AddElement
  <2>3. sent' = sent + 1
    BY <1>5 DEF Answered
  <2> QED
    BY <1>1, <1>2, <1>4, <2>2, <2>3 DEF SentIsHeard
<1>6. CASE resp[attempt] # 200
  <2>1. Confirmed = Heard
    BY <1>6 DEF Heard, Confirmed
  <2>2. sent' = sent
    BY <1>6 DEF Answered
  <2> QED
    BY <1>1, <1>2, <1>4, <2>1, <2>2 DEF SentIsHeard
<1> QED
  BY <1>5, <1>6

LEMMA NextSent ==
    ASSUME Typed, Redemption, InHand, OneInFlight, SentIsHeard, [LoopNext]_loopVars
    PROVE  SentIsHeard'
<1>1. ASSUME UNCHANGED <<pc, resp, mail, attempt, sent>>,
             step' = step \/ step' # "await",
             step \in {"await", "complete", "over"} =>
                step' \in {"await", "complete", "over"}
      PROVE  SentIsHeard'
  BY <1>1 DEF SentIsHeard, Settled, Tried, Confirmed, Heard
<1>2. CASE MailerStep
  BY <1>1, <1>2, MailerEffect, HandlerSent DEF private, counters
<1>3. CASE Send
  BY <1>3, SendEffect, SendSent
<1>4. CASE Answered
  BY <1>4, AnsweredSent
<1>5. CASE LoopStep /\ ~Send /\ ~Answered
  <2>1. UNCHANGED <<pc, resp, mail, attempt>>
    BY <1>5, LoopEffect DEF vars, handlers
  <2> QED
    BY <1>1, <1>5, <2>1
    DEF LoopStep, Begin, NextRecipient, NoMoreRecipients, GatewayApproves,
        GatewayRefuses, GatewayFails, GiveUp, Complete, counters
<1>6. CASE UNCHANGED loopVars
  BY <1>1, <1>6 DEF loopVars, vars, handlers, private, counters
<1> QED
  BY <1>2, <1>3, <1>4, <1>5, <1>6 DEF LoopNext

\* Each recipient with an @ is counted once, on the answer of the gateway or of
\* the mailer.
LEMMA NextCounted ==
    ASSUME InHand, EachIsCounted, [LoopNext]_loopVars
    PROVE  EachIsCounted'
<1> USE DEF counters, Working
<1>0. at \in Nat
  BY GoalTypes
<1>1. /\ IsFiniteSet(WellFormed) /\ Cardinality(WellFormed) \in Nat
      /\ Cardinality(WellFormed) <= at
  <2>1. WellFormed \in SUBSET (1..at)
    BY DEF WellFormed
  <2> QED
    BY <1>0, <2>1, PlacesFinite
<1>2. ASSUME UNCHANGED <<goal, at>>
      PROVE  UNCHANGED WellFormed
  BY <1>2 DEF WellFormed
<1>3. CASE NextRecipient
  <2>1. /\ at' = at + 1 /\ UNCHANGED <<goal, counters>>
        /\ step = "next" /\ sent + rejected = Cardinality(WellFormed)
    BY <1>3 DEF NextRecipient, EachIsCounted
  <2>2. 1..at' = (1..at) \cup {at + 1}
    BY <1>0, <2>1
  <2>3. CASE goal.recipients[at'] \in Malformed
    <3>1. WellFormed' = WellFormed
      BY <2>1, <2>2, <2>3 DEF WellFormed
    <3> QED
      BY <1>0, <1>3, <2>1, <2>3, <3>1 DEF EachIsCounted, NextRecipient
  <2>4. CASE goal.recipients[at'] \notin Malformed
    <3>1. WellFormed' = WellFormed \cup {at + 1} /\ at + 1 \notin WellFormed
      BY <1>0, <2>1, <2>2, <2>4 DEF WellFormed
    <3>2. Cardinality(WellFormed') = Cardinality(WellFormed) + 1
      BY <1>1, <3>1, FS_AddElement
    <3> QED
      BY <1>0, <1>1, <1>3, <2>1, <2>4, <3>2 DEF EachIsCounted, NextRecipient
  <2> QED
    BY <2>3, <2>4
<1>4. CASE GatewayRefuses
  BY <1>0, <1>1, <1>2, <1>4 DEF GatewayRefuses, EachIsCounted
<1>5. CASE Answered
  BY <1>0, <1>1, <1>2, <1>5 DEF Answered, EachIsCounted
<1>6. CASE Begin \/ NoMoreRecipients \/ GatewayApproves \/ GatewayFails
  BY <1>2, <1>6 DEF Begin, NoMoreRecipients, GatewayApproves, GatewayFails, EachIsCounted
<1>7. CASE Send \/ GiveUp \/ Complete
  BY <1>2, <1>7 DEF Send, GiveUp, Complete, EachIsCounted
<1>8. CASE UNCHANGED private
  BY <1>2, <1>8 DEF private, EachIsCounted
<1> QED
  BY <1>3, <1>4, <1>5, <1>6, <1>7, <1>8 DEF LoopNext, LoopStep, MailerStep, loopVars

-----------------------------------------------------------------------------
(* The loop's promises                                                     *)

LEMMA InitLoop == LoopInit => LoopInv
<1> SUFFICES ASSUME LoopInit PROVE LoopInv
  OBVIOUS
<1> USE DEF LoopInit, Init, Tried
<1>1. InHand
  BY InitInHand
<1>2. OneInFlight /\ AnswersTell
  BY DEF OneInFlight, AnswersTell, Settled, Mailed
<1>3. OneTryPerTurn
  <2> SUFFICES ASSUME NEW a \in Addresses
               PROVE  /\ IsFiniteSet(TriedFor(a))
                      /\ Cardinality(TriedFor(a)) <= Cardinality(TurnsOf(a))
    BY DEF OneTryPerTurn
  <2>1. TriedFor(a) = {}
    BY DEF TriedFor
  <2> QED
    BY <2>1, FS_EmptySet, TurnsFinite
<1>4. SentIsHeard
  BY FS_EmptySet DEF SentIsHeard, Settled, Confirmed
<1>5. EachIsCounted
  <2>1. WellFormed = {}
    BY DEF WellFormed
  <2> QED
    BY <2>1, FS_EmptySet DEF EachIsCounted, Working
<1> QED
  BY <1>1, <1>2, <1>3, <1>4, <1>5 DEF LoopInv

\* The inductive invariant: one request at a time and one try per turn, so
\* that the counters lag behind the mail by one request at most.
LEMMA LoopCorrect == LoopSpec => [](LoopInv /\ Typed /\ Redemption)
<1>1. Typed /\ Redemption /\ LoopInv /\ [LoopNext]_loopVars => LoopInv'
  BY NextInHand, NextOneInFlight, NextOneTry, NextSent, NextCounted DEF LoopInv
<1> QED
  BY <1>1, InitLoop, LoopRunsMailer, RedemptionCorrect, PTL DEF LoopSpec

\* The loop and the mailer keep their types; more than one outcome is never
\* counted for one recipient.
THEOREM LoopTypeCorrect == LoopSpec => []LoopTypeOK
<1>1. LoopInv /\ Typed => LoopTypeOK
  BY DEF LoopInv, InHand, EachIsCounted, Typed, LoopTypeOK, Working
<1> QED
  BY <1>1, LoopCorrect, PTL

\* The closing message never claims mail that did not go out, and leaves out
\* no more than what the mailer disowned with a 500 and the last request.
THEOREM CountsTellTruth == LoopSpec => []CountsAreTrue
<1>1. LoopInv /\ Typed /\ Redemption => CountsAreTrue
  <2> SUFFICES ASSUME LoopInv, Typed, Redemption
               PROVE  CountsAreTrue
    OBVIOUS
  <2> USE DEF LoopInv
  <2>1. IsFiniteSet(mail) /\ Cardinality(mail) \in Nat
    BY FS_CardinalityType DEF SentIsHeard
  <2>2. \A m \in mail : pc[m.by] = "answered" => resp[m.by] \in {200, 500}
    BY NoMailBefore DEF AnswersTell, Mailed
  <2>3. \A m \in mail : m.by # attempt => pc[m.by] = "answered"
    BY NoMailBefore DEF OneInFlight, Tried, Over
  <2>4. sent <= Cardinality(mail)
    BY <2>1, ConfirmedFinite DEF SentIsHeard
  <2>5. Cardinality(mail \ Unheard) <= sent
    <3>1. (mail \ Unheard) \in SUBSET Heard
      BY <2>2, <2>3 DEF Unheard, Heard, Confirmed
    <3>2. /\ Cardinality(mail \ Unheard) \in Nat
          /\ Cardinality(mail \ Unheard) <= Cardinality(Heard)
      BY <2>1, <3>1, ConfirmedFinite, FS_Subset, FS_CardinalityType
    <3> QED
      BY <2>1, <3>2, ConfirmedFinite DEF SentIsHeard
  <2>6. ASSUME step = "next"
        PROVE  /\ Cardinality({m \in mail : resp[m.by] # 500}) = sent
               /\ sent + rejected =
                     Cardinality({i \in 1..at : goal.recipients[i] \notin Malformed})
    <3>1. Settled /\ sent = Cardinality(Confirmed)
      BY <2>6 DEF SentIsHeard
    <3>2. \A m \in mail : resp[m.by] \in {200, 500}
      BY <2>2, <3>1, NoMailBefore DEF Settled, Tried, Over
    <3>3. {m \in mail : resp[m.by] # 500} = Confirmed
      BY <3>2 DEF Confirmed
    <3> QED
      BY <2>6, <3>1, <3>3 DEF EachIsCounted, WellFormed
  <2> QED
    BY <2>4, <2>5, <2>6 DEF CountsAreTrue
<1> QED
  BY <1>1, LoopCorrect, PTL

\* However answers are lost, nobody gets a goal's mail more often than the goal
\* names them.
THEOREM NobodyIsMailedTwice == LoopSpec => []NobodyMailedTwice
<1>1. LoopInv /\ Typed /\ Redemption => NobodyMailedTwice
  <2> SUFFICES ASSUME LoopInv, Typed, Redemption, NEW m \in mail
               PROVE  /\ m.body = goal.body
                      /\ \A a \in Addresses :
                            Cardinality({n \in mail : n.recipients = <<a>>})
                                <= Occurrences(goal.recipients)[a]
                      /\ Len(m.recipients) = 1
    BY DEF NobodyMailedTwice
  <2> USE DEF LoopInv
  <2>1. \A n \in mail : /\ n.by \in Requests /\ Tried(n.by)
                       /\ n.recipients = req[n.by].recipients
                       /\ n.body = req[n.by].body
    BY NoMailBefore DEF MailOf, Tried, Over
  <2>2. m.body = goal.body /\ Len(m.recipients) = 1
    <3>1. PICK a \in Addresses : req[m.by].recipients = <<a>>
      BY <2>1 DEF OneInFlight
    <3>2. Len(<<a>>) = 1
      OBVIOUS
    <3> QED
      BY <2>1, <3>1, <3>2 DEF OneInFlight
  <2>3. ASSUME NEW a \in Addresses
        PROVE  Cardinality({n \in mail : n.recipients = <<a>>})
                  <= Occurrences(goal.recipients)[a]
    <3> DEFINE copies == {n \in mail : n.recipients = <<a>>}
               sender == [n \in copies |-> n.by]
               places == {i \in DOMAIN goal.recipients : goal.recipients[i] = a}
    <3>1. sender \in Injection(copies, TriedFor(a))
      <4>1. sender \in [copies -> TriedFor(a)]
        BY <2>1 DEF TriedFor
      <4>2. \A n, o \in copies : sender[n] = sender[o] => n = o
        BY NoMailBefore
      <4> QED
        BY <4>1, <4>2 DEF Injection, IsInjective
    <3>2. IsFiniteSet(TriedFor(a)) /\ Cardinality(TriedFor(a)) <= Cardinality(TurnsOf(a))
      BY DEF OneTryPerTurn
    <3>3. /\ IsFiniteSet(places) /\ Cardinality(places) \in Nat
          /\ Occurrences(goal.recipients)[a] = Cardinality(places)
      BY GoalTypes, OccurrencesCount
    <3>4. TurnsOf(a) \in SUBSET places
      BY GoalTypes DEF TurnsOf, TurnsTaken
    <3> HIDE DEF copies, sender, places
    <3>5. /\ Cardinality(copies) <= Cardinality(TriedFor(a))
          /\ Cardinality(copies) \in Nat /\ Cardinality(TriedFor(a)) \in Nat
      BY <3>1, <3>2, FS_Injection, FS_CardinalityType
    <3>6. Cardinality(TurnsOf(a)) <= Cardinality(places) /\ Cardinality(TurnsOf(a)) \in Nat
      BY <3>3, <3>4, FS_Subset, FS_CardinalityType
    <3>7. Cardinality(copies) <= Cardinality(places)
      BY <3>2, <3>3, <3>5, <3>6
    <3> QED
      BY <3>3, <3>7 DEF copies
  <2> QED
    BY <2>2, <2>3
<1> QED
  BY <1>1, LoopCorrect, PTL
=============================================================================
