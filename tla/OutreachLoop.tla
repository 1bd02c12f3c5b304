---------------------------- MODULE OutreachLoop ----------------------------
(***************************************************************************)
(* One run of email-outreach/agent's loop over the recipients of its goal, *)
(* against the mailer of Mailer and a gateway.                             *)
(*                                                                         *)
(* One receipt and one request per recipient.  The loop knows what it has  *)
(* sent only from the answers; while it goes on, or has given up, requests *)
(* are dropped, their rows fail and receipts go stale.                     *)
(***************************************************************************)
EXTENDS Mailer

CONSTANTS
    Goals,      \* goals that submit_goal may have accepted
    Malformed,  \* addresses without an @
    None        \* no receipt in hand, no request in flight

ASSUME LoopAssumption ==
    /\ Goals \subseteq [recipients : Seq(Addresses), body : Bodies]
    /\ \A g \in Goals : Len(g.recipients) > 0
    /\ Malformed \subseteq Addresses \ AllowedAddresses
    /\ \A a \in Addresses : <<a>> \in Lists
    /\ None \notin Receipts \cup Requests

VARIABLES
    goal,       \* the goal of this run
    step,       \* the await the loop is at
    at,         \* how many recipients the loop has begun with
    sent, rejected,    \* the loop's own counters
    ticket,     \* the receipt in hand
    attempt,    \* the request in flight
    issued      \* receipts the gateway has issued (external)

counters == <<sent, rejected>>
private == <<goal, step, at, counters, ticket, attempt, issued>>
loopVars == <<vars, private>>

LoopTypeOK ==
    /\ TypeOK
    /\ goal \in Goals
    /\ step \in {"start", "next", "verify", "send", "await", "complete", "over"}
    /\ at \in 0..Len(goal.recipients)
    /\ sent \in Nat /\ rejected \in Nat /\ sent + rejected <= at
    /\ ticket \in Receipts \cup {None}
    /\ attempt \in Requests \cup {None}
    /\ issued \subseteq Receipts

LoopInit ==
    /\ Init
    /\ age = [r \in Receipts |-> "fresh"]
    /\ goal \in Goals
    /\ step = "start"
    /\ at = 0
    /\ sent = 0 /\ rejected = 0
    /\ ticket = None
    /\ attempt = None
    /\ issued = {}

-----------------------------------------------------------------------------
(* The loop                                                                *)

Recipient == goal.recipients[at]

\* There is a delegation to work with, or the loop aborts.
Begin ==
    /\ step = "start"
    /\ step' \in {"next", "over"}
    /\ UNCHANGED <<vars, goal, at, counters, ticket, attempt, issued>>

\* The next recipient; one without an @ is skipped, and without an anchor the
\* loop breaks off.
NextRecipient ==
    /\ step = "next"
    /\ at < Len(goal.recipients)
    /\ at' = at + 1
    /\ \/ goal.recipients[at'] \in Malformed /\ step' = "next"
       \/ goal.recipients[at'] \notin Malformed /\ step' \in {"verify", "complete"}
    /\ UNCHANGED <<vars, goal, counters, ticket, attempt, issued>>

NoMoreRecipients ==
    /\ step = "next"
    /\ at = Len(goal.recipients)
    /\ step' = "complete"
    /\ UNCHANGED <<vars, goal, at, counters, ticket, attempt, issued>>

\* verify_action issues a fresh receipt for this recipient and this body.
GatewayApproves ==
    /\ step = "verify"
    /\ \E r \in Receipts \ issued :
          /\ Claim[r] = [recipients |-> <<Recipient>>, hash |-> HashOf[goal.body]]
          /\ ticket' = r
          /\ issued' = issued \cup {r}
    /\ step' = "send"
    /\ UNCHANGED <<vars, goal, at, counters, attempt>>

\* Slip: the loop comes back to a recipient who was rejected.
GatewayRefuses_Again ==
    /\ step = "verify"
    /\ at' = at - 1
    /\ step' \in {"next", "complete"}
    /\ UNCHANGED <<vars, goal, counters, ticket, attempt, issued>>

\* Rejected: on with the next recipient - or, for the rate limit, a revoked or
\* an expired delegation, to the end.
GatewayRefuses ==
    /\ step = "verify"
    /\ rejected' = rejected + 1
    /\ step' \in {"next", "complete"}
    /\ UNCHANGED <<vars, goal, at, sent, ticket, attempt, issued>>

\* No verdict: to the end, and counted nowhere.
GatewayFails ==
    /\ step = "verify"
    /\ step' = "complete"
    /\ UNCHANGED <<vars, goal, at, counters, ticket, attempt, issued>>

\* MailerClient::send: the request reaches the mailer.
Send ==
    /\ step = "send"
    /\ \E q \in Requests :
          /\ ArriveGenuine(q, <<Recipient>>, goal.body, ticket)
          /\ attempt' = q
    /\ step' = "await"
    /\ UNCHANGED <<goal, at, counters, ticket, issued>>

\* Slip: every answer counts as sent.
Answered_Sent ==
    /\ step = "await"
    /\ pc[attempt] = "answered"
    /\ sent' = sent + 1
    /\ step' = "next"
    /\ UNCHANGED <<vars, goal, at, rejected, ticket, attempt, issued>>

\* Slip: a request counts as sent and, if it was not, as rejected too.
Answered_Both ==
    /\ step = "await"
    /\ pc[attempt] = "answered"
    /\ sent' = sent + 1
    /\ rejected' = IF resp[attempt] = 200 THEN rejected ELSE rejected + 1
    /\ step' = "next"
    /\ UNCHANGED <<vars, goal, at, ticket, attempt, issued>>

\* The answer is in.
Answered ==
    /\ step = "await"
    /\ pc[attempt] = "answered"
    /\ \/ resp[attempt] = 200 /\ sent' = sent + 1 /\ UNCHANGED rejected
       \/ resp[attempt] # 200 /\ rejected' = rejected + 1 /\ UNCHANGED sent
    /\ step' = "next"
    /\ UNCHANGED <<vars, goal, at, ticket, attempt, issued>>

\* Slip: no answer within 15 seconds, so the recipient is tried once more.
GiveUp_Retry ==
    /\ step \in {"send", "await"}
    /\ step' = "verify"
    /\ UNCHANGED <<vars, goal, at, counters, ticket, attempt, issued>>

\* No answer: the connection fails or 15 seconds are over.  To the end; the
\* mailer may still be at work on the request.
GiveUp ==
    /\ step \in {"send", "await"}
    /\ step' = "complete"
    /\ UNCHANGED <<vars, goal, at, counters, ticket, attempt, issued>>

\* "outreach complete: {sent} sent, {rejected} rejected", and set_phase(Idle).
Complete ==
    /\ step = "complete"
    /\ step' = "over"
    /\ UNCHANGED <<vars, goal, at, counters, ticket, attempt, issued>>

LoopStep ==
    \/ Begin \/ NextRecipient \/ NoMoreRecipients
    \/ GatewayApproves \/ GatewayRefuses \/ GatewayFails
    \/ Send \/ Answered \/ GiveUp
    \/ Complete

\* Time only matters to a receipt that is still to be shown.
MailerStep ==
    /\ \/ \E q \in Requests : Handle(q) \/ Drop(q)
       \/ step = "send" /\ Tick(ticket)
    /\ UNCHANGED private

LoopNext == LoopStep \/ MailerStep

\* The runtime keeps polling the loop's task; every await of it ends, the
\* one on the mailer by the client's 15 second timeout.
LoopFairness == WF_loopVars(LoopStep)

LoopSpec == LoopInit /\ [][LoopNext]_loopVars /\ LoopFairness

-----------------------------------------------------------------------------
(* Properties                                                              *)

\* Mail the loop cannot know of: the mailer answered 500 after it had gone
\* out, or the answer is still to come or was lost.
Unheard == {m \in mail : resp[m.by] = 500 \/ m.by = attempt}

\* The counters of the closing message are true.  Never more is claimed to be
\* sent than was, and whatever was sent but is not claimed is mail that the
\* mailer disowned with a 500 or that the last request may have sent.  Between
\* recipients nothing is open: each one so far that has an @ is counted once.
CountsAreTrue ==
    /\ sent <= Cardinality(mail)
    /\ Cardinality(mail \ Unheard) <= sent
    /\ step = "next" =>
          /\ Cardinality({m \in mail : resp[m.by] # 500}) = sent
          /\ sent + rejected =
                Cardinality({i \in 1..at : goal.recipients[i] \notin Malformed})

\* However answers are lost, nobody gets a goal's mail more often than the goal
\* names them, it is the goal's body they get, and no one else gets any.
NobodyMailedTwice ==
    \A m \in mail :
        /\ m.body = goal.body
        /\ \A a \in Addresses :
              Cardinality({n \in mail : n.recipients = <<a>>})
                  <= Occurrences(goal.recipients)[a]
        /\ Len(m.recipients) = 1

\* The loop comes to its end, whatever the gateway and the mailer do.
LoopEnds == <>(step = "over")
=============================================================================
