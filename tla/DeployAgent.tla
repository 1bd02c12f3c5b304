---------------------------- MODULE DeployAgent ----------------------------
(***************************************************************************)
(* deploy/agent with the runner of Runner and a gateway: any number of     *)
(* goals, each with a loop of its own that asks the gateway for one        *)
(* receipt and shows it to the runner once.                                *)
(*                                                                         *)
(* A task is named by the request it sends to the runner.                  *)
(***************************************************************************)
EXTENDS AgentControl, Runner

CONSTANTS
    Goals    \* the targets that goals may name

ASSUME DeployAssumption ==
    /\ Tasks \subseteq Requests
    /\ Goals \subseteq Target
    /\ None \notin Target \cup Receipts

VARIABLES
    asked,     \* the target of each task's goal
    ticket,    \* the receipt each task has in hand
    issued,    \* receipts the gateway has issued (external)
    report     \* what the activity log says of each task's outcome

agentVars == <<asked, ticket, issued, report>>
deployVars == <<controlVars, vars, agentVars>>

Reports == {"none", "aborted", "refused", "deployed", "rejected", "transport"}

DeployTypeOK ==
    /\ ControlTypeOK({"verify", "send", "await"})
    /\ TypeOK
    /\ asked \in [Tasks -> Goals \cup {None}]
    /\ ticket \in [Tasks -> Receipts \cup {None}]
    /\ issued \subseteq Receipts
    /\ report \in [Tasks -> Reports]

DeployInit ==
    /\ ControlInit
    /\ Init
    /\ age = [r \in Receipts |-> "fresh"]
    /\ asked = [t \in Tasks |-> None]
    /\ ticket = [t \in Tasks |-> None]
    /\ issued = {}
    /\ report = [t \in Tasks |-> "none"]

-----------------------------------------------------------------------------
(* The agent                                                               *)

\* The operator's requests, but for goals that are accepted.
Operate ==
    /\ \E c \in Calls : CallStep(c)
    /\ UNCHANGED <<vars, agentVars>>

\* A goal is accepted and its loop spawned.
Submit ==
    /\ \E c \in Calls, t \in Tasks, goal \in Goals :
          /\ SetActive(c, t)
          /\ asked' = [asked EXCEPT ![t] = goal]
    /\ UNCHANGED <<vars, ticket, issued, report>>

Begin(t) ==
    /\ ReadDelegation(t, "verify")
    /\ UNCHANGED <<vars, agentVars>>

Abort(t) ==
    /\ AbortTask(t)
    /\ report' = [report EXCEPT ![t] = "aborted"]
    /\ UNCHANGED <<vars, asked, ticket, issued>>

\* The steps of a task that touch neither the phase nor the delegation.
Moves(t, from, to) ==
    /\ task[t] = from
    /\ TaskAt(t, to)
    /\ UNCHANGED <<row, inner, call, pasted, held, restarts, operator>>

Reported(t, outcome) == report' = [report EXCEPT ![t] = outcome]

\* verify_action issues a fresh receipt for the target.
GatewayApproves(t) ==
    /\ Moves(t, "verify", "send")
    /\ \E r \in Receipts \ issued :
          /\ Claim[r] = asked[t]
          /\ ticket' = [ticket EXCEPT ![t] = r]
          /\ issued' = issued \cup {r}
    /\ UNCHANGED <<vars, asked, report>>

\* No anchor, no approval or no answer from the gateway.
GatewayRefuses(t) ==
    /\ Moves(t, "verify", "finish")
    /\ Reported(t, "refused")
    /\ UNCHANGED <<vars, asked, ticket, issued>>

\* Slip: target and receipt are shared between the tasks.
Send_Other(t) ==
    /\ Moves(t, "send", "await")
    /\ \E u \in Tasks :
          /\ ticket[u] # None
          /\ ArriveGenuine(t, asked[u], ticket[u])
    /\ UNCHANGED agentVars

\* RunnerClient::deploy: the request reaches the runner.
Send(t) ==
    /\ Moves(t, "send", "await")
    /\ ArriveGenuine(t, asked[t], ticket[t])
    /\ UNCHANGED agentVars

Answered(t) ==
    /\ Moves(t, "await", "finish")
    /\ pc[t] = "answered"
    /\ Reported(t, IF resp[t] = 200 THEN "deployed" ELSE "rejected")
    /\ UNCHANGED <<vars, asked, ticket, issued>>

\* Slip: no answer is taken for a rejection.
GiveUp_AsRejected(t) ==
    /\ Moves(t, task[t], "finish")
    /\ task[t] \in {"send", "await"}
    /\ Reported(t, "rejected")
    /\ UNCHANGED <<vars, asked, ticket, issued>>

\* The connection fails or 15 seconds are over; the runner may be at work.
GiveUp(t) ==
    /\ Moves(t, task[t], "finish")
    /\ task[t] \in {"send", "await"}
    /\ Reported(t, "transport")
    /\ UNCHANGED <<vars, asked, ticket, issued>>

End(t) ==
    /\ EndTask(t)
    /\ UNCHANGED <<vars, agentVars>>

TaskStep(t) ==
    \/ Begin(t) \/ Abort(t)
    \/ GatewayApproves(t) \/ GatewayRefuses(t)
    \/ Send(t) \/ Answered(t) \/ GiveUp(t)
    \/ End(t)

\* The agent's process ends; what it has sent goes on in the runner.
RestartAgent ==
    /\ Restart
    /\ UNCHANGED <<vars, agentVars>>

\* Time only matters to a receipt that is still to be shown.
RunnerStep ==
    /\ \/ \E q \in Requests : Handle(q) \/ Drop(q)
       \/ \E t \in Tasks : task[t] = "send" /\ Tick(ticket[t])
    /\ UNCHANGED <<controlVars, agentVars>>

DeployNext ==
    \/ Operate \/ Submit
    \/ \E t \in Tasks : TaskStep(t)
    \/ RestartAgent
    \/ RunnerStep

DeploySpec == DeployInit /\ [][DeployNext]_deployVars

-----------------------------------------------------------------------------
(* Properties                                                              *)

\* Every deployment answers to one goal: it is of the target asked for, under
\* a receipt got for it while holding a delegation, and the only one of its
\* task - also when answers are lost or the agent is restarted meanwhile.
DeploysAnswerToGoals ==
    \A x \in executed :
        /\ x.by \in Tasks
        /\ x.target = asked[x.by]
        /\ x.receipt = ticket[x.by]
        /\ held[x.by] # None
        /\ \A y \in executed : y.by = x.by => y = x

\* What the activity log says of a goal is true and stays so: "deployed" is a
\* deployment with its row, and whatever else it says but a 500 or a lost
\* answer, nothing was deployed and nothing will be.
ReportsAreTrue ==
    \A t \in Tasks :
        LET deployed == \E x \in executed : x.by = t IN
        /\ report[t] = "deployed" =>
              deployed /\ RowOf(t, asked[t], "deployed") \in deploys
        /\ \/ report[t] \in {"aborted", "refused"}
           \/ report[t] = "rejected" /\ resp[t] # 500
           => ~deployed
=============================================================================
