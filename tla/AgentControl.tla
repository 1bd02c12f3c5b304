---------------------------- MODULE AgentControl ----------------------------
(***************************************************************************)
(* The control plane of email-outreach/agent, which deploy/agent repeats   *)
(* line by line: the delegation on disk and in memory, the phase, and the  *)
(* tasks that accepted goals spawn.                                        *)
(*                                                                         *)
(* Unlike commerce/agent's store, submit_goal reads the phase under one    *)
(* lock and sets it under another, and no goal is kept: a second request   *)
(* can pass the check before the first one has set the phase.              *)
(***************************************************************************)
EXTENDS Naturals, FiniteSets

CONSTANTS
    Calls,          \* HTTP requests to the agent's API
    Tasks,          \* loops that submit_goal may spawn
    Delegations,    \* delegations that pass the SDK's checks when pasted
    None,
    MaxRestarts     \* how often the process may be restarted (a bound)

ASSUME ControlAssumption ==
    /\ None \notin Delegations
    /\ MaxRestarts \in Nat

VARIABLES
    row,         \* the row of table delegation
    delegation,  \* Inner.delegation
    phase,       \* Inner.phase
    call,        \* the await each request is at
    pasted,      \* the delegation each accept carries
    task,        \* the await each loop is at
    held,        \* the delegation each loop works with
    restarts,
    operator     \* how the operator uses the API in this behaviour

inner == <<delegation, phase>>
controlVars == <<row, inner, call, pasted, task, held, restarts, operator>>

Phases == {"AwaitingDelegation", "Ready", "Active", "Idle"}
InFlight == {"acceptDb", "acceptMem", "clearDb", "clearMem", "set"}

\* "any": requests in any order and number, at once.
\* "serial": the operator waits for each answer, and leaves the delegation
\* alone while the agent is Active.  Requests are dropped and queries fail all
\* the same.
Operators == {"any", "serial"}

Live(t) == task[t] \notin {"none", "over"}

\* Steps is where the loop of the agent can be between its first and last.
ControlTypeOK(Steps) ==
    /\ row \in Delegations \cup {None}
    /\ delegation \in Delegations \cup {None}
    /\ phase \in Phases
    /\ call \in [Calls -> {"idle", "over"} \cup InFlight]
    /\ pasted \in [Calls -> Delegations \cup {None}]
    /\ task \in [Tasks -> {"none", "start", "abort", "finish", "over"} \cup Steps]
    /\ held \in [Tasks -> Delegations \cup {None}]
    /\ restarts \in 0..MaxRestarts
    /\ operator \in Operators

PhaseAtOpen(stored) == IF stored = None THEN "AwaitingDelegation" ELSE "Ready"

ControlInit ==
    /\ row \in Delegations \cup {None}
    /\ delegation = row
    /\ phase = PhaseAtOpen(row)
    /\ call = [c \in Calls |-> "idle"]
    /\ pasted = [c \in Calls |-> None]
    /\ task = [t \in Tasks |-> "none"]
    /\ held = [t \in Tasks |-> None]
    /\ restarts = 0
    /\ operator \in Operators

-----------------------------------------------------------------------------
(* The API                                                                 *)

MayCall ==
    operator = "serial" => \A c \in Calls : call[c] \notin InFlight

MayDelegate ==
    /\ MayCall
    /\ operator = "serial" => phase # "Active"

CallAt(c, await) == call' = [call EXCEPT ![c] = await]

\* A delegation that is malformed, for another agent, expired or badly signed
\* and a goal with an empty field are answered with 400 and change nothing.
Refuse(c) ==
    /\ call[c] = "idle"
    /\ MayCall
    /\ CallAt(c, "over")
    /\ UNCHANGED <<row, inner, pasted, task, held, restarts, operator>>

BeginAccept(c, d) ==
    /\ call[c] = "idle"
    /\ MayDelegate
    /\ CallAt(c, "acceptDb")
    /\ pasted' = [pasted EXCEPT ![c] = d]
    /\ UNCHANGED <<row, inner, task, held, restarts, operator>>

\* INSERT OR REPLACE INTO delegation; if it fails it may have been executed.
AcceptPersist(c) ==
    /\ call[c] = "acceptDb"
    /\ \/ row' = pasted[c] /\ CallAt(c, "acceptMem")
       \/ row' \in {row, pasted[c]} /\ CallAt(c, "over")
    /\ UNCHANGED <<inner, pasted, task, held, restarts, operator>>

\* Under the write lock.
AcceptApply(c) ==
    /\ call[c] = "acceptMem"
    /\ delegation' = pasted[c]
    /\ phase' = "Ready"
    /\ CallAt(c, "over")
    /\ UNCHANGED <<row, pasted, task, held, restarts, operator>>

BeginClear(c) ==
    /\ call[c] = "idle"
    /\ MayDelegate
    /\ CallAt(c, "clearDb")
    /\ UNCHANGED <<row, inner, pasted, task, held, restarts, operator>>

\* Slip: the row is overwritten with an empty one instead of deleted.
ClearPersist_EmptyRow(c) ==
    /\ call[c] = "clearDb"
    /\ row' = "null"
    /\ CallAt(c, "clearMem")
    /\ UNCHANGED <<inner, pasted, task, held, restarts, operator>>

\* DELETE FROM delegation.
ClearPersist(c) ==
    /\ call[c] = "clearDb"
    /\ \/ row' = None /\ CallAt(c, "clearMem")
       \/ row' \in {row, None} /\ CallAt(c, "over")
    /\ UNCHANGED <<inner, pasted, task, held, restarts, operator>>

ClearApply(c) ==
    /\ call[c] = "clearMem"
    /\ delegation' = None
    /\ phase' = "AwaitingDelegation"
    /\ CallAt(c, "over")
    /\ UNCHANGED <<row, pasted, task, held, restarts, operator>>

\* Slip: any phase but AwaitingDelegation passes.
CheckPhase_NotAwaiting(c) ==
    /\ call[c] = "idle"
    /\ MayCall
    /\ \/ phase # "AwaitingDelegation" /\ CallAt(c, "set")
       \/ phase = "AwaitingDelegation" /\ CallAt(c, "over")
    /\ UNCHANGED <<row, inner, pasted, task, held, restarts, operator>>

\* submit_goal, up to the answer 409 or to the second lock.
CheckPhase(c) ==
    /\ call[c] = "idle"
    /\ MayCall
    /\ \/ phase \in {"Ready", "Idle"} /\ CallAt(c, "set")
       \/ phase \notin {"Ready", "Idle"} /\ CallAt(c, "over")
    /\ UNCHANGED <<row, inner, pasted, task, held, restarts, operator>>

\* Once the second lock is taken: Active, whatever the phase is by now, and the
\* loop is spawned, without an await in between.
SetActive(c, t) ==
    /\ call[c] = "set"
    /\ task[t] = "none"
    /\ phase' = "Active"
    /\ task' = [task EXCEPT ![t] = "start"]
    /\ CallAt(c, "over")
    /\ UNCHANGED <<row, delegation, pasted, held, restarts, operator>>

\* The operator's connection goes away: the handler stops at its await.  A
\* query that was already sent may still be executed.
DropCall(c) ==
    /\ call[c] \in InFlight
    /\ CallAt(c, "over")
    /\ \/ UNCHANGED row
       \/ call[c] = "acceptDb" /\ row' = pasted[c]
       \/ call[c] = "clearDb" /\ row' = None
    /\ UNCHANGED <<inner, pasted, task, held, restarts, operator>>

\* Every step of a request but the one that spawns a loop.
CallStep(c) ==
    \/ Refuse(c)
    \/ \E d \in Delegations : BeginAccept(c, d)
    \/ AcceptPersist(c) \/ AcceptApply(c)
    \/ BeginClear(c) \/ ClearPersist(c) \/ ClearApply(c)
    \/ CheckPhase(c)
    \/ DropCall(c)

-----------------------------------------------------------------------------
(* The loops                                                               *)

TaskAt(t, await) == task' = [task EXCEPT ![t] = await]

\* agent_store.delegation() at the head of the loop; its work begins at await.
ReadDelegation(t, await) ==
    /\ task[t] = "start"
    /\ held' = [held EXCEPT ![t] = delegation]
    /\ \/ delegation = None /\ TaskAt(t, "abort")
       \/ delegation # None /\ TaskAt(t, await)
    /\ UNCHANGED <<row, inner, call, pasted, restarts, operator>>

\* No delegation: AwaitingDelegation, though one may have come in since.
AbortTask(t) ==
    /\ task[t] = "abort"
    /\ phase' = "AwaitingDelegation"
    /\ TaskAt(t, "over")
    /\ UNCHANGED <<row, delegation, call, pasted, held, restarts, operator>>

\* Slip: the loop returns without setting the phase.
EndTask_Silent(t) ==
    /\ task[t] = "finish"
    /\ TaskAt(t, "over")
    /\ UNCHANGED <<row, inner, call, pasted, held, restarts, operator>>

\* set_phase(Idle), whatever the phase is by now.
EndTask(t) ==
    /\ task[t] = "finish"
    /\ phase' = "Idle"
    /\ TaskAt(t, "over")
    /\ UNCHANGED <<row, delegation, call, pasted, held, restarts, operator>>

\* The process ends, with every task in it, and AgentStore::open starts over
\* from the database.
Restart ==
    /\ restarts < MaxRestarts
    /\ restarts' = restarts + 1
    /\ delegation' = row
    /\ phase' = PhaseAtOpen(row)
    /\ call' = [c \in Calls |-> IF call[c] \in InFlight THEN "over" ELSE call[c]]
    /\ task' = [t \in Tasks |-> IF Live(t) THEN "over" ELSE task[t]]
    /\ UNCHANGED <<row, pasted, held, operator>>

-----------------------------------------------------------------------------
(* Properties                                                              *)

\* Whatever requests, loops and restarts interleave, the phase tells the truth
\* where the agent goes by it: Ready has a delegation to work with, and while
\* Active refuses every goal a loop is there that will end it.
PhaseIsTrue ==
    /\ phase = "Ready" => delegation # None
    /\ phase = "Active" => \E t \in Tasks : Live(t)

\* If the operator takes turns, the two locks of submit_goal do no harm: one
\* loop at a time, working with the delegation in force, and only an agent
\* without a delegation asks for one.
SerialIsSafe ==
    operator = "serial" =>
        /\ \A t, u \in Tasks : Live(t) /\ Live(u) => t = u
        /\ \A t \in Tasks :
              Live(t) /\ task[t] # "start" => held[t] = delegation /\ held[t] # None
        /\ phase = "AwaitingDelegation" <=> delegation = None
=============================================================================
