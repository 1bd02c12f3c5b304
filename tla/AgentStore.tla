----------------------------- MODULE AgentStore -----------------------------
(***************************************************************************)
(* commerce/agent: the phase machine behind the agent's API, the           *)
(* delegation on disk and in memory, and the loops it spawns.              *)
(*                                                                         *)
(* accept_delegation and clear_delegation write SQLite first and the       *)
(* memory under the lock second; requests run concurrently with each other *)
(* and with the loops, and may be dropped between the two writes.          *)
(***************************************************************************)
EXTENDS Naturals, FiniteSets

CONSTANTS
    Handlers,       \* HTTP requests to the agent's API
    Loops,          \* tasks that submit_goal may spawn
    Delegations,    \* delegations that pass the SDK's checks when pasted
    None,
    MaxRestarts     \* how often the process may be restarted (a bound)

ASSUME AgentAssumption ==
    /\ None \notin Delegations
    /\ MaxRestarts \in Nat

VARIABLES
    db,          \* the row of table delegation
    delegation,  \* Inner.delegation
    phase,       \* Inner.phase
    goal,        \* Inner.current_goal: the loop whose goal it is, or None
    hpc,         \* the await each handler is at
    arg,         \* the delegation each accept carries
    lpc,         \* the await each loop is at
    held,        \* the delegation each loop works with
    restarts,
    operator     \* how the operator uses the API in this behaviour

inner == <<delegation, phase, goal>>
handlers == <<hpc, arg>>
loops == <<lpc, held>>
vars == <<db, inner, handlers, loops, restarts, operator>>

Phases == {"AwaitingDelegation", "Ready", "Active", "Idle"}
InFlight == {"acceptDb", "acceptMem", "clearDb", "clearMem", "goal"}
Live == {"start", "abort", "run", "finish"}

\* "any": requests in any order and number, dropped and failing queries.
\* "waits": as any, but the operator leaves the delegation alone while the
\* agent is Active or another request is in flight.
\* "serial": one request at a time, none dropped and no query failing.
Operators == {"any", "waits", "serial"}

TypeOK ==
    /\ db \in Delegations \cup {None}
    /\ delegation \in Delegations \cup {None}
    /\ phase \in Phases
    /\ goal \in Loops \cup {None}
    /\ hpc \in [Handlers -> {"idle", "over"} \cup InFlight]
    /\ arg \in [Handlers -> Delegations \cup {None}]
    /\ lpc \in [Loops -> {"idle", "over"} \cup Live]
    /\ held \in [Loops -> Delegations \cup {None}]
    /\ restarts \in 0..MaxRestarts
    /\ operator \in Operators

PhaseAtOpen(row) == IF row = None THEN "AwaitingDelegation" ELSE "Ready"

Init ==
    /\ db \in Delegations \cup {None}
    /\ delegation = db
    /\ phase = PhaseAtOpen(db)
    /\ goal = None
    /\ hpc = [h \in Handlers |-> "idle"]
    /\ arg = [h \in Handlers |-> None]
    /\ lpc = [l \in Loops |-> "idle"]
    /\ held = [l \in Loops |-> None]
    /\ restarts = 0
    /\ operator \in Operators

-----------------------------------------------------------------------------
(* The API's handlers                                                      *)

Quiet == \A h \in Handlers : hpc[h] \notin InFlight

Faults == operator # "serial"

MayDelegate ==
    /\ operator # "any" => Quiet
    /\ operator = "waits" => phase # "Active"

MayGoal ==
    /\ operator = "serial" => Quiet
    /\ operator = "waits" => \A h \in Handlers : hpc[h] \notin InFlight \ {"goal"}

HandlerAt(h, await) == hpc' = [hpc EXCEPT ![h] = await]

\* A pasted delegation that does not parse, is for another agent, is expired
\* or badly signed is answered with 400 or 401 and changes nothing.
RefuseDelegation(h) ==
    /\ hpc[h] = "idle"
    /\ MayDelegate
    /\ HandlerAt(h, "over")
    /\ UNCHANGED <<db, inner, arg, loops, restarts, operator>>

BeginAccept(h, d) ==
    /\ hpc[h] = "idle"
    /\ MayDelegate
    /\ HandlerAt(h, "acceptDb")
    /\ arg' = [arg EXCEPT ![h] = d]
    /\ UNCHANGED <<db, inner, loops, restarts, operator>>

\* INSERT OR REPLACE INTO delegation.
AcceptPersist(h) ==
    /\ hpc[h] = "acceptDb"
    /\ \/ db' = arg[h] /\ HandlerAt(h, "acceptMem")
       \/ Faults /\ db' \in {db, arg[h]} /\ HandlerAt(h, "over")
    /\ UNCHANGED <<inner, arg, loops, restarts, operator>>

\* Slip: the phase is set before the lock is taken for the delegation.
AcceptApply_PhaseOnly(h) ==
    /\ hpc[h] = "acceptMem"
    /\ phase' = "Ready"
    /\ HandlerAt(h, "over")
    /\ UNCHANGED <<db, delegation, goal, arg, loops, restarts, operator>>

\* Under the write lock; the goal of a loop that is running stays.
AcceptApply(h) ==
    /\ hpc[h] = "acceptMem"
    /\ delegation' = arg[h]
    /\ phase' = "Ready"
    /\ HandlerAt(h, "over")
    /\ UNCHANGED <<db, goal, arg, loops, restarts, operator>>

BeginClear(h) ==
    /\ hpc[h] = "idle"
    /\ MayDelegate
    /\ HandlerAt(h, "clearDb")
    /\ UNCHANGED <<db, inner, arg, loops, restarts, operator>>

\* Slip: the row is overwritten with an empty one instead of deleted.
ClearPersist_EmptyRow(h) ==
    /\ hpc[h] = "clearDb"
    /\ db' = "null"
    /\ HandlerAt(h, "clearMem")
    /\ UNCHANGED <<inner, arg, loops, restarts, operator>>

\* DELETE FROM delegation.
ClearPersist(h) ==
    /\ hpc[h] = "clearDb"
    /\ \/ db' = None /\ HandlerAt(h, "clearMem")
       \/ Faults /\ db' \in {db, None} /\ HandlerAt(h, "over")
    /\ UNCHANGED <<inner, arg, loops, restarts, operator>>

\* Slip: the phase survives the clearing.
ClearApply_PhaseStays(h) ==
    /\ hpc[h] = "clearMem"
    /\ delegation' = None
    /\ goal' = None
    /\ HandlerAt(h, "over")
    /\ UNCHANGED <<db, phase, arg, loops, restarts, operator>>

\* Slip: the memory is left for the next start of the process.
ClearApply_DiskOnly(h) ==
    /\ hpc[h] = "clearMem"
    /\ HandlerAt(h, "over")
    /\ UNCHANGED <<db, inner, arg, loops, restarts, operator>>

ClearApply(h) ==
    /\ hpc[h] = "clearMem"
    /\ delegation' = None
    /\ phase' = "AwaitingDelegation"
    /\ goal' = None
    /\ HandlerAt(h, "over")
    /\ UNCHANGED <<db, arg, loops, restarts, operator>>

\* A goal whose limits are not positive is refused before set_goal is called.
RefuseGoal(h) ==
    /\ hpc[h] = "idle"
    /\ MayGoal
    /\ HandlerAt(h, "over")
    /\ UNCHANGED <<db, inner, arg, loops, restarts, operator>>

BeginGoal(h) ==
    /\ hpc[h] = "idle"
    /\ MayGoal
    /\ HandlerAt(h, "goal")
    /\ UNCHANGED <<db, inner, arg, loops, restarts, operator>>

\* Slip: the loop is spawned before the phase says so.
SetGoal_NoPhase(h) ==
    /\ hpc[h] = "goal"
    /\ HandlerAt(h, "over")
    /\ \/ /\ phase \in {"Ready", "Idle"}
          /\ \E l \in Loops :
                /\ lpc[l] = "idle"
                /\ lpc' = [lpc EXCEPT ![l] = "start"]
                /\ goal' = l
          /\ UNCHANGED phase
       \/ /\ phase \notin {"Ready", "Idle"}
          /\ UNCHANGED <<phase, goal, lpc>>
    /\ UNCHANGED <<db, delegation, arg, held, restarts, operator>>

\* Once the lock is taken: set_goal's check and both writes, then the spawn,
\* with no await between them.
SetGoal(h) ==
    /\ hpc[h] = "goal"
    /\ HandlerAt(h, "over")
    /\ \/ /\ phase \in {"Ready", "Idle"}
          /\ \E l \in Loops :
                /\ lpc[l] = "idle"
                /\ lpc' = [lpc EXCEPT ![l] = "start"]
                /\ goal' = l
          /\ phase' = "Active"
       \/ /\ phase \notin {"Ready", "Idle"}
          /\ UNCHANGED <<phase, goal, lpc>>
    /\ UNCHANGED <<db, delegation, arg, held, restarts, operator>>

\* The operator's connection goes away: the handler stops at its await.  A
\* query that was already sent may still be executed.
DropHandler(h) ==
    /\ Faults
    /\ hpc[h] \in InFlight
    /\ HandlerAt(h, "over")
    /\ \/ UNCHANGED db
       \/ hpc[h] = "acceptDb" /\ db' = arg[h]
       \/ hpc[h] = "clearDb" /\ db' = None
    /\ UNCHANGED <<inner, arg, loops, restarts, operator>>

-----------------------------------------------------------------------------
(* The loops                                                               *)

LoopAt(l, await) == lpc' = [lpc EXCEPT ![l] = await]

\* agent_store.delegation() at the head of the loop.
ReadDelegation(l) ==
    /\ lpc[l] = "start"
    /\ held' = [held EXCEPT ![l] = delegation]
    /\ \/ delegation = None /\ LoopAt(l, "abort")
       \/ delegation # None /\ LoopAt(l, "run")
    /\ UNCHANGED <<db, inner, handlers, restarts, operator>>

\* No delegation: back to AwaitingDelegation; the goal is not taken back.
Abort(l) ==
    /\ lpc[l] = "abort"
    /\ phase' = "AwaitingDelegation"
    /\ LoopAt(l, "over")
    /\ UNCHANGED <<db, delegation, goal, handlers, held, restarts, operator>>

\* The shopping is done or broken off.
LeaveLoop(l) ==
    /\ lpc[l] = "run"
    /\ LoopAt(l, "finish")
    /\ UNCHANGED <<db, inner, handlers, held, restarts, operator>>

\* Slip: the loop returns without telling the store.
FinishGoal_Silent(l) ==
    /\ lpc[l] = "finish"
    /\ LoopAt(l, "over")
    /\ UNCHANGED <<db, inner, handlers, held, restarts, operator>>

\* finish_goal: whatever the phase and the goal are by now.
FinishGoal(l) ==
    /\ lpc[l] = "finish"
    /\ goal' = None
    /\ phase' = "Idle"
    /\ LoopAt(l, "over")
    /\ UNCHANGED <<db, delegation, handlers, held, restarts, operator>>

-----------------------------------------------------------------------------
(* The process                                                             *)

\* The process ends, with every task in it, and AgentStore::open starts over
\* from the database.
Restart ==
    /\ restarts < MaxRestarts
    /\ restarts' = restarts + 1
    /\ delegation' = db
    /\ phase' = PhaseAtOpen(db)
    /\ goal' = None
    /\ hpc' = [h \in Handlers |-> IF hpc[h] \in InFlight THEN "over" ELSE hpc[h]]
    /\ lpc' = [l \in Loops |-> IF lpc[l] \in Live THEN "over" ELSE lpc[l]]
    /\ UNCHANGED <<db, arg, held, operator>>

Handle(h) ==
    \/ RefuseDelegation(h) \/ \E d \in Delegations : BeginAccept(h, d)
    \/ AcceptPersist(h) \/ AcceptApply(h)
    \/ BeginClear(h) \/ ClearPersist(h) \/ ClearApply(h)
    \/ RefuseGoal(h) \/ BeginGoal(h) \/ SetGoal(h)
    \/ DropHandler(h)

LoopStep(l) == ReadDelegation(l) \/ Abort(l) \/ LeaveLoop(l) \/ FinishGoal(l)

Next ==
    \/ \E h \in Handlers : Handle(h)
    \/ \E l \in Loops : LoopStep(l)
    \/ Restart

\* The runtime polls every task it has spawned, and a loop ends (LoopEnds of
\* ShoppingLoop), so each keeps taking steps.
Fairness == \A l \in Loops : WF_vars(LoopStep(l))

Spec == Init /\ [][Next]_vars /\ Fairness

-----------------------------------------------------------------------------
(* Properties                                                              *)

Running(l) == lpc[l] \in Live

\* Whatever requests, loops and restarts interleave: an agent that calls
\* itself Ready has a delegation to work with.
ReadyHasDelegation == phase = "Ready" => delegation # None

\* Active is never a dead end: while the phase refuses further goals, a loop
\* is still there that will change it.
ActiveHasLoop == phase = "Active" => \E l \in Loops : Running(l)

\* Both: where the agent goes by the phase, the phase tells the truth ...
PhaseIsTrue == ReadyHasDelegation /\ ActiveHasLoop

\* ... and an Active phase always ends.
ActiveEnds == phase = "Active" ~> phase # "Active"

\* An operator who leaves the delegation alone while the agent is Active or a
\* request is in flight is safe, though goals may come in at any time, several
\* at once, and requests may be dropped: loops do not overlap, every loop that
\* works does so with the delegation in force, and the agent awaits a
\* delegation only if it has none ...
WaitingIsSafe ==
    operator = "waits" =>
        /\ \A l, m \in Loops : Running(l) /\ Running(m) => l = m
        /\ \A l \in Loops : lpc[l] \in {"run", "finish"} => held[l] = delegation
        /\ phase = "AwaitingDelegation" <=> delegation = None

\* ... and a goal is only taken back by the loop that pursued it, by the
\* clearing of the delegation or by the end of the process.
GoalEndsWithItsLoop ==
    [][operator = "waits" /\ goal # None /\ goal' # goal =>
          \/ lpc[goal] = "finish" /\ lpc'[goal] = "over"
          \/ delegation' = None
          \/ restarts' # restarts]_vars

\* agent_loop.rs on when the loop is activated: "delegation present + goal
\* accepted".
ActiveHasDelegation == phase = "Active" => delegation # None

\* store.rs calls the row on disk "the active delegation".  If requests come
\* one at a time and none is dropped or fails, it is the one in memory, so a
\* restart does not change it.
RowIsActiveDelegation == operator = "serial" /\ Quiet => db = delegation
=============================================================================
