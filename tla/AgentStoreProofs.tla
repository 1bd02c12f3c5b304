-------------------------- MODULE AgentStoreProofs --------------------------
(***************************************************************************)
(* Theorems about AgentStore, for any number of requests, loops,           *)
(* delegations and restarts, whoever is dropped and whatever fails.        *)
(***************************************************************************)
EXTENDS AgentStore, TLAPS

\* An accept that is under way carries a delegation.
HasArg == \A h \in Handlers : hpc[h] \in {"acceptDb", "acceptMem"} => arg[h] # None

\* What the phase says about the delegation and the loops, with what a
\* handler that is about to change them holds in its hands.
PhaseInv ==
    /\ TypeOK
    /\ HasArg
    /\ ReadyHasDelegation
    /\ ActiveHasLoop

LEMMA InitPhase == Init => PhaseInv
BY AgentAssumption DEF Init, PhaseInv, TypeOK, HasArg, ReadyHasDelegation,
   ActiveHasLoop, PhaseAtOpen, Phases

LEMMA HandlePhase ==
    ASSUME PhaseInv, NEW h \in Handlers, Handle(h)
    PROVE  PhaseInv'
<1> USE AgentAssumption DEF PhaseInv, TypeOK, HasArg, ReadyHasDelegation,
        ActiveHasLoop, Running, Live, InFlight, Phases, HandlerAt, inner, loops
<1>1. CASE RefuseDelegation(h) \/ RefuseGoal(h) \/ BeginClear(h) \/ BeginGoal(h)
  BY <1>1 DEF RefuseDelegation, RefuseGoal, BeginClear, BeginGoal
<1>2. ASSUME NEW d \in Delegations, BeginAccept(h, d)
      PROVE  PhaseInv'
  BY <1>2 DEF BeginAccept
<1>3. CASE AcceptPersist(h)
  BY <1>3 DEF AcceptPersist
<1>4. CASE AcceptApply(h)
  BY <1>4 DEF AcceptApply
<1>5. CASE ClearPersist(h)
  BY <1>5 DEF ClearPersist
<1>6. CASE ClearApply(h)
  BY <1>6 DEF ClearApply
<1>7. CASE SetGoal(h)
  <2>1. ASSUME NEW l \in Loops, lpc' = [lpc EXCEPT ![l] = "start"]
        PROVE  lpc' \in [Loops -> {"idle", "over"} \cup Live] /\ lpc'[l] \in Live
    BY <2>1
  <2>2. UNCHANGED <<db, delegation, arg, held, restarts, operator>>
        /\ hpc' = [hpc EXCEPT ![h] = "over"]
    BY <1>7 DEF SetGoal
  <2>3. CASE phase \in {"Ready", "Idle"}
    <3>1. PICK l \in Loops : lpc' = [lpc EXCEPT ![l] = "start"] /\ goal' = l
      BY <1>7, <2>3 DEF SetGoal
    <3>2. phase' = "Active"
      BY <1>7, <2>3 DEF SetGoal
    <3> QED
      BY <2>1, <2>2, <3>1, <3>2
  <2>4. CASE phase \notin {"Ready", "Idle"}
    BY <1>7, <2>2, <2>4 DEF SetGoal
  <2> QED
    BY <2>3, <2>4
<1>8. CASE DropHandler(h)
  BY <1>8 DEF DropHandler
<1> QED
  BY <1>1, <1>2, <1>3, <1>4, <1>5, <1>6, <1>7, <1>8 DEF Handle

LEMMA LoopPhase ==
    ASSUME PhaseInv, NEW l \in Loops, LoopStep(l)
    PROVE  PhaseInv'
<1> USE AgentAssumption DEF PhaseInv, TypeOK, HasArg, ReadyHasDelegation,
        ActiveHasLoop, Running, Live, Phases, LoopAt, inner, handlers
<1>1. CASE ReadDelegation(l)
  BY <1>1 DEF ReadDelegation
<1>2. CASE Abort(l)
  BY <1>2 DEF Abort
<1>3. CASE LeaveLoop(l)
  BY <1>3 DEF LeaveLoop
<1>4. CASE FinishGoal(l)
  BY <1>4 DEF FinishGoal
<1> QED
  BY <1>1, <1>2, <1>3, <1>4 DEF LoopStep

LEMMA RestartPhase ==
    ASSUME PhaseInv, Restart
    PROVE  PhaseInv'
BY AgentAssumption DEF Restart, PhaseInv, TypeOK, HasArg, ReadyHasDelegation,
   ActiveHasLoop, PhaseAtOpen, Phases, InFlight, Live

LEMMA NextPhase ==
    ASSUME PhaseInv, [Next]_vars
    PROVE  PhaseInv'
<1>1. CASE UNCHANGED vars
  BY <1>1 DEF vars, inner, handlers, loops, PhaseInv, TypeOK, HasArg,
              ReadyHasDelegation, ActiveHasLoop, Running
<1>2. CASE Next
  BY <1>2, HandlePhase, LoopPhase, RestartPhase DEF Next
<1> QED
  BY <1>1, <1>2

LEMMA PhaseCorrect == Spec => []PhaseInv
BY InitPhase, NextPhase, PTL DEF Spec

\* The phase, the goal, the delegation and the two kinds of tasks keep their
\* types, through restarts and dropped requests.
THEOREM AgentTypeCorrect == Spec => []TypeOK
<1>1. PhaseInv => TypeOK
  BY DEF PhaseInv
<1> QED
  BY <1>1, PhaseCorrect, PTL

\* The phase tells the truth, however accepts, clears, goals, aborts and
\* restarts interleave: an agent that calls itself Ready has a delegation in
\* memory, and while it is Active, and refuses every further goal, some loop is
\* alive that will take it out of Active.
THEOREM PhaseTellsTruth == Spec => []PhaseIsTrue
<1>1. PhaseInv => PhaseIsTrue
  BY DEF PhaseInv, PhaseIsTrue
<1> QED
  BY <1>1, PhaseCorrect, PTL

-----------------------------------------------------------------------------
(* The operator who waits                                                  *)

Delegating == {"acceptDb", "acceptMem", "clearDb", "clearMem"}

\* Why waiting is safe: a request about the delegation is the only one in
\* flight and finds no loop; goals may race, but only the first finds a phase
\* that lets it start a loop, and that loop keeps the phase Active, its goal
\* and the delegation in place.
WaitingInv ==
    operator = "waits" =>
        /\ \A h \in Handlers : hpc[h] \in Delegating =>
              /\ phase # "Active"
              /\ \A k \in Handlers : hpc[k] \in InFlight => k = h
        /\ \A l \in Loops : Running(l) => phase = "Active" /\ goal = l /\ lpc[l] # "abort"
        /\ goal # None => phase = "Active"
        /\ \A l \in Loops : lpc[l] \in {"run", "finish"} => held[l] = delegation
        /\ phase = "AwaitingDelegation" <=> delegation = None

LEMMA InitWaiting == Init => WaitingInv
BY AgentAssumption DEF Init, WaitingInv, PhaseAtOpen, Running, Live, Delegating

LEMMA HandleWaiting ==
    ASSUME PhaseInv, WaitingInv, NEW h \in Handlers, Handle(h)
    PROVE  WaitingInv'
<1> USE AgentAssumption DEF PhaseInv, TypeOK, HasArg, WaitingInv, Running, Live,
        InFlight, Delegating, Phases, HandlerAt, inner, loops, Quiet
<1>1. CASE RefuseDelegation(h) \/ RefuseGoal(h)
  BY <1>1 DEF RefuseDelegation, RefuseGoal
<1>2. ASSUME NEW d \in Delegations, BeginAccept(h, d)
      PROVE  WaitingInv'
  BY <1>2 DEF BeginAccept, MayDelegate
<1>3. CASE AcceptPersist(h)
  BY <1>3 DEF AcceptPersist
<1>4. CASE AcceptApply(h)
  BY <1>4 DEF AcceptApply
<1>5. CASE BeginClear(h)
  BY <1>5 DEF BeginClear, MayDelegate
<1>6. CASE ClearPersist(h)
  BY <1>6 DEF ClearPersist
<1>7. CASE ClearApply(h)
  BY <1>7 DEF ClearApply
<1>8. CASE BeginGoal(h)
  BY <1>8 DEF BeginGoal, MayGoal
<1>9. CASE SetGoal(h)
  <2>1. CASE phase \in {"Ready", "Idle"}
    BY <1>9, <2>1 DEF SetGoal
  <2>2. CASE phase \notin {"Ready", "Idle"}
    BY <1>9, <2>2 DEF SetGoal
  <2> QED
    BY <2>1, <2>2
<1>10. CASE DropHandler(h)
  BY <1>10 DEF DropHandler
<1> QED
  BY <1>1, <1>2, <1>3, <1>4, <1>5, <1>6, <1>7, <1>8, <1>9, <1>10 DEF Handle

LEMMA LoopWaiting ==
    ASSUME PhaseInv, WaitingInv, NEW l \in Loops, LoopStep(l)
    PROVE  WaitingInv'
<1> USE AgentAssumption DEF PhaseInv, TypeOK, WaitingInv, Running, Live, Phases,
        LoopAt, inner, handlers
<1>1. CASE ReadDelegation(l)
  BY <1>1 DEF ReadDelegation
<1>2. CASE Abort(l)
  BY <1>2 DEF Abort
<1>3. CASE LeaveLoop(l)
  BY <1>3 DEF LeaveLoop
<1>4. CASE FinishGoal(l)
  BY <1>4 DEF FinishGoal
<1> QED
  BY <1>1, <1>2, <1>3, <1>4 DEF LoopStep

LEMMA RestartWaiting ==
    ASSUME PhaseInv, WaitingInv, Restart
    PROVE  WaitingInv'
BY AgentAssumption DEF Restart, PhaseInv, TypeOK, WaitingInv, Running, PhaseAtOpen,
   InFlight, Delegating, Live

LEMMA NextWaiting ==
    ASSUME PhaseInv, WaitingInv, [Next]_vars
    PROVE  WaitingInv'
<1>1. CASE UNCHANGED vars
  BY <1>1 DEF vars, inner, handlers, loops, WaitingInv, Running
<1>2. CASE Next
  BY <1>2, HandleWaiting, LoopWaiting, RestartWaiting DEF Next
<1> QED
  BY <1>1, <1>2

LEMMA WaitingCorrect == Spec => []WaitingInv
BY PhaseCorrect, InitWaiting, NextWaiting, PTL DEF Spec

\* If the operator leaves the delegation alone while the agent is Active or a
\* request is in flight, loops do not overlap and work with the delegation in
\* force, though goals race and requests are dropped.
THEOREM WaitingKeepsSafe == Spec => []WaitingIsSafe
<1>1. WaitingInv => WaitingIsSafe
  BY DEF WaitingInv, WaitingIsSafe, Running
<1> QED
  BY <1>1, WaitingCorrect, PTL

\* Then a goal is only taken back by its own loop, by the clearing of the
\* delegation or by the end of the process.
THEOREM GoalsAreKept == Spec => GoalEndsWithItsLoop
<1> DEFINE Kept ==
        operator = "waits" /\ goal # None /\ goal' # goal =>
            \/ lpc[goal] = "finish" /\ lpc'[goal] = "over"
            \/ delegation' = None
            \/ restarts' # restarts
<1>1. ASSUME PhaseInv, WaitingInv, [Next]_vars
      PROVE  [Kept]_vars
  <2> SUFFICES ASSUME operator = "waits", goal # None, goal' # goal, Next
               PROVE  Kept
    BY <1>1 DEF vars, inner
  <2> USE <1>1 DEF PhaseInv, TypeOK, WaitingInv, inner, handlers, loops
  <2>1. ASSUME NEW h \in Handlers, Handle(h)
        PROVE  Kept
    BY <2>1 DEF Handle, RefuseDelegation, BeginAccept, AcceptPersist, AcceptApply,
       BeginClear, ClearPersist, ClearApply, RefuseGoal, BeginGoal, SetGoal, DropHandler
  <2>2. ASSUME NEW l \in Loops, LoopStep(l)
        PROVE  Kept
    <3>1. FinishGoal(l)
      BY <2>2 DEF LoopStep, ReadDelegation, Abort, LeaveLoop
    <3>2. lpc[l] = "finish" /\ lpc' = [lpc EXCEPT ![l] = "over"]
      BY <3>1 DEF FinishGoal, LoopAt
    <3>3. goal = l
      BY <3>2 DEF Running, Live
    <3> QED
      BY <3>2, <3>3
  <2>3. CASE Restart
    BY <2>3 DEF Restart
  <2> QED
    BY <2>1, <2>2, <2>3 DEF Next
<1> QED
  BY <1>1, PhaseCorrect, WaitingCorrect, PTL DEF Spec, GoalEndsWithItsLoop

-----------------------------------------------------------------------------
(* The serial operator                                                     *)

\* One request at a time, and between its two writes the row is ahead of the
\* memory by just what the request is about to apply.
SerialInv ==
    operator = "serial" =>
        /\ \A h, k \in Handlers : hpc[h] \in InFlight /\ hpc[k] \in InFlight => h = k
        /\ \A h \in Handlers :
              /\ hpc[h] = "acceptMem" => db = arg[h]
              /\ hpc[h] = "clearMem" => db = None
        /\ (\A h \in Handlers : hpc[h] \notin {"acceptMem", "clearMem"}) => db = delegation

LEMMA HandleSerial ==
    ASSUME TypeOK, SerialInv, NEW h \in Handlers, Handle(h)
    PROVE  SerialInv'
<1> USE DEF TypeOK, SerialInv, InFlight, HandlerAt, inner, loops, Quiet, Faults
<1>1. CASE RefuseDelegation(h) \/ RefuseGoal(h)
  BY <1>1 DEF RefuseDelegation, RefuseGoal
<1>2. ASSUME NEW d \in Delegations, BeginAccept(h, d)
      PROVE  SerialInv'
  BY <1>2 DEF BeginAccept, MayDelegate
<1>3. CASE AcceptPersist(h)
  BY <1>3 DEF AcceptPersist
<1>4. CASE AcceptApply(h)
  BY <1>4 DEF AcceptApply
<1>5. CASE BeginClear(h)
  BY <1>5 DEF BeginClear, MayDelegate
<1>6. CASE ClearPersist(h)
  BY <1>6 DEF ClearPersist
<1>7. CASE ClearApply(h)
  BY <1>7 DEF ClearApply
<1>8. CASE BeginGoal(h)
  BY <1>8 DEF BeginGoal, MayGoal
<1>9. CASE SetGoal(h)
  BY <1>9 DEF SetGoal
<1>10. CASE DropHandler(h)
  BY <1>10 DEF DropHandler
<1> QED
  BY <1>1, <1>2, <1>3, <1>4, <1>5, <1>6, <1>7, <1>8, <1>9, <1>10 DEF Handle

\* Requests that come one at a time, none dropped and none failing, leave the
\* row on disk what the agent works with, so that a restart changes nothing.
THEOREM RowIsKept == Spec => []RowIsActiveDelegation
<1>1. Init => SerialInv
  BY DEF Init, SerialInv, InFlight
<1>2. ASSUME TypeOK, SerialInv, [Next]_vars
      PROVE  SerialInv'
  <2>1. CASE UNCHANGED <<db, delegation, hpc, arg, operator>>
    BY <1>2, <2>1 DEF SerialInv
  <2>2. ASSUME NEW l \in Loops, LoopStep(l)
        PROVE  UNCHANGED <<db, delegation, hpc, arg, operator>>
    BY <2>2 DEF LoopStep, ReadDelegation, Abort, LeaveLoop, FinishGoal, inner, handlers
  <2>3. CASE Restart
    BY <1>2, <2>3 DEF Restart, SerialInv, TypeOK, InFlight
  <2> QED
    BY <1>2, <2>1, <2>2, <2>3, HandleSerial DEF Next, vars, inner, handlers
<1>3. SerialInv => RowIsActiveDelegation
  BY DEF SerialInv, RowIsActiveDelegation, Quiet, InFlight
<1> QED
  BY <1>1, <1>2, <1>3, AgentTypeCorrect, PTL DEF Spec
=============================================================================
