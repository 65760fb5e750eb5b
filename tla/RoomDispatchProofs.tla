------------------------- MODULE RoomDispatchProofs -------------------------
(***************************************************************************)
(* Theorems about RoomDispatch, for any messages, workers, modes, capacity *)
(* and bounds.                                                             *)
(*                                                                         *)
(* Neither RoomHeldByOne nor AttachedIsRunning is inductive alone: that a  *)
(* release leaves no owner behind needs the owner to be unique, and that a *)
(* newly attached run replaces none needs the attached run to be an owner. *)
(* Together with the types of the control variables they are.  No step of  *)
(* a heartbeat touches what they read: that is all they say of heartbeats. *)
(*                                                                         *)
(* The data comes after that: what the operations of the queue do to       *)
(* sequences of any length, that each worker has something to dispatch     *)
(* where it dispatches, and which messages may be in the queue while a     *)
(* handler is about to run one of its own.  Last come two properties that  *)
(* hold in some sessions only, which Lossless and QueuedOnce name: that no *)
(* accepted message is lost, and that a stop is final.                     *)
(***************************************************************************)
EXTENDS RoomDispatch, SequenceTheorems, FiniteSetTheorems, WellFoundedInduction, TLAPS

IInv == ControlTypeOK /\ RoomHeldByOne /\ AttachedIsRunning

\* What the invariant reads.
control == <<active, run, hpc, hmode, wpc, stopPc, stops, alive>>

\* The invariant depends on the control variables only.
LEMMA IInvUnchanged == IInv /\ UNCHANGED control => IInv'
BY DEF IInv, control, ControlTypeOK, RoomHeldByOne, AttachedIsRunning,
       HandlerHolds, WorkerHolds, Running, Draining

LEMMA NoModeType == NoMode \in AllModes
BY DEF NoMode, AllModes

\* Initially nobody owns the room.
LEMMA InitIInv == Init => IInv
<1> SUFFICES ASSUME Init PROVE IInv
  OBVIOUS
<1>1. ControlTypeOK
  BY NoModeType DEF Init, ControlTypeOK, HandlerPcs, WorkerPcs, RunPcs, DrainPcs, StopPcs
<1>2. RoomHeldByOne
  BY DEF Init, RoomHeldByOne, HandlerHolds, WorkerHolds, Running, Draining,
         RunPcs, DrainPcs
<1>3. AttachedIsRunning
  BY NoRunAssumption DEF Init, AttachedIsRunning, Running, RunPcs
<1> QED
  BY <1>1, <1>2, <1>3 DEF IInv

\* A handler that moves without taking or giving up the room.
LEMMA HandlerMoves ==
    ASSUME IInv, NEW m \in Messages, NEW pc \in HandlerPcs \ {"attach"},
           hpc[m] # "attach", HandlerGoes(m, pc),
           hmode' \in [Messages -> AllModes],
           UNCHANGED <<active, run, wpc, stopVars, alive>>
    PROVE  IInv'
BY DEF IInv, ControlTypeOK, RoomHeldByOne, AttachedIsRunning, HandlerGoes,
       HandlerHolds, WorkerHolds, Running, Draining, stopVars

\* A worker that moves within the code where it owns the room, or within the
\* code where it does not, without starting or ending a run.
LEMMA WorkerMoves ==
    ASSUME IInv, NEW w \in Workers, NEW pc \in WorkerPcs, WorkerGoes(w, pc),
           pc \in RunPcs <=> Running(w), pc \in DrainPcs <=> Draining(w),
           UNCHANGED <<active, run, hpc, hmode, stopVars, alive>>
    PROVE  IInv'
BY DEF IInv, ControlTypeOK, RoomHeldByOne, AttachedIsRunning, WorkerGoes,
       HandlerHolds, WorkerHolds, Running, Draining, stopVars

\* The owner releases the room.
LEMMA WorkerReleases ==
    ASSUME IInv, NEW w \in Workers, WorkerHolds(w), ReleaseRoom,
           NEW pc \in WorkerPcs \ (RunPcs \cup DrainPcs), WorkerGoes(w, pc),
           UNCHANGED <<hpc, hmode, stopVars, alive>>
    PROVE  IInv'
BY NoRunAssumption
   DEF IInv, ControlTypeOK, RoomHeldByOne, AttachedIsRunning, WorkerGoes,
       ReleaseRoom, HandlerHolds, WorkerHolds, Running, Draining, stopVars

\* The steps of a handler.
LEMMA HandlerStepIInv ==
    ASSUME IInv, NEW m \in Messages, BeginHandler(m) \/ HandlerStep(m)
    PROVE  IInv'
<1>1. CASE BeginHandler(m)
  BY <1>1, HandlerMoves, ModesAssumption
     DEF BeginHandler, HandlerAt, AfterBusyCheck, HandlerPcs, IInv, ControlTypeOK
<1>2. CASE CheckQueue(m)
  <2>1. CASE AfterBusyCheck(m, hmode[m], HasPendingWork) = "acquire"
    BY <1>2, <2>1, HandlerMoves DEF CheckQueue, HandlerAt, HandlerPcs, IInv, ControlTypeOK
  <2> QED
    BY <1>2, HandlerMoves DEF CheckQueue, HandlerAt, AfterBusyCheck, HandlerPcs, IInv, ControlTypeOK
<1>3. CASE InterruptCancel(m)
  BY <1>3, HandlerMoves DEF InterruptCancel, HandlerAt, HandlerPcs, IInv, ControlTypeOK
<1>4. CASE InterruptClear(m)
  BY <1>4, HandlerMoves DEF InterruptClear, HandlerAt, HandlerPcs, IInv, ControlTypeOK
<1>5. CASE HandlerAcquire(m)
  <2>1. CASE active
    BY <1>5, <2>1, HandlerMoves
       DEF HandlerAcquire, RoomFree, HandlerAt, HandlerPcs, IInv, ControlTypeOK
  <2>2. CASE ~active
    BY <1>5, <2>2
       DEF HandlerAcquire, RoomFree, HandlerAt, HandlerGoes, HandlerPcs, IInv,
           ControlTypeOK, RoomHeldByOne, AttachedIsRunning, HandlerHolds,
           WorkerHolds, Running, Draining, stopVars
  <2> QED
    BY <2>1, <2>2
<1>6. ASSUME NEW w \in Workers, HandlerAttach(m, w)
      PROVE  IInv'
  BY <1>6, NoRunAssumption, NoModeType
     DEF HandlerAttach, AttachRun, HandlerReturns, HandlerAt, HandlerGoes, WorkerGoes, HandlerPcs,
         WorkerPcs, RunPcs, DrainPcs, IInv, ControlTypeOK, RoomHeldByOne,
         AttachedIsRunning, HandlerHolds, WorkerHolds, Running, Draining, stopVars
<1>7. CASE Recheck(m)
  BY <1>7, HandlerMoves DEF Recheck, HandlerAt, HandlerPcs, IInv, ControlTypeOK
<1>8. CASE Steer(m)
  BY <1>8, HandlerMoves, NoModeType
     DEF Steer, HandlerReturns, HandlerAt, HandlerPcs, IInv, ControlTypeOK
<1>9. CASE SteerRefused(m)
  BY <1>9, HandlerMoves DEF SteerRefused, HandlerAt, HandlerPcs, IInv, ControlTypeOK
<1>10. CASE HandlerEnqueue(m)
  BY <1>10, HandlerMoves, NoModeType
     DEF HandlerEnqueue, HandlerReturns, HandlerAt, HandlerPcs, IInv, ControlTypeOK
<1> QED
  BY <1>1, <1>2, <1>3, <1>4, <1>5, <1>6, <1>7, <1>8, <1>9, <1>10 DEF HandlerStep

\* The steps of a run.
LEMMA RunStepIInv ==
    ASSUME IInv, NEW w \in Workers, RunStep(w)
    PROVE  IInv'
<1> USE DEF WorkerAt, RunPcs, DrainPcs, WorkerPcs, Running, Draining
<1>1. CASE RunStream(w)
  BY <1>1, WorkerMoves DEF RunStream
<1>2. CASE RunTakeSteering(w)
  BY <1>2, IInvUnchanged DEF RunTakeSteering, control, stopVars
<1>3. CASE RunStreamEnd(w)
  BY <1>3, WorkerMoves DEF RunStreamEnd
<1>4. CASE RunEnd(w)
  BY <1>4, WorkerMoves DEF RunEnd
<1>5. CASE RunRequeue(w)
  BY <1>5, WorkerMoves DEF RunRequeue
<1>6. CASE RunRelease(w)
  BY <1>6, WorkerReleases DEF RunRelease, WorkerHolds
<1>7. CASE RunKick(w)
  BY <1>7, WorkerMoves DEF RunKick
<1> QED
  BY <1>1, <1>2, <1>3, <1>4, <1>5, <1>6, <1>7 DEF RunStep

\* The steps of a drainer.
LEMMA DrainStepIInv ==
    ASSUME IInv, NEW w \in Workers, DrainStep(w)
    PROVE  IInv'
<1> USE DEF WorkerAt, RunPcs, DrainPcs, WorkerPcs, Running, Draining, Unmoved
<1>1. CASE DrainSnapshot(w)
  BY <1>1, WorkerMoves DEF DrainSnapshot
<1>2. CASE DrainDebounce(w)
  BY <1>2, WorkerMoves DEF DrainDebounce
<1>3. CASE DrainAcquire(w)
  <2>1. CASE active
    BY <1>3, <2>1, WorkerMoves DEF DrainAcquire, RoomFree, IInv, ControlTypeOK
  <2>2. CASE ~active
    BY <1>3, <2>2
       DEF DrainAcquire, RoomFree, WorkerGoes, IInv, ControlTypeOK,
           RoomHeldByOne, AttachedIsRunning, HandlerHolds, WorkerHolds, stopVars
  <2> QED
    BY <2>1, <2>2
<1>4. CASE TakeNothing(w)
  BY <1>4, WorkerMoves DEF TakeNothing
<1>5. CASE TakeCollect(w)
  BY <1>5, WorkerMoves DEF TakeCollect
<1>6. CASE TakeSummary(w)
  <2>1. CASE queue.items = <<>>
    BY <1>6, <2>1
       DEF TakeSummary, IInv, ControlTypeOK, RoomHeldByOne, AttachedIsRunning,
           HandlerHolds, WorkerHolds, stopVars
  <2>2. CASE queue.items # <<>>
    BY <1>6, <2>2, WorkerMoves DEF TakeSummary
  <2> QED
    BY <2>1, <2>2
<1>7. CASE TakeSingle(w)
  BY <1>7, WorkerMoves DEF TakeSingle
<1>8. CASE DrainConsume(w)
  BY <1>8, WorkerMoves DEF DrainConsume
<1>9. CASE DrainPop(w)
  BY <1>9, WorkerMoves DEF DrainPop
<1>10. CASE DrainBuild(w)
  BY <1>10, WorkerMoves DEF DrainBuild
<1>11. CASE DrainBuildFails(w)
  BY <1>11, WorkerMoves DEF DrainBuildFails
<1>12. CASE DrainFailRelease(w)
  BY <1>12, WorkerReleases DEF DrainFailRelease, WorkerHolds
<1>13. ASSUME NEW v \in Workers, DrainFailKick(w, v)
       PROVE  IInv'
  BY <1>13
     DEF DrainFailKick, IInv, ControlTypeOK, RoomHeldByOne, AttachedIsRunning,
         HandlerHolds, WorkerHolds, stopVars
<1>14. ASSUME NEW v \in Workers, DrainDispatch(w, v)
       PROVE  IInv'
  BY <1>14, NoRunAssumption
     DEF DrainDispatch, AttachRun, IInv, ControlTypeOK, RoomHeldByOne,
         AttachedIsRunning, HandlerHolds, WorkerHolds, stopVars
<1>15. CASE DrainUndo(w)
  BY <1>15, WorkerReleases DEF DrainUndo, WorkerHolds
<1>16. CASE DrainUnmark(w)
  BY <1>16, WorkerMoves DEF DrainUnmark
<1> QED
  BY <1>1, <1>2, <1>3, <1>4, <1>5, <1>6, <1>7, <1>8, <1>9, <1>10, <1>11,
     <1>12, <1>13, <1>14, <1>15, <1>16 DEF DrainStep

\* Stop and reset commands: they read who runs and never change it.
LEMMA StopStepIInv ==
    ASSUME IInv, StopBegins \/ StopContinues
    PROVE  IInv'
<1> SUFFICES
           /\ UNCHANGED <<active, run, hpc, hmode, wpc, alive>>
           /\ stopPc' \in StopPcs
           /\ stops' \in Nat
  BY DEF IInv, ControlTypeOK, RoomHeldByOne, AttachedIsRunning, HandlerHolds,
         WorkerHolds, Running, Draining
<1> USE DEF StopAt, StopPcs, MayStop, IInv, ControlTypeOK
<1>1. CASE StopRoom
  BY <1>1 DEF StopRoom
<1>2. CASE StopRoomCancel
  BY <1>2 DEF StopRoomCancel
<1>3. CASE StopRoomDrain
  BY <1>3 DEF StopRoomDrain
<1>4. CASE StopTurn
  BY <1>4 DEF StopTurn
<1>5. CASE StopTurnMark
  BY <1>5 DEF StopTurnMark
<1>6. CASE StopTurnCancel
  BY <1>6 DEF StopTurnCancel
<1>7. ASSUME NEW m \in Messages, StopQueued(m)
      PROVE  /\ UNCHANGED <<active, run, hpc, hmode, wpc, alive>>
             /\ stopPc' \in StopPcs
               /\ stops' \in Nat
  BY <1>7 DEF StopQueued
<1>8. CASE Reset
  BY <1>8 DEF Reset
<1>9. CASE ResetCancel
  BY <1>9 DEF ResetCancel
<1> QED
  BY <1>1, <1>2, <1>3, <1>4, <1>5, <1>6, <1>7, <1>8, <1>9
     DEF StopBegins, StopContinues

\* Heartbeats change neither who owns the room nor which run is attached.
LEMMA BeatsTakeNothing ==
    ASSUME NEW b \in Beats, BeatStep(b) PROVE UNCHANGED NotOfBeats
BY DEF BeatStep, BeatCheckRoom, BeatCheckQueue, BeatSkips, BeatStream, BeatTakeSteering,
       BeatStreamEnd, BeatEnd

LEMMA BeatStepIInv ==
    ASSUME IInv, NEW b \in Beats, BeatStep(b) PROVE IInv'
BY BeatsTakeNothing, IInvUnchanged DEF NotOfBeats, control, stopVars

\* Every step preserves the invariant.
LEMMA NextIInv == IInv /\ [Next]_vars => IInv'
<1> SUFFICES ASSUME IInv, [Next]_vars PROVE IInv'
  OBVIOUS
<1>1. CASE UNCHANGED vars
  BY <1>1, IInvUnchanged DEF vars, control
<1>2. CASE Next
  BY <1>2, HandlerStepIInv, RunStepIInv, DrainStepIInv, BeatStepIInv, StopStepIInv DEF Next
<1> QED
  BY <1>1, <1>2

\* In every reachable state the control variables have their types, the room
\* has at most one owner, and the attached run is the running one.
THEOREM SpecIInv == Spec => []IInv
<1>1. IInv /\ [Next]_vars => IInv'
  BY NextIInv
<1> QED
  BY InitIInv, <1>1, PTL DEF Spec

\* At every moment the room has one owner at most, and the run found through it
\* is the owner's, however many heartbeats run in the room without owning it.
THEOREM SpecRoomHasOneRun == Spec => []RoomHasOneRun
<1>1. IInv => RoomHasOneRun
  BY DEF IInv, RoomHasOneRun
<1> QED
  BY SpecIInv, <1>1, PTL

-----------------------------------------------------------------------------
(***************************************************************************)
(* The room implements SerialRoom.  A step that changes no running worker  *)
(* is a stutter; attaching a run begins a turn, and only the owner of the  *)
(* room attaches, so none is live; releasing the room ends the turn.       *)
(***************************************************************************)

\* The jobs are a function of the workers, whatever they hold.
JobsOfWorkers == job = [w \in Workers |-> job[w]]

RInv == IInv /\ JobsOfWorkers

\* A step after which the same workers run the same jobs.
LEMMA SameTurns ==
    ASSUME \A w \in Workers : Running(w)' <=> Running(w),
           \A w \in Workers : Running(w) => job'[w] = job[w]
    PROVE  UNCHANGED LiveTurns
BY DEF LiveTurns, Prompted, IsSynthetic

\* Nobody runs; then w does.
LEMMA TurnBegins ==
    ASSUME \A w \in Workers : ~Running(w),
           NEW w \in Workers, \A v \in Workers : Running(v)' <=> v = w
    PROVE  Serial!Begin
<1>1. LiveTurns = {}
  BY DEF LiveTurns
<1>2. LiveTurns' = {<<w, Prompted(job[w])'>>}
  BY DEF LiveTurns
<1> QED
  BY <1>1, <1>2 DEF Serial!Begin

\* Only w runs; then nobody does.
LEMMA TurnEnds ==
    ASSUME NEW w \in Workers, Running(w), \A v \in Workers : ~Running(v)'
    PROVE  Serial!End
BY DEF LiveTurns, Serial!End

\* No step but attaching and releasing a run touches the turn in progress.
LEMMA HandlerTurns ==
    ASSUME RInv, NEW m \in Messages, BeginHandler(m) \/ HandlerStep(m)
    PROVE  [Serial!Next]_LiveTurns /\ JobsOfWorkers'
<1>1. ASSUME NEW w \in Workers, HandlerAttach(m, w)
      PROVE  [Serial!Next]_LiveTurns /\ JobsOfWorkers'
  <2>1. \A v \in Workers : ~Running(v)
    BY <1>1 DEF RInv, IInv, RoomHeldByOne, HandlerAttach, HandlerAt, HandlerHolds, WorkerHolds
  <2>2. \A v \in Workers : Running(v)' <=> v = w
    BY <1>1, <2>1 DEF RInv, IInv, ControlTypeOK, HandlerAttach, WorkerGoes, Running, RunPcs
  <2>3. Serial!Begin
    BY <2>1, <2>2, TurnBegins
  <2>4. JobsOfWorkers'
    BY <1>1 DEF RInv, JobsOfWorkers, HandlerAttach
  <2> QED
    BY <2>3, <2>4 DEF Serial!Next
<1>2. ASSUME \A w \in Workers : ~HandlerAttach(m, w)
      PROVE  UNCHANGED <<wpc, job>>
  BY <1>2 DEF HandlerStep, BeginHandler, CheckQueue, InterruptCancel, InterruptClear,
              HandlerAcquire, Recheck, Steer, SteerRefused, HandlerEnqueue
<1>3. ASSUME UNCHANGED <<wpc, job>>
      PROVE  [Serial!Next]_LiveTurns /\ JobsOfWorkers'
  BY <1>3, SameTurns DEF Running, RInv, JobsOfWorkers
<1> QED
  BY <1>1, <1>2, <1>3

LEMMA RunTurns ==
    ASSUME RInv, NEW w \in Workers, RunStep(w)
    PROVE  [Serial!Next]_LiveTurns /\ JobsOfWorkers'
<1>1. CASE RunRelease(w)
  <2>1. Running(w)
    BY <1>1 DEF RunRelease, WorkerAt, Running, RunPcs
  <2>2. \A v \in Workers : ~Running(v)'
    BY <1>1, <2>1
       DEF RInv, IInv, ControlTypeOK, RoomHeldByOne, WorkerHolds, RunRelease,
           WorkerGoes, Running, RunPcs
  <2>3. Serial!End
    BY <2>1, <2>2, TurnEnds
  <2>4. JobsOfWorkers'
    BY <1>1 DEF RInv, JobsOfWorkers, RunRelease
  <2> QED
    BY <2>3, <2>4 DEF Serial!Next
<1>2. CASE ~RunRelease(w)
  <2>1. UNCHANGED job
    BY <1>2 DEF RunStep, RunStream, RunTakeSteering, RunStreamEnd, RunEnd, RunRequeue, RunKick
  <2>2. \A v \in Workers : Running(v)' <=> Running(v)
    BY <1>2
       DEF RInv, IInv, ControlTypeOK, RunStep, RunStream, RunTakeSteering, RunStreamEnd,
           RunEnd, RunRequeue, RunKick, WorkerAt, WorkerGoes, Running, RunPcs
  <2>3. UNCHANGED LiveTurns
    BY <2>1, <2>2, SameTurns
  <2> QED
    BY <2>1, <2>3 DEF RInv, JobsOfWorkers
<1> QED
  BY <1>1, <1>2

LEMMA DrainTurns ==
    ASSUME RInv, NEW w \in Workers, DrainStep(w)
    PROVE  [Serial!Next]_LiveTurns /\ JobsOfWorkers'
<1>1. ASSUME NEW v \in Workers, DrainDispatch(w, v)
      PROVE  [Serial!Next]_LiveTurns /\ JobsOfWorkers'
  <2>1. \A u \in Workers : ~Running(u)
    BY <1>1
       DEF RInv, IInv, RoomHeldByOne, DrainDispatch, WorkerAt, WorkerHolds,
           Running, Draining, RunPcs, DrainPcs
  <2>2. \A u \in Workers : Running(u)' <=> u = v
    BY <1>1, <2>1
       DEF RInv, IInv, ControlTypeOK, DrainDispatch, WorkerAt, Running, RunPcs
  <2>3. Serial!Begin
    BY <2>1, <2>2, TurnBegins
  <2>4. JobsOfWorkers'
    BY <1>1 DEF RInv, JobsOfWorkers, DrainDispatch
  <2> QED
    BY <2>3, <2>4 DEF Serial!Next
<1>2. ASSUME \A v \in Workers : ~DrainDispatch(w, v)
      PROVE  UNCHANGED LiveTurns /\ JobsOfWorkers'
  <2>1. ~Running(w)
    BY <1>2
       DEF DrainStep, DrainSnapshot, DrainDebounce, DrainAcquire, TakeNothing, TakeCollect,
           TakeSummary, TakeSingle, DrainConsume, DrainPop, DrainBuild, DrainBuildFails,
           DrainFailRelease, DrainFailKick, DrainUndo, DrainUnmark, WorkerAt, Running, RunPcs
  <2>2. \A u \in Workers : Running(u)' <=> Running(u)
    BY <1>2, <2>1
       DEF RInv, IInv, ControlTypeOK, DrainStep, DrainSnapshot, DrainDebounce, DrainAcquire,
           TakeNothing, TakeCollect, TakeSummary, TakeSingle, DrainConsume, DrainPop,
           DrainBuild, DrainBuildFails, DrainFailRelease, DrainFailKick, DrainUndo,
           DrainUnmark, WorkerGoes, Running, RunPcs
  <2>3. JobsOfWorkers' /\ \A u \in Workers : u # w => job'[u] = job[u]
    BY <1>2
       DEF RInv, JobsOfWorkers, DrainStep, DrainSnapshot, DrainDebounce, DrainAcquire,
           TakeNothing, TakeCollect, TakeSummary, TakeSingle, DrainConsume, DrainPop,
           DrainBuild, DrainBuildFails, DrainFailRelease, DrainFailKick, DrainUndo, DrainUnmark
  <2>4. UNCHANGED LiveTurns
    BY <2>1, <2>2, <2>3, SameTurns
  <2> QED
    BY <2>3, <2>4
<1> QED
  BY <1>1, <1>2

\* Every step of the room is a step of SerialRoom, or a stutter.
LEMMA NextTurns == RInv /\ [Next]_vars => [Serial!Next]_LiveTurns /\ RInv'
<1> SUFFICES ASSUME RInv, [Next]_vars
             PROVE  [Serial!Next]_LiveTurns /\ JobsOfWorkers'
  BY NextIInv DEF RInv
<1>1. ASSUME UNCHANGED <<wpc, job>>
      PROVE  [Serial!Next]_LiveTurns /\ JobsOfWorkers'
  BY <1>1, SameTurns DEF Running, RInv, JobsOfWorkers
<1>2. CASE UNCHANGED vars
  BY <1>1, <1>2 DEF vars
<1>3. CASE StopBegins \/ StopContinues
  <2>1. UNCHANGED <<wpc, job>>
    BY <1>3 DEF StopBegins, StopContinues, StopRoom, StopRoomCancel, StopRoomDrain, StopTurn,
                StopTurnMark, StopTurnCancel, StopQueued, Reset, ResetCancel
  <2> QED
    BY <1>1, <2>1
<1>4. ASSUME NEW b \in Beats, BeatStep(b)
      PROVE  [Serial!Next]_LiveTurns /\ JobsOfWorkers'
  BY <1>1, <1>4, BeatsTakeNothing DEF NotOfBeats
<1> QED
  BY <1>2, <1>3, <1>4, HandlerTurns, RunTurns, DrainTurns DEF Next

LEMMA InitTurns == Init => Serial!Init /\ RInv
<1> SUFFICES ASSUME Init PROVE Serial!Init /\ JobsOfWorkers
  BY InitIInv DEF RInv
<1>1. LiveTurns = {}
  BY DEF Init, LiveTurns, Running, RunPcs
<1> QED
  BY <1>1 DEF Serial!Init, Init, JobsOfWorkers

\* For any messages, workers and modes the turns dispatched in a room are serial.
THEOREM SpecDispatchedTurnsAreSerial == Spec => DispatchedTurnsAreSerial
<1>1. Init => Serial!Init /\ RInv
  BY InitTurns
<1>2. RInv /\ [Next]_vars => [Serial!Next]_LiveTurns /\ RInv'
  BY NextTurns
<1> QED
  BY <1>1, <1>2, PTL DEF Spec, DispatchedTurnsAreSerial, Serial!Spec

-----------------------------------------------------------------------------
(***************************************************************************)
(* The data of the room.  The operations of the queue are about sequences; *)
(* what they keep is shown here for any items.                             *)
(***************************************************************************)

\* A set of numbers has a least one: induction, where the data needs it.
LEMMA LeastOf ==
    ASSUME NEW T \in SUBSET Nat, T # {}
    PROVE  \E x \in T : \A y \in T : x <= y
<1> DEFINE Initial == {0..n : n \in T}
<1>1. Initial # {} /\ Initial \subseteq FiniteSubsetsOf(Nat)
  <2>1. ASSUME NEW n \in T PROVE 0..n \in SUBSET Nat /\ IsFiniteSet(0..n)
    BY FS_Interval
  <2> QED
    BY <2>1 DEF FiniteSubsetsOf
<1>2. IsWellFoundedOn(StrictSubsetOrdering(Nat), FiniteSubsetsOf(Nat))
  BY FS_StrictSubsetOrderingWellFounded
<1>3. PICK I \in Initial : \A J \in Initial : <<J, I>> \notin StrictSubsetOrdering(Nat)
  <2> HIDE DEF Initial
  <2> QED
    BY <1>1, <1>2, WFMin
<1>4. PICK x \in T : I = 0..x
  BY <1>3
<1>5. ASSUME NEW y \in T, y < x PROVE FALSE
  <2>1. <<0..y, 0..x>> \notin StrictSubsetOrdering(Nat)
    BY <1>3, <1>4
  <2>2. 0..y \subseteq 0..x /\ 0..y # 0..x
    BY <1>5
  <2> QED
    BY <2>1, <2>2 DEF StrictSubsetOrdering
<1> QED
  BY <1>5

\* The k-th of the kept positions is one of them.
LEMMA NthExists ==
    ASSUME NEW n \in Nat, NEW kept \in SUBSET (1..n), NEW k \in 1..Cardinality(kept)
    PROVE  \E i \in kept : Cardinality({j \in kept : j <= i}) = k
<1> DEFINE upTo(i) == {j \in kept : j <= i}
           T == {i \in 0..n : Cardinality(upTo(i)) >= k}
<1>1. IsFiniteSet(kept) /\ Cardinality(kept) \in Nat
  <2>1. IsFiniteSet(1..n)
    BY FS_Interval
  <2> QED
    BY <2>1, FS_Subset, FS_CardinalityType
<1>2. ASSUME NEW i \in 0..n
      PROVE  IsFiniteSet(upTo(i)) /\ Cardinality(upTo(i)) \in Nat
  <2>1. upTo(i) \in SUBSET kept
    OBVIOUS
  <2> HIDE DEF upTo
  <2> QED
    BY <1>1, <2>1, FS_Subset, FS_CardinalityType
<1>3. upTo(n) = kept
  <2>1. \A j \in kept : j <= n
    OBVIOUS
  <2> QED
    BY <2>1
<1>a. \A i \in 1..n : upTo(i) = upTo(i - 1) \cup ({i} \cap kept)
  <2>1. ASSUME NEW i \in 1..n, NEW j \in kept
        PROVE  j <= i <=> j <= i - 1 \/ j = i
    <3>1. j \in 1..n
      OBVIOUS
    <3> QED
      BY <3>1
  <2> QED
    BY <2>1
<1>b. \A i \in 1..n : i \notin upTo(i - 1)
  OBVIOUS
<1>c. upTo(0) = {} /\ Cardinality({}) = 0
  <2>1. \A j \in kept : ~(j <= 0)
    OBVIOUS
  <2> QED
    BY <2>1, FS_EmptySet
<1> HIDE DEF upTo
<1>4. n \in T /\ T \in SUBSET Nat
  BY <1>1, <1>3
<1>5. PICK i \in T : \A y \in T : i <= y
  <2> HIDE DEF T
  <2> QED
    BY <1>4, LeastOf
<1>6. i \in 0..n /\ Cardinality(upTo(i)) >= k
  OBVIOUS
<1>7. i \in 1..n /\ i - 1 \in 0..n
  BY <1>6, <1>c
<1>8. Cardinality(upTo(i - 1)) < k
  <2>1. i - 1 \notin T
    BY <1>5, <1>7
  <2> QED
    BY <1>2, <1>7, <2>1
<1>9. i \in kept
  BY <1>2, <1>6, <1>7, <1>8, <1>a
<1>10. Cardinality(upTo(i)) = Cardinality(upTo(i - 1)) + 1
  <2>1. upTo(i) = upTo(i - 1) \cup {i} /\ i \notin upTo(i - 1)
    BY <1>7, <1>9, <1>a, <1>b
  <2>2. IsFiniteSet(upTo(i - 1))
    BY <1>2, <1>7
  <2> QED
    BY <2>1, <2>2, FS_AddElement
<1>11. Cardinality(upTo(i)) = k
  BY <1>2, <1>6, <1>7, <1>8, <1>10
<1> QED
  BY <1>9, <1>11 DEF upTo

\* What is left when the items of a source are removed.
LEMMA NotFromKeeps ==
    ASSUME NEW items \in Seq(Item), NEW m
    PROVE  /\ NotFrom(m, items) \in Seq(Item)
           /\ \A k \in DOMAIN NotFrom(m, items) :
                 \E i \in DOMAIN items : NotFrom(m, items)[k] = items[i]
<1> DEFINE kept == {i \in DOMAIN items : items[i].msg # m}
           nth(k) == CHOOSE i \in kept : Cardinality({j \in kept : j <= i}) = k
           left == [k \in 1..Cardinality(kept) |-> items[nth(k)]]
<1>1. DOMAIN items = 1..Len(items) /\ Len(items) \in Nat
  BY LenProperties
<1>2. kept \in SUBSET (1..Len(items)) /\ Cardinality(kept) \in Nat
  <2>1. kept \in SUBSET (1..Len(items)) /\ IsFiniteSet(1..Len(items))
    BY <1>1, FS_Interval
  <2> HIDE DEF kept
  <2> QED
    BY <2>1, FS_Subset, FS_CardinalityType
<1>3. ASSUME NEW k \in 1..Cardinality(kept) PROVE nth(k) \in DOMAIN items
  <2>1. \E i \in kept : Cardinality({j \in kept : j <= i}) = k
    <3> HIDE DEF kept
    <3> QED
      BY <1>1, <1>2, NthExists
  <2> QED
    BY <2>1
<1>4. \A k \in 1..Cardinality(kept) : items[nth(k)] \in Item
  BY <1>3, <1>1, ElementOfSeq
<1>5. left \in Seq(Item) /\ DOMAIN left = 1..Cardinality(kept)
  <2> HIDE DEF kept, nth
  <2> QED
    BY <1>2, <1>4, IsASeq
<1>6. NotFrom(m, items) = left
  BY DEF NotFrom
<1>7. \A k \in DOMAIN left : \E i \in DOMAIN items : left[k] = items[i]
  <2> HIDE DEF nth
  <2> QED
    BY <1>3, <1>5
<1> HIDE DEF left, nth, kept
<1> QED
  BY <1>5, <1>6, <1>7

\* The messages that wait in a queue as themselves, not as a steer+backlog copy.
Waits(items) == {items[i].msg : i \in {j \in DOMAIN items : ~items[j].allowDuplicate}}

\* A queue without items and without dropped messages is the deleted one.
GoodQueue == {q \in Queue : IsEmpty(q) => q = EmptyQueue}

LEMMA FewerWait ==
    ASSUME NEW items, NEW rest,
           \A k \in DOMAIN rest : \E i \in DOMAIN items : rest[k] = items[i]
    PROVE  Waits(rest) \subseteq Waits(items)
BY DEF Waits

LEMMA PartOfItems ==
    ASSUME NEW items \in Seq(Item), NEW a \in Nat \ {0}, NEW b \in 0..Len(items)
    PROVE  /\ SubSeq(items, a, b) \in Seq(Item)
           /\ Waits(SubSeq(items, a, b)) \subseteq Waits(items)
<1> DEFINE rest == SubSeq(items, a, b)
<1>1. Len(items) \in Nat
  BY LenProperties
<1>2. rest \in Seq(Item) /\ \A k \in DOMAIN rest : \E i \in DOMAIN items : rest[k] = items[i]
  <2>1. CASE a <= b
    <3>1. \A k \in a..b : items[k] \in Item
      BY <1>1, ElementOfSeq
    <3>2. rest \in Seq(Item) /\ Len(rest) = b - a + 1
          /\ \A k \in 1..(b - a + 1) : rest[k] = items[a + k - 1]
      BY <1>1, <2>1, <3>1, SubSeqProperties
    <3>3. DOMAIN rest = 1..(b - a + 1) /\ DOMAIN items = 1..Len(items)
      BY <3>2, LenProperties
    <3>4. ASSUME NEW k \in 1..(b - a + 1)
          PROVE  a + k - 1 \in 1..Len(items)
      BY <1>1, <2>1
    <3> HIDE DEF rest
    <3> QED
      BY <3>2, <3>3, <3>4
  <2>2. CASE b < a
    <3>1. rest = <<>>
      BY <1>1, <2>2, SubSeqEmpty
    <3> QED
      BY <3>1
  <2> QED
    BY <1>1, <2>1, <2>2
<1> HIDE DEF rest
<1> QED
  BY <1>2, FewerWait DEF rest

LEMMA SettleKeeps ==
    ASSUME NEW q \in Queue
    PROVE  Settle(q) \in GoodQueue /\ Settle(q).items = q.items
<1>1. EmptyQueue \in Queue /\ EmptyQueue.items = <<>>
  BY DEF EmptyQueue, Queue, AllModes
<1> QED
  BY <1>1 DEF Settle, GoodQueue, IsEmpty

LEMMA EnqueueKeeps ==
    ASSUME NEW q \in GoodQueue, NEW item \in Item, NEW mode \in AllModes
    PROVE  /\ Enqueue(q, item, mode) \in GoodQueue
           /\ Waits(Enqueue(q, item, mode).items)
                 \subseteq Waits(q.items) \cup (IF item.allowDuplicate THEN {} ELSE {item.msg})
<1> DEFINE reset == [q EXCEPT !.mode = mode]
           kept  == SubSeq(q.items, Len(Evicted(q, item)) + 1, Len(q.items))
<1>1. q \in Queue /\ q.items \in Seq(Item) /\ Len(q.items) \in Nat
  BY LenProperties DEF GoodQueue, Queue
<1>2. reset \in Queue /\ reset.items = q.items /\ <<item>> \in Seq(Item)
  BY <1>1 DEF Queue
<1>3. CASE Conflicts(item, q.items)
  <2>1. q.items # <<>>
    BY <1>1, <1>3 DEF Conflicts, Msgs
  <2> QED
    BY <1>2, <1>3, <2>1 DEF Enqueue, GoodQueue, IsEmpty
<1>4. CASE ~Conflicts(item, q.items) /\ ~Admits(q, item)
  <2>1. Enqueue(q, item, mode) = [reset EXCEPT !.last = <<item>>]
    BY <1>4 DEF Enqueue
  <2>2. q.items # <<>>
    BY <1>1, <1>4, CapAssumption DEF Admits, KeepsNew
  <2> QED
    BY <1>2, <2>1, <2>2 DEF Queue, GoodQueue, IsEmpty
<1>5. CASE ~Conflicts(item, q.items) /\ Admits(q, item)
  <2>1. Enqueue(q, item, mode) =
          [reset EXCEPT !.last = <<item>>, !.items = Append(kept, item),
             !.dropped = IF DropPolicy = "summarize"
                         THEN @ \cup Msgs(Evicted(q, item)) ELSE @]
    BY <1>5 DEF Enqueue
  <2>2. Evicted(q, item) \in Seq(Item) /\ Len(Evicted(q, item)) \in Nat
    <3>1. ItemsToDrop(Len(q.items)) \in 0..Len(q.items)
      BY <1>1, CapAssumption DEF ItemsToDrop
    <3>2. Evicted(q, item) = SubSeq(q.items, 1, ItemsToDrop(Len(q.items)))
      BY <1>5 DEF Evicted
    <3> QED
      BY <1>1, <3>1, <3>2, PartOfItems, LenProperties
  <2>3. kept \in Seq(Item) /\ Waits(kept) \subseteq Waits(q.items)
    BY <1>1, <2>2, PartOfItems
  <2>4. Msgs(Evicted(q, item)) \subseteq Messages
    <3> DEFINE e == Evicted(q, item)
    <3> HIDE DEF e
    <3>1. e \in Seq(Item) => \A i \in DOMAIN e : e[i] \in Item
      BY ElementOfSeq, LenProperties
    <3> QED
      BY <2>2, <3>1 DEF Msgs, Item, e
  <2> HIDE DEF kept, reset
  <2>5. Append(kept, item) \in Seq(Item) /\ Append(kept, item) # <<>>
        /\ Len(kept) \in Nat /\ Len(Append(kept, item)) = Len(kept) + 1
        /\ \A i \in 1..Len(kept) : Append(kept, item)[i] = kept[i]
        /\ Append(kept, item)[Len(kept) + 1] = item
    BY <2>3, AppendProperties, LenProperties
  <2>6. Waits(Append(kept, item))
           \subseteq Waits(kept) \cup (IF item.allowDuplicate THEN {} ELSE {item.msg})
    <3>1. DOMAIN Append(kept, item) = 1..(Len(kept) + 1) /\ DOMAIN kept = 1..Len(kept)
      BY <2>3, <2>5, LenProperties
    <3>2. \A i \in 1..(Len(kept) + 1) : i \in 1..Len(kept) \/ i = Len(kept) + 1
      BY <2>5
    <3> QED
      BY <2>5, <3>1, <3>2 DEF Waits
  <2>7. Enqueue(q, item, mode) \in Queue /\ Enqueue(q, item, mode).items = Append(kept, item)
    <3>1. reset \in Queue
      BY <1>2
    <3> QED
      BY <1>2, <2>1, <2>4, <2>5, <3>1 DEF Queue
  <2> QED
    BY <2>3, <2>5, <2>6, <2>7 DEF GoodQueue, IsEmpty
<1> QED
  BY <1>3, <1>4, <1>5

LEMMA PopKeeps ==
    ASSUME NEW q \in GoodQueue, NEW count \in Nat
    PROVE  /\ Popped(q, count) \in Seq(Item)
           /\ Pop(q, count) \in GoodQueue
           /\ Waits(Pop(q, count).items) \subseteq Waits(q.items)
<1> DEFINE rest == SubSeq(q.items, Len(Popped(q, count)) + 1, Len(q.items))
<1>1. q \in Queue /\ q.items \in Seq(Item) /\ Len(q.items) \in Nat
  BY LenProperties DEF GoodQueue, Queue
<1>2. Popped(q, count) \in Seq(Item)
  <2>1. (IF count > Len(q.items) THEN Len(q.items) ELSE count) \in 0..Len(q.items)
    BY <1>1
  <2> QED
    BY <1>1, <2>1, PartOfItems DEF Popped
<1>3. rest \in Seq(Item) /\ Waits(rest) \subseteq Waits(q.items)
  BY <1>1, <1>2, PartOfItems, LenProperties
<1>4. Pop(q, count) = Settle([q EXCEPT !.items = rest])
  BY DEF Pop
<1> HIDE DEF rest
<1>5. [q EXCEPT !.items = rest] \in Queue /\ [q EXCEPT !.items = rest].items = rest
  BY <1>1, <1>3 DEF Queue
<1> QED
  BY <1>2, <1>3, <1>4, <1>5, SettleKeeps

LEMMA ConsumeKeeps ==
    ASSUME NEW q \in GoodQueue
    PROVE  ConsumeSummary(q) \in GoodQueue /\ ConsumeSummary(q).items = q.items
<1>1. [q EXCEPT !.dropped = {}] \in Queue /\ [q EXCEPT !.dropped = {}].items = q.items
  BY DEF GoodQueue, Queue
<1> QED
  BY <1>1, SettleKeeps DEF ConsumeSummary

LEMMA ClearDrainingKeeps ==
    ASSUME NEW q \in GoodQueue
    PROVE  ClearDraining(q) \in GoodQueue /\ ClearDraining(q).items = q.items
<1>1. [q EXCEPT !.draining = FALSE] \in Queue /\ [q EXCEPT !.draining = FALSE].items = q.items
  BY DEF GoodQueue, Queue
<1> QED
  BY <1>1, SettleKeeps DEF ClearDraining

\* The draining mark is set on a queue that holds something.
LEMMA MarkKeeps ==
    ASSUME NEW q \in GoodQueue, NEW marks \in BOOLEAN, marks => ~IsEmpty(q)
    PROVE  /\ [q EXCEPT !.draining = @ \/ marks] \in GoodQueue
           /\ [q EXCEPT !.draining = @ \/ marks].items = q.items
<1> DEFINE r == [q EXCEPT !.draining = q.draining \/ marks]
<1>1. q \in Queue
  BY DEF GoodQueue
<1>2. r \in Queue /\ r.items = q.items /\ r.dropped = q.dropped
  BY <1>1 DEF Queue
<1>3. CASE IsEmpty(q)
  <2>1. r = q
    <3>1. q.draining \/ marks <=> q.draining
      BY <1>3
    <3> QED
      BY <1>1, <3>1 DEF Queue
  <2> QED
    BY <2>1
<1>4. CASE ~IsEmpty(q)
  BY <1>2, <1>4 DEF GoodQueue, IsEmpty
<1> QED
  BY <1>3, <1>4

LEMMA RemoveKeeps ==
    ASSUME NEW q \in GoodQueue, NEW m
    PROVE  /\ RemoveSource(q, m) \in GoodQueue
           /\ Waits(RemoveSource(q, m).items) \subseteq Waits(q.items)
<1> DEFINE kept == NotFrom(m, q.items)
           last == IF q.last # <<>> /\ m \in Msgs(q.last)
                   THEN (IF kept = <<>> THEN <<>> ELSE <<Last(kept)>>) ELSE q.last
           r == [q EXCEPT !.items = kept, !.last = last]
<1>1. q \in Queue /\ q.items \in Seq(Item) /\ q.last \in Seq(Item)
  BY DEF GoodQueue, Queue
<1>2. kept \in Seq(Item) /\ Waits(kept) \subseteq Waits(q.items)
  BY <1>1, NotFromKeeps, FewerWait
<1>3. RemoveSource(q, m) = Settle(r)
  BY DEF RemoveSource
<1> HIDE DEF kept
<1>4. last \in Seq(Item)
  <2>1. kept # <<>> => Last(kept) \in Item
    BY <1>2, ElementOfSeq, LenProperties, EmptySeq DEF Last
  <2>2. kept # <<>> => <<Last(kept)>> \in Seq(Item)
    BY <2>1
  <2> QED
    BY <1>1, <2>2
<1> HIDE DEF last
<1>5. r \in Queue /\ r.items = kept
  BY <1>1, <1>2, <1>4 DEF Queue
<1> HIDE DEF r
<1> QED
  BY <1>2, <1>3, <1>5, SettleKeeps

\* A collected batch has a size: the first position after which the thread changes.
LEMMA CollectCountType ==
    ASSUME NEW items \in Seq(Item), items # <<>>
    PROVE  CollectCount(items) \in 1..Len(items)
<1> DEFINE upTo(n) == SubSeq(items, 1, n)
           T == {n \in 1..Len(items) : n < Len(items) => ~OneThread(upTo(n + 1))}
<1>1. Len(items) \in Nat \ {0}
  BY LenProperties, EmptySeq
<1>2. Len(items) \in T /\ T \in SUBSET Nat
  BY <1>1
<1>3. PICK n \in T : \A y \in T : n <= y
  <2> HIDE DEF T
  <2> QED
    BY <1>2, LeastOf
<1>4. OneThread(upTo(n))
  <2>1. CASE n = 1
    <3>1. DOMAIN upTo(1) = 1..1
      BY <1>1, SubSeqProperties, LenProperties, ElementOfSeq
    <3> QED
      BY <2>1, <3>1 DEF OneThread
  <2>2. CASE n > 1
    <3>1. n - 1 \in 1..Len(items) /\ n - 1 \notin T /\ n - 1 < Len(items)
      <4>1. n \in 1..Len(items)
        OBVIOUS
      <4>2. n - 1 \in 1..Len(items) /\ n - 1 < Len(items) /\ ~(n <= n - 1)
        BY <1>1, <2>2, <4>1
      <4> HIDE DEF T
      <4> QED
        BY <1>3, <4>2
    <3>2. OneThread(upTo((n - 1) + 1)) /\ (n - 1) + 1 = n
      BY <3>1
    <3> QED
      BY <3>2
  <2> QED
    BY <1>1, <2>1, <2>2
<1> HIDE DEF upTo
<1> QED
  BY <1>3, <1>4 DEF CollectCount, upTo

-----------------------------------------------------------------------------
\* A worker has something to dispatch, run or queue again.
JobFits ==
    \A w \in Workers :
        \/ wpc[w] \in {"run", "stream", "requeue", "build", "dispatch"}
        \/ wpc[w] = "consume" /\ job[w].kind # "collect"
        => job[w].items # <<>>

DInv == DataTypeOK /\ JobFits

LEMMA RecordType ==
    ASSUME DataTypeOK, NEW msgs, NEW f \in Fates
    PROVE  Record(msgs, f) \in [Messages -> SUBSET Fates]
BY DEF DataTypeOK, Record

LEMMA AttachType ==
    ASSUME DataTypeOK, NEW w \in Workers, NEW j, AttachRun(w, j)
    PROVE  runState' \in [Workers -> RunState] /\ fate' \in [Messages -> SUBSET Fates]
<1>1. FreshRun \in RunState
  BY DEF FreshRun, RunState
<1> QED
  BY <1>1, RecordType DEF DataTypeOK, AttachRun, Fates

LEMMA ReleaseType ==
    ASSUME DataTypeOK, ReleaseRoom PROVE runState' \in [Workers -> RunState]
<1>1. [FreshRun EXCEPT !.cancelled = TRUE] \in RunState
  <2>1. <<>> \in Seq(Item)
    OBVIOUS
  <2>2. FreshRun \in RunState
    BY <2>1 DEF FreshRun, RunState
  <2> QED
    BY <2>2 DEF RunState
<1> QED
  BY <1>1 DEF DataTypeOK, ReleaseRoom

\* Setting one field of a run's state.
LEMMA MarkType ==
    ASSUME NEW r \in RunState, NEW mark \in BOOLEAN, NEW whose \in {"none", "own", "beat"}
    PROVE  /\ [r EXCEPT !.streaming = mark] \in RunState
           /\ [r EXCEPT !.turn = whose] \in RunState
           /\ [r EXCEPT !.streaming = mark, !.turn = whose] \in RunState
BY DEF RunState

LEMMA TakeSteeringType ==
    ASSUME DataTypeOK, run \in Workers \cup {NoRun}, TakeSteering
    PROVE  runState' \in [Workers -> RunState] /\ fate' \in [Messages -> SUBSET Fates]
<1>1. runState' \in [Workers -> RunState]
  <2>1. <<>> \in Seq(Item)
    OBVIOUS
  <2> QED
    BY <2>1 DEF DataTypeOK, TakeSteering, RunState
<1> QED
  BY <1>1, RecordType DEF TakeSteering, Fates

LEMMA CancelType ==
    ASSUME DataTypeOK, CancelRun PROVE runState' \in [Workers -> RunState]
<1>1. \A r \in RunState : [r EXCEPT !.cancelled = TRUE] \in RunState
  BY DEF RunState
<1> QED
  BY <1>1 DEF DataTypeOK, CancelRun

LEMMA EmptyIsGood == EmptyQueue \in GoodQueue /\ Waits(EmptyQueue.items) = {}
<1>1. EmptyQueue \in Queue /\ EmptyQueue.items = <<>> /\ DOMAIN <<>> = {}
  BY DEF EmptyQueue, Queue, AllModes
<1> QED
  BY <1>1 DEF GoodQueue, Waits

LEMMA ClearType ==
    ASSUME DataTypeOK, ClearPendingQueue
    PROVE  /\ queue' \in GoodQueue /\ Waits(queue'.items) = {}
           /\ fate' \in [Messages -> SUBSET Fates]
BY EmptyIsGood DEF ClearPendingQueue, DataTypeOK, Fates

LEMMA QueueIsGood == DataTypeOK => queue \in GoodQueue
BY DEF DataTypeOK, GoodQueue

LEMMA QueuePendingType ==
    ASSUME DataTypeOK, NEW item \in Item, NEW mode \in AllModes, QueuePending(item, mode)
    PROVE  /\ queue' \in GoodQueue
           /\ Waits(queue'.items)
                 \subseteq Waits(queue.items) \cup (IF item.allowDuplicate THEN {} ELSE {item.msg})
           /\ fate' \in [Messages -> SUBSET Fates]
BY QueueIsGood, EnqueueKeeps, RecordType DEF QueuePending, Fates

\* The types that remain when a step has kept those of what it changes.
LEMMA DataKept ==
    ASSUME DInv, queue' \in GoodQueue,
           target' \in SUBSET Messages, runState' \in [Workers -> RunState],
           job' \in [Workers -> Job], fate' \in [Messages -> SUBSET Fates],
           answer' \in [Messages -> Answers], ahead' \in [Messages -> SUBSET Messages],
           halted' \in SUBSET Messages, JobFits'
    PROVE  DInv'
BY DEF DInv, DataTypeOK, GoodQueue

LEMMA RunData ==
    ASSUME IInv, DInv, NEW w \in Workers, RunStep(w)
    PROVE  DInv' /\ Waits(queue'.items) \subseteq Waits(queue.items)
<1>a. /\ wpc \in [Workers -> WorkerPcs] /\ queue \in GoodQueue /\ DataTypeOK
      /\ wpc[w] \in RunPcs => run = w
  BY QueueIsGood DEF IInv, ControlTypeOK, DInv, AttachedIsRunning, Running
<1>b. /\ target \in SUBSET Messages /\ runState \in [Workers -> RunState]
      /\ job \in [Workers -> Job] /\ fate \in [Messages -> SUBSET Fates]
      /\ answer \in [Messages -> Answers] /\ ahead \in [Messages -> SUBSET Messages]
      /\ halted \in SUBSET Messages
  BY DEF DInv, DataTypeOK
<1>c. ASSUME NEW pc, WorkerGoes(w, pc), UNCHANGED job,
             pc \in {"run", "stream", "requeue"} => job[w].items # <<>>,
             pc \notin {"build", "dispatch", "consume"}
      PROVE  JobFits'
  BY <1>a, <1>c DEF DInv, JobFits, WorkerGoes
<1>1. CASE RunStream(w)
  <2>1. run = w /\ runState[w] \in RunState
    BY <1>1, <1>a, <1>b DEF RunStream, WorkerAt, RunPcs
  <2>2. runState' = [runState EXCEPT ![w].attempts = @ + 1, ![w].streaming = TRUE,
                                     ![w].turn = "own"]
    BY <1>1, <2>1 DEF RunStream
  <2>3. runState' \in [Workers -> RunState]
    <3> DEFINE s == [runState[w] EXCEPT !.attempts = runState[w].attempts + 1]
               r == [s EXCEPT !.streaming = TRUE, !.turn = "own"]
    <3>1. r \in RunState
      <4>1. runState[w].attempts \in Nat /\ runState[w].attempts + 1 \in Nat
        BY <2>1 DEF RunState
      <4>2. s \in RunState
        BY <2>1, <4>1 DEF RunState
      <4> HIDE DEF s
      <4> QED
        BY <4>2, MarkType
    <3>2. runState' = [runState EXCEPT ![w] = r]
      BY <1>b, <2>2
    <3> HIDE DEF r
    <3> QED
      BY <1>b, <3>1, <3>2
  <2>4. JobFits'
    BY <1>1, <1>c DEF RunStream, WorkerAt, DInv, JobFits
  <2> QED
    BY <1>1, <1>a, <1>b, <2>3, <2>4, DataKept DEF RunStream, stopVars
<1>2. CASE RunTakeSteering(w)
  <2>1. runState' \in [Workers -> RunState] /\ fate' \in [Messages -> SUBSET Fates]
    BY <1>2, <1>a, TakeSteeringType DEF RunTakeSteering, IInv, ControlTypeOK
  <2>2. JobFits'
    BY <1>2 DEF RunTakeSteering, DInv, JobFits
  <2> QED
    BY <1>2, <1>a, <1>b, <2>1, <2>2, DataKept DEF RunTakeSteering, stopVars
<1>3. CASE RunStreamEnd(w)
  <2>1. runState' \in [Workers -> RunState]
    BY <1>3, <1>b DEF RunStreamEnd, RunState
  <2>2. JobFits'
    BY <1>3, <1>c DEF RunStreamEnd, WorkerAt, DInv, JobFits
  <2> QED
    BY <1>3, <1>a, <1>b, <2>1, <2>2, DataKept DEF RunStreamEnd, stopVars
<1>4. CASE RunEnd(w)
  <2>1. JobFits'
    BY <1>4, <1>c DEF RunEnd, WorkerAt, DInv, JobFits
  <2> QED
    BY <1>4, <1>a, <1>b, <2>1, DataKept DEF RunEnd, stopVars
<1>5. CASE RunRequeue(w)
  <2>1. PICK mode \in Modes :
           QueuePending([Lead(job[w]) EXCEPT !.backlogAfter = FALSE,
                                             !.allowDuplicate = TRUE], mode)
    BY <1>5 DEF RunRequeue
  <2>2. Lead(job[w]) \in Item
    <3>1. job[w].items \in Seq(Item) /\ job[w].items # <<>>
      BY <1>5, <1>b DEF RunRequeue, WorkerAt, DInv, JobFits, Job
    <3> QED
      BY <3>1, ElementOfSeq, LenProperties, EmptySeq DEF Lead, Last
  <2>3. [Lead(job[w]) EXCEPT !.backlogAfter = FALSE, !.allowDuplicate = TRUE] \in Item
        /\ [Lead(job[w]) EXCEPT !.backlogAfter = FALSE, !.allowDuplicate = TRUE].allowDuplicate
    BY <2>2 DEF Item
  <2>4. /\ queue' \in GoodQueue /\ Waits(queue'.items) \subseteq Waits(queue.items)
        /\ fate' \in [Messages -> SUBSET Fates]
    BY <1>a, <2>1, <2>3, QueuePendingType, ModesAssumption
  <2>5. JobFits'
    BY <1>5, <1>c DEF RunRequeue
  <2> QED
    BY <1>5, <1>a, <1>b, <2>4, <2>5, DataKept DEF RunRequeue, stopVars
<1>6. CASE RunRelease(w)
  <2>1. NoJob \in Job
    BY DEF NoJob, Job, Kinds
  <2>2. job' \in [Workers -> Job] /\ runState' \in [Workers -> RunState]
    BY <1>6, <1>a, <1>b, <2>1, ReleaseType DEF RunRelease
  <2>3. JobFits'
    BY <1>6, <1>a, <1>b DEF RunRelease, WorkerGoes, DInv, JobFits
  <2> QED
    BY <1>6, <1>a, <1>b, <2>2, <2>3, DataKept DEF RunRelease, stopVars
<1>7. CASE RunKick(w)
  <2>1. queue' \in GoodQueue /\ queue'.items = queue.items
    BY <1>7, <1>a, MarkKeeps DEF RunKick, MarksDraining
  <2>2. JobFits'
    BY <1>7, <1>c DEF RunKick
  <2> QED
    BY <1>7, <1>a, <1>b, <2>1, <2>2, DataKept DEF RunKick, stopVars
<1> QED
  BY <1>1, <1>2, <1>3, <1>4, <1>5, <1>6, <1>7 DEF RunStep

LEMMA BeatData ==
    ASSUME IInv, DInv, NEW b \in Beats, BeatStep(b)
    PROVE  DInv' /\ Waits(queue'.items) \subseteq Waits(queue.items)
<1>a. /\ queue \in GoodQueue /\ DataTypeOK /\ run \in Workers \cup {NoRun}
      /\ runState \in [Workers -> RunState] /\ fate \in [Messages -> SUBSET Fates]
  BY QueueIsGood DEF IInv, ControlTypeOK, DInv, DataTypeOK
<1>b. UNCHANGED NotOfBeats
  BY BeatsTakeNothing
<1>1. runState' \in [Workers -> RunState] /\ fate' \in [Messages -> SUBSET Fates]
  <2>1. CASE BeatStream(b)
    BY <1>a, <2>1, MarkType DEF BeatStream
  <2>2. CASE BeatTakeSteering(b)
    BY <1>a, <2>2, TakeSteeringType DEF BeatTakeSteering
  <2>3. CASE BeatStreamEnd(b)
    BY <1>a, <2>3, MarkType DEF BeatStreamEnd
  <2>4. CASE UNCHANGED <<runState, fate>>
    BY <1>a, <2>4
  <2> QED
    BY <2>1, <2>2, <2>3, <2>4 DEF BeatStep, BeatCheckRoom, BeatCheckQueue, BeatSkips, BeatEnd
<1>2. JobFits'
  BY <1>b DEF NotOfBeats, DInv, JobFits
<1> QED
  BY <1>a, <1>b, <1>1, <1>2, DataKept DEF NotOfBeats, stopVars, DInv, DataTypeOK

LEMMA DrainData ==
    ASSUME IInv, DInv, NEW w \in Workers, DrainStep(w)
    PROVE  DInv' /\ Waits(queue'.items) \subseteq Waits(queue.items)
<1>a. wpc \in [Workers -> WorkerPcs] /\ queue \in GoodQueue /\ DataTypeOK
  BY QueueIsGood DEF IInv, ControlTypeOK, DInv
<1>b. /\ target \in SUBSET Messages /\ runState \in [Workers -> RunState]
      /\ job \in [Workers -> Job] /\ fate \in [Messages -> SUBSET Fates]
      /\ answer \in [Messages -> Answers] /\ ahead \in [Messages -> SUBSET Messages]
      /\ halted \in SUBSET Messages
  BY DEF DInv, DataTypeOK
<1>j. NoJob \in Job
  BY DEF NoJob, Job, Kinds
<1>q. queue.items \in Seq(Item) /\ queue.last \in Seq(Item) /\ queue.dropped \in SUBSET Messages
  BY <1>a DEF GoodQueue, Queue
\* The drainer moves on, with the same job or another one that fits.
<1>c. ASSUME NEW pc, WorkerGoes(w, pc), NEW j \in Job, job' = [job EXCEPT ![w] = j],
             pc \in {"run", "stream", "requeue", "build", "dispatch"} => j.items # <<>>,
             pc = "consume" /\ j.kind # "collect" => j.items # <<>>
      PROVE  JobFits' /\ job' \in [Workers -> Job]
  BY <1>a, <1>b, <1>c DEF DInv, JobFits, WorkerGoes
<1>d. job' = job => job' = [job EXCEPT ![w] = job[w]] /\ job[w] \in Job
  BY <1>b
<1>1. CASE DrainSnapshot(w)
  <2>1. JobFits'
    BY <1>1, <1>c, <1>d DEF DrainSnapshot
  <2> QED
    BY <1>1, <1>a, <1>b, <2>1, DataKept DEF DrainSnapshot, Unmoved, stopVars
<1>2. CASE DrainDebounce(w)
  <2>1. JobFits'
    BY <1>2, <1>c, <1>d DEF DrainDebounce
  <2> QED
    BY <1>2, <1>a, <1>b, <2>1, DataKept DEF DrainDebounce, Unmoved, stopVars
<1>3. CASE DrainAcquire(w)
  <2>1. JobFits'
    BY <1>3, <1>c, <1>d DEF DrainAcquire
  <2> QED
    BY <1>3, <1>a, <1>b, <2>1, DataKept DEF DrainAcquire, Unmoved, stopVars
<1>4. CASE TakeNothing(w)
  <2>1. JobFits'
    BY <1>4, <1>c, <1>d DEF TakeNothing
  <2> QED
    BY <1>4, <1>a, <1>b, <2>1, DataKept DEF TakeNothing, Unmoved, stopVars
<1>5. CASE TakeCollect(w)
  <2> DEFINE j == Plan("collect", <<>>, CollectCount(queue.items))
  <2>1. CollectCount(queue.items) \in Nat
    BY <1>5, <1>q, CollectCountType, LenProperties DEF TakeCollect
  <2>2. j \in Job /\ j.kind = "collect"
    <3>1. <<>> \in Seq(Item)
      OBVIOUS
    <3> QED
      BY <2>1, <3>1 DEF Plan, Job, Kinds
  <2>3. job' = [job EXCEPT ![w] = j]
    BY <1>5 DEF TakeCollect
  <2> HIDE DEF j
  <2>p. PICK pc \in {"consume", "pop"} : WorkerGoes(w, pc)
    BY <1>5 DEF TakeCollect
  <2>4. JobFits' /\ job' \in [Workers -> Job]
    BY <1>c, <2>2, <2>3, <2>p
  <2> QED
    BY <1>5, <1>a, <1>b, <2>4, DataKept DEF TakeCollect, Unmoved, stopVars
<1>6. CASE TakeSummary(w)
  <2>1. CASE queue.items = <<>>
    <3>1. UNCHANGED <<job, wpc>>
      BY <1>6, <2>1 DEF TakeSummary
    <3>2. JobFits'
      BY <3>1 DEF DInv, JobFits
    <3> QED
      BY <1>6, <1>a, <1>b, <3>1, <3>2, DataKept DEF TakeSummary, Unmoved, stopVars
  <2>2. CASE queue.items # <<>>
    <3> DEFINE one == IF queue.last # <<>> THEN queue.last ELSE <<Head(queue.items)>>
               j == Plan("synthetic", one, 0)
    <3>1. one \in Seq(Item) /\ one # <<>>
      BY <1>q, <2>2, HeadTailProperties
    <3>2. j \in Job /\ j.items = one
      BY <3>1 DEF Plan, Job, Kinds
    <3>3. job' = [job EXCEPT ![w] = j] /\ WorkerGoes(w, "consume")
      BY <1>6, <2>2 DEF TakeSummary
    <3> HIDE DEF j, one
    <3>4. JobFits' /\ job' \in [Workers -> Job]
      BY <1>c, <3>1, <3>2, <3>3
    <3> QED
      BY <1>6, <1>a, <1>b, <3>4, DataKept DEF TakeSummary, Unmoved, stopVars
  <2> QED
    BY <2>1, <2>2
<1>7. CASE TakeSingle(w)
  <2> DEFINE j == Plan("single", <<>>, 1)
  <2>1. j \in Job
    <3>1. <<>> \in Seq(Item)
      OBVIOUS
    <3> QED
      BY <3>1 DEF Plan, Job, Kinds
  <2>2. job' = [job EXCEPT ![w] = j] 
    BY <1>7 DEF TakeSingle
  <2>p. PICK pc \in {"pop"} : WorkerGoes(w, pc)
    BY <1>7 DEF TakeSingle
  <2> HIDE DEF j
  <2>3. JobFits' /\ job' \in [Workers -> Job]
    BY <1>c, <2>1, <2>2, <2>p
  <2> QED
    BY <1>7, <1>a, <1>b, <2>3, DataKept DEF TakeSingle, Unmoved, stopVars
<1>8. CASE DrainConsume(w)
  <2> DEFINE j == [job[w] EXCEPT !.summary = queue.dropped]
  <2>1. j \in Job /\ j.items = job[w].items /\ j.kind = job[w].kind
    BY <1>b, <1>q DEF Job
  <2>2. job' = [job EXCEPT ![w] = j]
    BY <1>8 DEF DrainConsume
  <2>3. job[w].kind # "collect" => job[w].items # <<>>
    BY <1>8 DEF DrainConsume, WorkerAt, DInv, JobFits
  <2> HIDE DEF j
  <2>4. JobFits' /\ job' \in [Workers -> Job]
    <3>1. CASE job[w].kind = "collect"
      <4>1. PICK pc \in {"pop"} : WorkerGoes(w, pc)
        BY <1>8, <3>1 DEF DrainConsume
      <4> QED
        BY <1>c, <2>1, <2>2, <4>1
    <3>2. CASE job[w].kind # "collect"
      <4>1. WorkerGoes(w, "build")
        BY <1>8, <3>2 DEF DrainConsume
      <4> QED
        BY <1>c, <2>1, <2>2, <2>3, <3>2, <4>1
    <3> QED
      BY <3>1, <3>2
  <2>5. queue' \in GoodQueue /\ queue'.items = queue.items
    BY <1>8, <1>a, ConsumeKeeps DEF DrainConsume
  <2> QED
    BY <1>8, <1>a, <1>b, <2>4, <2>5, DataKept DEF DrainConsume, Unmoved, stopVars
<1>9. CASE DrainPop(w)
  <2> DEFINE items == Popped(queue, job[w].count)
             j == IF items = <<>> THEN NoJob ELSE [job[w] EXCEPT !.items = items, !.count = 0]
  <2>1. job[w].count \in Nat
    BY <1>b DEF Job
  <2>2. /\ items \in Seq(Item) /\ queue' \in GoodQueue
        /\ Waits(queue'.items) \subseteq Waits(queue.items)
    BY <1>9, <1>a, <2>1, PopKeeps DEF DrainPop
  <2>3. job' = [job EXCEPT ![w] = j] /\ WorkerGoes(w, IF items = <<>> THEN "undo" ELSE "build")
    BY <1>9 DEF DrainPop
  <2> HIDE DEF items
  <2>4. j \in Job /\ (items # <<>> => j.items = items)
    <3>1. [job[w] EXCEPT !.items = items, !.count = 0] \in Job
          /\ [job[w] EXCEPT !.items = items, !.count = 0].items = items
      BY <1>b, <2>2 DEF Job
    <3> QED
      BY <1>j, <3>1
  <2> HIDE DEF j
  <2>5. JobFits' /\ job' \in [Workers -> Job]
    <3>1. CASE items = <<>>
      <4>1. PICK pc \in {"undo"} : WorkerGoes(w, pc)
        BY <2>3, <3>1
      <4> QED
        BY <1>c, <2>3, <2>4, <4>1
    <3>2. CASE items # <<>>
      <4>1. WorkerGoes(w, "build") /\ j.items # <<>>
        BY <2>3, <2>4, <3>2
      <4> QED
        BY <1>c, <2>3, <2>4, <4>1
    <3> QED
      BY <3>1, <3>2
  <2>6. fate' \in [Messages -> SUBSET Fates]
    BY <1>9, <1>a, RecordType DEF DrainPop, Fates
  <2> QED
    BY <1>9, <1>a, <1>b, <2>2, <2>5, <2>6, DataKept DEF DrainPop, Unmoved, stopVars
<1>10. CASE DrainBuild(w)
  <2>1. JobFits'
    BY <1>10, <1>c, <1>d DEF DrainBuild, WorkerAt, DInv, JobFits
  <2> QED
    BY <1>10, <1>a, <1>b, <2>1, DataKept DEF DrainBuild, Unmoved, stopVars
<1>11. CASE DrainBuildFails(w)
  <2>1. fate' \in [Messages -> SUBSET Fates]
    BY <1>11, <1>b DEF DrainBuildFails, Fates
  <2>2. JobFits' /\ job' \in [Workers -> Job]
    <3>1. job' = [job EXCEPT ![w] = NoJob]
      BY <1>11 DEF DrainBuildFails
    <3>2. PICK pc \in {"failRelease"} : WorkerGoes(w, pc)
      BY <1>11 DEF DrainBuildFails
    <3> QED
      BY <1>c, <1>j, <3>1, <3>2
  <2> QED
    BY <1>11, <1>a, <1>b, <2>1, <2>2, DataKept DEF DrainBuildFails, Unmoved, stopVars
<1>12. CASE DrainFailRelease(w)
  <2>1. JobFits'
    BY <1>12, <1>c, <1>d DEF DrainFailRelease
  <2>2. runState' \in [Workers -> RunState]
    BY <1>12, <1>a, ReleaseType DEF DrainFailRelease
  <2> QED
    BY <1>12, <1>a, <1>b, <2>1, <2>2, DataKept DEF DrainFailRelease, Unmoved, stopVars
<1>13. ASSUME NEW v \in Workers, DrainFailKick(w, v)
       PROVE  DInv' /\ Waits(queue'.items) \subseteq Waits(queue.items)
  <2>1. queue' \in GoodQueue /\ queue'.items = queue.items
    BY <1>13, <1>a, MarkKeeps DEF DrainFailKick, MarksDraining
  <2>2. JobFits'
    BY <1>13, <1>a DEF DrainFailKick, DInv, JobFits
  <2> QED
    BY <1>13, <1>a, <1>b, <2>1, <2>2, DataKept DEF DrainFailKick, Unmoved, stopVars
<1>14. ASSUME NEW v \in Workers, DrainDispatch(w, v)
       PROVE  DInv' /\ Waits(queue'.items) \subseteq Waits(queue.items)
  <2>1. job[w].items # <<>>
    BY <1>14 DEF DrainDispatch, WorkerAt, DInv, JobFits
  <2>2. job' \in [Workers -> Job]
    BY <1>14, <1>b, <1>j DEF DrainDispatch
  <2>3. w # v
    BY <1>14 DEF DrainDispatch, WorkerAt
  <2>4. JobFits'
    BY <1>14, <1>a, <1>b, <2>1, <2>3 DEF DrainDispatch, DInv, JobFits
  <2>5. runState' \in [Workers -> RunState] /\ fate' \in [Messages -> SUBSET Fates]
    BY <1>14, <1>a, AttachType DEF DrainDispatch
  <2> QED
    BY <1>14, <1>a, <1>b, <2>2, <2>4, <2>5, DataKept DEF DrainDispatch, Unmoved, stopVars
<1>15. CASE DrainUndo(w)
  <2>1. JobFits'
    BY <1>15, <1>c, <1>d DEF DrainUndo
  <2>2. runState' \in [Workers -> RunState]
    BY <1>15, <1>a, ReleaseType DEF DrainUndo
  <2> QED
    BY <1>15, <1>a, <1>b, <2>1, <2>2, DataKept DEF DrainUndo, Unmoved, stopVars
<1>16. CASE DrainUnmark(w)
  <2>1. JobFits'
    BY <1>16, <1>c, <1>d DEF DrainUnmark
  <2>2. queue' \in GoodQueue /\ queue'.items = queue.items
    BY <1>16, <1>a, ClearDrainingKeeps DEF DrainUnmark
  <2> QED
    BY <1>16, <1>a, <1>b, <2>1, <2>2, DataKept DEF DrainUnmark, Unmoved, stopVars
<1> QED
  BY <1>1, <1>2, <1>3, <1>4, <1>5, <1>6, <1>7, <1>8, <1>9, <1>10, <1>11,
     <1>12, <1>13, <1>14, <1>15, <1>16 DEF DrainStep

LEMMA StopData ==
    ASSUME IInv, DInv, StopBegins \/ StopContinues
    PROVE  DInv' /\ Waits(queue'.items) \subseteq Waits(queue.items)
<1>a. queue \in GoodQueue /\ DataTypeOK /\ run \in Workers \cup {NoRun}
  BY QueueIsGood DEF DInv, IInv, ControlTypeOK
<1>b. /\ target \in SUBSET Messages /\ runState \in [Workers -> RunState]
      /\ job \in [Workers -> Job] /\ fate \in [Messages -> SUBSET Fates]
      /\ answer \in [Messages -> Answers] /\ ahead \in [Messages -> SUBSET Messages]
      /\ halted \in SUBSET Messages
  BY DEF DInv, DataTypeOK
<1>c. UNCHANGED <<wpc, job>> => JobFits'
  BY DEF DInv, JobFits
<1>m. ASSUME NEW items \in Seq(Item) PROVE Msgs(items) \subseteq Messages
  <2>1. \A i \in DOMAIN items : items[i] \in Item
    BY ElementOfSeq, LenProperties
  <2> QED
    BY <2>1 DEF Msgs, Item
<1>i. InRoom \subseteq Messages
  <2>1. Queued \subseteq Messages
    <3>1. queue.items \in Seq(Item)
      BY <1>a DEF GoodQueue, Queue
    <3> QED
      BY <1>m, <3>1 DEF Queued
  <2>2. ASSUME NEW w \in Workers PROVE InHand(w) \subseteq Messages
    <3>1. job[w].items \in Seq(Item)
      BY <1>b DEF Job
    <3> QED
      BY <1>m, <3>1 DEF InHand
  <2>3. UNION {InHand(w) : w \in Workers} \subseteq Messages
    BY <2>2
  <2>4. ASSUME NEW m \in InRoom PROVE m \in Messages
    <3>1. \/ m \in Queued
          \/ m \in UNION {InHand(w) : w \in Workers}
          \/ m \in {n \in Messages : HandlerHolds(n)}
      BY DEF InRoom
    <3> QED
      BY <2>1, <2>3, <3>1
  <2> QED
    BY <2>4
<1>1. CASE StopRoom
  BY <1>1, <1>a, <1>b, <1>c, <1>i, DataKept DEF StopRoom
<1>2. CASE StopRoomCancel
  BY <1>2, <1>a, <1>b, <1>c, CancelType, DataKept DEF StopRoomCancel
<1>3. CASE StopRoomDrain
  BY <1>3, <1>a, <1>b, <1>c, ClearType, DataKept DEF StopRoomDrain
<1>4. CASE StopTurn
  <2>1. target' \subseteq Messages
    <3>1. run \in Workers /\ job[run] \in Job
      BY <1>4, <1>a, <1>b DEF StopTurn
    <3>2. job[run].items \in Seq(Item) /\ job[run].summary \subseteq Messages
      BY <3>1 DEF Job
    <3> QED
      BY <1>4, <1>m, <3>2 DEF StopTurn, Prompted
  <2> QED
    BY <1>4, <1>a, <1>b, <1>c, <2>1, DataKept DEF StopTurn
<1>5. CASE StopTurnMark
  BY <1>5, <1>a, <1>b, <1>c, DataKept DEF StopTurnMark
<1>6. CASE StopTurnCancel
  BY <1>6, <1>a, <1>b, <1>c, CancelType, DataKept DEF StopTurnCancel
<1>7. ASSUME NEW m \in Messages, StopQueued(m)
      PROVE  DInv' /\ Waits(queue'.items) \subseteq Waits(queue.items)
  <2>1. queue' \in GoodQueue /\ Waits(queue'.items) \subseteq Waits(queue.items)
    BY <1>7, <1>a, RemoveKeeps DEF StopQueued
  <2>2. fate' \in [Messages -> SUBSET Fates]
    BY <1>7, <1>a, RecordType DEF StopQueued, Fates
  <2> QED
    BY <1>7, <1>b, <1>c, <2>1, <2>2, DataKept DEF StopQueued
<1>8. CASE Reset
  <2>1. halted' \in SUBSET Messages
    BY <1>8, <1>b, <1>i DEF Reset
  <2> QED
    BY <1>8, <1>a, <1>b, <1>c, <2>1, ClearType, DataKept DEF Reset
<1>9. CASE ResetCancel
  BY <1>9, <1>a, <1>b, <1>c, CancelType, DataKept DEF ResetCancel
<1> QED
  BY <1>1, <1>2, <1>3, <1>4, <1>5, <1>6, <1>7, <1>8, <1>9 DEF StopBegins, StopContinues

\* What a handler leaves in the queue.
LEMMA HandlerData ==
    ASSUME IInv, DInv, NEW m \in Messages, BeginHandler(m) \/ HandlerStep(m)
    PROVE  /\ DInv'
           /\ Waits(queue'.items) \subseteq
                 Waits(queue.items) \cup (IF HandlerEnqueue(m) THEN {m} ELSE {})
<1> DEFINE Good ==
           /\ DInv'
           /\ Waits(queue'.items) \subseteq
                 Waits(queue.items) \cup (IF HandlerEnqueue(m) THEN {m} ELSE {})
<1>a. /\ queue \in GoodQueue /\ DataTypeOK /\ run \in Workers \cup {NoRun}
      /\ wpc \in [Workers -> WorkerPcs] /\ hmode \in [Messages -> AllModes]
  BY QueueIsGood DEF DInv, IInv, ControlTypeOK
<1>b. /\ target \in SUBSET Messages /\ runState \in [Workers -> RunState]
      /\ job \in [Workers -> Job] /\ fate \in [Messages -> SUBSET Fates]
      /\ answer \in [Messages -> Answers] /\ ahead \in [Messages -> SUBSET Messages]
      /\ halted \in SUBSET Messages
  BY DEF DInv, DataTypeOK
<1>c. UNCHANGED <<wpc, job>> => JobFits'
  BY DEF DInv, JobFits
<1>d. [ahead EXCEPT ![m] = {}] \in [Messages -> SUBSET Messages]
  BY <1>b
<1>e. \A a \in Answers : Answer(m, a) => answer' \in [Messages -> Answers]
  BY <1>b DEF Answer
<1>f. PlainItem(m) \in Item /\ PlainItem(m).msg = m
  BY DEF PlainItem, Item
<1>1. CASE BeginHandler(m)
  <2>1. {queue.items[i].msg : i \in Originals} \subseteq Messages
    <3>1. queue.items \in Seq(Item)
      BY <1>a DEF GoodQueue, Queue
    <3>2. \A i \in DOMAIN queue.items : queue.items[i] \in Item
      BY <3>1, ElementOfSeq, LenProperties
    <3> QED
      BY <3>2 DEF Originals, Item
  <2>2. ahead' \in [Messages -> SUBSET Messages]
    BY <1>1, <1>b, <2>1 DEF BeginHandler
  <2> QED
    BY <1>1, <1>a, <1>b, <1>c, <2>2, DataKept DEF BeginHandler, stopVars
<1>2. CASE CheckQueue(m)
  BY <1>2, <1>a, <1>b, <1>c, DataKept DEF CheckQueue, stopVars
<1>3. CASE InterruptCancel(m)
  BY <1>3, <1>a, <1>b, <1>c, CancelType, DataKept DEF InterruptCancel, stopVars
<1>4. CASE InterruptClear(m)
  BY <1>4, <1>a, <1>b, <1>c, ClearType, DataKept DEF InterruptClear, stopVars
<1>5. CASE HandlerAcquire(m)
  BY <1>5, <1>a, <1>b, <1>c, DataKept DEF HandlerAcquire, stopVars
<1>6. ASSUME NEW w \in Workers, HandlerAttach(m, w)
      PROVE  Good
  <2>1. DirectJob(m) \in Job /\ DirectJob(m).items # <<>>
    <3>1. <<PlainItem(m)>> \in Seq(Item) /\ <<PlainItem(m)>> # <<>>
      BY <1>f
    <3> QED
      BY <3>1 DEF DirectJob, Job, Kinds
  <2>2. job' = [job EXCEPT ![w] = DirectJob(m)] /\ WorkerGoes(w, "run")
    BY <1>6 DEF HandlerAttach
  <2>3. job' \in [Workers -> Job] /\ JobFits'
    BY <1>a, <1>b, <2>1, <2>2 DEF DInv, JobFits, WorkerGoes
  <2>4. runState' \in [Workers -> RunState] /\ fate' \in [Messages -> SUBSET Fates]
    BY <1>6, <1>a, AttachType DEF HandlerAttach
  <2>5. ahead' \in [Messages -> SUBSET Messages] /\ answer' \in [Messages -> Answers]
    BY <1>6, <1>d, <1>e DEF HandlerAttach, HandlerReturns, Answers
  <2> QED
    BY <1>6, <1>a, <1>b, <2>3, <2>4, <2>5, DataKept DEF HandlerAttach, stopVars
<1>7. CASE Recheck(m)
  BY <1>7, <1>a, <1>b, <1>c, DataKept DEF Recheck, stopVars
<1>8. CASE Steer(m)
  <2>1. runState' \in [Workers -> RunState]
    <3>1. run \in Workers /\ runState[run] \in RunState
      BY <1>8, <1>a, <1>b DEF Steer
    <3> DEFINE longer == Append(runState[run].steer, PlainItem(m))
    <3>2. longer \in Seq(Item)
      <4>1. runState[run].steer \in Seq(Item)
        BY <3>1 DEF RunState
      <4> QED
        BY <1>f, <4>1, AppendProperties
    <3>3. runState' = [runState EXCEPT ![run].steer = longer]
      BY <1>8 DEF Steer
    <3> HIDE DEF longer
    <3>4. [runState[run] EXCEPT !.steer = longer] \in RunState
      BY <3>1, <3>2 DEF RunState
    <3> QED
      BY <1>b, <3>1, <3>3, <3>4
  <2>2. ahead' \in [Messages -> SUBSET Messages] /\ answer' \in [Messages -> Answers]
    BY <1>8, <1>b, <1>d, <1>e DEF Steer, HandlerReturns, Answers
  <2> QED
    BY <1>8, <1>a, <1>b, <1>c, <2>1, <2>2, DataKept DEF Steer, stopVars
<1>9. CASE SteerRefused(m)
  BY <1>9, <1>a, <1>b, <1>c, DataKept DEF SteerRefused, stopVars
<1>10. CASE HandlerEnqueue(m)
  <2> DEFINE item == [PlainItem(m) EXCEPT !.backlogAfter = BacklogsAfter(hmode[m])]
  <2>1. item \in Item /\ item.msg = m
    BY <1>f DEF Item, BacklogsAfter
  <2>2. QueuePending(item, hmode[m]) /\ hmode[m] \in AllModes
    BY <1>10, <1>a DEF HandlerEnqueue
  <2>3. ahead' \in [Messages -> SUBSET Messages] /\ answer' \in [Messages -> Answers]
    BY <1>10, <1>d, <1>e DEF HandlerEnqueue, HandlerReturns, Answers
  <2> HIDE DEF item
  <2>4. /\ queue' \in GoodQueue /\ Waits(queue'.items) \subseteq Waits(queue.items) \cup {m}
        /\ fate' \in [Messages -> SUBSET Fates]
    BY <1>a, <2>1, <2>2, QueuePendingType
  <2> QED
    BY <1>10, <1>b, <1>c, <2>3, <2>4, DataKept DEF HandlerEnqueue, stopVars
<1> QED
  BY <1>1, <1>2, <1>3, <1>4, <1>5, <1>6, <1>7, <1>8, <1>9, <1>10 DEF HandlerStep

-----------------------------------------------------------------------------
(***************************************************************************)
(* No overtaking.  A handler looks twice before it runs its message at     *)
(* once: at the active flag when it starts, at the queue afterwards.  Only *)
(* a handler that found the queue empty, or emptied it, gets to acquire    *)
(* the room, and what comes into the queue after that belongs to handlers  *)
(* that had not finished when it started.                                  *)
(***************************************************************************)
OInv ==
    /\ \A m \in Messages : m \in Waits(queue.items) => hpc[m] = "done"
    /\ \A m, n \in Messages : n \in ahead[m] => hpc[n] = "done"
    /\ \A m \in Messages \ Internal :
          hpc[m] \in {"acquire", "attach"} => ahead[m] \cap Waits(queue.items) = {}

\* Whoever is no handler only takes messages out of the order.
LEMMA OrderStays ==
    ASSUME OInv, UNCHANGED <<hpc, ahead>>, Waits(queue'.items) \subseteq Waits(queue.items)
    PROVE  OInv'
BY DEF OInv, Waits

\* A handler that moves, and forgets what was ahead of it or does not.
LEMMA HandlerKeepsOrder ==
    ASSUME IInv, DInv, OInv, NEW m \in Messages, NEW pc, HandlerGoes(m, pc), hpc[m] # "done",
           ahead' = ahead \/ ahead' = [ahead EXCEPT ![m] = {}],
           Waits(queue'.items) \subseteq
               Waits(queue.items) \cup (IF pc = "done" THEN {m} ELSE {}),
           \/ pc \notin {"acquire", "attach"} \/ m \in Internal
           \/ hpc[m] \in {"acquire", "attach"} \/ Waits(queue'.items) = {}
    PROVE  OInv'
<1> DEFINE before == Waits(queue.items)
           after == Waits(queue'.items)
<1>1. hpc' = [hpc EXCEPT ![m] = pc] /\ DOMAIN hpc = Messages /\ DOMAIN ahead = Messages
  BY DEF HandlerGoes, IInv, ControlTypeOK, DInv, DataTypeOK
<1>2. \A n \in Messages : ahead'[n] \subseteq ahead[n]
  BY <1>1
<1>3. \A n \in Messages : hpc[n] = "done" => n # m /\ hpc'[n] = "done"
  BY <1>1
<1> HIDE DEF before, after
<1>4. /\ \A n \in Messages : n \in before => hpc[n] = "done"
      /\ \A n, k \in Messages : k \in ahead[n] => hpc[k] = "done"
      /\ \A n \in Messages \ Internal :
            hpc[n] \in {"acquire", "attach"} => ahead[n] \cap before = {}
  BY DEF OInv, before
<1>5. after \subseteq before \cup (IF pc = "done" THEN {m} ELSE {})
  BY DEF before, after
<1>6. ASSUME NEW n \in Messages, n \in after PROVE hpc'[n] = "done"
  BY <1>1, <1>3, <1>4, <1>5, <1>6
<1>7. ASSUME NEW n \in Messages, NEW k \in Messages, k \in ahead'[n] PROVE hpc'[k] = "done"
  BY <1>2, <1>3, <1>4, <1>7
<1>8. ASSUME NEW n \in Messages \ Internal, hpc'[n] \in {"acquire", "attach"}
      PROVE  ahead'[n] \cap after = {}
  <2>1. ahead \in [Messages -> SUBSET Messages]
    BY DEF DInv, DataTypeOK
  <2>2. m \notin ahead[n]
    BY <1>4
  <2>3. ahead'[n] \cap after \subseteq ahead[n] \cap before
    BY <1>2, <1>5, <2>2
  <2>4. CASE n # m
    BY <1>1, <1>4, <1>8, <2>3, <2>4
  <2>5. CASE n = m /\ hpc[m] \in {"acquire", "attach"}
    BY <1>4, <2>3, <2>5
  <2>6. CASE n = m /\ hpc[m] \notin {"acquire", "attach"}
    BY <1>1, <1>8, <2>6 DEF after
  <2> QED
    BY <2>4, <2>5, <2>6
<1> QED
  BY <1>6, <1>7, <1>8 DEF OInv, after, Waits

LEMMA HandlerOrder ==
    ASSUME IInv, DInv, OInv, NEW m \in Messages, BeginHandler(m) \/ HandlerStep(m)
    PROVE  OInv'
<1>a. Waits(queue'.items) \subseteq
         Waits(queue.items) \cup (IF HandlerEnqueue(m) THEN {m} ELSE {})
  BY HandlerData
<1>1. CASE BeginHandler(m)
  <2>1. PICK pc : /\ HandlerGoes(m, pc) /\ pc # "attach"
                  /\ pc = "acquire" => m \in Internal
    BY <1>1 DEF BeginHandler, AfterBusyCheck
  <2>2. /\ hpc' = [hpc EXCEPT ![m] = pc] /\ hpc[m] = "new" /\ queue' = queue
        /\ ahead' = [ahead EXCEPT ![m] = Waits(queue.items)]
    BY <1>1, <2>1 DEF BeginHandler, HandlerGoes, HandlerAt, Originals, Waits
  <2>3. DOMAIN hpc = Messages /\ DOMAIN ahead = Messages
    BY DEF IInv, ControlTypeOK, DInv, DataTypeOK
  <2> DEFINE before == Waits(queue.items)
  <2>4. /\ \A n \in Messages : n \in before => hpc[n] = "done"
        /\ \A n, k \in Messages : k \in ahead[n] => hpc[k] = "done"
        /\ \A n \in Messages \ Internal :
              hpc[n] \in {"acquire", "attach"} => ahead[n] \cap before = {}
    BY DEF OInv
  <2>5. before = Waits(queue'.items)
    BY <2>2
  <2> HIDE DEF before
  <2>6. ahead' = [ahead EXCEPT ![m] = before]
    BY <2>2 DEF before
  <2>7. \A n \in Messages : hpc[n] = "done" => hpc'[n] = "done"
    BY <2>2, <2>3
  <2>8. \A n \in Messages : n \in before => hpc'[n] = "done"
    BY <2>4, <2>7
  <2>9. \A n, k \in Messages : k \in ahead'[n] => hpc'[k] = "done"
    BY <2>3, <2>4, <2>6, <2>7
  <2>10. ASSUME NEW n \in Messages \ Internal, hpc'[n] \in {"acquire", "attach"}
         PROVE  ahead'[n] \cap before = {}
    <3>1. n # m
      BY <2>1, <2>2, <2>3, <2>10
    <3> QED
      BY <2>2, <2>3, <2>4, <2>6, <2>10, <3>1
  <2> QED
    BY <2>5, <2>8, <2>9, <2>10 DEF OInv, Waits
<1>2. CASE CheckQueue(m)
  <2> DEFINE pc == AfterBusyCheck(m, hmode[m], HasPendingWork)
  <2>1. HandlerGoes(m, pc) /\ hpc[m] # "done" /\ ahead' = ahead /\ queue' = queue
    BY <1>2 DEF CheckQueue, HandlerAt
  <2>2. pc = "acquire" => Waits(queue'.items) = {}
    <3>1. pc = "acquire" => queue.items = <<>>
      BY DEF AfterBusyCheck, HasPendingWork, IsEmpty
    <3>2. Waits(<<>>) = {}
      BY DEF Waits
    <3> QED
      BY <2>1, <3>1, <3>2
  <2>3. pc # "attach"
    BY DEF AfterBusyCheck
  <2> HIDE DEF pc
  <2> QED
    BY <2>1, <2>2, <2>3, HandlerKeepsOrder
<1>3. CASE InterruptCancel(m)
  BY <1>3, HandlerKeepsOrder DEF InterruptCancel, HandlerAt
<1>4. CASE InterruptClear(m)
  <2>1. Waits(queue'.items) = {}
    BY <1>4, ClearType DEF InterruptClear, DInv
  <2>2. PICK pc \in {"enqueue", "acquire"} : HandlerGoes(m, pc)
    BY <1>4 DEF InterruptClear
  <2> QED
    BY <1>4, <2>1, <2>2, HandlerKeepsOrder DEF InterruptClear, HandlerAt
<1>5. CASE HandlerAcquire(m)
  <2>1. PICK pc \in {"attach", "recheck", "steer", "enqueue"} : HandlerGoes(m, pc)
    BY <1>5 DEF HandlerAcquire
  <2> QED
    BY <1>5, <2>1, HandlerKeepsOrder DEF HandlerAcquire, HandlerAt
<1>6. ASSUME NEW w \in Workers, HandlerAttach(m, w)
      PROVE  OInv'
  BY <1>6, HandlerKeepsOrder DEF HandlerAttach, HandlerReturns, HandlerAt
<1>7. CASE Recheck(m)
  <2>1. PICK pc \in {"cancel", "steer", "enqueue"} : HandlerGoes(m, pc)
    BY <1>7 DEF Recheck
  <2> QED
    BY <1>7, <2>1, HandlerKeepsOrder DEF Recheck, HandlerAt
<1>8. CASE Steer(m)
  <2>1. PICK pc \in {"enqueue", "done"} : HandlerGoes(m, pc)
    BY <1>8 DEF Steer, HandlerReturns
  <2> QED
    BY <1>8, <2>1, HandlerKeepsOrder DEF Steer, HandlerReturns, HandlerAt
<1>9. CASE SteerRefused(m)
  BY <1>9, HandlerKeepsOrder DEF SteerRefused, HandlerAt
<1>10. CASE HandlerEnqueue(m)
  BY <1>10, <1>a, HandlerKeepsOrder DEF HandlerEnqueue, HandlerReturns, HandlerAt
<1> QED
  BY <1>1, <1>2, <1>3, <1>4, <1>5, <1>6, <1>7, <1>8, <1>9, <1>10 DEF HandlerStep

\* Runs, drainers, heartbeats and stops leave the handlers alone.
LEMMA OthersKeepOrder ==
    ASSUME \/ \E w \in Workers : RunStep(w) \/ DrainStep(w)
           \/ \E b \in Beats : BeatStep(b)
           \/ StopBegins \/ StopContinues
    PROVE  UNCHANGED <<hpc, ahead>>
BY BeatsTakeNothing
   DEF NotOfBeats, RunStep, RunStream, RunTakeSteering, RunStreamEnd, RunEnd, RunRequeue, RunRelease,
       RunKick, DrainStep, DrainSnapshot, DrainDebounce, DrainAcquire, TakeNothing,
       TakeCollect, TakeSummary, TakeSingle, DrainConsume, DrainPop, DrainBuild,
       DrainBuildFails, DrainFailRelease, DrainFailKick, DrainDispatch, DrainUndo,
       DrainUnmark, Unmoved, StopBegins, StopRoom, Reset, StopTurn, StopQueued,
       StopContinues, StopRoomCancel, StopRoomDrain, StopTurnMark, StopTurnCancel,
       ResetCancel

LEMMA InitData == Init => DInv /\ OInv
<1> SUFFICES ASSUME Init PROVE DInv /\ OInv
  OBVIOUS
<1>1. queue \in GoodQueue /\ Waits(queue.items) = {}
  BY EmptyIsGood DEF Init
<1>2. NoJob \in Job /\ FreshRun \in RunState
  <2>1. <<>> \in Seq(Item)
    OBVIOUS
  <2> QED
    BY <2>1 DEF NoJob, Job, Kinds, FreshRun, RunState
<1>3. DataTypeOK
  BY <1>1, <1>2 DEF Init, DataTypeOK, GoodQueue, Answers
<1>4. JobFits
  BY DEF Init, JobFits
<1>5. OInv
  BY <1>1 DEF Init, OInv
<1> QED
  BY <1>3, <1>4, <1>5 DEF DInv

LEMMA NextData == IInv /\ DInv /\ OInv /\ [Next]_vars => DInv' /\ OInv'
<1> SUFFICES ASSUME IInv, DInv, OInv, [Next]_vars PROVE DInv' /\ OInv'
  OBVIOUS
<1>1. CASE UNCHANGED vars
  <2>1. DInv'
    BY <1>1 DEF vars, stopVars, DInv, DataTypeOK, JobFits
  <2>2. OInv'
    BY <1>1, OrderStays DEF vars, stopVars
  <2> QED
    BY <2>1, <2>2
<1>2. ASSUME NEW m \in Messages, BeginHandler(m) \/ HandlerStep(m)
      PROVE  DInv' /\ OInv'
  BY <1>2, HandlerData, HandlerOrder
<1>3. ASSUME NEW w \in Workers, RunStep(w) \/ DrainStep(w)
      PROVE  DInv' /\ OInv'
  BY <1>3, RunData, DrainData, OthersKeepOrder, OrderStays
<1>4. CASE StopBegins \/ StopContinues
  BY <1>4, StopData, OthersKeepOrder, OrderStays
<1>5. ASSUME NEW b \in Beats, BeatStep(b)
      PROVE  DInv' /\ OInv'
  BY <1>5, BeatData, OthersKeepOrder, OrderStays
<1> QED
  BY <1>1, <1>2, <1>3, <1>4, <1>5 DEF Next

LEMMA SpecData == Spec => [](IInv /\ DInv /\ OInv)
<1>1. Init => IInv /\ DInv /\ OInv
  BY InitIInv, InitData
<1>2. (IInv /\ DInv /\ OInv) /\ [Next]_vars => (IInv /\ DInv /\ OInv)'
  BY NextIInv, NextData
<1> QED
  BY <1>1, <1>2, PTL DEF Spec

\* Only heartbeats move heartbeats.
LEMMA NextBeats == BeatTypeOK /\ [Next]_vars => BeatTypeOK'
<1> SUFFICES ASSUME BeatTypeOK, [Next]_vars PROVE BeatTypeOK'
  OBVIOUS
<1>1. CASE \E b \in Beats : BeatStep(b)
  BY <1>1 DEF BeatTypeOK, BeatPcs, BeatStep, BeatCheckRoom, BeatCheckQueue, BeatSkips,
              BeatStream, BeatTakeSteering, BeatStreamEnd, BeatEnd, BeatGoes
<1>2. CASE \E m \in Messages : BeginHandler(m) \/ HandlerStep(m)
  BY <1>2 DEF BeatTypeOK, BeginHandler, HandlerStep, CheckQueue, InterruptCancel,
              InterruptClear, HandlerAcquire, HandlerAttach, Recheck, Steer, SteerRefused,
              HandlerEnqueue
<1>3. CASE \E w \in Workers : RunStep(w)
  BY <1>3 DEF BeatTypeOK, RunStep, RunStream, RunTakeSteering, RunStreamEnd, RunEnd,
              RunRequeue, RunRelease, RunKick
<1>4. CASE \E w \in Workers : DrainStep(w)
  BY <1>4 DEF BeatTypeOK, DrainStep, DrainSnapshot, DrainDebounce, DrainAcquire,
              TakeNothing, TakeCollect, TakeSummary, TakeSingle, DrainConsume, DrainPop,
              DrainBuild, DrainBuildFails, DrainFailRelease, DrainFailKick, DrainDispatch,
              DrainUndo, DrainUnmark, Unmoved
<1>5. CASE StopBegins \/ StopContinues
  BY <1>5 DEF BeatTypeOK, StopBegins, StopRoom, Reset, StopTurn, StopQueued, StopContinues,
              StopRoomCancel, StopRoomDrain, StopTurnMark, StopTurnCancel, ResetCancel
<1>6. CASE UNCHANGED vars
  BY <1>6 DEF BeatTypeOK, vars
<1> QED
  BY <1>1, <1>2, <1>3, <1>4, <1>5, <1>6 DEF Next

\* Every variable of the room keeps its type, whatever is queued, collected,
\* dropped or removed, and an empty queue is always the deleted one.
THEOREM SpecTypeOK == Spec => []TypeOK
<1>1. IInv /\ DInv /\ BeatTypeOK => TypeOK
  BY DEF IInv, DInv, TypeOK
<1>2. Init => BeatTypeOK
  BY DEF Init, BeatTypeOK, BeatPcs
<1>3. Spec => []BeatTypeOK
  BY <1>2, NextBeats, PTL DEF Spec
<1> QED
  BY SpecData, <1>1, <1>3, PTL

\* A message that is run at once overtakes nothing that was queued when its
\* handler started.
THEOREM SpecNoOvertaking == Spec => []NoOvertaking
<1>1. OInv => NoOvertaking
  BY DEF OInv, NoOvertaking, Originals, Waits
<1> QED
  BY SpecData, <1>1, PTL

-----------------------------------------------------------------------------
(***************************************************************************)
(* Where messages go.  What an operation takes out of the queue it hands   *)
(* on: evicted items to the drop policy, popped items to the drainer.      *)
(***************************************************************************)

\* No two items are of the same message.
Distinct(items) == \A i, j \in DOMAIN items : items[i].msg = items[j].msg => i = j

\* The items of r are items of s.
FromItems(r, s) == \A k \in DOMAIN r : \E i \in DOMAIN s : r[k] = s[i]

LEMMA FewerMsgs ==
    ASSUME NEW r, NEW s, FromItems(r, s)
    PROVE  Msgs(r) \subseteq Msgs(s)
BY DEF FromItems, Msgs

\* A sequence of items is its front and its rest.
LEMMA Divided ==
    ASSUME NEW items \in Seq(Item), NEW n \in 0..Len(items)
    PROVE  LET front == SubSeq(items, 1, n)
               rest  == SubSeq(items, n + 1, Len(items))
           IN  /\ front \in Seq(Item) /\ rest \in Seq(Item) /\ Len(front) = n
               /\ FromItems(front, items) /\ FromItems(rest, items)
               /\ Msgs(items) = Msgs(front) \cup Msgs(rest)
               /\ Distinct(items) => /\ Distinct(rest)
                                     /\ Msgs(front) \cap Msgs(rest) = {}
<1> DEFINE front == SubSeq(items, 1, n)
           rest  == SubSeq(items, n + 1, Len(items))
           all == Len(items)
           left == all - n
<1>1. all \in Nat /\ DOMAIN items = 1..all /\ n \in 0..all
  BY LenProperties
<1>2. \A k \in 1..all : items[k] \in Item
  BY ElementOfSeq
<1>3. front \in Seq(Item) /\ Len(front) = n /\ \A k \in 1..n : front[k] = items[k]
  <2>1. \A k \in 1..n : items[k] \in Item
    BY <1>1, <1>2
  <2>2. /\ front \in Seq(Item) /\ Len(front) = IF 1 <= n THEN n - 1 + 1 ELSE 0
        /\ \A k \in 1..(n - 1 + 1) : front[k] = items[1 + k - 1]
    BY <2>1, SubSeqProperties
  <2>3. \A k \in 1..n : k \in 1..(n - 1 + 1) /\ 1 + k - 1 = k
    BY <1>1
  <2>4. Len(front) = n
    BY <1>1, <2>2
  <2> QED
    BY <2>2, <2>3, <2>4
<1>4. rest \in Seq(Item) /\ Len(rest) = left /\ \A k \in 1..left : rest[k] = items[n + k]
  <2>1. \A k \in (n + 1)..all : items[k] \in Item
    BY <1>1, <1>2
  <2>2. n + 1 \in Int /\ all \in Int
    BY <1>1
  <2>3. /\ rest \in Seq(Item)
        /\ Len(rest) = IF n + 1 <= all THEN all - (n + 1) + 1 ELSE 0
        /\ \A k \in 1..(all - (n + 1) + 1) : rest[k] = items[(n + 1) + k - 1]
    BY <2>1, <2>2, SubSeqProperties
  <2> HIDE DEF all
  <2>4. \A k \in 1..left : k \in 1..(all - (n + 1) + 1) /\ (n + 1) + k - 1 = n + k
    BY <1>1
  <2>5. (IF n + 1 <= all THEN all - (n + 1) + 1 ELSE 0) = left
    BY <1>1
  <2> QED
    BY <2>3, <2>4, <2>5
<1>5. DOMAIN front = 1..n /\ DOMAIN rest = 1..left
  BY <1>3, <1>4, LenProperties
<1> HIDE DEF all
<1> HIDE DEF front, rest
<1>6. ASSUME NEW i \in 1..all, i \notin 1..n PROVE \E k \in 1..left : i = n + k
  <2>1. i - n \in 1..left /\ i = n + (i - n)
    BY <1>1, <1>6
  <2> QED
    BY <2>1
<1>7. /\ \A k \in 1..n : k \in 1..all
      /\ \A k \in 1..left : n + k \in 1..all
      /\ \A k \in 1..n, l \in 1..left : k # n + l
      /\ \A k, l \in 1..left : n + k = n + l => k = l
  BY <1>1
<1> DEFINE at(l) == n + l
<1>8. /\ \A k \in 1..left : rest[k] = items[at(k)]
      /\ \A i \in 1..all : i \in 1..n \/ \E k \in 1..left : i = at(k)
      /\ \A k \in 1..left : at(k) \in 1..all
      /\ \A k \in 1..n, l \in 1..left : k # at(l)
      /\ \A k, l \in 1..left : at(k) = at(l) => k = l
  BY <1>4, <1>6, <1>7
<1> HIDE DEF at, left
<1>9. FromItems(front, items) /\ FromItems(rest, items)
  BY <1>1, <1>3, <1>5, <1>7, <1>8 DEF FromItems
<1>10. ASSUME NEW m \in Msgs(items) PROVE m \in Msgs(front) \cup Msgs(rest)
  <2>1. PICK i \in 1..all : m = items[i].msg
    BY <1>1 DEF Msgs
  <2>2. CASE i \in 1..n
    BY <1>3, <1>5, <2>1, <2>2 DEF Msgs
  <2>3. CASE i \notin 1..n
    <3>1. PICK k \in 1..left : i = at(k)
      BY <1>8, <2>3
    <3>2. rest[k].msg = m
      BY <1>8, <2>1, <3>1
    <3> QED
      BY <1>5, <3>2 DEF Msgs
  <2> QED
    BY <2>2, <2>3
<1>11. ASSUME Distinct(items) PROVE Distinct(rest) /\ Msgs(front) \cap Msgs(rest) = {}
  <2>1. \A i, j \in 1..all : items[i].msg = items[j].msg => i = j
    BY <1>1, <1>11 DEF Distinct
  <2>2. ASSUME NEW k \in 1..left, NEW l \in 1..left, rest[k].msg = rest[l].msg PROVE k = l
    <3>1. items[at(k)].msg = items[at(l)].msg
      BY <1>8, <2>2
    <3>2. at(k) = at(l)
      BY <1>8, <2>1, <3>1
    <3> QED
      BY <1>8, <3>2
  <2>3. ASSUME NEW k \in 1..n, NEW l \in 1..left, front[k].msg = rest[l].msg PROVE FALSE
    <3>1. items[k].msg = items[at(l)].msg
      BY <1>3, <1>8, <2>3
    <3>2. k = at(l)
      BY <1>7, <1>8, <2>1, <3>1
    <3> QED
      BY <1>8, <3>2
  <2>4. Distinct(rest)
    BY <1>5, <2>2 DEF Distinct
  <2>5. Msgs(front) \cap Msgs(rest) = {}
    BY <1>5, <2>3 DEF Msgs
  <2> QED
    BY <2>4, <2>5
<1>12. Msgs(front) \subseteq Msgs(items) /\ Msgs(rest) \subseteq Msgs(items)
  BY <1>9, FewerMsgs
<1> QED
  BY <1>3, <1>4, <1>9, <1>10, <1>11, <1>12 DEF front, rest

LEMMA Appended ==
    ASSUME NEW items \in Seq(Item), NEW item \in Item
    PROVE  LET longer == Append(items, item)
           IN  /\ \A k \in DOMAIN longer :
                     longer[k] = item \/ \E i \in DOMAIN items : longer[k] = items[i]
               /\ Msgs(longer) = Msgs(items) \cup {item.msg}
               /\ Distinct(items) /\ item.msg \notin Msgs(items) => Distinct(longer)
<1> DEFINE longer == Append(items, item)
           n == Len(items)
<1>1. n \in Nat /\ DOMAIN items = 1..n
  BY LenProperties
<1>2. /\ longer \in Seq(Item) /\ Len(longer) = n + 1 /\ longer # <<>>
      /\ \A i \in 1..n : longer[i] = items[i]
      /\ longer[n + 1] = item
  BY AppendProperties
<1>3. DOMAIN longer = 1..(n + 1)
  BY <1>2, LenProperties
<1> HIDE DEF n, longer
<1>4. \A i \in 1..(n + 1) : i \in 1..n \/ i = n + 1
  BY <1>1
<1>5. \A i \in 1..n : i \in 1..(n + 1)
  BY <1>1
<1>6. n + 1 \in 1..(n + 1)
  BY <1>1
<1>7. Msgs(longer) = Msgs(items) \cup {item.msg}
  BY <1>1, <1>2, <1>3, <1>4, <1>5, <1>6 DEF Msgs
<1>8. ASSUME Distinct(items), item.msg \notin Msgs(items) PROVE Distinct(longer)
  <2>1. \A i \in 1..n : items[i].msg # item.msg
    BY <1>1, <1>8 DEF Msgs
  <2> QED
    BY <1>1, <1>2, <1>3, <1>4, <1>8, <2>1 DEF Distinct
<1> QED
  BY <1>1, <1>2, <1>3, <1>4, <1>7, <1>8 DEF longer

\* Removing a message's items removes that message, and nothing else.
LEMMA NotFromIsExact ==
    ASSUME NEW items \in Seq(Item), NEW m, NEW left, left = NotFrom(m, items)
    PROVE  /\ left \in Seq(Item) /\ FromItems(left, items)
           /\ Msgs(left) = Msgs(items) \ {m}
           /\ Distinct(items) => Distinct(left)
<1> DEFINE kept == {i \in DOMAIN items : items[i].msg # m}
           upTo(i) == {j \in kept : j <= i}
           size == Cardinality(kept)
           nth(k) == CHOOSE i \in kept : Cardinality(upTo(i)) = k
<1>1. DOMAIN items = 1..Len(items) /\ Len(items) \in Nat
  BY LenProperties
<1>2. kept \in SUBSET (1..Len(items)) /\ IsFiniteSet(kept) /\ size \in Nat
  <2>1. kept \in SUBSET (1..Len(items)) /\ IsFiniteSet(1..Len(items))
    BY <1>1, FS_Interval
  <2> HIDE DEF kept
  <2> QED
    BY <2>1, FS_Subset, FS_CardinalityType
<1>3. left = [k \in 1..size |-> items[nth(k)]]
  BY DEF NotFrom
<1>4. \A i \in kept : items[i].msg # m /\ i \in DOMAIN items
  OBVIOUS
<1>5. \A i \in DOMAIN items : items[i].msg # m => i \in kept
  OBVIOUS
<1> HIDE DEF kept
<1>6. ASSUME NEW k \in 1..size PROVE nth(k) \in kept /\ Cardinality(upTo(nth(k))) = k
  <2>1. \E i \in kept : Cardinality(upTo(i)) = k
    BY <1>1, <1>2, NthExists
  <2> QED
    BY <2>1
<1>7. \A i \in kept : i \in Nat
  BY <1>1, <1>2
<1>8. ASSUME NEW i \in kept
      PROVE  /\ upTo(i) \in SUBSET kept /\ i \in upTo(i)
             /\ IsFiniteSet(upTo(i)) /\ Cardinality(upTo(i)) \in 1..size
  <2>1. upTo(i) \in SUBSET kept /\ i \in upTo(i)
    BY <1>7
  <2> HIDE DEF upTo
  <2>2. IsFiniteSet(upTo(i)) /\ Cardinality(upTo(i)) <= size
    BY <1>2, <2>1, FS_Subset
  <2>3. Cardinality(upTo(i)) \in Nat /\ Cardinality(upTo(i)) # 0
    BY <2>1, <2>2, FS_CardinalityType, FS_EmptySet
  <2> QED
    BY <1>2, <2>1, <2>2, <2>3
<1>9. ASSUME NEW i \in kept, NEW j \in kept, i < j
      PROVE  Cardinality(upTo(i)) # Cardinality(upTo(j))
  <2>1. upTo(i) \in SUBSET upTo(j) /\ j \notin upTo(i)
    BY <1>7, <1>9
  <2>2. j \in upTo(j) /\ IsFiniteSet(upTo(j))
    BY <1>8
  <2> HIDE DEF upTo
  <2> QED
    BY <2>1, <2>2, FS_Subset
<1>10. \A i, j \in kept : Cardinality(upTo(i)) = Cardinality(upTo(j)) => i = j
  <2> HIDE DEF upTo
  <2> QED
    BY <1>7, <1>9
<1>11. ASSUME NEW i \in kept PROVE \E k \in 1..size : nth(k) = i
  <2>1. Cardinality(upTo(i)) \in 1..size
    BY <1>8
  <2> HIDE DEF nth, upTo
  <2> QED
    BY <1>6, <1>10, <2>1
<1>12. \A k, l \in 1..size : nth(k) = nth(l) => k = l
  <2> HIDE DEF nth, upTo
  <2> QED
    BY <1>6
<1>13. \A k \in 1..size : nth(k) \in kept
  BY <1>6
<1> HIDE DEF nth, upTo, size
<1>14. left \in Seq(Item) /\ FromItems(left, items)
  BY NotFromKeeps DEF FromItems
<1>15. DOMAIN left = 1..size /\ \A k \in 1..size : left[k] = items[nth(k)]
  BY <1>3
<1>16. ASSUME NEW n \in Msgs(items), n # m PROVE n \in Msgs(left)
  <2>1. PICK i \in DOMAIN items : n = items[i].msg
    BY DEF Msgs
  <2>2. i \in kept
    BY <1>5, <1>16, <2>1
  <2>3. PICK k \in 1..size : nth(k) = i
    BY <1>11, <2>2
  <2>4. left[k].msg = n
    BY <1>15, <2>1, <2>3
  <2> QED
    BY <1>15, <2>4 DEF Msgs
<1>17. m \notin Msgs(left)
  BY <1>4, <1>13, <1>15 DEF Msgs
<1>18. ASSUME Distinct(items) PROVE Distinct(left)
  <2>1. ASSUME NEW k \in 1..size, NEW l \in 1..size, left[k].msg = left[l].msg PROVE k = l
    <3>1. items[nth(k)].msg = items[nth(l)].msg
      BY <1>15, <2>1
    <3>2. nth(k) = nth(l)
      BY <1>4, <1>13, <1>18, <3>1 DEF Distinct
    <3> QED
      BY <1>12, <3>2
  <2> QED
    BY <1>15, <2>1 DEF Distinct
<1>19. Msgs(left) = Msgs(items) \ {m}
  <2>1. Msgs(left) \subseteq Msgs(items)
    BY <1>14, FewerMsgs
  <2> QED
    BY <1>16, <1>17, <2>1
<1> QED
  BY <1>14, <1>18, <1>19

\* A queue that is deleted had nothing in it.
LEMMA SettleHands ==
    ASSUME NEW q \in Queue, NEW after, after = Settle(q)
    PROVE  /\ after.items = q.items /\ after.dropped = q.dropped
           /\ after.items # <<>> => after.mode = q.mode
BY DEF Settle, IsEmpty, EmptyQueue

\* A message that is queued is in the queue afterwards, and so is every other
\* that is not evicted.
LEMMA EnqueueHands ==
    ASSUME NEW q \in GoodQueue, NEW item \in Item, NEW mode \in AllModes,
           NEW after, after = Enqueue(q, item, mode),
           NEW gone, gone = Msgs(Evicted(q, item))
    PROVE  /\ gone \subseteq Msgs(q.items)
           /\ Msgs(q.items) \subseteq Msgs(after.items) \cup gone
           /\ Msgs(after.items) \subseteq Msgs(q.items) \cup {item.msg}
           /\ Admits(q, item) \/ Conflicts(item, q.items) => item.msg \in Msgs(after.items)
           /\ \A k \in DOMAIN after.items :
                 after.items[k] = item \/ \E i \in DOMAIN q.items : after.items[k] = q.items[i]
           /\ Distinct(q.items) /\ ~item.allowDuplicate => Distinct(after.items)
           /\ after.mode = mode
           /\ after.dropped = IF DropPolicy = "summarize" THEN q.dropped \cup gone ELSE q.dropped
<1>1. q \in Queue /\ q.items \in Seq(Item) /\ Len(q.items) \in Nat
  BY LenProperties DEF GoodQueue, Queue
<1> DEFINE reset == [q EXCEPT !.mode = mode]
<1>2. reset.items = q.items /\ reset.mode = mode /\ reset.dropped = q.dropped /\ reset \in Queue
  BY <1>1 DEF Queue
<1>3. CASE ~Admits(q, item)
  <2>1. Evicted(q, item) = <<>> /\ Msgs(<<>>) = {}
    BY <1>3 DEF Evicted, Msgs
  <2>2. after = reset \/ after = [reset EXCEPT !.last = <<item>>]
    BY <1>3 DEF Enqueue
  <2>3. after.items = q.items /\ after.mode = mode /\ after.dropped = q.dropped
    BY <1>2, <2>2 DEF Queue
  <2>4. Conflicts(item, q.items) => item.msg \in Msgs(after.items)
    BY <2>3 DEF Conflicts
  <2> QED
    BY <1>3, <2>1, <2>3, <2>4
<1>4. CASE Admits(q, item)
  <2> DEFINE n == ItemsToDrop(Len(q.items))
             e == Evicted(q, item)
             kept == SubSeq(q.items, Len(e) + 1, Len(q.items))
  <2>1. n \in 0..Len(q.items)
    BY <1>1, CapAssumption DEF ItemsToDrop
  <2>2. e = SubSeq(q.items, 1, n)
    BY <1>4 DEF Evicted
  <2>3. after = [reset EXCEPT !.last = <<item>>, !.items = Append(kept, item),
                   !.dropped = IF DropPolicy = "summarize" THEN @ \cup Msgs(e) ELSE @]
    BY <1>4 DEF Enqueue, Admits
  <2> HIDE DEF n, e
  <2>4. Len(e) = n
    BY <1>1, <2>1, <2>2, Divided
  <2>5. kept = SubSeq(q.items, n + 1, Len(q.items))
    BY <2>4
  <2> HIDE DEF kept, reset
  <2>6. /\ kept \in Seq(Item) /\ FromItems(kept, q.items)
        /\ Msgs(q.items) = Msgs(e) \cup Msgs(kept)
        /\ Distinct(q.items) => Distinct(kept)
    <3> DEFINE s == q.items
    <3>1. /\ s \in Seq(Item) /\ n \in 0..Len(s) /\ e = SubSeq(s, 1, n)
          /\ kept = SubSeq(s, n + 1, Len(s))
      BY <1>1, <2>1, <2>2, <2>5
    <3> HIDE DEF s
    <3>2. /\ kept \in Seq(Item) /\ FromItems(kept, s)
          /\ Msgs(s) = Msgs(e) \cup Msgs(kept)
          /\ Distinct(s) => Distinct(kept)
      BY <3>1, Divided
    <3> QED
      BY <3>2 DEF s
  <2> DEFINE longer == Append(kept, item)
  <2>7. /\ \A k \in DOMAIN longer :
              longer[k] = item \/ \E i \in DOMAIN kept : longer[k] = kept[i]
        /\ Msgs(longer) = Msgs(kept) \cup {item.msg}
        /\ Distinct(kept) /\ item.msg \notin Msgs(kept) => Distinct(longer)
    <3> HIDE DEF longer
    <3> QED
      BY <2>6, Appended DEF longer
  <2>8. /\ after.items = longer /\ after.mode = mode
        /\ after.dropped = IF DropPolicy = "summarize" THEN q.dropped \cup Msgs(e) ELSE q.dropped
    BY <1>2, <2>3 DEF Queue
  <2>9. ~item.allowDuplicate => item.msg \notin Msgs(q.items)
    BY <1>4 DEF Admits, Conflicts
  <2>10. \A k \in DOMAIN longer :
            longer[k] = item \/ \E i \in DOMAIN q.items : longer[k] = q.items[i]
    BY <2>6, <2>7 DEF FromItems
  <2>11. gone = Msgs(e)
    BY DEF e
  <2> HIDE DEF longer
  <2> QED
    BY <2>6, <2>7, <2>8, <2>9, <2>10, <2>11
<1> QED
  BY <1>3, <1>4

\* What is popped leaves the queue, and nothing else does.
LEMMA PopHands ==
    ASSUME NEW q \in GoodQueue, NEW count \in Nat,
           NEW taken, taken = Popped(q, count), NEW after, after = Pop(q, count)
    PROVE  /\ taken \in Seq(Item) /\ Len(taken) <= count
           /\ FromItems(taken, q.items) /\ FromItems(after.items, q.items)
           /\ Msgs(q.items) = Msgs(taken) \cup Msgs(after.items)
           /\ Distinct(q.items) => /\ Distinct(after.items)
                                   /\ Msgs(taken) \cap Msgs(after.items) = {}
           /\ after.dropped = q.dropped
           /\ after.items # <<>> => after.mode = q.mode
<1>1. q \in Queue /\ q.items \in Seq(Item) /\ Len(q.items) \in Nat
  BY LenProperties DEF GoodQueue, Queue
<1> DEFINE n == IF count > Len(q.items) THEN Len(q.items) ELSE count
           rest == SubSeq(q.items, Len(taken) + 1, Len(q.items))
<1>2. n \in 0..Len(q.items) /\ n <= count
  BY <1>1
<1>3. taken = SubSeq(q.items, 1, n)
  BY DEF Popped
<1>4. Len(taken) = n
  BY <1>1, <1>2, <1>3, Divided
<1>5. rest = SubSeq(q.items, n + 1, Len(q.items))
  BY <1>4
<1>6. after = Settle([q EXCEPT !.items = rest])
  BY DEF Pop
<1> HIDE DEF rest, n
<1>7. /\ taken \in Seq(Item) /\ rest \in Seq(Item)
      /\ FromItems(taken, q.items) /\ FromItems(rest, q.items)
      /\ Msgs(q.items) = Msgs(taken) \cup Msgs(rest)
      /\ Distinct(q.items) => Distinct(rest) /\ Msgs(taken) \cap Msgs(rest) = {}
  <2> DEFINE s == q.items
  <2>1. /\ s \in Seq(Item) /\ n \in 0..Len(s) /\ taken = SubSeq(s, 1, n)
        /\ rest = SubSeq(s, n + 1, Len(s))
    BY <1>1, <1>2, <1>3, <1>5
  <2> HIDE DEF s
  <2>2. /\ taken \in Seq(Item) /\ rest \in Seq(Item)
        /\ FromItems(taken, s) /\ FromItems(rest, s)
        /\ Msgs(s) = Msgs(taken) \cup Msgs(rest)
        /\ Distinct(s) => Distinct(rest) /\ Msgs(taken) \cap Msgs(rest) = {}
    BY <2>1, Divided
  <2> QED
    BY <2>2 DEF s
<1>8. /\ [q EXCEPT !.items = rest] \in Queue /\ [q EXCEPT !.items = rest].items = rest
      /\ [q EXCEPT !.items = rest].mode = q.mode /\ [q EXCEPT !.items = rest].dropped = q.dropped
  BY <1>1, <1>7 DEF Queue
<1>9. /\ after.items = rest /\ after.dropped = q.dropped
      /\ after.items # <<>> => after.mode = q.mode
  BY <1>6, <1>8, SettleHands
<1> QED
  BY <1>2, <1>4, <1>7, <1>9

\* Removing a message by its event takes that message out of the queue.
LEMMA RemoveHands ==
    ASSUME NEW q \in GoodQueue, NEW m, NEW after, after = RemoveSource(q, m)
    PROVE  /\ Msgs(after.items) = Msgs(q.items) \ {m}
           /\ FromItems(after.items, q.items)
           /\ Distinct(q.items) => Distinct(after.items)
           /\ after.dropped = q.dropped
           /\ after.items # <<>> => after.mode = q.mode
<1>1. q \in Queue /\ q.items \in Seq(Item) /\ q.last \in Seq(Item)
  BY DEF GoodQueue, Queue
<1> DEFINE kept == NotFrom(m, q.items)
           last == IF q.last # <<>> /\ m \in Msgs(q.last)
                   THEN (IF kept = <<>> THEN <<>> ELSE <<Last(kept)>>) ELSE q.last
           r == [q EXCEPT !.items = kept, !.last = last]
<1>2. after = Settle(r)
  BY DEF RemoveSource
<1>3. /\ kept \in Seq(Item) /\ FromItems(kept, q.items)
      /\ Msgs(kept) = Msgs(q.items) \ {m}
      /\ Distinct(q.items) => Distinct(kept)
  BY <1>1, NotFromIsExact
<1> HIDE DEF kept
<1>4. last \in Seq(Item)
  <2>1. kept # <<>> => Last(kept) \in Item
    BY <1>3, ElementOfSeq, LenProperties, EmptySeq DEF Last
  <2>2. kept # <<>> => <<Last(kept)>> \in Seq(Item)
    BY <2>1
  <2> QED
    BY <1>1, <2>2
<1> HIDE DEF last
<1>5. r \in Queue /\ r.items = kept /\ r.dropped = q.dropped /\ r.mode = q.mode
  BY <1>1, <1>3, <1>4 DEF Queue
<1> HIDE DEF r
<1>6. /\ after.items = kept /\ after.dropped = q.dropped
      /\ after.items # <<>> => after.mode = q.mode
  BY <1>2, <1>5, SettleHands
<1> QED
  BY <1>3, <1>6

\* The summary goes, the items stay.
LEMMA ConsumeHands ==
    ASSUME NEW q \in GoodQueue, NEW after, after = ConsumeSummary(q)
    PROVE  /\ after.items = q.items /\ after.dropped = {}
           /\ after.items # <<>> => after.mode = q.mode
<1> DEFINE r == [q EXCEPT !.dropped = {}]
<1>1. r \in Queue /\ r.items = q.items /\ r.dropped = {} /\ r.mode = q.mode
  BY DEF GoodQueue, Queue
<1>2. after = Settle(r)
  BY DEF ConsumeSummary
<1> HIDE DEF r
<1> QED
  BY <1>1, <1>2, SettleHands

\* The draining mark changes neither.
LEMMA MarkHands ==
    ASSUME NEW q \in GoodQueue, NEW after,
           \/ after = ClearDraining(q)
           \/ after = [q EXCEPT !.draining = @ \/ MarksDraining]
    PROVE  /\ after.items = q.items /\ after.dropped = q.dropped
           /\ after.items # <<>> => after.mode = q.mode
<1>1. CASE after = ClearDraining(q)
  <2> DEFINE r == [q EXCEPT !.draining = FALSE]
  <2>1. r \in Queue /\ r.items = q.items /\ r.dropped = q.dropped /\ r.mode = q.mode
    BY DEF GoodQueue, Queue
  <2>2. after = Settle(r)
    BY <1>1 DEF ClearDraining
  <2> HIDE DEF r
  <2> QED
    BY <2>1, <2>2, SettleHands
<1>2. CASE after = [q EXCEPT !.draining = @ \/ MarksDraining]
  BY <1>2 DEF GoodQueue, Queue
<1> QED
  BY <1>1, <1>2

-----------------------------------------------------------------------------
(***************************************************************************)
(* What is accepted is not lost.  A message in the queue leaves it evicted *)
(* (the drop policy's record), cleared or removed (the stop's), or into    *)
(* the job of a drainer; the job is run, or one message of it is reported  *)
(* failed; so a job that can fail must be of one message.  The dropped     *)
(* messages go the same way as a summary: from the queue into a job, and   *)
(* from there to the model or to the record of what was left unsaid.       *)
(***************************************************************************)

\* Where the code loses nothing: no batch whose prompt fails, no run that
\* ends with plain steer messages unread, no internal message refused.
Lossless ==
    /\ MayFail => "collect" \notin Modes
    /\ "steer" \notin Modes
    /\ DropPolicy = "new" => Internal = {}

\* Handlers and a queue that holds something are in a mode of the session.
ModesResolved ==
    /\ \A m \in Messages : hpc[m] \notin {"new", "done"} => hmode[m] \in Modes
    /\ \A m \in Messages : hpc[m] = "steer" => Steers(hmode[m])
    /\ queue.items # <<>> => queue.mode \in Modes

\* A worker's job, and the fates f of its messages, fit where the worker is.
FitsAt(pc, j, f) ==
    /\ pc = "consume" => j.kind \in {"collect", "synthetic"}
    /\ pc = "pop" => j.kind = "collect" \/ (j.kind = "single" /\ j.count = 1)
    /\ pc \in {"consume", "pop", "build", "dispatch"} /\ j.kind = "collect"
          => "collect" \in Modes
    /\ pc \in {"build", "dispatch"} =>
          j.kind \in {"collect", "synthetic"} \/ (j.kind = "single" /\ Len(j.items) = 1)
    /\ pc \notin {"pop", "build", "dispatch"} \cup RunPcs => j.summary = {}
    /\ pc \in RunPcs => \A m \in j.summary : "ran" \in f[m]

PlanFits == \A w \in Workers : FitsAt(wpc[w], job[w], fate)

\* The messages a drainer has taken from the queue and not yet run.
Carries(pc, j) ==
    IF pc \in {"build", "dispatch"} /\ j.kind # "synthetic" THEN Msgs(j.items) ELSE {}
Carried(m) == \E w \in Workers : m \in Carries(wpc[w], job[w])

Summarised(m) == fate[m] \cap {"ran", "unsummarised"} # {}
Unsaid(m) == m \in queue.dropped \/ \E w \in Workers : m \in job[w].summary

AcceptedKept ==
    \A m \in Messages : answer[m] = "accepted" =>
        fate[m] # {} \/ m \in Msgs(queue.items) \/ Carried(m)

DroppedKept ==
    \A m \in Messages : "dropped" \in fate[m] /\ DropPolicy = "summarize" =>
        Summarised(m) \/ Unsaid(m)

KInv == ModesResolved /\ PlanFits /\ (Lossless => AcceptedKept) /\ DroppedKept

\* Nothing that has become of a message is ever taken back.
FatesGrow == \A m \in Messages : fate[m] \subseteq fate'[m]

\* Only what is put into the queue's summary is newly dropped.
DropsAreKept ==
    \A m \in Messages : "dropped" \in fate'[m] /\ DropPolicy = "summarize" =>
        "dropped" \in fate[m] \/ m \in queue'.dropped

LEMMA Recorded ==
    ASSUME DataTypeOK, NEW msgs, NEW f, fate' = Record(msgs, f)
    PROVE  /\ FatesGrow
           /\ \A m \in Messages : m \in msgs => f \in fate'[m]
           /\ f # "dropped" => DropsAreKept
BY DEF DataTypeOK, Record, FatesGrow, DropsAreKept

\* The invariant from one state to the next, for whatever moves the messages.
LEMMA NothingLost ==
    ASSUME KInv, FatesGrow, DropsAreKept, ModesResolved', PlanFits',
           Lossless => \A m \in Messages :
              answer'[m] = "accepted" =>
                 answer[m] = "accepted" \/ fate'[m] # {} \/ m \in Msgs(queue'.items),
           Lossless => \A m \in Messages :
              m \in Msgs(queue.items) \/ Carried(m) =>
                 fate'[m] # {} \/ m \in Msgs(queue'.items) \/ Carried(m)',
           \A m \in Messages : Unsaid(m) => Summarised(m)' \/ Unsaid(m)'
    PROVE  KInv'
<1>1. ASSUME Lossless PROVE AcceptedKept'
  <2>1. ASSUME NEW m \in Messages, answer'[m] = "accepted"
        PROVE  fate'[m] # {} \/ m \in Msgs(queue'.items) \/ Carried(m)'
    <3>1. CASE answer[m] = "accepted"
      <4>1. fate[m] # {} \/ m \in Msgs(queue.items) \/ Carried(m)
        BY <1>1, <3>1 DEF KInv, AcceptedKept
      <4>2. fate[m] # {} => fate'[m] # {}
        BY DEF FatesGrow
      <4> QED
        BY <1>1, <4>1, <4>2
    <3> QED
      BY <1>1, <2>1, <3>1
  <2> QED
    BY <2>1 DEF AcceptedKept
<1>2. DroppedKept'
  <2>1. ASSUME NEW m \in Messages, "dropped" \in fate'[m], DropPolicy = "summarize"
        PROVE  Summarised(m)' \/ Unsaid(m)'
    <3>1. CASE m \in queue'.dropped
      BY <3>1 DEF Unsaid
    <3>2. CASE "dropped" \in fate[m]
      <4>1. Summarised(m) \/ Unsaid(m)
        BY <2>1, <3>2 DEF KInv, DroppedKept
      <4>2. Summarised(m) => Summarised(m)'
        BY DEF FatesGrow, Summarised
      <4> QED
        BY <4>1, <4>2
    <3> QED
      BY <2>1, <3>1, <3>2 DEF DropsAreKept
  <2> QED
    BY <2>1 DEF DroppedKept
<1> QED
  BY <1>1, <1>2 DEF KInv

LEMMA FitsStill ==
    ASSUME NEW pc, NEW j \in Job, FitsAt(pc, j, fate), FatesGrow
    PROVE  FitsAt(pc, j, fate')
<1>1. j.summary \subseteq Messages
  BY DEF Job
<1> QED
  BY <1>1 DEF FitsAt, FatesGrow

\* Steps that leave the workers and their jobs alone.
LEMMA WorkersRest ==
    ASSUME IInv, DInv, KInv, UNCHANGED <<wpc, job>>, FatesGrow, DropsAreKept, ModesResolved',
           Lossless => \A m \in Messages :
              answer'[m] = "accepted" =>
                 answer[m] = "accepted" \/ fate'[m] # {} \/ m \in Msgs(queue'.items),
           Lossless => \A m \in Messages :
              m \in Msgs(queue.items) => fate'[m] # {} \/ m \in Msgs(queue'.items),
           \A m \in Messages :
              m \in queue.dropped => Summarised(m)' \/ m \in queue'.dropped
    PROVE  KInv'
<1>1. PlanFits'
  <2>1. \A w \in Workers : job[w] \in Job
    BY DEF DInv, DataTypeOK
  <2> QED
    BY <2>1, FitsStill DEF KInv, PlanFits
<1>2. \A m \in Messages : Carried(m)' <=> Carried(m)
  BY DEF Carried
<1>3. \A m \in Messages : Unsaid(m) => Summarised(m)' \/ Unsaid(m)'
  BY DEF Unsaid
<1> HIDE DEF KInv
<1>4. Lossless => \A m \in Messages :
        m \in Msgs(queue.items) \/ Carried(m) =>
           fate'[m] # {} \/ m \in Msgs(queue'.items) \/ Carried(m)'
  BY <1>2
<1> QED
  BY <1>1, <1>3, <1>4, NothingLost

\* Steps of one worker, which moves with its job.
LEMMA WorkerKeeps ==
    ASSUME IInv, DInv, KInv, FatesGrow, DropsAreKept, ModesResolved',
           NEW w \in Workers, NEW pc, WorkerGoes(w, pc),
           NEW j, job' = [job EXCEPT ![w] = j], FitsAt(pc, j, fate'),
           Lossless => \A m \in Messages :
              answer'[m] = "accepted" =>
                 answer[m] = "accepted" \/ fate'[m] # {} \/ m \in Msgs(queue'.items),
           Lossless => \A m \in Messages :
              m \in Msgs(queue.items) \/ m \in Carries(wpc[w], job[w]) =>
                 fate'[m] # {} \/ m \in Msgs(queue'.items) \/ m \in Carries(pc, j),
           \A m \in Messages : m \in queue.dropped \/ m \in job[w].summary =>
              Summarised(m)' \/ m \in queue'.dropped \/ m \in j.summary
    PROVE  KInv'
<1>1. /\ \A v \in Workers : job[v] \in Job
      /\ wpc'[w] = pc /\ job'[w] = j
      /\ \A v \in Workers \ {w} : wpc'[v] = wpc[v] /\ job'[v] = job[v]
  BY DEF DInv, DataTypeOK, IInv, ControlTypeOK, WorkerGoes
<1>2. PlanFits'
  BY <1>1, FitsStill DEF KInv, PlanFits
<1>3. ASSUME Lossless, NEW m \in Messages, m \in Msgs(queue.items) \/ Carried(m)
      PROVE  fate'[m] # {} \/ m \in Msgs(queue'.items) \/ Carried(m)'
  <2>1. CASE m \in Msgs(queue.items) \/ m \in Carries(wpc[w], job[w])
    <3>1. fate'[m] # {} \/ m \in Msgs(queue'.items) \/ m \in Carries(pc, j)
      BY <1>3, <2>1
    <3> QED
      BY <1>1, <3>1 DEF Carried
  <2>2. CASE \E v \in Workers \ {w} : m \in Carries(wpc[v], job[v])
    BY <1>1, <2>2 DEF Carried
  <2> QED
    BY <1>3, <2>1, <2>2 DEF Carried
<1>4. ASSUME NEW m \in Messages, Unsaid(m) PROVE Summarised(m)' \/ Unsaid(m)'
  <2>1. CASE m \in queue.dropped \/ m \in job[w].summary
    <3>1. Summarised(m)' \/ m \in queue'.dropped \/ m \in j.summary
      BY <2>1
    <3> QED
      BY <1>1, <3>1 DEF Unsaid
  <2>2. CASE \E v \in Workers \ {w} : m \in job[v].summary
    BY <1>1, <2>2 DEF Unsaid
  <2> QED
    BY <1>4, <2>1, <2>2 DEF Unsaid
<1> HIDE DEF KInv
<1> QED
  BY <1>2, <1>3, <1>4, NothingLost

\* Queueing a message: who is evicted is recorded, and summarised if the policy says so.
LEMMA QueuePendingKeeps ==
    ASSUME DataTypeOK, NEW item \in Item, NEW mode \in Modes, QueuePending(item, mode)
    PROVE  /\ FatesGrow /\ DropsAreKept /\ queue'.mode \in Modes
           /\ \A m \in Messages :
                 m \in Msgs(queue.items) => fate'[m] # {} \/ m \in Msgs(queue'.items)
           /\ \A m \in Messages : m \in queue.dropped => m \in queue'.dropped
           /\ Admits(queue, item) \/ Conflicts(item, queue.items)
                 => item.msg \in Msgs(queue'.items)
<1> DEFINE gone == Msgs(Evicted(queue, item))
<1>1. queue \in GoodQueue /\ mode \in AllModes
  BY QueueIsGood, ModesAssumption
<1>2. queue' = Enqueue(queue, item, mode) /\ fate' = Record(gone, "dropped")
  BY DEF QueuePending
<1> DEFINE before == queue
           after == Enqueue(before, item, mode)
<1>3. queue' = after /\ before = queue
  BY <1>2
<1> HIDE DEF gone, after, before
<1>4. /\ Msgs(before.items) \subseteq Msgs(after.items) \cup gone
      /\ Admits(before, item) \/ Conflicts(item, before.items) => item.msg \in Msgs(after.items)
      /\ after.mode = mode
      /\ after.dropped = IF DropPolicy = "summarize" THEN before.dropped \cup gone
                         ELSE before.dropped
  BY <1>1, EnqueueHands DEF gone, after, before
<1>5. /\ FatesGrow /\ \A m \in Messages : m \in gone => "dropped" \in fate'[m]
      /\ \A m \in Messages : "dropped" \in fate'[m] => "dropped" \in fate[m] \/ m \in gone
  BY <1>2 DEF DataTypeOK, Record, FatesGrow
<1> QED
  BY <1>3, <1>4, <1>5 DEF DropsAreKept

\* Clearing the queue: everything in it is recorded.
LEMMA ClearKeeps ==
    ASSUME DataTypeOK, ClearPendingQueue
    PROVE  /\ FatesGrow /\ DropsAreKept /\ queue'.items = <<>>
           /\ \A m \in Messages : m \in Msgs(queue.items) => fate'[m] # {}
           /\ \A m \in Messages : m \in queue.dropped => Summarised(m)'
<1>1. queue' = EmptyQueue /\ EmptyQueue.items = <<>>
  BY DEF ClearPendingQueue, EmptyQueue
<1>2. /\ FatesGrow /\ DropsAreKept
      /\ \A m \in Messages : m \in Msgs(queue.items) => "stopped" \in fate'[m]
      /\ \A m \in Messages : m \in queue.dropped => "unsummarised" \in fate'[m]
  BY DEF DataTypeOK, ClearPendingQueue, Queued, FatesGrow, DropsAreKept
<1> QED
  BY <1>1, <1>2 DEF Summarised

\* Who neither moves a handler nor puts the queue in another mode.
LEMMA ModesStay ==
    ASSUME ModesResolved, UNCHANGED <<hpc, hmode>>,
           queue'.items # <<>> => queue'.mode \in Modes
    PROVE  ModesResolved'
BY DEF ModesResolved

\* A handler that moves on, in the mode it resolved, or that forgets it.
ModeKept(m, pc) ==
    hmode' = hmode \/ (pc = "done" /\ hmode' = [hmode EXCEPT ![m] = NoMode])

LEMMA HandlerResolves ==
    ASSUME IInv, ModesResolved, NEW m \in Messages, NEW pc, HandlerGoes(m, pc),
           hpc[m] \notin {"new", "done"}, pc = "steer" => Steers(hmode[m]), ModeKept(m, pc),
           queue'.items # <<>> => queue'.mode \in Modes
    PROVE  ModesResolved'
<1>1. /\ hpc' = [hpc EXCEPT ![m] = pc] /\ DOMAIN hpc = Messages
      /\ \A n \in Messages : hmode'[n] = hmode[n] \/ (n = m /\ pc = "done")
  BY DEF HandlerGoes, ModeKept, IInv, ControlTypeOK
<1> QED
  BY <1>1 DEF ModesResolved

LEMMA RunKeeps ==
    ASSUME IInv, DInv, KInv, NEW w \in Workers, RunStep(w)
    PROVE  KInv'
<1>a. DataTypeOK /\ ModesResolved /\ job = [job EXCEPT ![w] = job[w]] /\ job[w] \in Job
  BY DEF DInv, DataTypeOK, KInv
<1>b. FitsAt(wpc[w], job[w], fate)
  BY DEF KInv, PlanFits
<1>c. ASSUME NEW pc \in RunPcs, WorkerGoes(w, pc), wpc[w] \in RunPcs,
             UNCHANGED <<job, queue, fate, hpc, hmode, answer>>
      PROVE  KInv'
  <2>1. FatesGrow /\ DropsAreKept
    BY <1>c DEF FatesGrow, DropsAreKept
  <2>2. ModesResolved'
    BY <1>a, <1>c, ModesStay DEF ModesResolved
  <2>3. FitsAt(pc, job[w], fate')
    BY <1>b, <1>c DEF FitsAt, RunPcs
  <2>4. Carries(wpc[w], job[w]) = {}
    BY <1>c DEF Carries, RunPcs
  <2> QED
    BY <1>a, <1>c, <2>1, <2>2, <2>3, <2>4, WorkerKeeps
<1>1. CASE RunStream(w)
  BY <1>1, <1>c DEF RunStream, WorkerAt, RunPcs
<1>2. CASE RunTakeSteering(w)
  <2>1. FatesGrow /\ DropsAreKept
    BY <1>2, <1>a, Recorded DEF RunTakeSteering, TakeSteering
  <2>2. ModesResolved'
    BY <1>2, <1>a, ModesStay DEF RunTakeSteering, ModesResolved
  <2> QED
    BY <1>2, <2>1, <2>2, WorkersRest DEF RunTakeSteering
<1>3. CASE RunStreamEnd(w)
  BY <1>3, <1>c DEF RunStreamEnd, WorkerAt, RunPcs
<1>4. CASE RunEnd(w)
  <2>1. PICK pc \in {"requeue", "release"} : WorkerGoes(w, pc)
    BY <1>4 DEF RunEnd
  <2> QED
    BY <1>4, <1>c, <2>1 DEF RunEnd, WorkerAt, RunPcs
<1>5. CASE RunRequeue(w)
  <2> DEFINE item == [Lead(job[w]) EXCEPT !.backlogAfter = FALSE, !.allowDuplicate = TRUE]
  <2>1. PICK mode \in Modes : QueuePending(item, mode)
    BY <1>5 DEF RunRequeue
  <2>2. item \in Item
    <3>1. job[w].items \in Seq(Item) /\ job[w].items # <<>>
      BY <1>5, <1>a DEF RunRequeue, WorkerAt, DInv, JobFits, Job
    <3>2. Lead(job[w]) \in Item
      BY <3>1, ElementOfSeq, LenProperties, EmptySeq DEF Lead, Last
    <3> QED
      BY <3>2 DEF Item
  <2> HIDE DEF item
  <2>3. /\ FatesGrow /\ DropsAreKept /\ queue'.mode \in Modes
        /\ \A m \in Messages :
              m \in Msgs(queue.items) => fate'[m] # {} \/ m \in Msgs(queue'.items)
        /\ \A m \in Messages : m \in queue.dropped => m \in queue'.dropped
    BY <1>a, <2>1, <2>2, QueuePendingKeeps
  <2>4. ModesResolved'
    BY <1>5, <1>a, <2>3, ModesStay DEF RunRequeue
  <2>5. Carries(wpc[w], job[w]) = {} /\ wpc[w] \in RunPcs
    BY <1>5 DEF Carries, RunPcs, RunRequeue, WorkerAt
  <2>6. FitsAt("release", job[w], fate')
    <3>1. FitsAt("release", job[w], fate)
      BY <1>b, <2>5 DEF FitsAt, RunPcs
    <3> QED
      BY <1>a, <2>3, <3>1, FitsStill
  <2> QED
    BY <1>5, <1>a, <2>3, <2>4, <2>5, <2>6, WorkerKeeps DEF RunRequeue
<1>6. CASE RunRelease(w)
  <2>1. FatesGrow /\ DropsAreKept
    BY <1>6 DEF RunRelease, FatesGrow, DropsAreKept
  <2>2. ModesResolved'
    BY <1>6, <1>a, ModesStay DEF RunRelease, ModesResolved
  <2>3. FitsAt("kick", NoJob, fate')
    BY DEF FitsAt, NoJob, RunPcs
  <2>4. Carries(wpc[w], job[w]) = {} /\ \A m \in job[w].summary : "ran" \in fate[m]
    BY <1>6, <1>b DEF Carries, RunPcs, RunRelease, WorkerAt, FitsAt
  <2>5. \A m \in job[w].summary : Summarised(m)'
    BY <1>6, <2>4 DEF RunRelease, Summarised
  <2>6. /\ WorkerGoes(w, "kick") /\ job' = [job EXCEPT ![w] = NoJob]
        /\ UNCHANGED <<queue, answer, fate>>
    BY <1>6 DEF RunRelease
  <2> QED
    BY <2>1, <2>2, <2>3, <2>4, <2>5, <2>6, WorkerKeeps
<1>7. CASE RunKick(w)
  <2>1. /\ queue'.items = queue.items /\ queue'.dropped = queue.dropped
        /\ queue'.items # <<>> => queue'.mode = queue.mode
    BY <1>7, <1>a, QueueIsGood, MarkHands DEF RunKick
  <2>2. FatesGrow /\ DropsAreKept
    BY <1>7 DEF RunKick, FatesGrow, DropsAreKept
  <2>3. ModesResolved'
    BY <1>7, <1>a, <2>1, ModesStay DEF RunKick, ModesResolved
  <2>4. PICK pc \in {"snapshot", "idle"} : WorkerGoes(w, pc)
    BY <1>7 DEF RunKick
  <2>5. Carries(wpc[w], job[w]) = {} /\ FitsAt(pc, job[w], fate')
    BY <1>7, <1>b, <2>4 DEF Carries, RunPcs, RunKick, WorkerAt, FitsAt
  <2> QED
    BY <1>7, <1>a, <2>1, <2>2, <2>3, <2>4, <2>5, WorkerKeeps DEF RunKick
<1> QED
  BY <1>1, <1>2, <1>3, <1>4, <1>5, <1>6, <1>7 DEF RunStep

LEMMA BeatKeeps ==
    ASSUME IInv, DInv, KInv, NEW b \in Beats, BeatStep(b)
    PROVE  KInv'
<1>1. UNCHANGED <<queue, wpc, job, hpc, hmode, answer>>
  BY BeatsTakeNothing DEF NotOfBeats
<1>2. fate' = fate \/ fate' = Record(Steering, "steered")
  BY DEF BeatStep, BeatCheckRoom, BeatCheckQueue, BeatSkips, BeatStream, BeatTakeSteering,
         TakeSteering, BeatStreamEnd, BeatEnd
<1>3. FatesGrow /\ DropsAreKept
  <2>1. CASE fate' = fate
    BY <2>1 DEF FatesGrow, DropsAreKept
  <2>2. CASE fate' = Record(Steering, "steered")
    BY <2>2, Recorded DEF DInv
  <2> QED
    BY <1>2, <2>1, <2>2
<1>4. ModesResolved'
  BY <1>1, ModesStay DEF KInv, ModesResolved
<1> QED
  BY <1>1, <1>3, <1>4, WorkersRest

LEMMA StopKeeps ==
    ASSUME IInv, DInv, KInv, StopBegins \/ StopContinues
    PROVE  KInv'
<1>a. DataTypeOK /\ ModesResolved
  BY DEF DInv, KInv
<1>b. UNCHANGED <<wpc, job, hpc, hmode, answer>>
  BY DEF StopBegins, StopRoom, Reset, StopTurn, StopQueued, StopContinues, StopRoomCancel,
         StopRoomDrain, StopTurnMark, StopTurnCancel, ResetCancel
<1>1. CASE UNCHANGED <<queue, fate>>
  <2>1. FatesGrow /\ DropsAreKept
    BY <1>1 DEF FatesGrow, DropsAreKept
  <2>2. ModesResolved'
    BY <1>1, <1>a, <1>b, ModesStay DEF ModesResolved
  <2> QED
    BY <1>1, <1>b, <2>1, <2>2, WorkersRest
<1>2. CASE ClearPendingQueue
  <2>1. /\ FatesGrow /\ DropsAreKept /\ queue'.items = <<>>
        /\ \A m \in Messages : m \in Msgs(queue.items) => fate'[m] # {}
        /\ \A m \in Messages : m \in queue.dropped => Summarised(m)'
    BY <1>2, <1>a, ClearKeeps
  <2>2. ModesResolved'
    BY <1>a, <1>b, <2>1, ModesStay
  <2> QED
    BY <1>b, <2>1, <2>2, WorkersRest
<1>3. ASSUME NEW m \in Messages, StopQueued(m)
      PROVE  KInv'
  <2>1. queue' = RemoveSource(queue, m) /\ fate' = Record({m}, "stopped")
    BY <1>3 DEF StopQueued
  <2>2. /\ Msgs(queue'.items) = Msgs(queue.items) \ {m} /\ queue'.dropped = queue.dropped
        /\ queue'.items # <<>> => queue'.mode = queue.mode
    <3> DEFINE after == RemoveSource(queue, m)
    <3>1. queue' = after
      BY <2>1
    <3> HIDE DEF after
    <3> QED
      BY <1>a, <3>1, QueueIsGood, RemoveHands DEF after
  <2>3. FatesGrow /\ DropsAreKept /\ "stopped" \in fate'[m]
    BY <1>a, <2>1, Recorded
  <2>4. ModesResolved'
    <3>1. queue'.items # <<>> => queue.items # <<>>
      <4>1. FromItems(queue'.items, queue.items)
        <5> DEFINE after == RemoveSource(queue, m)
        <5>1. queue' = after
          BY <2>1
        <5> HIDE DEF after
        <5> QED
          BY <1>a, <5>1, QueueIsGood, RemoveHands DEF after
      <4>2. queue'.items \in Seq(Item)
        BY StopData DEF DInv, DataTypeOK, Queue
      <4>3. queue'.items # <<>> => 1 \in DOMAIN queue'.items
        BY <4>2, EmptySeq, LenProperties
      <4>4. DOMAIN <<>> = {}
        OBVIOUS
      <4> QED
        BY <4>1, <4>3, <4>4 DEF FromItems
    <3> QED
      BY <1>a, <1>b, <2>2, <3>1, ModesStay DEF ModesResolved
  <2> QED
    BY <1>b, <2>2, <2>3, <2>4, WorkersRest
<1> QED
  BY <1>1, <1>2, <1>3
     DEF StopBegins, StopRoom, Reset, StopTurn, StopContinues, StopRoomCancel,
         StopRoomDrain, StopTurnMark, StopTurnCancel, ResetCancel

LEMMA HandlerKeeps ==
    ASSUME IInv, DInv, KInv, NEW m \in Messages, BeginHandler(m) \/ HandlerStep(m)
    PROVE  KInv'
<1>a. DataTypeOK /\ ModesResolved /\ answer \in [Messages -> Answers]
  BY DEF DInv, DataTypeOK, KInv
\* A handler that moves on without touching the queue.
<1>b. ASSUME UNCHANGED <<queue, wpc, job, fate>>, ModesResolved',
             Lossless => UNCHANGED answer
      PROVE  KInv'
  <2>1. FatesGrow /\ DropsAreKept
    BY <1>b DEF FatesGrow, DropsAreKept
  <2> QED
    BY <1>b, <2>1, WorkersRest
<1>c. ASSUME NEW pc, HandlerGoes(m, pc), hpc[m] \notin {"new", "done"},
             pc = "steer" => Steers(hmode[m]), ModeKept(m, pc), UNCHANGED queue
      PROVE  ModesResolved'
  BY <1>a, <1>c, HandlerResolves DEF ModesResolved
<1>1. CASE BeginHandler(m)
  <2>1. PICK mode \in Modes :
           /\ hmode' = [hmode EXCEPT ![m] = mode]
           /\ HandlerGoes(m, IF m \in Internal THEN "acquire"
                             ELSE IF active THEN AfterBusyCheck(m, mode, TRUE)
                             ELSE "checkQueue")
    BY <1>1 DEF BeginHandler
  <2>2. PICK pc : HandlerGoes(m, pc) /\ (pc = "steer" => Steers(mode))
    BY <2>1 DEF AfterBusyCheck
  <2>3. DOMAIN hpc = Messages /\ DOMAIN hmode = Messages /\ queue' = queue
    BY <1>1 DEF IInv, ControlTypeOK, BeginHandler
  <2>4. ModesResolved'
    BY <1>a, <2>1, <2>2, <2>3 DEF ModesResolved, HandlerGoes
  <2> QED
    BY <1>1, <1>b, <2>4 DEF BeginHandler
<1>2. CASE CheckQueue(m)
  <2>1. PICK pc : HandlerGoes(m, pc) /\ (pc = "steer" => Steers(hmode[m]))
    BY <1>2 DEF CheckQueue, AfterBusyCheck
  <2> QED
    BY <1>2, <1>b, <1>c, <2>1 DEF CheckQueue, HandlerAt, ModeKept
<1>3. CASE InterruptCancel(m)
  <2>1. ModesResolved'
    BY <1>3, <1>c DEF InterruptCancel, HandlerAt, ModeKept
  <2> QED
    BY <1>3, <1>b, <2>1 DEF InterruptCancel
<1>4. CASE InterruptClear(m)
  <2>1. /\ FatesGrow /\ DropsAreKept /\ queue'.items = <<>>
        /\ \A n \in Messages : n \in Msgs(queue.items) => fate'[n] # {}
        /\ \A n \in Messages : n \in queue.dropped => Summarised(n)'
    BY <1>4, <1>a, ClearKeeps DEF InterruptClear
  <2>2. PICK pc \in {"enqueue", "acquire"} : HandlerGoes(m, pc)
    BY <1>4 DEF InterruptClear
  <2>3. ModesResolved'
    BY <1>4, <1>a, <2>1, <2>2, HandlerResolves DEF InterruptClear, HandlerAt, ModeKept
  <2> QED
    BY <1>4, <2>1, <2>3, WorkersRest DEF InterruptClear
<1>5. CASE HandlerAcquire(m)
  <2>1. PICK pc : HandlerGoes(m, pc) /\ (pc = "steer" => Steers(hmode[m]))
    BY <1>5 DEF HandlerAcquire
  <2>2. ModesResolved'
    BY <1>5, <1>c, <2>1 DEF HandlerAcquire, HandlerAt, ModeKept
  <2> QED
    BY <1>5, <1>b, <2>2 DEF HandlerAcquire
<1>6. ASSUME NEW w \in Workers, HandlerAttach(m, w)
      PROVE  KInv'
  <2> DEFINE j == DirectJob(m)
  <2>1. /\ j.kind = "direct" /\ j.summary = {} /\ m \in Prompted(j)
    BY DEF DirectJob, Prompted, IsSynthetic, Msgs, PlainItem
  <2>2. fate' = Record(Prompted(j), "ran")
    BY <1>6 DEF HandlerAttach, AttachRun
  <2> HIDE DEF j
  <2>3. FatesGrow /\ DropsAreKept /\ fate'[m] # {}
    BY <1>a, <2>1, <2>2, Recorded
  <2>4. ModesResolved'
    BY <1>6, <1>c DEF HandlerAttach, HandlerReturns, HandlerAt, ModeKept
  <2>5. FitsAt("run", j, fate')
    BY <2>1 DEF FitsAt, RunPcs
  <2>6. Carries(wpc[w], job[w]) = {} /\ job[w].summary = {}
    BY <1>6 DEF HandlerAttach, WorkerAt, Carries, KInv, PlanFits, FitsAt, RunPcs
  <2>7. WorkerGoes(w, "run") /\ job' = [job EXCEPT ![w] = j] /\ queue' = queue
    BY <1>6 DEF HandlerAttach, j
  <2>8. \A n \in Messages : answer'[n] = "accepted" => answer[n] = "accepted" \/ fate'[n] # {}
    BY <1>6, <1>a, <2>3 DEF HandlerAttach, Answer
  <2> QED
    BY <2>3, <2>4, <2>5, <2>6, <2>7, <2>8, WorkerKeeps
<1>7. CASE Recheck(m)
  <2>1. PICK pc : HandlerGoes(m, pc) /\ (pc = "steer" => Steers(hmode[m]))
    BY <1>7 DEF Recheck
  <2>2. ModesResolved'
    BY <1>7, <1>c, <2>1 DEF Recheck, HandlerAt, ModeKept
  <2> QED
    BY <1>7, <1>b, <2>2 DEF Recheck
<1>8. CASE Steer(m)
  <2>1. PICK pc \in {"enqueue", "done"} : HandlerGoes(m, pc) /\ ModeKept(m, pc)
    BY <1>8 DEF Steer, HandlerReturns, ModeKept
  <2>2. ModesResolved'
    BY <1>8, <1>c, <2>1 DEF Steer, HandlerAt
  <2>3. Lossless => FollowsUp(hmode[m])
    BY <1>8, <1>a DEF Steer, HandlerAt, ModesResolved, Lossless, Steers, FollowsUp
  <2> QED
    BY <1>8, <1>b, <2>2, <2>3 DEF Steer
<1>9. CASE SteerRefused(m)
  <2>1. ModesResolved'
    BY <1>9, <1>c DEF SteerRefused, HandlerAt, ModeKept
  <2> QED
    BY <1>9, <1>b, <2>1 DEF SteerRefused
<1>10. CASE HandlerEnqueue(m)
  <2> DEFINE item == [PlainItem(m) EXCEPT !.backlogAfter = BacklogsAfter(hmode[m])]
  <2>1. item \in Item /\ item.msg = m
    BY DEF PlainItem, Item, BacklogsAfter
  <2>2. /\ QueuePending(item, hmode[m])
        /\ Answer(m, IF Admits(queue, item) \/ m \in Internal THEN "accepted" ELSE "rejected")
    BY <1>10 DEF HandlerEnqueue
  <2>3. hmode[m] \in Modes
    BY <1>10, <1>a DEF HandlerEnqueue, HandlerAt, ModesResolved
  <2> HIDE DEF item
  <2>4. /\ FatesGrow /\ DropsAreKept /\ queue'.mode \in Modes
        /\ \A n \in Messages :
              n \in Msgs(queue.items) => fate'[n] # {} \/ n \in Msgs(queue'.items)
        /\ \A n \in Messages : n \in queue.dropped => n \in queue'.dropped
        /\ Admits(queue, item) \/ Conflicts(item, queue.items) => m \in Msgs(queue'.items)
    BY <1>a, <2>1, <2>2, <2>3, QueuePendingKeeps
  <2>5. ModesResolved'
    BY <1>10, <1>a, <2>4, HandlerResolves
       DEF HandlerEnqueue, HandlerReturns, HandlerAt, ModeKept
  <2>6. ASSUME Lossless, NEW n \in Messages, answer'[n] = "accepted"
        PROVE  answer[n] = "accepted" \/ n \in Msgs(queue'.items)
    <3>1. CASE n # m
      BY <1>a, <2>2, <2>6, <3>1 DEF Answer
    <3>2. CASE n = m
      <4>1. Admits(queue, item) \/ m \in Internal
        BY <1>a, <2>2, <2>6, <3>2 DEF Answer
      <4>2. m \in Internal => Admits(queue, item) \/ Conflicts(item, queue.items)
        BY <2>6 DEF Lossless, Admits, KeepsNew
      <4> QED
        BY <2>4, <3>2, <4>1, <4>2
    <3> QED
      BY <3>1, <3>2
  <2> QED
    BY <1>10, <2>4, <2>5, <2>6, WorkersRest DEF HandlerEnqueue
<1> QED
  BY <1>1, <1>2, <1>3, <1>4, <1>5, <1>6, <1>7, <1>8, <1>9, <1>10 DEF HandlerStep

LEMMA DrainKeeps ==
    ASSUME IInv, DInv, KInv, NEW w \in Workers, DrainStep(w)
    PROVE  KInv'
<1>a. /\ DataTypeOK /\ ModesResolved /\ queue \in GoodQueue
      /\ job = [job EXCEPT ![w] = job[w]] /\ job[w] \in Job /\ \A v \in Workers : job[v] \in Job
  BY QueueIsGood DEF DInv, DataTypeOK, KInv
<1>b. FitsAt(wpc[w], job[w], fate)
  BY DEF KInv, PlanFits
<1>c. UNCHANGED <<hpc, hmode, answer>>
  BY DEF DrainStep, DrainSnapshot, DrainDebounce, DrainAcquire, TakeNothing, TakeCollect,
         TakeSummary, TakeSingle, DrainConsume, DrainPop, DrainBuild, DrainBuildFails,
         DrainFailRelease, DrainFailKick, DrainDispatch, DrainUndo, DrainUnmark, Unmoved
\* A worker that has taken no summary, and does not take one.
<1>d. ASSUME NEW pc, WorkerGoes(w, pc), wpc[w] \notin {"pop", "build", "dispatch"} \cup RunPcs,
             NEW j, job' = [job EXCEPT ![w] = j], FitsAt(pc, j, fate'),
             UNCHANGED <<queue, fate>>
      PROVE  KInv'
  <2>1. FatesGrow /\ DropsAreKept
    BY <1>d DEF FatesGrow, DropsAreKept
  <2>2. ModesResolved'
    BY <1>a, <1>c, <1>d, ModesStay DEF ModesResolved
  <2>3. Carries(wpc[w], job[w]) = {} /\ job[w].summary = {}
    BY <1>b, <1>d DEF Carries, FitsAt
  <2> QED
    BY <1>c, <1>d, <2>1, <2>2, <2>3, WorkerKeeps
\* One that goes where no plan is needed.
<1>e. ASSUME NEW pc, WorkerGoes(w, pc), UNCHANGED <<job, queue, fate>>,
             wpc[w] \notin {"pop", "build", "dispatch"} \cup RunPcs,
             pc \notin {"consume", "pop", "build", "dispatch"} \cup RunPcs
      PROVE  KInv'
  <2>1. FitsAt(pc, job[w], fate')
    BY <1>b, <1>e DEF FitsAt
  <2> QED
    BY <1>a, <1>d, <1>e, <2>1
<1> USE DEF RunPcs
<1>1. CASE DrainSnapshot(w)
  <2>1. PICK pc \in {"unmark", "debounce", "reserve"} : WorkerGoes(w, pc)
    BY <1>1 DEF DrainSnapshot
  <2> QED
    BY <1>1, <1>e, <2>1 DEF DrainSnapshot, WorkerAt
<1>2. CASE DrainDebounce(w)
  <2>1. PICK pc \in {"unmark", "reserve"} : WorkerGoes(w, pc)
    BY <1>2 DEF DrainDebounce
  <2> QED
    BY <1>2, <1>e, <2>1 DEF DrainDebounce, WorkerAt
<1>3. CASE DrainAcquire(w)
  <2>1. PICK pc \in {"unmark", "take"} : WorkerGoes(w, pc)
    BY <1>3 DEF DrainAcquire
  <2> QED
    BY <1>3, <1>e, <2>1 DEF DrainAcquire, WorkerAt
<1>4. CASE TakeNothing(w)
  BY <1>4, <1>e DEF TakeNothing, WorkerAt
<1>5. CASE TakeCollect(w)
  <2> DEFINE j == Plan("collect", <<>>, CollectCount(queue.items))
  <2>1. j.kind = "collect" /\ j.summary = {}
    BY DEF Plan
  <2>2. "collect" \in Modes
    BY <1>5, <1>a DEF TakeCollect, ModesResolved, Collects
  <2>3. job' = [job EXCEPT ![w] = j]
    BY <1>5 DEF TakeCollect
  <2> HIDE DEF j
  <2>4. PICK pc \in {"consume", "pop"} : WorkerGoes(w, pc)
    BY <1>5 DEF TakeCollect
  <2>5. FitsAt(pc, j, fate')
    BY <2>1, <2>2 DEF FitsAt
  <2> QED
    BY <1>5, <1>d, <2>3, <2>4, <2>5 DEF TakeCollect, WorkerAt
<1>6. CASE TakeSummary(w)
  <2>1. CASE queue.items = <<>>
    <3>1. UNCHANGED <<wpc, job, queue, fate>>
      BY <1>6, <2>1 DEF TakeSummary
    <3>2. FatesGrow /\ DropsAreKept
      BY <3>1 DEF FatesGrow, DropsAreKept
    <3>3. ModesResolved'
      BY <1>a, <1>c, <3>1, ModesStay DEF ModesResolved
    <3> QED
      BY <1>c, <3>1, <3>2, <3>3, WorkersRest
  <2>2. CASE queue.items # <<>>
    <3> DEFINE j == Plan("synthetic", IF queue.last # <<>> THEN queue.last
                                      ELSE <<Head(queue.items)>>, 0)
    <3>1. j.kind = "synthetic" /\ j.summary = {}
      BY DEF Plan
    <3>2. job' = [job EXCEPT ![w] = j] /\ WorkerGoes(w, "consume")
      BY <1>6, <2>2 DEF TakeSummary
    <3> HIDE DEF j
    <3>3. FitsAt("consume", j, fate')
      BY <3>1 DEF FitsAt
    <3> QED
      BY <1>6, <1>d, <3>2, <3>3 DEF TakeSummary, WorkerAt
  <2> QED
    BY <2>1, <2>2
<1>7. CASE TakeSingle(w)
  <2> DEFINE j == Plan("single", <<>>, 1)
  <2>1. j.kind = "single" /\ j.summary = {} /\ j.count = 1
    BY DEF Plan
  <2>2. job' = [job EXCEPT ![w] = j] /\ WorkerGoes(w, "pop")
    BY <1>7 DEF TakeSingle
  <2> HIDE DEF j
  <2>3. FitsAt("pop", j, fate')
    BY <2>1 DEF FitsAt
  <2> QED
    BY <1>7, <1>d, <2>2, <2>3 DEF TakeSingle, WorkerAt
<1>8. CASE DrainConsume(w)
  <2> DEFINE j == [job[w] EXCEPT !.summary = queue.dropped]
  <2>1. /\ j.items = job[w].items /\ j.kind = job[w].kind /\ j.summary = queue.dropped
        /\ job' = [job EXCEPT ![w] = j]
    BY <1>8, <1>a DEF Job, DrainConsume
  <2> HIDE DEF j
  <2>2. PICK pc \in {"pop", "build"} :
           /\ WorkerGoes(w, pc)
           /\ pc = "pop" <=> job[w].kind = "collect"
    BY <1>8 DEF DrainConsume
  <2>3. FitsAt(pc, j, fate')
    BY <1>8, <1>b, <2>1, <2>2 DEF FitsAt, DrainConsume, WorkerAt
  <2>4. /\ queue'.items = queue.items
        /\ queue'.items # <<>> => queue'.mode = queue.mode
    BY <1>8, <1>a, ConsumeHands DEF DrainConsume
  <2>5. ModesResolved'
    BY <1>a, <1>c, <2>4, ModesStay DEF ModesResolved
  <2>6. FatesGrow /\ DropsAreKept
    BY <1>8 DEF DrainConsume, FatesGrow, DropsAreKept
  <2>7. Carries(wpc[w], job[w]) = {} /\ job[w].summary = {}
    BY <1>8, <1>b DEF Carries, FitsAt, DrainConsume, WorkerAt
  <2> QED
    BY <1>c, <2>1, <2>2, <2>3, <2>4, <2>5, <2>6, <2>7, WorkerKeeps
<1>9. CASE DrainPop(w)
  <2> DEFINE items == Popped(queue, job[w].count)
             j == IF items = <<>> THEN NoJob ELSE [job[w] EXCEPT !.items = items, !.count = 0]
  <2>1. job[w].count \in Nat /\ queue' = Pop(queue, job[w].count)
    BY <1>9, <1>a DEF Job, DrainPop
  <2>2. /\ items \in Seq(Item) /\ Len(items) <= job[w].count
        /\ FromItems(queue'.items, queue.items)
        /\ Msgs(queue.items) = Msgs(items) \cup Msgs(queue'.items)
        /\ queue'.dropped = queue.dropped
        /\ queue'.items # <<>> => queue'.mode = queue.mode
    BY <1>a, <2>1, PopHands
  <2>3. /\ job' = [job EXCEPT ![w] = j]
        /\ WorkerGoes(w, IF items = <<>> THEN "undo" ELSE "build")
        /\ fate' = Record(IF items = <<>> THEN job[w].summary ELSE {}, "unsummarised")
    BY <1>9 DEF DrainPop
  <2> HIDE DEF items
  <2>4. items # <<>> => j.items = items /\ j.kind = job[w].kind /\ j.summary = job[w].summary
    BY <1>a DEF Job
  <2>5. items = <<>> => j.summary = {} /\ Msgs(items) = {}
    BY DEF NoJob, Msgs
  <2>6. FatesGrow /\ DropsAreKept
        /\ \A m \in Messages : items = <<>> /\ m \in job[w].summary => Summarised(m)'
    BY <1>a, <2>3, Recorded DEF Summarised
  <2>7. ModesResolved'
    <3>1. queue'.items # <<>> => queue.items # <<>>
      <4>1. queue'.items \in Seq(Item) /\ DOMAIN <<>> = {}
        BY DrainData DEF DInv, DataTypeOK, Queue
      <4>2. queue'.items # <<>> => 1 \in DOMAIN queue'.items
        BY <4>1, EmptySeq, LenProperties
      <4> QED
        BY <2>2, <4>1, <4>2 DEF FromItems
    <3> QED
      BY <1>a, <1>c, <2>2, <3>1, ModesStay DEF ModesResolved
  <2>8. Carries(wpc[w], job[w]) = {}
    BY <1>9 DEF Carries, DrainPop, WorkerAt
  <2> HIDE DEF j
  <2>9. CASE items = <<>>
    <3>1. WorkerGoes(w, "undo") /\ FitsAt("undo", j, fate')
      BY <2>3, <2>5, <2>9 DEF FitsAt
    <3> QED
      BY <1>c, <2>2, <2>3, <2>5, <2>6, <2>7, <2>8, <2>9, <3>1, WorkerKeeps
  <2>10. CASE items # <<>>
    <3>1. ASSUME job[w].kind = "single" PROVE Len(items) = 1
      <4>1. job[w].count = 1
        BY <1>9, <1>b, <3>1 DEF FitsAt, DrainPop, WorkerAt
      <4>2. Len(items) <= 1
        BY <2>2, <4>1
      <4>3. Len(items) \in Nat \ {0}
        BY <2>2, <2>10, EmptySeq
      <4> DEFINE n == Len(items)
      <4>4. n \in Nat \ {0} /\ n <= 1
        BY <4>2, <4>3
      <4> HIDE DEF n
      <4>5. n = 1
        BY <4>4
      <4> QED
        BY <4>5 DEF n
    <3>2. WorkerGoes(w, "build") /\ FitsAt("build", j, fate')
      BY <1>9, <1>b, <2>3, <2>4, <2>10, <3>1 DEF FitsAt, DrainPop, WorkerAt
    <3>3. Carries("build", j) = Msgs(items)
      BY <1>9, <1>b, <2>4, <2>10 DEF Carries, FitsAt, DrainPop, WorkerAt
    <3>4. \A m \in Messages : m \in Msgs(queue.items) =>
             m \in Msgs(queue'.items) \/ m \in Carries("build", j)
      BY <2>2, <3>3
    <3>5. \A m \in Messages : m \in queue.dropped \/ m \in job[w].summary =>
             m \in queue'.dropped \/ m \in j.summary
      BY <2>2, <2>4, <2>10
    <3> QED
      BY <1>c, <2>3, <2>6, <2>7, <2>8, <3>2, <3>4, <3>5, WorkerKeeps
  <2> QED
    BY <2>9, <2>10
<1>10. CASE DrainBuild(w)
  <2>1. FatesGrow /\ DropsAreKept
    BY <1>10 DEF DrainBuild, FatesGrow, DropsAreKept
  <2>2. ModesResolved'
    BY <1>10, <1>a, <1>c, ModesStay DEF DrainBuild, ModesResolved
  <2>3. FitsAt("dispatch", job[w], fate') /\ Carries("dispatch", job[w]) = Carries(wpc[w], job[w])
    BY <1>10, <1>b DEF DrainBuild, WorkerAt, FitsAt, Carries
  <2> QED
    BY <1>10, <1>a, <1>c, <2>1, <2>2, <2>3, WorkerKeeps DEF DrainBuild
<1>11. CASE DrainBuildFails(w)
  <2> DEFINE told == IF IsSynthetic(job[w]) THEN {} ELSE {Lead(job[w]).msg}
  <2>1. fate' = [m \in Messages |->
                   fate[m] \cup (IF m \in told THEN {"failed"} ELSE {})
                           \cup (IF m \in job[w].summary THEN {"unsummarised"} ELSE {})]
    BY <1>11 DEF DrainBuildFails
  <2>2. ASSUME Lossless, NEW m \in Carries(wpc[w], job[w]) PROVE m \in told
    <3>1. job[w].kind = "single" /\ Len(job[w].items) = 1 /\ m \in Msgs(job[w].items)
      BY <1>11, <1>b, <2>2
         DEF Lossless, DrainBuildFails, WorkerAt, FitsAt, Carries
    <3>2. job[w].items \in Seq(Item)
      BY <1>a DEF Job
    <3>3. \A i \in DOMAIN job[w].items : i = Len(job[w].items)
      BY <3>1, <3>2, LenProperties
    <3> QED
      BY <3>1, <3>3 DEF IsSynthetic, Lead, Last, Msgs
  <2> HIDE DEF told
  <2>3. /\ FatesGrow /\ DropsAreKept
        /\ \A m \in Messages : m \in told => fate'[m] # {}
        /\ \A m \in Messages : m \in job[w].summary => "unsummarised" \in fate'[m]
    BY <1>a, <2>1 DEF DataTypeOK, FatesGrow, DropsAreKept
  <2>4. \A m \in Messages : m \in job[w].summary => Summarised(m)'
    BY <2>3 DEF Summarised
  <2>5. ModesResolved'
    BY <1>11, <1>a, <1>c, ModesStay DEF DrainBuildFails, ModesResolved
  <2>6. FitsAt("failRelease", NoJob, fate')
    BY DEF FitsAt, NoJob
  <2>7. /\ WorkerGoes(w, "failRelease") /\ job' = [job EXCEPT ![w] = NoJob]
        /\ queue' = queue
    BY <1>11 DEF DrainBuildFails
  <2> QED
    BY <1>c, <2>2, <2>3, <2>4, <2>5, <2>6, <2>7, WorkerKeeps
<1>12. CASE DrainFailRelease(w)
  BY <1>12, <1>e DEF DrainFailRelease, WorkerAt
<1>13. ASSUME NEW v \in Workers, DrainFailKick(w, v)
       PROVE  KInv'
  <2>1. /\ queue'.items = queue.items /\ queue'.dropped = queue.dropped
        /\ queue'.items # <<>> => queue'.mode = queue.mode
    BY <1>13, <1>a, MarkHands DEF DrainFailKick
  <2>2. FatesGrow /\ DropsAreKept
    BY <1>13 DEF DrainFailKick, FatesGrow, DropsAreKept
  <2>3. ModesResolved'
    BY <1>a, <1>c, <2>1, ModesStay DEF ModesResolved
  <2>4. PICK pc \in {"snapshot", "idle"} : wpc' = [wpc EXCEPT ![w] = "unmark", ![v] = pc]
    BY <1>13 DEF DrainFailKick
  <2>5. w # v /\ wpc[w] = "failKick" /\ wpc[v] = "idle" /\ UNCHANGED <<job, fate>>
    BY <1>13 DEF DrainFailKick, WorkerAt
  <2>6. \A u \in Workers :
          wpc'[u] = wpc[u] \/ (wpc[u] \in {"failKick", "idle"} /\
                                wpc'[u] \in {"unmark", "snapshot", "idle"})
    BY <2>4, <2>5 DEF IInv, ControlTypeOK
  <2>7. PlanFits'
    <3>1. ASSUME NEW u \in Workers PROVE FitsAt(wpc'[u], job'[u], fate')
      <4>1. FitsAt(wpc[u], job[u], fate)
        BY DEF KInv, PlanFits
      <4>2. CASE wpc'[u] = wpc[u]
        BY <1>a, <2>2, <2>5, <4>1, <4>2, FitsStill
      <4>3. CASE wpc[u] \in {"failKick", "idle"} /\ wpc'[u] \in {"unmark", "snapshot", "idle"}
        BY <2>5, <4>1, <4>3 DEF FitsAt
      <4> QED
        BY <2>6, <4>2, <4>3
    <3> QED
      BY <3>1 DEF PlanFits
  <2>8. \A m \in Messages : Carried(m) => Carried(m)'
    BY <2>5, <2>6 DEF Carried, Carries
  <2>9. \A m \in Messages : Unsaid(m) => Unsaid(m)'
    BY <2>1, <2>5 DEF Unsaid
  <2> QED
    BY <1>c, <2>1, <2>2, <2>3, <2>7, <2>8, <2>9, NothingLost
<1>14. ASSUME NEW v \in Workers, DrainDispatch(w, v)
       PROVE  KInv'
  <2> DEFINE msgs == Prompted(job[w])
  <2>1. /\ w # v /\ wpc[w] = "dispatch" /\ wpc[v] = "idle" /\ queue' = queue
        /\ fate' = Record(msgs, "ran")
    BY <1>14 DEF DrainDispatch, WorkerAt, AttachRun
  <2>2. /\ wpc'[w] = "unmark" /\ wpc'[v] = "run" /\ job'[w] = NoJob /\ job'[v] = job[w]
        /\ \A u \in Workers \ {w, v} : wpc'[u] = wpc[u] /\ job'[u] = job[u]
    BY <1>14, <2>1 DEF DrainDispatch, IInv, ControlTypeOK, DInv, DataTypeOK
  <2>3. /\ \A m \in Messages : m \in job[w].summary => m \in msgs
        /\ \A m \in Messages : m \in Carries(wpc[w], job[w]) => m \in msgs
    BY DEF Prompted, IsSynthetic, Carries
  <2> HIDE DEF msgs
  <2>4. FatesGrow /\ DropsAreKept /\ \A m \in Messages : m \in msgs => "ran" \in fate'[m]
    BY <1>a, <2>1, Recorded
  <2>5. ModesResolved'
    BY <1>a, <1>c, <2>1, ModesStay DEF ModesResolved
  <2>6. job[w].summary \subseteq Messages
    BY <1>a DEF Job
  <2>7. PlanFits'
    <3>1. FitsAt("run", job[w], fate') /\ FitsAt("unmark", NoJob, fate')
      BY <2>3, <2>4, <2>6 DEF FitsAt, NoJob
    <3>2. \A u \in Workers \ {w, v} : FitsAt(wpc[u], job[u], fate')
      BY <1>a, <2>4, FitsStill DEF KInv, PlanFits
    <3> QED
      BY <2>2, <3>1, <3>2 DEF PlanFits
  <2>8. ASSUME NEW m \in Messages, Carried(m) PROVE fate'[m] # {} \/ Carried(m)'
    <3>1. PICK u \in Workers : m \in Carries(wpc[u], job[u])
      BY <2>8 DEF Carried
    <3>2. u # v
      BY <2>1, <3>1 DEF Carries
    <3>3. CASE u = w
      BY <2>3, <2>4, <3>1, <3>3
    <3>4. CASE u # w
      BY <2>2, <3>1, <3>2, <3>4 DEF Carried
    <3> QED
      BY <3>3, <3>4
  <2>9. ASSUME NEW m \in Messages, Unsaid(m) PROVE Summarised(m)' \/ Unsaid(m)'
    <3>1. job[v].summary = {}
      BY <2>1 DEF KInv, PlanFits, FitsAt
    <3>2. CASE m \in job[w].summary
      BY <2>3, <2>4, <3>2 DEF Summarised
    <3>3. CASE m \in queue.dropped
      BY <2>1, <3>3 DEF Unsaid
    <3>4. CASE \E u \in Workers \ {w, v} : m \in job[u].summary
      BY <2>2, <3>4 DEF Unsaid
    <3> QED
      BY <2>9, <3>1, <3>2, <3>3, <3>4 DEF Unsaid
  <2> QED
    BY <1>c, <2>1, <2>4, <2>5, <2>7, <2>8, <2>9, NothingLost
<1>15. CASE DrainUndo(w)
  BY <1>15, <1>e DEF DrainUndo, WorkerAt
<1>16. CASE DrainUnmark(w)
  <2>1. /\ queue'.items = queue.items /\ queue'.dropped = queue.dropped
        /\ queue'.items # <<>> => queue'.mode = queue.mode
    BY <1>16, <1>a, MarkHands DEF DrainUnmark
  <2>2. FatesGrow /\ DropsAreKept
    BY <1>16 DEF DrainUnmark, FatesGrow, DropsAreKept
  <2>3. ModesResolved'
    BY <1>a, <1>c, <2>1, ModesStay DEF ModesResolved
  <2>4. FitsAt("idle", job[w], fate') /\ Carries(wpc[w], job[w]) = {} /\ job[w].summary = {}
    BY <1>16, <1>b DEF DrainUnmark, WorkerAt, FitsAt, Carries
  <2> QED
    BY <1>16, <1>a, <1>c, <2>1, <2>2, <2>3, <2>4, WorkerKeeps DEF DrainUnmark
<1> QED
  BY <1>1, <1>2, <1>3, <1>4, <1>5, <1>6, <1>7, <1>8, <1>9, <1>10, <1>11,
     <1>12, <1>13, <1>14, <1>15, <1>16 DEF DrainStep

LEMMA InitKeeps == Init => KInv
<1> SUFFICES ASSUME Init PROVE KInv
  OBVIOUS
<1>1. queue.items = <<>>
  BY DEF Init, EmptyQueue
<1>2. ModesResolved
  BY <1>1 DEF Init, ModesResolved
<1>3. PlanFits
  BY DEF Init, PlanFits, FitsAt, NoJob, RunPcs
<1>4. AcceptedKept /\ DroppedKept
  BY DEF Init, AcceptedKept, DroppedKept
<1> QED
  BY <1>2, <1>3, <1>4 DEF KInv

LEMMA NextKeeps == IInv /\ DInv /\ KInv /\ [Next]_vars => KInv'
<1> SUFFICES ASSUME IInv, DInv, KInv, [Next]_vars PROVE KInv'
  OBVIOUS
<1>1. CASE UNCHANGED vars
  <2>1. UNCHANGED <<queue, wpc, job, fate, answer, hpc, hmode>>
    BY <1>1 DEF vars
  <2>2. FatesGrow /\ DropsAreKept
    BY <2>1 DEF FatesGrow, DropsAreKept
  <2>3. ModesResolved'
    BY <2>1, ModesStay DEF KInv, ModesResolved
  <2> QED
    BY <2>1, <2>2, <2>3, WorkersRest
<1>2. CASE Next
  BY <1>2, HandlerKeeps, RunKeeps, DrainKeeps, BeatKeeps, StopKeeps DEF Next
<1> QED
  BY <1>1, <1>2

LEMMA SpecKInv == Spec => [](IInv /\ DInv /\ OInv /\ KInv)
<1>1. Init => KInv
  BY InitKeeps
<1>2. (IInv /\ DInv /\ OInv /\ KInv) /\ [Next]_vars => KInv'
  BY NextKeeps
<1> QED
  BY SpecData, <1>1, <1>2, PTL DEF Spec

\* A message whose sender was told it is accepted stays in the room or something has
\* become of it, in every session in which a batch cannot fail, plain steering is off
\* and no internal message is refused; dropped messages stay due for a summary in all.
THEOREM SpecAcceptedNotLost == Lossless => (Spec => []AcceptedNotLost)
<1> SUFFICES ASSUME Lossless PROVE Spec => []AcceptedNotLost
  OBVIOUS
<1>1. KInv => AcceptedNotLost
  <2> SUFFICES ASSUME KInv PROVE AcceptedNotLost
    OBVIOUS
  <2>1. ASSUME NEW m \in Messages, answer[m] = "accepted" PROVE fate[m] # {} \/ m \in Held
    <3>1. Carried(m) => \E w \in Workers : m \in InHand(w)
      BY DEF Carried, Carries, InHand
    <3> QED
      BY <2>1, <3>1 DEF KInv, AcceptedKept, Held, Queued
  <2>2. ASSUME NEW m \in Messages, "dropped" \in fate[m], DropPolicy = "summarize"
        PROVE  fate[m] \cap {"ran", "unsummarised"} # {} \/ m \in ToSummarise
    BY <2>2 DEF KInv, DroppedKept, Summarised, Unsaid, ToSummarise
  <2> QED
    BY <2>1, <2>2 DEF AcceptedNotLost
<1> QED
  BY SpecKInv, <1>1, PTL

-----------------------------------------------------------------------------
(***************************************************************************)
(* A stop is final.  A message is in one place at a time: with its handler *)
(* until that is done, then once in the queue, then in a drainer's job.    *)
(* A stop takes the queue's; what a drainer took before that is not marked *)
(* stopped and may run, what the stop took is nowhere any more, and no     *)
(* handler is left that would queue it.                                    *)
(***************************************************************************)

\* Where a message is queued once: no run puts its message back, and no summary
\* is planned in the name of an item that stays in the queue.
QueuedOnce == "steer+backlog" \notin Modes /\ DropPolicy # "summarize"

NoBacklog(items) == \A i \in DOMAIN items : ~items[i].backlogAfter
PlainJob(j) == j.summary = {} /\ j.kind # "synthetic" /\ NoBacklog(j.items)
InAJob(m) == \E w \in Workers : m \in Msgs(job[w].items)
Draws == stopPc \in {"roomCancel", "roomDrain"}

PlainWork ==
    /\ queue.dropped = {} /\ NoBacklog(queue.items) /\ Distinct(queue.items)
    /\ \A w \in Workers : wpc[w] # "requeue" /\ PlainJob(job[w])

OnePlace ==
    \A m \in Messages :
        /\ m \in Msgs(queue.items) => hpc[m] = "done" /\ "stopped" \notin fate[m]
        /\ Carried(m) => m \notin Msgs(queue.items) /\ "stopped" \notin fate[m]
        /\ InAJob(m) => hpc[m] = "done"
        /\ "stopped" \in fate[m] => hpc[m] = "done"
        /\ m \in halted => hpc[m] \in {"attach", "done"}

HaltedGone == ~Draws => Msgs(queue.items) \cap halted = {}

SInv == PlainWork /\ OnePlace /\ HaltedGone

\* What no step may do.
Restarts ==
    \E m \in Messages : "stopped" \in fate[m] /\ "ran" \notin fate[m] /\ "ran" \in fate'[m]

\* Who leaves the queue, and does not come back to it.
Leaves(m) == m \in Msgs(queue.items) /\ m \notin Msgs(queue'.items)

\* The invariant from one state to the next, for whatever moves the messages.
LEMMA StopHolds ==
    ASSUME SInv, PlainWork',
           \A m \in Messages : m \in Msgs(queue'.items) =>
              m \in Msgs(queue.items) \/ (hpc[m] = "enqueue" /\ hpc'[m] = "done"),
           \A m \in Messages : hpc[m] = "done" => hpc'[m] = "done",
           \A m \in Messages : hpc[m] = "attach" => hpc'[m] \in {"attach", "done"},
           \A m \in Messages :
              "stopped" \in fate'[m] => "stopped" \in fate[m] \/ Leaves(m),
           \A m \in Messages :
              "ran" \in fate'[m] => "ran" \in fate[m] \/ Carried(m) \/ hpc[m] = "attach",
           \A m \in Messages :
              Carried(m)' => Carried(m) \/ (Leaves(m) /\ "stopped" \notin fate'[m]),
           \A m \in Messages :
              InAJob(m)' => InAJob(m) \/ m \in Msgs(queue.items) \/ hpc'[m] = "done",
           \A m \in Messages :
              m \in halted' => m \in halted \/ hpc[m] \in {"attach", "done"},
           ~Draws' => Msgs(queue'.items) = {} \/ (~Draws /\ halted' = halted),
           Msgs(queue'.items) \subseteq Messages
    PROVE  SInv' /\ ~Restarts
<1>1. ASSUME NEW m \in Messages
      PROVE  /\ m \in Msgs(queue.items) => hpc[m] = "done" /\ "stopped" \notin fate[m]
             /\ Carried(m) => m \notin Msgs(queue.items) /\ "stopped" \notin fate[m]
             /\ InAJob(m) => hpc[m] = "done"
             /\ "stopped" \in fate[m] => hpc[m] = "done"
             /\ m \in halted => hpc[m] \in {"attach", "done"}
             /\ Carried(m) => InAJob(m)
  BY DEF SInv, OnePlace, Carried, Carries, InAJob
<1>2. ASSUME NEW m \in Messages
      PROVE  /\ m \in Msgs(queue'.items) => hpc'[m] = "done" /\ "stopped" \notin fate'[m]
             /\ Carried(m)' => m \notin Msgs(queue'.items) /\ "stopped" \notin fate'[m]
             /\ InAJob(m)' => hpc'[m] = "done"
             /\ "stopped" \in fate'[m] => hpc'[m] = "done"
             /\ m \in halted' => hpc'[m] \in {"attach", "done"}
  <2>1. m \in Msgs(queue'.items) => hpc'[m] = "done" /\ "stopped" \notin fate'[m]
    BY <1>1 DEF Leaves
  <2>2. Carried(m)' => m \notin Msgs(queue'.items) /\ "stopped" \notin fate'[m]
    BY <1>1 DEF Leaves
  <2>3. InAJob(m)' => hpc'[m] = "done"
    BY <1>1
  <2>4. "stopped" \in fate'[m] => hpc'[m] = "done"
    BY <1>1 DEF Leaves
  <2>5. m \in halted' => hpc'[m] \in {"attach", "done"}
    BY <1>1
  <2> QED
    BY <2>1, <2>2, <2>3, <2>4, <2>5
<1>3. HaltedGone'
  <2>1. ASSUME ~Draws', NEW m \in Msgs(queue'.items), m \in halted' PROVE FALSE
    <3>1. m \in Messages /\ ~Draws /\ m \in halted
      BY <2>1
    <3>2. m \notin Msgs(queue.items)
      BY <3>1 DEF SInv, HaltedGone
    <3> QED
      BY <1>1, <2>1, <3>1, <3>2
  <2> QED
    BY <2>1 DEF HaltedGone
<1>4. ~Restarts
  BY <1>1 DEF Restarts
<1>5. OnePlace'
  BY <1>2 DEF OnePlace
<1> QED
  BY <1>3, <1>4, <1>5 DEF SInv

NoneStopped == \A m \in Messages : "stopped" \in fate'[m] => "stopped" \in fate[m]
NoneRan     == \A m \in Messages : "ran" \in fate'[m] => "ran" \in fate[m]

LEMMA OtherFate ==
    ASSUME DataTypeOK, NEW msgs, NEW f, fate' = Record(msgs, f)
    PROVE  /\ f # "stopped" => NoneStopped
           /\ f # "ran" => NoneRan
           /\ \A m \in Messages : fate'[m] = fate[m] \/ m \in msgs
BY DEF DataTypeOK, Record, NoneStopped, NoneRan

LEMMA FewerBacklog ==
    ASSUME NEW r, NEW s, FromItems(r, s), NoBacklog(s)
    PROVE  NoBacklog(r)
BY DEF FromItems, NoBacklog

LEMMA QueueInMessages == DataTypeOK => Msgs(queue.items) \subseteq Messages
<1> SUFFICES ASSUME DataTypeOK PROVE Msgs(queue.items) \subseteq Messages
  OBVIOUS
<1>1. queue.items \in Seq(Item)
  BY DEF DataTypeOK, Queue
<1>2. \A i \in DOMAIN queue.items : queue.items[i] \in Item
  BY <1>1, ElementOfSeq, LenProperties
<1> QED
  BY <1>2 DEF Msgs, Item

\* Clearing the queue takes everything in it away.
LEMMA ClearLeaves ==
    ASSUME DataTypeOK, ClearPendingQueue
    PROVE  /\ queue'.items = <<>> /\ queue'.dropped = {} /\ Msgs(queue'.items) = {}
           /\ NoBacklog(queue'.items) /\ Distinct(queue'.items)
           /\ NoneRan
           /\ \A m \in Messages : "stopped" \in fate'[m] => "stopped" \in fate[m] \/ Leaves(m)
<1>1. queue' = EmptyQueue
  BY DEF ClearPendingQueue
<1>2. queue'.items = <<>> /\ queue'.dropped = {} /\ Msgs(queue'.items) = {}
  BY <1>1 DEF EmptyQueue, Msgs
<1>3. NoBacklog(<<>>) /\ Distinct(<<>>)
  BY DEF NoBacklog, Distinct
<1>4. /\ NoneRan
      /\ \A m \in Messages : "stopped" \in fate'[m] => "stopped" \in fate[m] \/ m \in Msgs(queue.items)
  BY DEF DataTypeOK, ClearPendingQueue, Queued, NoneRan
<1> QED
  BY <1>2, <1>3, <1>4 DEF Leaves

\* Steps of one worker that runs nothing, with what it may do to the queue.
LEMMA WorkerStops ==
    ASSUME IInv, DInv, SInv, NEW w \in Workers, NEW pc, WorkerGoes(w, pc), pc # "requeue",
           NEW j, job' = [job EXCEPT ![w] = j], PlainJob(j),
           queue'.dropped = {}, NoBacklog(queue'.items), Distinct(queue'.items),
           Msgs(queue'.items) \subseteq Msgs(queue.items),
           UNCHANGED <<hpc, halted, stopPc>>, NoneStopped, NoneRan,
           \A m \in Messages : m \in Carries(pc, j) => m \in Carries(wpc[w], job[w]) \/ Leaves(m),
           \A m \in Messages :
              m \in Msgs(j.items) => m \in Msgs(job[w].items) \/ m \in Msgs(queue.items)
    PROVE  SInv' /\ ~Restarts
<1>1. /\ wpc'[w] = pc /\ job'[w] = j
      /\ \A v \in Workers \ {w} : wpc'[v] = wpc[v] /\ job'[v] = job[v]
  BY DEF DInv, DataTypeOK, IInv, ControlTypeOK, WorkerGoes
<1>2. PlainWork'
  BY <1>1 DEF SInv, PlainWork
<1>3. ASSUME NEW m \in Messages, Carried(m)'
      PROVE  Carried(m) \/ (Leaves(m) /\ "stopped" \notin fate'[m])
  <2>1. PICK v \in Workers : m \in Carries(wpc'[v], job'[v])
    BY <1>3 DEF Carried
  <2>2. CASE v = w
    <3>1. m \in Carries(wpc[w], job[w]) \/ Leaves(m)
      BY <1>1, <2>1, <2>2
    <3>2. Leaves(m) => "stopped" \notin fate'[m]
      BY DEF Leaves, NoneStopped, SInv, OnePlace
    <3> QED
      BY <3>1, <3>2 DEF Carried
  <2>3. CASE v # w
    BY <1>1, <2>1, <2>3 DEF Carried
  <2> QED
    BY <2>2, <2>3
<1>4. ASSUME NEW m \in Messages, InAJob(m)' PROVE InAJob(m) \/ m \in Msgs(queue.items)
  <2>1. PICK v \in Workers : m \in Msgs(job'[v].items)
    BY <1>4 DEF InAJob
  <2>2. CASE v = w
    BY <1>1, <2>1, <2>2 DEF InAJob
  <2>3. CASE v # w
    BY <1>1, <2>1, <2>3 DEF InAJob
  <2> QED
    BY <2>2, <2>3
<1>5. Draws' = Draws /\ Msgs(queue'.items) \subseteq Messages
  BY QueueInMessages DEF Draws, DInv
<1>6. \A m \in Messages :
        /\ m \in Msgs(queue'.items) => m \in Msgs(queue.items)
        /\ hpc[m] = "done" => hpc'[m] = "done"
        /\ hpc[m] = "attach" => hpc'[m] \in {"attach", "done"}
        /\ "stopped" \in fate'[m] => "stopped" \in fate[m]
        /\ "ran" \in fate'[m] => "ran" \in fate[m]
        /\ m \in halted' => m \in halted
  BY DEF NoneStopped, NoneRan
<1> HIDE DEF SInv
<1> QED
  BY <1>2, <1>3, <1>4, <1>5, <1>6, StopHolds

\* Steps that leave the workers and their jobs alone, and run nothing.
LEMMA RestStops ==
    ASSUME IInv, DInv, SInv, UNCHANGED <<wpc, job>>,
           queue'.dropped = {}, NoBacklog(queue'.items), Distinct(queue'.items),
           Msgs(queue'.items) \subseteq Messages, NoneRan,
           \A m \in Messages : m \in Msgs(queue'.items) =>
              m \in Msgs(queue.items) \/ (hpc[m] = "enqueue" /\ hpc'[m] = "done"),
           \A m \in Messages : hpc[m] = "done" => hpc'[m] = "done",
           \A m \in Messages : hpc[m] = "attach" => hpc'[m] \in {"attach", "done"},
           \A m \in Messages : "stopped" \in fate'[m] => "stopped" \in fate[m] \/ Leaves(m),
           \A m \in Messages :
              m \in halted' => m \in halted \/ hpc[m] \in {"attach", "done"},
           ~Draws' => Msgs(queue'.items) = {} \/ (~Draws /\ halted' = halted)
    PROVE  SInv' /\ ~Restarts
<1>1. PlainWork'
  BY DEF SInv, PlainWork
<1>2. \A m \in Messages : (Carried(m)' <=> Carried(m)) /\ (InAJob(m)' <=> InAJob(m))
  BY DEF Carried, InAJob
<1>3. \A m \in Messages : "ran" \in fate'[m] => "ran" \in fate[m]
  BY DEF NoneRan
<1> HIDE DEF SInv
<1> QED
  BY <1>1, <1>2, <1>3, StopHolds

LEMMA HandlerStops ==
    ASSUME QueuedOnce, IInv, DInv, KInv, SInv, NEW m \in Messages, BeginHandler(m) \/ HandlerStep(m)
    PROVE  SInv' /\ ~Restarts
<1>a. /\ DataTypeOK /\ queue \in GoodQueue /\ hpc \in [Messages -> HandlerPcs]
      /\ Msgs(queue.items) \subseteq Messages
      /\ queue.dropped = {} /\ NoBacklog(queue.items) /\ Distinct(queue.items)
  BY QueueIsGood, QueueInMessages DEF DInv, IInv, ControlTypeOK, SInv, PlainWork
<1>b. UNCHANGED <<stopPc, halted>> /\ Draws' = Draws
  BY DEF HandlerStep, BeginHandler, CheckQueue, InterruptCancel, InterruptClear, HandlerAcquire,
         HandlerAttach, Recheck, Steer, SteerRefused, HandlerEnqueue, stopVars, Draws
\* A handler that neither runs its message nor touches the queue.
<1>c. ASSUME NEW pc, HandlerGoes(m, pc), hpc[m] \notin {"attach", "done"},
             UNCHANGED <<queue, wpc, job, fate>>
      PROVE  SInv' /\ ~Restarts
  <2>1. \A n \in Messages : hpc[n] \in {"attach", "done"} => hpc'[n] = hpc[n]
    BY <1>a, <1>c DEF HandlerGoes
  <2>2. NoneRan /\ \A n \in Messages : "stopped" \in fate'[n] => "stopped" \in fate[n]
    BY <1>c DEF NoneRan
  <2> QED
    BY <1>a, <1>b, <1>c, <2>1, <2>2, RestStops
<1>1. CASE BeginHandler(m)
  <2>1. PICK pc : HandlerGoes(m, pc)
    BY <1>1 DEF BeginHandler
  <2> QED
    BY <1>1, <1>c, <2>1 DEF BeginHandler, HandlerAt
<1>2. CASE CheckQueue(m)
  BY <1>2, <1>c DEF CheckQueue, HandlerAt
<1>3. CASE InterruptCancel(m)
  BY <1>3, <1>c DEF InterruptCancel, HandlerAt
<1>4. CASE InterruptClear(m)
  <2>1. PICK pc : HandlerGoes(m, pc)
    BY <1>4 DEF InterruptClear
  <2>2. \A n \in Messages : hpc[n] \in {"attach", "done"} => hpc'[n] = hpc[n]
    BY <1>4, <1>a, <2>1 DEF HandlerGoes, InterruptClear, HandlerAt
  <2>3. /\ queue'.dropped = {} /\ Msgs(queue'.items) = {}
        /\ NoBacklog(queue'.items) /\ Distinct(queue'.items)
        /\ NoneRan
        /\ \A n \in Messages : "stopped" \in fate'[n] => "stopped" \in fate[n] \/ Leaves(n)
    BY <1>4, <1>a, ClearLeaves DEF InterruptClear
  <2>4. UNCHANGED <<wpc, job>>
    BY <1>4 DEF InterruptClear
  <2> QED
    BY <1>b, <2>2, <2>3, <2>4, RestStops
<1>5. CASE HandlerAcquire(m)
  <2>1. PICK pc : HandlerGoes(m, pc)
    BY <1>5 DEF HandlerAcquire
  <2> QED
    BY <1>5, <1>c, <2>1 DEF HandlerAcquire, HandlerAt
<1>6. ASSUME NEW w \in Workers, HandlerAttach(m, w)
      PROVE  SInv' /\ ~Restarts
  <2> DEFINE j == DirectJob(m)
  <2>1. PlainJob(j) /\ Msgs(j.items) = {m} /\ Prompted(j) = {m} /\ Carries("run", j) = {}
    BY DEF DirectJob, PlainJob, NoBacklog, PlainItem, Msgs, Prompted, IsSynthetic, Carries
  <2>2. /\ fate' = Record(Prompted(j), "ran") /\ hpc[m] = "attach" /\ queue' = queue
        /\ hpc' = [hpc EXCEPT ![m] = "done"] /\ wpc' = [wpc EXCEPT ![w] = "run"]
        /\ job' = [job EXCEPT ![w] = j]
    BY <1>6 DEF HandlerAttach, AttachRun, HandlerReturns, HandlerAt, HandlerGoes, WorkerGoes
  <2> HIDE DEF j
  <2>3. /\ NoneStopped
        /\ \A n \in Messages : fate'[n] = fate[n] \/ n = m
    <3> DEFINE msgs == {m}
    <3>1. fate' = Record(msgs, "ran")
      BY <2>1, <2>2
    <3>2. \A n \in Messages : n \in msgs => n = m
      OBVIOUS
    <3> HIDE DEF msgs
    <3>3. NoneStopped /\ \A n \in Messages : fate'[n] = fate[n] \/ n \in msgs
      BY <1>a, <3>1, OtherFate
    <3> QED
      BY <3>2, <3>3
  <2>4. /\ wpc'[w] = "run" /\ job'[w] = j
        /\ \A v \in Workers \ {w} : wpc'[v] = wpc[v] /\ job'[v] = job[v]
    BY <2>2 DEF DInv, DataTypeOK, IInv, ControlTypeOK
  <2>5. \A n \in Messages : n # m => hpc'[n] = hpc[n]
    BY <1>a, <2>2
  <2>6. hpc'[m] = "done"
    BY <1>a, <2>2
  <2>7. PlainWork'
    BY <2>1, <2>2, <2>4 DEF SInv, PlainWork
  <2>8. \A n \in Messages : Carried(n)' => Carried(n)
    BY <2>1, <2>4 DEF Carried
  <2>9. \A n \in Messages : InAJob(n)' => InAJob(n) \/ n = m
    BY <2>1, <2>4 DEF InAJob
  <2>10. \A n \in Messages :
           /\ "stopped" \in fate'[n] => "stopped" \in fate[n]
           /\ "ran" \in fate'[n] => "ran" \in fate[n] \/ hpc[n] = "attach"
    BY <2>2, <2>3 DEF NoneStopped
  <2> HIDE DEF SInv
  <2> QED
    BY <1>a, <1>b, <2>2, <2>5, <2>6, <2>7, <2>8, <2>9, <2>10, StopHolds
<1>7. CASE Recheck(m)
  <2>1. PICK pc : HandlerGoes(m, pc)
    BY <1>7 DEF Recheck
  <2> QED
    BY <1>7, <1>c, <2>1 DEF Recheck, HandlerAt
<1>8. CASE Steer(m)
  <2>1. PICK pc \in {"enqueue", "done"} : HandlerGoes(m, pc)
    BY <1>8 DEF Steer, HandlerReturns
  <2> QED
    BY <1>8, <1>c, <2>1 DEF Steer, HandlerAt
<1>9. CASE SteerRefused(m)
  BY <1>9, <1>c DEF SteerRefused, HandlerAt
<1>10. CASE HandlerEnqueue(m)
  <2> DEFINE item == [PlainItem(m) EXCEPT !.backlogAfter = BacklogsAfter(hmode[m])]
             before == queue
             mode == hmode[m]
             gone == Msgs(Evicted(before, item))
             after == Enqueue(before, item, mode)
  <2>1. item \in Item /\ item.msg = m /\ ~item.allowDuplicate
    BY DEF PlainItem, Item, BacklogsAfter
  <2>2. mode = hmode[m] /\ mode \in Modes /\ mode \in AllModes /\ hpc[m] = "enqueue"
    BY <1>10, ModesAssumption DEF HandlerEnqueue, HandlerAt, KInv, ModesResolved
  <2>3. ~item.backlogAfter
    BY <2>2 DEF PlainItem, BacklogsAfter, QueuedOnce
  <2>4. before = queue /\ before \in GoodQueue /\ queue' = after /\ fate' = Record(gone, "dropped") /\ UNCHANGED <<wpc, job>>
    BY <1>10, <1>a DEF HandlerEnqueue, QueuePending
  <2>5. hpc' = [hpc EXCEPT ![m] = "done"]
    BY <1>10 DEF HandlerEnqueue, HandlerReturns, HandlerGoes
  <2> HIDE DEF item, before, mode, gone, after
  <2>6. /\ Msgs(after.items) \subseteq Msgs(before.items) \cup {item.msg}
        /\ \A k \in DOMAIN after.items :
              after.items[k] = item \/ \E i \in DOMAIN before.items : after.items[k] = before.items[i]
        /\ Distinct(before.items) /\ ~item.allowDuplicate => Distinct(after.items)
        /\ after.dropped = IF DropPolicy = "summarize" THEN before.dropped \cup gone
                           ELSE before.dropped
    BY <2>1, <2>2, <2>4, EnqueueHands DEF gone, after
  <2>7. /\ queue'.dropped = {} /\ Distinct(queue'.items)
        /\ Msgs(queue'.items) \subseteq Messages
        /\ \A n \in Messages : n \in Msgs(queue'.items) => n \in Msgs(queue.items) \/ n = m
    BY <1>a, <2>1, <2>4, <2>6 DEF QueuedOnce
  <2>8. NoBacklog(queue'.items)
    BY <1>a, <2>3, <2>4, <2>6 DEF NoBacklog
  <2>9. NoneRan /\ NoneStopped
    BY <1>a, <2>4, OtherFate
  <2>10. \A n \in Messages : hpc'[n] = IF n = m THEN "done" ELSE hpc[n]
    BY <1>a, <2>5
  <2>11. ~Draws' => ~Draws /\ halted' = halted
    BY <1>b
  <2>12. ASSUME NEW n \in Messages, n \in Msgs(queue'.items)
         PROVE  n \in Msgs(queue.items) \/ (hpc[n] = "enqueue" /\ hpc'[n] = "done")
    BY <2>2, <2>7, <2>10, <2>12
  <2>13. \A n \in Messages : "stopped" \in fate'[n] => "stopped" \in fate[n]
    BY <2>9 DEF NoneStopped
  <2>14. /\ \A n \in Messages : hpc[n] = "done" => hpc'[n] = "done"
         /\ \A n \in Messages : hpc[n] = "attach" => hpc'[n] \in {"attach", "done"}
    BY <2>10
  <2> QED
    BY <1>b, <2>4, <2>7, <2>8, <2>9, <2>11, <2>12, <2>13, <2>14, RestStops
<1> QED
  BY <1>1, <1>2, <1>3, <1>4, <1>5, <1>6, <1>7, <1>8, <1>9, <1>10 DEF HandlerStep

LEMMA RunStops ==
    ASSUME QueuedOnce, IInv, DInv, KInv, SInv, NEW w \in Workers, RunStep(w)
    PROVE  SInv' /\ ~Restarts
<1>a. /\ DataTypeOK /\ queue \in GoodQueue
      /\ job = [job EXCEPT ![w] = job[w]] /\ job[w] \in Job
      /\ queue.dropped = {} /\ NoBacklog(queue.items) /\ Distinct(queue.items)
      /\ PlainJob(job[w]) /\ wpc[w] # "requeue"
  BY QueueIsGood DEF DInv, DataTypeOK, SInv, PlainWork
<1>b. UNCHANGED <<hpc, halted, stopPc>>
  BY DEF RunStep, RunStream, RunTakeSteering, RunStreamEnd, RunEnd, RunRequeue, RunRelease,
         RunKick, stopVars
<1>c. \A pc : pc \in RunPcs \cup {"kick", "snapshot", "idle"} =>
                 \A j : Carries(pc, j) = {}
  BY DEF Carries, RunPcs
\* A run that goes on with its job.
<1>d. ASSUME NEW pc, pc \in RunPcs \cup {"kick", "snapshot", "idle"}, pc # "requeue",
             WorkerGoes(w, pc), UNCHANGED <<queue, job, fate>>
      PROVE  SInv' /\ ~Restarts
  <2>1. NoneStopped /\ NoneRan
    BY <1>d DEF NoneStopped, NoneRan
  <2> QED
    BY <1>a, <1>b, <1>c, <1>d, <2>1, WorkerStops
<1> USE DEF RunPcs
<1>1. CASE RunStream(w)
  BY <1>1, <1>d DEF RunStream
<1>2. CASE RunTakeSteering(w)
  <2>1. wpc' = [wpc EXCEPT ![w] = wpc[w]] /\ wpc[w] = "stream"
    BY <1>2 DEF RunTakeSteering, WorkerAt, IInv, ControlTypeOK
  <2>2. NoneStopped /\ NoneRan
    BY <1>2, <1>a, OtherFate DEF RunTakeSteering, TakeSteering
  <2> QED
    BY <1>2, <1>a, <1>b, <1>c, <2>1, <2>2, WorkerStops DEF RunTakeSteering, WorkerGoes
<1>3. CASE RunStreamEnd(w)
  BY <1>3, <1>d DEF RunStreamEnd
<1>4. CASE RunEnd(w)
  <2>1. job[w].items \in Seq(Item) /\ job[w].items # <<>>
    BY <1>4, <1>a DEF RunEnd, WorkerAt, DInv, JobFits, Job
  <2>2. ~Lead(job[w]).backlogAfter
    <3> DEFINE items == job[w].items
    <3>1. items \in Seq(Item) /\ items # <<>> /\ NoBacklog(items)
      BY <1>a, <2>1 DEF PlainJob
    <3> HIDE DEF items
    <3>2. Len(items) \in DOMAIN items
      BY <3>1, EmptySeq, LenProperties
    <3> QED
      BY <3>1, <3>2 DEF Lead, Last, NoBacklog, items
  <2>3. WorkerGoes(w, "release")
    BY <1>4, <2>2 DEF RunEnd, Requeues
  <2> QED
    BY <1>4, <1>d, <2>3 DEF RunEnd
<1>5. CASE RunRequeue(w)
  BY <1>5, <1>a DEF RunRequeue, WorkerAt
<1>6. CASE RunRelease(w)
  <2>1. NoneStopped /\ NoneRan
    BY <1>6 DEF RunRelease, NoneStopped, NoneRan
  <2>2. PlainJob(NoJob) /\ Msgs(NoJob.items) = {}
    BY DEF PlainJob, NoJob, NoBacklog, Msgs
  <2>3. Carries("kick", NoJob) = {}
    BY <1>c
  <2>4. WorkerGoes(w, "kick") /\ job' = [job EXCEPT ![w] = NoJob] /\ queue' = queue
    BY <1>6 DEF RunRelease
  <2> HIDE DEF SInv
  <2> QED
    BY <1>a, <1>b, <2>1, <2>2, <2>3, <2>4, WorkerStops
<1>7. CASE RunKick(w)
  <2>1. queue'.items = queue.items /\ queue'.dropped = queue.dropped
    BY <1>7, <1>a, MarkHands DEF RunKick
  <2>2. NoneStopped /\ NoneRan
    BY <1>7 DEF RunKick, NoneStopped, NoneRan
  <2>3. PICK pc \in {"snapshot", "idle"} : WorkerGoes(w, pc)
    BY <1>7 DEF RunKick
  <2>4. UNCHANGED job
    BY <1>7 DEF RunKick
  <2> QED
    BY <1>a, <1>b, <1>c, <2>1, <2>2, <2>3, <2>4, WorkerStops
<1> QED
  BY <1>1, <1>2, <1>3, <1>4, <1>5, <1>6, <1>7 DEF RunStep

LEMMA DrainStops ==
    ASSUME QueuedOnce, IInv, DInv, KInv, SInv, NEW w \in Workers, DrainStep(w)
    PROVE  SInv' /\ ~Restarts
<1>a. /\ DataTypeOK /\ queue \in GoodQueue /\ Msgs(queue.items) \subseteq Messages
      /\ job = [job EXCEPT ![w] = job[w]] /\ job[w] \in Job
      /\ queue.dropped = {} /\ NoBacklog(queue.items) /\ Distinct(queue.items)
      /\ PlainJob(job[w])
  BY QueueIsGood, QueueInMessages DEF DInv, DataTypeOK, SInv, PlainWork
<1>b. UNCHANGED <<hpc, halted, stopPc>> /\ Draws' = Draws
  BY DEF DrainStep, DrainSnapshot, DrainDebounce, DrainAcquire, TakeNothing, TakeCollect,
         TakeSummary, TakeSingle, DrainConsume, DrainPop, DrainBuild, DrainBuildFails,
         DrainFailRelease, DrainFailKick, DrainDispatch, DrainUndo, DrainUnmark, Unmoved,
         stopVars, Draws
<1>c. FitsAt(wpc[w], job[w], fate)
  BY DEF KInv, PlanFits
<1>d. PlainJob(NoJob) /\ Msgs(NoJob.items) = {} /\ \A pc : Carries(pc, NoJob) = {}
  BY DEF PlainJob, NoJob, NoBacklog, Msgs, Carries
\* A drainer that takes nothing out of the queue and puts no new message in its job.
<1>e. ASSUME NEW pc, pc # "requeue", WorkerGoes(w, pc), UNCHANGED <<queue, fate>>,
             NEW j, job' = [job EXCEPT ![w] = j], PlainJob(j),
             Carries(pc, j) \subseteq Carries(wpc[w], job[w]), Msgs(j.items) \subseteq Msgs(job[w].items)
      PROVE  SInv' /\ ~Restarts
  <2>1. NoneStopped /\ NoneRan
    BY <1>e DEF NoneStopped, NoneRan
  <2> HIDE DEF SInv
  <2> QED
    BY <1>a, <1>b, <1>e, <2>1, WorkerStops
<1>f. ASSUME NEW pc, pc \notin {"requeue", "build", "dispatch"}, WorkerGoes(w, pc),
             UNCHANGED <<queue, job, fate>>
      PROVE  SInv' /\ ~Restarts
  <2>1. Carries(pc, job[w]) = {}
    BY <1>f DEF Carries
  <2> QED
    BY <1>a, <1>e, <1>f, <2>1
<1>1. CASE DrainSnapshot(w)
  <2>1. PICK pc \in {"unmark", "debounce", "reserve"} : WorkerGoes(w, pc)
    BY <1>1 DEF DrainSnapshot
  <2> QED
    BY <1>1, <1>f, <2>1 DEF DrainSnapshot
<1>2. CASE DrainDebounce(w)
  <2>1. PICK pc \in {"unmark", "reserve"} : WorkerGoes(w, pc)
    BY <1>2 DEF DrainDebounce
  <2> QED
    BY <1>2, <1>f, <2>1 DEF DrainDebounce
<1>3. CASE DrainAcquire(w)
  <2>1. PICK pc \in {"unmark", "take"} : WorkerGoes(w, pc)
    BY <1>3 DEF DrainAcquire
  <2> QED
    BY <1>3, <1>f, <2>1 DEF DrainAcquire
<1>4. CASE TakeNothing(w)
  BY <1>4, <1>f DEF TakeNothing
<1>5. CASE TakeCollect(w)
  <2> DEFINE j == Plan("collect", <<>>, CollectCount(queue.items))
  <2>1. PlainJob(j) /\ Msgs(j.items) = {}
    BY DEF Plan, PlainJob, NoBacklog, Msgs
  <2>2. job' = [job EXCEPT ![w] = j]
    BY <1>5 DEF TakeCollect
  <2> HIDE DEF j
  <2>3. PICK pc \in {"consume", "pop"} : WorkerGoes(w, pc)
    BY <1>5 DEF TakeCollect
  <2>4. Carries(pc, j) = {}
    BY <2>3 DEF Carries
  <2> QED
    BY <1>5, <1>e, <2>1, <2>2, <2>3, <2>4 DEF TakeCollect
<1>6. CASE TakeSummary(w)
  BY <1>6, <1>a DEF TakeSummary
<1>7. CASE TakeSingle(w)
  <2> DEFINE j == Plan("single", <<>>, 1)
  <2>1. PlainJob(j) /\ Msgs(j.items) = {} /\ Carries("pop", j) = {}
    BY DEF Plan, PlainJob, NoBacklog, Msgs, Carries
  <2>2. job' = [job EXCEPT ![w] = j] /\ WorkerGoes(w, "pop")
    BY <1>7 DEF TakeSingle
  <2> HIDE DEF j
  <2> QED
    BY <1>7, <1>e, <2>1, <2>2 DEF TakeSingle
<1>8. CASE DrainConsume(w)
  <2> DEFINE j == [job[w] EXCEPT !.summary = queue.dropped]
  <2>1. /\ j.items = job[w].items /\ j.kind = job[w].kind /\ j.summary = queue.dropped
        /\ job' = [job EXCEPT ![w] = j]
    BY <1>8, <1>a DEF Job, DrainConsume
  <2> HIDE DEF j
  <2>2. PlainJob(j)
    BY <1>a, <2>1 DEF PlainJob
  <2>3. WorkerGoes(w, "pop") /\ Carries("pop", j) = {}
    BY <1>8, <1>a, <1>c DEF DrainConsume, WorkerAt, FitsAt, PlainJob, Carries
  <2>4. queue'.items = queue.items /\ queue'.dropped = {}
    BY <1>8, <1>a, ConsumeHands DEF DrainConsume
  <2>5. NoneStopped /\ NoneRan
    BY <1>8 DEF DrainConsume, NoneStopped, NoneRan
  <2> QED
    BY <1>a, <1>b, <2>1, <2>2, <2>3, <2>4, <2>5, WorkerStops
<1>9. CASE DrainPop(w)
  <2> DEFINE items == Popped(queue, job[w].count)
             j == IF items = <<>> THEN NoJob ELSE [job[w] EXCEPT !.items = items, !.count = 0]
             pc == IF items = <<>> THEN "undo" ELSE "build"
  <2>1. job[w].count \in Nat /\ queue' = Pop(queue, job[w].count)
    BY <1>9, <1>a DEF Job, DrainPop
  <2>2. /\ FromItems(items, queue.items) /\ FromItems(queue'.items, queue.items)
        /\ Msgs(queue.items) = Msgs(items) \cup Msgs(queue'.items)
        /\ Distinct(queue.items) => /\ Distinct(queue'.items)
                                    /\ Msgs(items) \cap Msgs(queue'.items) = {}
        /\ queue'.dropped = queue.dropped
    BY <1>a, <2>1, PopHands
  <2>3. /\ job' = [job EXCEPT ![w] = j] /\ WorkerGoes(w, pc) /\ pc # "requeue"
        /\ fate' = Record(IF items = <<>> THEN job[w].summary ELSE {}, "unsummarised")
    BY <1>9 DEF DrainPop
  <2>4. PlainJob(j) /\ (Msgs(j.items) = {} \/ Msgs(j.items) = Msgs(items))
    <3>1. NoBacklog(items)
      BY <1>a, <2>2, FewerBacklog
    <3> HIDE DEF items
    <3>2. items # <<>> => /\ j.items = items /\ j.kind = job[w].kind
                          /\ j.summary = job[w].summary
      BY <1>a DEF Job
    <3>3. items = <<>> => j = NoJob
      OBVIOUS
    <3> HIDE DEF j
    <3> QED
      BY <1>a, <1>d, <3>1, <3>2, <3>3 DEF PlainJob
  <2> HIDE DEF items, j, pc
  <2>5. NoneStopped /\ NoneRan
    BY <1>a, <2>3, OtherFate
  <2>6. NoBacklog(queue'.items)
    BY <1>a, <2>2, FewerBacklog
  <2>7. \A m \in Messages : m \in Msgs(j.items) => m \in Msgs(queue.items) /\ Leaves(m)
    BY <1>a, <2>2, <2>4 DEF Leaves
  <2>8. Carries(pc, j) \subseteq Msgs(j.items)
    BY DEF Carries
  <2>9. /\ queue'.dropped = {} /\ Distinct(queue'.items)
        /\ Msgs(queue'.items) \subseteq Msgs(queue.items)
    BY <1>a, <2>2
  <2>10. /\ \A m \in Messages : m \in Carries(pc, j) => Leaves(m)
         /\ \A m \in Messages : m \in Msgs(j.items) => m \in Msgs(queue.items)
    BY <2>7, <2>8
  <2> HIDE DEF SInv
  <2> QED
    BY <1>b, <2>3, <2>4, <2>5, <2>6, <2>9, <2>10, WorkerStops
<1>10. CASE DrainBuild(w)
  <2>1. Carries("dispatch", job[w]) = Carries(wpc[w], job[w])
    BY <1>10 DEF DrainBuild, WorkerAt, Carries
  <2>2. WorkerGoes(w, "dispatch") /\ UNCHANGED <<queue, fate, job>>
    BY <1>10 DEF DrainBuild
  <2> QED
    BY <1>a, <1>e, <2>1, <2>2
<1>11. CASE DrainBuildFails(w)
  <2>1. NoneStopped /\ NoneRan
    BY <1>11, <1>a DEF DrainBuildFails, DataTypeOK, NoneStopped, NoneRan
  <2>2. /\ WorkerGoes(w, "failRelease") /\ job' = [job EXCEPT ![w] = NoJob]
        /\ queue' = queue
    BY <1>11 DEF DrainBuildFails
  <2>3. \A m \in Messages : m \notin Carries("failRelease", NoJob) /\ m \notin Msgs(NoJob.items)
    BY <1>d
  <2> HIDE DEF SInv
  <2> QED
    BY <1>a, <1>b, <1>d, <2>1, <2>2, <2>3, WorkerStops
<1>12. CASE DrainFailRelease(w)
  BY <1>12, <1>f DEF DrainFailRelease
<1>13. ASSUME NEW v \in Workers, DrainFailKick(w, v)
       PROVE  SInv' /\ ~Restarts
  <2>1. queue'.items = queue.items /\ queue'.dropped = queue.dropped
    BY <1>13, <1>a, MarkHands DEF DrainFailKick
  <2>2. NoneStopped /\ NoneRan /\ UNCHANGED <<job, fate>>
    BY <1>13 DEF DrainFailKick, NoneStopped, NoneRan
  <2>3. PICK pc \in {"snapshot", "idle"} : wpc' = [wpc EXCEPT ![w] = "unmark", ![v] = pc]
    BY <1>13 DEF DrainFailKick
  <2>4. \A u \in Workers : wpc'[u] = wpc[u] \/ wpc'[u] \in {"unmark", "snapshot", "idle"}
    BY <2>3 DEF IInv, ControlTypeOK
  <2>5. PlainWork'
    BY <1>a, <2>1, <2>2, <2>4 DEF SInv, PlainWork
  <2>6. \A m \in Messages : (Carried(m)' => Carried(m)) /\ (InAJob(m)' <=> InAJob(m))
    BY <2>2, <2>4 DEF Carried, Carries, InAJob
  <2>7. \A m \in Messages : /\ m \in Msgs(queue'.items) <=> m \in Msgs(queue.items)
                            /\ fate'[m] = fate[m] /\ hpc'[m] = hpc[m]
    BY <1>b, <2>1, <2>2
  <2>8. Msgs(queue'.items) \subseteq Messages
    BY <1>a, <2>1
  <2> HIDE DEF SInv
  <2> QED
    BY <1>b, <2>5, <2>6, <2>7, <2>8, StopHolds
<1>14. ASSUME NEW v \in Workers, DrainDispatch(w, v)
       PROVE  SInv' /\ ~Restarts
  <2> DEFINE msgs == Prompted(job[w])
  <2>1. /\ w # v /\ wpc[w] = "dispatch" /\ wpc[v] = "idle" /\ queue' = queue
        /\ fate' = Record(msgs, "ran")
    BY <1>14 DEF DrainDispatch, WorkerAt, AttachRun
  <2>2. /\ wpc'[w] = "unmark" /\ wpc'[v] = "run" /\ job'[w] = NoJob /\ job'[v] = job[w]
        /\ \A u \in Workers \ {w, v} : wpc'[u] = wpc[u] /\ job'[u] = job[u]
    BY <1>14, <2>1 DEF DrainDispatch, IInv, ControlTypeOK, DInv, DataTypeOK
  <2>3. \A m \in Messages : m \in msgs => Carried(m)
    <3>1. \A m \in msgs : m \in Carries(wpc[w], job[w])
      BY <1>a, <2>1 DEF Prompted, IsSynthetic, Carries, PlainJob
    <3> QED
      BY <3>1 DEF Carried
  <2> HIDE DEF msgs
  <2>4. NoneStopped /\ \A m \in Messages : fate'[m] = fate[m] \/ m \in msgs
    BY <1>a, <2>1, OtherFate
  <2>5. PlainWork'
    BY <1>a, <1>d, <2>1, <2>2 DEF SInv, PlainWork
  <2>6. ASSUME NEW m \in Messages, Carried(m)' PROVE Carried(m)
    <3>1. PICK u \in Workers : m \in Carries(wpc'[u], job'[u])
      BY <2>6 DEF Carried
    <3>2. u \notin {w, v}
      BY <2>2, <3>1 DEF Carries
    <3> QED
      BY <2>2, <3>1, <3>2 DEF Carried
  <2>7. ASSUME NEW m \in Messages, InAJob(m)' PROVE InAJob(m)
    <3>1. PICK u \in Workers : m \in Msgs(job'[u].items)
      BY <2>7 DEF InAJob
    <3>2. u # w
      BY <1>d, <2>2, <3>1
    <3> QED
      BY <2>2, <3>1, <3>2 DEF InAJob
  <2>8. \A m \in Messages :
          /\ "stopped" \in fate'[m] => "stopped" \in fate[m]
          /\ "ran" \in fate'[m] => "ran" \in fate[m] \/ Carried(m)
          /\ m \in Msgs(queue'.items) => m \in Msgs(queue.items)
          /\ hpc'[m] = hpc[m]
    BY <1>b, <2>1, <2>3, <2>4 DEF NoneStopped
  <2>9. Msgs(queue'.items) \subseteq Messages
    BY <1>a, <2>1
  <2> HIDE DEF SInv
  <2> QED
    BY <1>b, <2>5, <2>6, <2>7, <2>8, <2>9, StopHolds
<1>15. CASE DrainUndo(w)
  BY <1>15, <1>f DEF DrainUndo
<1>16. CASE DrainUnmark(w)
  <2>1. queue'.items = queue.items /\ queue'.dropped = queue.dropped
    BY <1>16, <1>a, MarkHands DEF DrainUnmark
  <2>2. NoneStopped /\ NoneRan
    BY <1>16 DEF DrainUnmark, NoneStopped, NoneRan
  <2>3. WorkerGoes(w, "idle") /\ UNCHANGED job /\ Carries("idle", job[w]) = {}
    BY <1>16 DEF DrainUnmark, Carries
  <2> QED
    BY <1>a, <1>b, <2>1, <2>2, <2>3, WorkerStops
<1> QED
  BY <1>1, <1>2, <1>3, <1>4, <1>5, <1>6, <1>7, <1>8, <1>9, <1>10, <1>11,
     <1>12, <1>13, <1>14, <1>15, <1>16 DEF DrainStep

LEMMA BeatStops ==
    ASSUME IInv, DInv, SInv, NEW b \in Beats, BeatStep(b)
    PROVE  SInv' /\ ~Restarts
<1>1. /\ DataTypeOK /\ Msgs(queue.items) \subseteq Messages
      /\ queue.dropped = {} /\ NoBacklog(queue.items) /\ Distinct(queue.items)
  BY QueueInMessages DEF DInv, SInv, PlainWork
<1>2. UNCHANGED <<queue, wpc, job, hpc, halted, stopPc>> /\ Draws' = Draws
  BY BeatsTakeNothing DEF NotOfBeats, stopVars, Draws
<1>3. fate' = fate \/ fate' = Record(Steering, "steered")
  BY DEF BeatStep, BeatCheckRoom, BeatCheckQueue, BeatSkips, BeatStream, BeatTakeSteering,
         TakeSteering, BeatStreamEnd, BeatEnd
<1>4. NoneRan /\ NoneStopped
  <2>1. CASE fate' = fate
    BY <2>1 DEF NoneRan, NoneStopped
  <2>2. CASE fate' = Record(Steering, "steered")
    BY <1>1, <2>2, OtherFate
  <2> QED
    BY <1>3, <2>1, <2>2
<1>5. \A m \in Messages : "stopped" \in fate'[m] => "stopped" \in fate[m]
  BY <1>4 DEF NoneStopped
<1> HIDE DEF SInv
<1> QED
  BY <1>1, <1>2, <1>4, <1>5, RestStops

LEMMA StopStops ==
    ASSUME IInv, DInv, SInv, StopBegins \/ StopContinues
    PROVE  SInv' /\ ~Restarts
<1>a. /\ DataTypeOK /\ queue \in GoodQueue /\ Msgs(queue.items) \subseteq Messages
      /\ queue.dropped = {} /\ NoBacklog(queue.items) /\ Distinct(queue.items)
  BY QueueIsGood, QueueInMessages DEF DInv, SInv, PlainWork
<1>b. UNCHANGED <<wpc, job, hpc>>
  BY DEF StopBegins, StopRoom, Reset, StopTurn, StopQueued, StopContinues, StopRoomCancel,
         StopRoomDrain, StopTurnMark, StopTurnCancel, ResetCancel
\* Whatever is queued, held by a handler, or in a job has a handler that is over, or
\* about to run it.
<1>c. \A m \in Messages : m \in InRoom => hpc[m] \in {"attach", "done"}
  <2>1. \A m \in Messages : m \in InRoom =>
          m \in Msgs(queue.items) \/ hpc[m] = "attach" \/ InAJob(m)
    BY DEF InRoom, Queued, HandlerHolds, InHand, InAJob
  <2> QED
    BY <2>1 DEF SInv, OnePlace
\* A step that marks or cancels.
<1>d. ASSUME UNCHANGED <<queue, fate>>,
             halted' = halted \cup InRoom \/ halted' = halted,
             ~Draws' => ~Draws /\ halted' = halted
      PROVE  SInv' /\ ~Restarts
  <2>1. NoneRan /\ \A m \in Messages : "stopped" \in fate'[m] => "stopped" \in fate[m]
    BY <1>d DEF NoneRan
  <2>2. \A m \in Messages : m \in halted' => m \in halted \/ hpc[m] \in {"attach", "done"}
    BY <1>c, <1>d
  <2> HIDE DEF SInv
  <2> QED
    BY <1>a, <1>b, <1>d, <2>1, <2>2, RestStops
<1>1. CASE StopRoom
  BY <1>1, <1>d DEF StopRoom, Draws
<1>2. CASE StopRoomCancel
  BY <1>2, <1>d DEF StopRoomCancel, StopAt, Draws
<1>3. CASE StopTurn
  BY <1>3, <1>d DEF StopTurn, MayStop, StopAt, Draws
<1>4. CASE StopTurnMark
  BY <1>4, <1>d DEF StopTurnMark, StopAt, Draws
<1>5. CASE StopTurnCancel
  BY <1>5, <1>d DEF StopTurnCancel, StopAt, Draws
<1>6. CASE ResetCancel
  BY <1>6, <1>d DEF ResetCancel, StopAt, Draws
<1>7. CASE StopRoomDrain \/ Reset
  <2>1. ClearPendingQueue /\ (halted' = halted \cup InRoom \/ halted' = halted)
    BY <1>7 DEF StopRoomDrain, Reset
  <2>2. /\ queue'.dropped = {} /\ Msgs(queue'.items) = {}
        /\ NoBacklog(queue'.items) /\ Distinct(queue'.items)
        /\ NoneRan
        /\ \A m \in Messages : "stopped" \in fate'[m] => "stopped" \in fate[m] \/ Leaves(m)
    BY <1>a, <2>1, ClearLeaves
  <2>3. \A m \in Messages : m \in halted' => m \in halted \/ hpc[m] \in {"attach", "done"}
    BY <1>c, <2>1
  <2> HIDE DEF SInv
  <2> QED
    BY <1>b, <2>2, <2>3, RestStops
<1>8. ASSUME NEW m \in Messages, StopQueued(m)
      PROVE  SInv' /\ ~Restarts
  <2> DEFINE after == RemoveSource(queue, m)
             gone == {m}
  <2>1. /\ queue' = after /\ fate' = Record(gone, "stopped") /\ m \in Msgs(queue.items)
        /\ UNCHANGED <<stopPc, halted>> /\ ~Draws
    BY <1>8 DEF StopQueued, Queued, MayStop, StopAt, Draws
  <2>2. \A n \in Messages : n \in gone => n = m
    OBVIOUS
  <2> HIDE DEF after, gone
  <2>3. /\ Msgs(after.items) = Msgs(queue.items) \ {m}
        /\ FromItems(after.items, queue.items)
        /\ Distinct(queue.items) => Distinct(after.items)
        /\ after.dropped = queue.dropped
    BY <1>a, RemoveHands DEF after
  <2>4. NoBacklog(queue'.items)
    BY <1>a, <2>1, <2>3, FewerBacklog
  <2>5. NoneRan /\ \A n \in Messages : fate'[n] = fate[n] \/ n \in gone
    BY <1>a, <2>1, OtherFate
  <2>6. \A n \in Messages : "stopped" \in fate'[n] => "stopped" \in fate[n] \/ Leaves(n)
    BY <2>1, <2>2, <2>3, <2>5 DEF Leaves
  <2>7. /\ queue'.dropped = {} /\ Distinct(queue'.items)
        /\ Msgs(queue'.items) \subseteq Msgs(queue.items)
        /\ Msgs(queue'.items) \subseteq Messages
    BY <1>a, <2>1, <2>3
  <2> HIDE DEF SInv
  <2> QED
    BY <1>b, <2>1, <2>4, <2>5, <2>6, <2>7, RestStops
<1> QED
  BY <1>1, <1>2, <1>3, <1>4, <1>5, <1>6, <1>7, <1>8 DEF StopBegins, StopContinues

LEMMA InitStops == Init => SInv
<1> SUFFICES ASSUME Init PROVE SInv
  OBVIOUS
<1>1. queue.items = <<>> /\ queue.dropped = {}
  BY DEF Init, EmptyQueue
<1>2. Msgs(<<>>) = {} /\ NoBacklog(<<>>) /\ Distinct(<<>>)
  BY DEF Msgs, NoBacklog, Distinct
<1>3. \A w \in Workers : wpc[w] = "idle" /\ job[w] = NoJob
  BY DEF Init
<1>4. PlainJob(NoJob) /\ Msgs(NoJob.items) = {} /\ Carries("idle", NoJob) = {}
  BY <1>2 DEF PlainJob, NoJob, Carries
<1>5. PlainWork
  BY <1>1, <1>2, <1>3, <1>4 DEF PlainWork
<1>6. OnePlace
  BY <1>1, <1>2, <1>3, <1>4 DEF Init, OnePlace, Carried, InAJob
<1>7. HaltedGone
  BY <1>1, <1>2 DEF HaltedGone
<1> QED
  BY <1>5, <1>6, <1>7 DEF SInv

LEMMA NextStops ==
    ASSUME QueuedOnce, IInv, DInv, KInv, SInv, [Next]_vars
    PROVE  SInv' /\ ~Restarts
<1>1. CASE UNCHANGED vars
  <2>1. UNCHANGED <<queue, wpc, job, fate, hpc, halted, stopPc>>
    BY <1>1 DEF vars
  <2>2. SInv'
    BY <2>1 DEF SInv, PlainWork, OnePlace, HaltedGone, Carried, InAJob, Draws
  <2>3. ~Restarts
    BY <2>1 DEF Restarts
  <2> QED
    BY <2>2, <2>3
<1>2. CASE Next
  BY <1>2, HandlerStops, RunStops, DrainStops, BeatStops, StopStops DEF Next
<1> QED
  BY <1>1, <1>2

\* What a stop takes away stays away: the messages in the room when a stop or reset of it
\* is requested are out of the queue when that is over, and a message whose sender was told
\* "Stopped." never starts afterwards.  So it is for every number of messages, handlers,
\* drainers and stops, in a session without the mode that puts a message back and the
\* policy that plans a summary in the name of a queued item.
THEOREM SpecStopIsFinal == QueuedOnce => (Spec => StopIsFinal)
<1> SUFFICES ASSUME QueuedOnce PROVE Spec => StopIsFinal
  OBVIOUS
<1>1. Init => SInv
  BY InitStops
<1>2. (IInv /\ DInv /\ OInv /\ KInv) /\ SInv /\ [Next]_vars => SInv' /\ StoppedNeverStarts
  BY NextStops DEF Restarts, StoppedNeverStarts
<1>3. SInv => StopClearsQueue
  BY DEF SInv, HaltedGone, Draws, StopClearsQueue, Queued
<1>4. Spec => [][StopClearsQueue' /\ StoppedNeverStarts]_vars
  BY SpecKInv, <1>1, <1>2, <1>3, PTL DEF Spec
<1> QED
  BY <1>4 DEF StopIsFinal
=============================================================================
