---------------------------- MODULE RoomDispatch ----------------------------
(***************************************************************************)
(* How the AI bridge serialises the work of one room (bridges/ai/client.go,*)
(* room_runs.go, pending_queue.go, internal_dispatch.go, abort_helpers.go).*)
(*                                                                         *)
(* Concurrent goroutines meet on four pieces of shared state, each behind  *)
(* a lock of its own: the activeRooms flag, the attached roomRunState, the *)
(* streaming flag and steer queue inside it, and the pending queue.  An    *)
(* action below is one critical section; what the code does between two    *)
(* sections (database and Matrix I/O) is where other goroutines run.       *)
(*                                                                         *)
(* Three kinds of goroutine go by those rules: the handler of a message    *)
(* (hpc), a worker that is either a run of the agent or a drainer of the   *)
(* pending queue (wpc), and the user's stop and reset commands (stopPc).   *)
(* A fourth does not: the loop of a heartbeat (bpc, heartbeat_execute.go)  *)
(* looks whether anything is in flight and then runs in the room without   *)
(* acquiring it or attaching a run, yet finds the attached run through the *)
(* room like everybody else.                                               *)
(***************************************************************************)
EXTENDS PendingQueue, FiniteSets

CONSTANTS
    Internal,       \* messages sent by dispatchInternalMessage
    TextMessages,   \* messages whose pending type is text
    Modes,          \* queue modes the session is switched between
    Workers,        \* goroutines: runs and drainers, reused once they end
    Beats,          \* goroutines: heartbeats that speak in the room
    NoRun,          \* no roomRunState is attached
    MayFail,        \* building a queued prompt may fail
    MaxStops,       \* bound: stop and reset commands
    MaxAttempts     \* bound: agent-loop attempts of one run

ASSUME ModesAssumption == Modes \subseteq AllModes
ASSUME NoRunAssumption == NoRun \notin Workers
ASSUME MayFailAssumption == MayFail \in BOOLEAN
ASSUME BoundsAssumption == MaxStops \in Nat /\ MaxAttempts \in Nat \ {0}

VARIABLES
    active,     \* activeRooms[room]
    run,        \* the worker whose roomRunState is activeRoomRuns[room]
    runState,   \* per worker: its roomRunState
    queue,      \* pendingQueues[room]
    hpc,        \* per message: where its handler is
    hmode,      \* per message: the queue mode its handler resolved
    wpc,        \* per worker: where the goroutine is
    job,        \* per worker: the dispatch it prepares or runs
    stopPc,     \* the stop or reset command under way
    target,     \* the messages of the turn a stop by reply resolved to
    stops,      \* commands so far
    alive,      \* the process has not panicked
    fate,       \* history: what has become of each message
    answer,     \* history: what the handler told the sender
    ahead,      \* history: messages queued when a handler started
    halted,     \* history: messages in the room when a stop was requested
    bpc         \* per heartbeat: where its goroutine is

vars == <<active, run, runState, queue, hpc, hmode, wpc, job, stopPc, target,
          stops, alive, fate, answer, ahead, halted, bpc>>

stopVars == <<stopPc, target, stops>>

HandlerPcs == {"new", "checkQueue", "cancel", "clear", "acquire", "attach",
               "recheck", "steer", "enqueue", "done"}
RunPcs     == {"run", "stream", "requeue", "release"}
DrainPcs   == {"take", "consume", "pop", "build", "dispatch", "undo",
               "failRelease"}
WorkerPcs  == RunPcs \cup DrainPcs \cup
              {"idle", "kick", "snapshot", "debounce", "reserve", "failKick",
               "unmark"}
BeatPcs    == {"idle", "checkQueue", "run", "stream"}
StopPcs    == {"idle", "roomCancel", "roomDrain", "turnMark", "turnCancel",
               "resetCancel"}
Fates      == {"ran", "steered", "stopped", "dropped", "failed",
               "unsummarised"}
Answers    == {"none", "accepted", "rejected"}

Kinds == {"direct", "single", "collect", "synthetic"}
Job   == [kind : Kinds, items : Seq(Item), summary : SUBSET Messages,
          count : Nat]
PlainItem(m) == [msg |-> m, backlogAfter |-> FALSE, allowDuplicate |-> FALSE]
DirectJob(m) == [kind |-> "direct", items |-> <<PlainItem(m)>>,
                 summary |-> {}, count |-> 0]
NoJob == [kind |-> "direct", items |-> <<>>, summary |-> {}, count |-> 0]

\* The turn field says whose turn bindRoomRunState has written last into the
\* state: that of the run itself, or that of a heartbeat.
RunState == [streaming : BOOLEAN, cancelled : BOOLEAN, steer : Seq(Item),
             attempts : Nat, turn : {"none", "own", "beat"}]
FreshRun == [streaming |-> FALSE, cancelled |-> FALSE, steer |-> <<>>,
             attempts |-> 0, turn |-> "none"]

-----------------------------------------------------------------------------
(* Who holds the room, and where a message is.                             *)

HandlerHolds(m) == hpc[m] = "attach"
Running(w)      == wpc[w] \in RunPcs
Draining(w)     == wpc[w] \in DrainPcs
WorkerHolds(w)  == Running(w) \/ Draining(w)

Originals  == {i \in DOMAIN queue.items : ~queue.items[i].allowDuplicate}
Queued     == Msgs(queue.items)
InHand(w)  == Msgs(job[w].items)
Steering   == IF run = NoRun THEN {} ELSE Msgs(runState[run].steer)

\* The messages whose content a job puts before the model: a synthetic job
\* speaks of the dropped messages only (preparePendingQueueDispatchCandidate).
IsSynthetic(j) == j.kind = "synthetic" /\ j.summary # {}
Prompted(j)    == IF IsSynthetic(j) THEN j.summary ELSE Msgs(j.items) \cup j.summary

\* The item a candidate is dispatched as: the last one of the batch.
Lead(j) == Last(j.items)

\* The deferred requeue of dispatchQueuedPrompt.
Requeues(j) == j.kind # "direct" /\ ~IsSynthetic(j) /\ Lead(j).backlogAfter

Record(msgs, f) == [m \in Messages |-> IF m \in msgs THEN fate[m] \cup {f} ELSE fate[m]]

\* The mode of a handler that does not run: a value like any other.
NoMode == CHOOSE mode \in AllModes : TRUE

-----------------------------------------------------------------------------
Init ==
    /\ active = FALSE
    /\ run = NoRun
    /\ runState = [w \in Workers |-> FreshRun]
    /\ queue = EmptyQueue
    /\ hpc = [m \in Messages |-> "new"]
    /\ hmode = [m \in Messages |-> NoMode]
    /\ wpc = [w \in Workers |-> "idle"]
    /\ job = [w \in Workers |-> NoJob]
    /\ stopPc = "idle"
    /\ target = {}
    /\ stops = 0
    /\ alive = TRUE
    /\ fate = [m \in Messages |-> {}]
    /\ answer = [m \in Messages |-> "none"]
    /\ ahead = [m \in Messages |-> {}]
    /\ halted = {}
    /\ bpc = [b \in Beats |-> "idle"]

\* A goroutine is at a point of its code, in a process that is alive.
HandlerAt(m, pc) == alive /\ hpc[m] = pc
WorkerAt(w, pc)  == alive /\ wpc[w] = pc
StopAt(pc)       == alive /\ stopPc = pc
BeatAt(b, pc)    == alive /\ bpc[b] = pc

HandlerGoes(m, pc) == hpc' = [hpc EXCEPT ![m] = pc]
\* The handler is done, and what it remembered is forgotten.
HandlerReturns(m) ==
    /\ HandlerGoes(m, "done")
    /\ hmode' = [hmode EXCEPT ![m] = NoMode]
    /\ ahead' = [ahead EXCEPT ![m] = {}]

WorkerGoes(w, pc)  == wpc' = [wpc EXCEPT ![w] = pc]
BeatGoes(b, pc)    == bpc' = [bpc EXCEPT ![b] = pc]
Answer(m, a)       == answer' = [answer EXCEPT ![m] = a]

-----------------------------------------------------------------------------
(* Operations shared by several goroutines.                                *)

\* Mutants: the test of acquireRoom is lost; releaseRoom forgets the run.
RoomFree_Unchecked == TRUE
ReleaseRoom_FlagOnly == active' = FALSE /\ UNCHANGED <<run, runState>>

\* acquireRoom succeeds.
RoomFree == ~active

\* releaseRoom with clearRoomRun: whatever run is attached is cancelled and
\* detached, and as nothing leads to its state any more the rest is forgotten.
ReleaseRoom ==
    /\ active' = FALSE
    /\ run' = NoRun
    /\ runState' = [w \in Workers |->
                      IF w = run THEN [FreshRun EXCEPT !.cancelled = TRUE]
                      ELSE runState[w]]

\* attachRoomRun and the go statement after it: worker w runs job j.
AttachRun(w, j) ==
    /\ run' = w
    /\ runState' = [runState EXCEPT ![w] = FreshRun]
    /\ fate' = Record(Prompted(j), "ran")

\* cancelRoomRun.
CancelRun ==
    runState' = [w \in Workers |->
                   IF w = run THEN [runState[w] EXCEPT !.cancelled = TRUE]
                   ELSE runState[w]]

\* Mutant: the senders are told, the queue stays.
ClearPendingQueue_Told ==
    /\ fate' = Record(Queued, "stopped")
    /\ UNCHANGED queue

\* clearPendingQueue: drainPendingQueue and finalizeStoppedQueueItems.  What
\* was to be summarised goes with the queue, and nobody is told.
ClearPendingQueue ==
    /\ queue' = EmptyQueue
    /\ fate' = [m \in Messages |->
                   fate[m] \cup (IF m \in Queued THEN {"stopped"} ELSE {})
                           \cup (IF m \in queue.dropped THEN {"unsummarised"} ELSE {})]

\* getSteeringMessages, called after a tool call: what was steered into the
\* room's run so far becomes part of the caller's prompt.
TakeSteering ==
    /\ run # NoRun /\ runState[run].steer # <<>>
    /\ runState' = [runState EXCEPT ![run].steer = <<>>]
    /\ fate' = Record(Steering, "steered")

\* queuePendingMessage: the fate of what the drop policy evicts is settled.
QueuePending(item, mode) ==
    /\ queue' = Enqueue(queue, item, mode)
    /\ fate' = Record(Msgs(Evicted(queue, item)), "dropped")

-----------------------------------------------------------------------------
(* dispatchOrQueueCore and dispatchInternalMessage: the handler of m.      *)

AfterBusyCheck(m, mode, busy) ==
    IF busy THEN CASE mode = "interrupt" -> "cancel"
                   [] Steers(mode) /\ m \in TextMessages -> "steer"
                   [] OTHER -> "enqueue"
    ELSE "acquire"

\* roomHasActiveRun; an internal message goes straight to acquireRoom.
BeginHandler(m) ==
    /\ HandlerAt(m, "new")
    /\ \E mode \in Modes :
         /\ hmode' = [hmode EXCEPT ![m] = mode]
         /\ HandlerGoes(m, IF m \in Internal THEN "acquire"
                           ELSE IF active THEN AfterBusyCheck(m, mode, TRUE)
                           ELSE "checkQueue")
    /\ ahead' = [ahead EXCEPT ![m] = {queue.items[i].msg : i \in Originals}]
    /\ UNCHANGED <<active, run, runState, queue, wpc, job, stopVars,
                   alive, fate, answer, halted, bpc>>

\* Mutant: queued work does not make the room busy.
HasPendingWork_Never == FALSE

\* roomHasPendingQueueWork (a queue that is being drained is not empty).
HasPendingWork == ~IsEmpty(queue)

\* The second half of the busy check, when no run was active.
CheckQueue(m) ==
    /\ HandlerAt(m, "checkQueue")
    /\ HandlerGoes(m, AfterBusyCheck(m, hmode[m], HasPendingWork))
    /\ UNCHANGED <<active, run, runState, queue, hmode, wpc, job, stopVars,
                    alive, fate, answer, ahead, halted, bpc>>

\* Interrupt mode cancels the run ...
InterruptCancel(m) ==
    /\ HandlerAt(m, "cancel")
    /\ CancelRun
    /\ HandlerGoes(m, "clear")
    /\ UNCHANGED <<active, run, queue, hmode, wpc, job, stopVars, alive,
                   fate, answer, ahead, halted, bpc>>

\* ... and clears the queue; a user message then tries to run at once.
InterruptClear(m) ==
    /\ HandlerAt(m, "clear")
    /\ ClearPendingQueue
    /\ HandlerGoes(m, IF m \in Internal THEN "enqueue" ELSE "acquire")
    /\ UNCHANGED <<active, run, runState, hmode, wpc, job, stopVars,
                   alive, answer, ahead, halted, bpc>>

\* acquireRoom.
HandlerAcquire(m) ==
    /\ HandlerAt(m, "acquire")
    /\ active' = TRUE
    /\ HandlerGoes(m, IF RoomFree THEN "attach"
                      ELSE IF m \in Internal THEN "recheck"
                      ELSE IF Steers(hmode[m]) /\ m \in TextMessages THEN "steer"
                      ELSE "enqueue")
    /\ UNCHANGED <<run, runState, queue, hmode, wpc, job, stopVars,
                   alive, fate, answer, ahead, halted, bpc>>

\* attachRoomRun, then the run's goroutine starts.
HandlerAttach(m, w) ==
    /\ HandlerAt(m, "attach")
    /\ WorkerAt(w, "idle")
    /\ AttachRun(w, DirectJob(m))
    /\ job' = [job EXCEPT ![w] = DirectJob(m)]
    /\ WorkerGoes(w, "run")
    /\ HandlerReturns(m)
    /\ Answer(m, "accepted")
    /\ UNCHANGED <<active, queue, stopVars, alive, halted, bpc>>

\* An internal message that found the room taken decides afresh.
Recheck(m) ==
    /\ HandlerAt(m, "recheck")
    /\ HandlerGoes(m, CASE active /\ hmode[m] = "interrupt" -> "cancel"
                        [] Steers(hmode[m]) /\ m \in TextMessages -> "steer"
                        [] OTHER -> "enqueue")
    /\ UNCHANGED <<active, run, runState, queue, hmode, wpc, job, stopVars,
                    alive, fate, answer, ahead, halted, bpc>>

\* enqueueSteerQueue accepts the message.
Steer(m) ==
    LET item == PlainItem(m)
    IN  /\ HandlerAt(m, "steer")
        /\ run # NoRun
        /\ runState[run].streaming
        /\ ~Conflicts(item, runState[run].steer)
        /\ runState' = [runState EXCEPT ![run].steer = Append(@, item)]
        /\ IF FollowsUp(hmode[m])
           THEN HandlerGoes(m, "enqueue") /\ UNCHANGED <<hmode, answer, ahead>>
           ELSE HandlerReturns(m) /\ Answer(m, "accepted")
        /\ UNCHANGED <<active, run, queue, wpc, job, stopVars,
                       alive, fate, halted, bpc>>

\* Mutant: the missing run is forgotten.
SteerRefused_NeedsRun(m) ==
    /\ HandlerAt(m, "steer")
    /\ run # NoRun /\ ~runState[run].streaming
    /\ HandlerGoes(m, "enqueue")
    /\ UNCHANGED <<active, run, runState, queue, hmode, wpc, job, stopVars,
                   alive, fate, answer, ahead, halted, bpc>>

\* enqueueSteerQueue refuses it: no run, or none that streams.
SteerRefused(m) ==
    /\ HandlerAt(m, "steer")
    /\ run # NoRun => ~runState[run].streaming
    /\ HandlerGoes(m, "enqueue")
    /\ UNCHANGED <<active, run, runState, queue, hmode, wpc, job, stopVars,
                    alive, fate, answer, ahead, halted, bpc>>

\* queuePendingMessage; only a user message reports a refusal.
HandlerEnqueue(m) ==
    LET item == [PlainItem(m) EXCEPT !.backlogAfter = BacklogsAfter(hmode[m])]
    IN  /\ HandlerAt(m, "enqueue")
        /\ QueuePending(item, hmode[m])
        /\ Answer(m, IF Admits(queue, item) \/ m \in Internal
                     THEN "accepted" ELSE "rejected")
        /\ HandlerReturns(m)
        /\ UNCHANGED <<active, run, runState, wpc, job, stopVars,
                       alive, halted, bpc>>

-----------------------------------------------------------------------------
(* The run: dispatchCompletionInternal and the deferred calls after it.    *)

\* runAgentLoop begins an attempt, binds its turn to the room's run and marks
\* that run as streaming.
RunStream(w) ==
    /\ WorkerAt(w, "run")
    /\ runState[w].attempts < MaxAttempts
    /\ WorkerGoes(w, "stream")
    /\ runState' = [runState EXCEPT ![w].attempts = @ + 1,
                                    ![run].streaming = TRUE,
                                    ![run].turn = "own"]
    /\ UNCHANGED <<active, run, queue, hpc, hmode, job, stopVars, alive,
                   fate, answer, ahead, halted, bpc>>

RunTakeSteering(w) ==
    /\ WorkerAt(w, "stream")
    /\ TakeSteering
    /\ UNCHANGED <<active, run, queue, hpc, hmode, wpc, job, stopVars,
                   alive, answer, ahead, halted, bpc>>

\* runAgentLoop returns; a context overflow may lead to another attempt.
RunStreamEnd(w) ==
    /\ WorkerAt(w, "stream")
    /\ WorkerGoes(w, "run")
    /\ runState' = [runState EXCEPT ![run].streaming = FALSE]
    /\ UNCHANGED <<active, run, queue, hpc, hmode, job, stopVars, alive,
                   fate, answer, ahead, halted, bpc>>

\* dispatchCompletionInternal returns, for whatever reason.
RunEnd(w) ==
    /\ WorkerAt(w, "run")
    /\ WorkerGoes(w, IF Requeues(job[w]) THEN "requeue" ELSE "release")
    /\ UNCHANGED <<active, run, runState, queue, hpc, hmode, job, stopVars,
                    alive, fate, answer, ahead, halted, bpc>>

\* A run that came from the queue in steer+backlog mode queues its message
\* once more, under the settings of that moment.
RunRequeue(w) ==
    /\ WorkerAt(w, "requeue")
    /\ \E mode \in Modes :
         QueuePending([Lead(job[w]) EXCEPT !.backlogAfter = FALSE,
                                           !.allowDuplicate = TRUE], mode)
    /\ WorkerGoes(w, "release")
    /\ UNCHANGED <<active, run, runState, hpc, hmode, job, stopVars,
                   alive, answer, ahead, halted, bpc>>

RunRelease(w) ==
    /\ WorkerAt(w, "release")
    /\ ReleaseRoom
    /\ WorkerGoes(w, "kick")
    /\ job' = [job EXCEPT ![w] = NoJob]
    /\ UNCHANGED <<queue, hpc, hmode, stopVars, alive, fate, answer,
                   ahead, halted, bpc>>

\* processPendingQueue up to its go statement: markQueueDraining.
MarksDraining == ~IsEmpty(queue) /\ ~queue.draining

RunKick(w) ==
    /\ WorkerAt(w, "kick")
    /\ queue' = [queue EXCEPT !.draining = @ \/ MarksDraining]
    /\ WorkerGoes(w, IF MarksDraining THEN "snapshot" ELSE "idle")
    /\ UNCHANGED <<active, run, runState, hpc, hmode, job, stopVars,
                   alive, fate, answer, ahead, halted, bpc>>

-----------------------------------------------------------------------------
(* The heartbeat: runHeartbeatOnce and the goroutine it starts.            *)

NotOfBeats == <<active, run, queue, hpc, hmode, wpc, job, stopVars, alive,
                answer, ahead, halted>>

\* hasInflightRequests: no room is active ...
BeatCheckRoom(b) ==
    /\ BeatAt(b, "idle")
    /\ ~active
    /\ BeatGoes(b, "checkQueue")
    /\ UNCHANGED <<runState, fate, NotOfBeats>>

\* ... and, under another lock, nothing is pending: the loop is started.
BeatCheckQueue(b) ==
    /\ BeatAt(b, "checkQueue")
    /\ IsEmpty(queue)
    /\ BeatGoes(b, "run")
    /\ UNCHANGED <<runState, fate, NotOfBeats>>

\* Skipped: something is in flight, here or in another room, or one of the
\* later conditions does not hold.
BeatSkips(b) ==
    /\ BeatAt(b, "checkQueue")
    /\ BeatGoes(b, "idle")
    /\ UNCHANGED <<runState, fate, NotOfBeats>>

\* runAgentLoop: an attempt binds and marks whatever run the room has by now.
BeatStream(b) ==
    /\ BeatAt(b, "run")
    /\ BeatGoes(b, "stream")
    /\ runState' = [w \in Workers |->
                      IF w = run THEN [runState[w] EXCEPT !.streaming = TRUE,
                                                          !.turn = "beat"]
                      ELSE runState[w]]
    /\ UNCHANGED <<fate, NotOfBeats>>

\* What was steered into a user's run goes into the heartbeat's prompt.
BeatTakeSteering(b) ==
    /\ BeatAt(b, "stream")
    /\ TakeSteering
    /\ UNCHANGED <<bpc, NotOfBeats>>

\* The attempt is over, and so is the streaming mark of the room's run.
BeatStreamEnd(b) ==
    /\ BeatAt(b, "stream")
    /\ BeatGoes(b, "run")
    /\ runState' = [w \in Workers |->
                      IF w = run THEN [runState[w] EXCEPT !.streaming = FALSE]
                      ELSE runState[w]]
    /\ UNCHANGED <<fate, NotOfBeats>>

\* runAgentLoopWithRetry returns: there is no room to give back.
BeatEnd(b) ==
    /\ BeatAt(b, "run")
    /\ BeatGoes(b, "idle")
    /\ UNCHANGED <<runState, fate, NotOfBeats>>

-----------------------------------------------------------------------------
(* The drainer: the goroutine of processPendingQueue.                      *)

Unmoved == <<hpc, hmode, stopVars, answer, ahead, halted, bpc>>

\* A queue whose debounce is zero is not waited for.
DrainSnapshot(w) ==
    /\ WorkerAt(w, "snapshot")
    /\ \E pc \in {"debounce", "reserve"} :
         WorkerGoes(w, IF IsEmpty(queue) THEN "unmark" ELSE pc)
    /\ UNCHANGED <<active, run, runState, queue, job, alive, fate, Unmoved>>

\* The last look at the queue before the debounce window is over.
DrainDebounce(w) ==
    /\ WorkerAt(w, "debounce")
    /\ WorkerGoes(w, IF IsEmpty(queue) THEN "unmark" ELSE "reserve")
    /\ UNCHANGED <<active, run, runState, queue, job, alive, fate, Unmoved>>

DrainAcquire(w) ==
    /\ WorkerAt(w, "reserve")
    /\ active' = TRUE
    /\ WorkerGoes(w, IF RoomFree THEN "take" ELSE "unmark")
    /\ UNCHANGED <<run, runState, queue, job, alive, fate, Unmoved>>

\* takePendingQueueDispatchCandidate decides on a snapshot of the queue.
Plan(kind, items, count) ==
    [kind |-> kind, items |-> items, summary |-> {}, count |-> count]

TakeNothing(w) ==
    /\ WorkerAt(w, "take")
    /\ IsEmpty(queue)
    /\ WorkerGoes(w, "undo")
    /\ UNCHANGED <<active, run, runState, queue, job, alive, fate, Unmoved>>

TakeCollect(w) ==
    /\ WorkerAt(w, "take")
    /\ Collects(queue.mode) /\ queue.items # <<>>
    /\ job' = [job EXCEPT ![w] = Plan("collect", <<>>, CollectCount(queue.items))]
    /\ WorkerGoes(w, IF queue.dropped # {} THEN "consume" ELSE "pop")
    /\ UNCHANGED <<active, run, runState, queue, alive, fate, Unmoved>>

\* A summary of dropped messages goes out in the name of lastItem, or of
\* snapshot.items[0]: with neither there, indexing the empty slice panics.
TakeSummary(w) ==
    /\ WorkerAt(w, "take")
    /\ queue.dropped # {}
    /\ Collects(queue.mode) => queue.items = <<>>
    /\ IF queue.items = <<>>
       THEN alive' = FALSE /\ UNCHANGED <<job, wpc>>
       ELSE /\ job' = [job EXCEPT ![w] = Plan("synthetic",
                         IF queue.last # <<>> THEN queue.last
                         ELSE <<Head(queue.items)>>, 0)]
            /\ WorkerGoes(w, "consume")
            /\ UNCHANGED alive
    /\ UNCHANGED <<active, run, runState, queue, fate, Unmoved>>

TakeSingle(w) ==
    /\ WorkerAt(w, "take")
    /\ ~Collects(queue.mode) /\ queue.dropped = {} /\ queue.items # <<>>
    /\ job' = [job EXCEPT ![w] = Plan("single", <<>>, 1)]
    /\ WorkerGoes(w, "pop")
    /\ UNCHANGED <<active, run, runState, queue, alive, fate, Unmoved>>

\* consumeQueueSummary, in a critical section of its own.
DrainConsume(w) ==
    /\ WorkerAt(w, "consume")
    /\ job' = [job EXCEPT ![w].summary = queue.dropped]
    /\ queue' = ConsumeSummary(queue)
    /\ WorkerGoes(w, IF job[w].kind = "collect" THEN "pop" ELSE "build")
    /\ UNCHANGED <<active, run, runState, alive, fate, Unmoved>>

\* popQueueItems, in another: a queue emptied in between leaves no candidate,
\* and the summary taken for it is gone.
DrainPop(w) ==
    LET items == Popped(queue, job[w].count)
    IN  /\ WorkerAt(w, "pop")
        /\ queue' = Pop(queue, job[w].count)
        /\ job' = [job EXCEPT ![w] = IF items = <<>> THEN NoJob
                                     ELSE [@ EXCEPT !.items = items, !.count = 0]]
        /\ fate' = Record(IF items = <<>> THEN job[w].summary ELSE {}, "unsummarised")
        /\ WorkerGoes(w, IF items = <<>> THEN "undo" ELSE "build")
        /\ UNCHANGED <<active, run, runState, alive, Unmoved>>

\* The prompt is built ...
DrainBuild(w) ==
    /\ WorkerAt(w, "build")
    /\ WorkerGoes(w, "dispatch")
    /\ UNCHANGED <<active, run, runState, queue, job, alive, fate, Unmoved>>

\* ... or cannot be: notifyMatrixSendFailure tells the sender of the item.
DrainBuildFails(w) ==
    /\ WorkerAt(w, "build")
    /\ MayFail
    /\ LET told == IF IsSynthetic(job[w]) THEN {} ELSE {Lead(job[w]).msg}
       IN  fate' = [m \in Messages |->
                      fate[m] \cup (IF m \in told THEN {"failed"} ELSE {})
                              \cup (IF m \in job[w].summary THEN {"unsummarised"} ELSE {})]
    /\ job' = [job EXCEPT ![w] = NoJob]
    /\ WorkerGoes(w, "failRelease")
    /\ UNCHANGED <<active, run, runState, queue, alive, Unmoved>>

DrainFailRelease(w) ==
    /\ WorkerAt(w, "failRelease")
    /\ ReleaseRoom
    /\ WorkerGoes(w, "failKick")
    /\ UNCHANGED <<queue, job, alive, fate, Unmoved>>

\* processPendingQueue is called again while this drainer's mark is still
\* set: v starts only if the queue was replaced in the meantime.
DrainFailKick(w, v) ==
    /\ WorkerAt(w, "failKick")
    /\ wpc[v] = "idle"
    /\ queue' = [queue EXCEPT !.draining = @ \/ MarksDraining]
    /\ wpc' = [wpc EXCEPT ![w] = "unmark",
                          ![v] = IF MarksDraining THEN "snapshot" ELSE "idle"]
    /\ UNCHANGED <<active, run, runState, job, alive, fate, Unmoved>>

\* dispatchQueuedPrompt: v runs the job.
DrainDispatch(w, v) ==
    /\ WorkerAt(w, "dispatch")
    /\ wpc[v] = "idle"
    /\ AttachRun(v, job[w])
    /\ job' = [job EXCEPT ![v] = job[w], ![w] = NoJob]
    /\ wpc' = [wpc EXCEPT ![w] = "unmark", ![v] = "run"]
    /\ UNCHANGED <<active, queue, alive, Unmoved>>

\* No candidate: the room is released and nothing is kicked.
DrainUndo(w) ==
    /\ WorkerAt(w, "undo")
    /\ ReleaseRoom
    /\ WorkerGoes(w, "unmark")
    /\ UNCHANGED <<queue, job, alive, fate, Unmoved>>

\* Mutant: the mark is only cleared with the queue.
ClearDraining_Lazy(q) == q

\* clearQueueDraining.
ClearDraining(q) == Settle([q EXCEPT !.draining = FALSE])

\* ... deferred to the end of every path.
DrainUnmark(w) ==
    /\ WorkerAt(w, "unmark")
    /\ queue' = ClearDraining(queue)
    /\ WorkerGoes(w, "idle")
    /\ UNCHANGED <<active, run, runState, job, alive, fate, Unmoved>>

-----------------------------------------------------------------------------
(* executeUserStopPlan and the reset command.                              *)

MayStop == StopAt("idle") /\ stops < MaxStops

\* Everything in the room that a stop is about: queued, picked up for a
\* run, or running.
InRoom == Queued \cup {m \in Messages : HandlerHolds(m)}
                 \cup UNION {InHand(w) : w \in Workers}

\* A room-wide stop marks the attached run, if there is one ...
StopRoom ==
    /\ MayStop
    /\ stops' = stops + 1
    /\ stopPc' = IF run = NoRun THEN "roomDrain" ELSE "roomCancel"
    /\ halted' = halted \cup InRoom
    /\ UNCHANGED <<active, run, runState, queue, hpc, hmode, wpc, job, target,
                   alive, fate, answer, ahead, bpc>>

\* ... cancels it ...
StopRoomCancel ==
    /\ StopAt("roomCancel")
    /\ CancelRun
    /\ stopPc' = "roomDrain"
    /\ UNCHANGED <<active, run, queue, hpc, hmode, wpc, job, target, stops,
                   alive, fate, answer, ahead, halted, bpc>>

\* ... and drains the queue.
StopRoomDrain ==
    /\ StopAt("roomDrain")
    /\ ClearPendingQueue
    /\ stopPc' = "idle"
    /\ UNCHANGED <<active, run, runState, hpc, hmode, wpc, job, target, stops,
                   alive, answer, ahead, halted, bpc>>

\* The event a run answers; internal and synthetic runs answer none.
Source(w) == IF IsSynthetic(job[w]) THEN {} ELSE {Lead(job[w]).msg} \ Internal

\* A stop that replies to a turn's source or placeholder: resolveUserStopPlan
\* finds it to be the turn bound to the attached run, be it a heartbeat's ...
StopTurn ==
    /\ MayStop
    /\ run # NoRun /\ runState[run].turn # "none"
    /\ stops' = stops + 1
    /\ stopPc' = "turnMark"
    /\ target' = IF runState[run].turn = "own" THEN Prompted(job[run]) ELSE {}
    /\ UNCHANGED <<active, run, runState, queue, hpc, hmode, wpc, job, alive,
                   fate, answer, ahead, halted, bpc>>

\* ... executeUserStopPlan marks whatever run the room has by then ...
StopTurnMark ==
    /\ StopAt("turnMark")
    /\ stopPc' = IF run = NoRun THEN "idle" ELSE "turnCancel"
    /\ target' = IF run = NoRun THEN {} ELSE target
    /\ UNCHANGED <<active, run, runState, queue, hpc, hmode, wpc, job, stops,
                   alive, fate, answer, ahead, halted, bpc>>

\* ... and cancels it.
StopTurnCancel ==
    /\ StopAt("turnCancel")
    /\ CancelRun
    /\ stopPc' = "idle"
    /\ target' = {}
    /\ UNCHANGED <<active, run, queue, hpc, hmode, wpc, job, stops, alive,
                   fate, answer, ahead, halted, bpc>>

\* A stop that replies to a message which is not running takes it out of
\* the queue.
StopQueued(m) ==
    /\ MayStop
    /\ m \in Queued \ Internal
    /\ run # NoRun /\ runState[run].turn = "own" => m \notin Source(run)
    /\ stops' = stops + 1
    /\ queue' = RemoveSource(queue, m)
    /\ fate' = Record({m}, "stopped")
    /\ UNCHANGED <<active, run, runState, hpc, hmode, wpc, job, stopPc, target,
                   alive, answer, ahead, halted, bpc>>

\* The reset command clears the queue first and cancels the run second.
Reset ==
    /\ MayStop
    /\ stops' = stops + 1
    /\ ClearPendingQueue
    /\ stopPc' = "resetCancel"
    /\ halted' = halted \cup InRoom
    /\ UNCHANGED <<active, run, runState, hpc, hmode, wpc, job, target, alive,
                   answer, ahead, bpc>>

ResetCancel ==
    /\ StopAt("resetCancel")
    /\ CancelRun
    /\ stopPc' = "idle"
    /\ UNCHANGED <<active, run, queue, hpc, hmode, wpc, job, target, stops,
                   alive, fate, answer, ahead, halted, bpc>>

-----------------------------------------------------------------------------
HandlerStep(m) ==
    \/ CheckQueue(m) \/ InterruptCancel(m) \/ InterruptClear(m)
    \/ HandlerAcquire(m) \/ (\E w \in Workers : HandlerAttach(m, w))
    \/ Recheck(m) \/ Steer(m) \/ SteerRefused(m) \/ HandlerEnqueue(m)

RunStep(w) ==
    \/ RunStream(w) \/ RunTakeSteering(w) \/ RunStreamEnd(w) \/ RunEnd(w)
    \/ RunRequeue(w) \/ RunRelease(w) \/ RunKick(w)

BeatStep(b) ==
    \/ BeatCheckRoom(b) \/ BeatCheckQueue(b) \/ BeatSkips(b)
    \/ BeatStream(b) \/ BeatTakeSteering(b) \/ BeatStreamEnd(b) \/ BeatEnd(b)

DrainStep(w) ==
    \/ DrainSnapshot(w) \/ DrainDebounce(w) \/ DrainAcquire(w)
    \/ TakeNothing(w) \/ TakeCollect(w) \/ TakeSummary(w) \/ TakeSingle(w)
    \/ DrainConsume(w) \/ DrainPop(w) \/ DrainBuild(w)
    \/ DrainBuildFails(w) \/ DrainFailRelease(w)
    \/ (\E v \in Workers : DrainFailKick(w, v) \/ DrainDispatch(w, v))
    \/ DrainUndo(w) \/ DrainUnmark(w)

StopContinues == StopRoomCancel \/ StopRoomDrain \/ StopTurnMark
                 \/ StopTurnCancel \/ ResetCancel

StopBegins == StopRoom \/ Reset \/ StopTurn
              \/ (\E m \in Messages : StopQueued(m))

Next ==
    \/ \E m \in Messages : BeginHandler(m) \/ HandlerStep(m)
    \/ \E w \in Workers : RunStep(w) \/ DrainStep(w)
    \/ \E b \in Beats : BeatStep(b)
    \/ StopBegins
    \/ StopContinues

Spec == Init /\ [][Next]_vars

(***************************************************************************)
(* Go's scheduler runs every goroutine that can run, and model calls end:  *)
(* a stalled agent loop is cut off by its inactivity timeout.  Nothing     *)
(* makes users send messages or stop, and nothing is asked of heartbeats.  *)
(***************************************************************************)
Fairness ==
    /\ \A m \in Messages : WF_vars(HandlerStep(m))
    /\ \A w \in Workers : WF_vars(RunStep(w) \/ DrainStep(w))
    /\ WF_vars(StopContinues)

FairSpec == Spec /\ Fairness

-----------------------------------------------------------------------------
(* Properties.                                                             *)

\* Every variable keeps its type, and a queue that holds nothing is the
\* deleted one.
ControlTypeOK ==
    /\ active \in BOOLEAN
    /\ run \in Workers \cup {NoRun}
    /\ hpc \in [Messages -> HandlerPcs]
    /\ hmode \in [Messages -> AllModes]
    /\ wpc \in [Workers -> WorkerPcs]
    /\ stopPc \in StopPcs
    /\ stops \in Nat
    /\ alive \in BOOLEAN

BeatTypeOK == bpc \in [Beats -> BeatPcs]

DataTypeOK ==
    /\ target \in SUBSET Messages
    /\ runState \in [Workers -> RunState]
    /\ queue \in Queue /\ (IsEmpty(queue) => queue = EmptyQueue)
    /\ job \in [Workers -> Job]
    /\ fate \in [Messages -> SUBSET Fates]
    /\ answer \in [Messages -> Answers]
    /\ ahead \in [Messages -> SUBSET Messages]
    /\ halted \in SUBSET Messages

TypeOK == ControlTypeOK /\ DataTypeOK /\ BeatTypeOK

\* The room is an exclusive resource: the activeRooms flag is up exactly
\* while one goroutine (a handler about to attach its run, a run, or a
\* drainer preparing one) owns the room, and never two own it.  The loop of a
\* heartbeat owns nothing: it may run beside the owner.
RoomHeldByOne ==
    /\ active <=> \/ \E m \in Messages : HandlerHolds(m)
                  \/ \E w \in Workers : WorkerHolds(w)
    /\ \A m, n \in Messages : HandlerHolds(m) /\ HandlerHolds(n) => m = n
    /\ \A w, v \in Workers : WorkerHolds(w) /\ WorkerHolds(v) => w = v
    /\ \A m \in Messages, w \in Workers : ~(HandlerHolds(m) /\ WorkerHolds(w))

\* The attached roomRunState is always the one of the run that owns the room:
\* what that run does through the room (marks, steering, release) it does to
\* its own state, and a cancel reaches it.  It does not say that nobody else
\* does: a heartbeat binds its turn to that state, sets and lifts its mark and
\* takes its steered messages, and is itself out of reach of a stop.
AttachedIsRunning ==
    \A w \in Workers : Running(w) <=> run = w

\* The room has one owner at most, and whatever is found through the room is
\* found in the hands of that owner, heartbeats or not.
RoomHasOneRun == RoomHeldByOne /\ AttachedIsRunning

\* A message whose sender was told it is accepted is never lost: it is
\* still queued, in the hands of a worker or in the live steer queue, or it
\* was put before the model, stopped, dropped by policy, or its failure was
\* reported.  What the summarize policy dropped is still to be summarised, or
\* was put before the model in a summary, unless the prompt with its summary
\* could not be built or a stop or an interrupt emptied its queue.  (The code
\* does not keep this where a batch of collect mode cannot be built, a run ends
\* with plain steer messages unread, or the policy "new" refuses an internal
\* message.)
Held == Queued \cup Steering \cup UNION {InHand(w) : w \in Workers}
ToSummarise == queue.dropped \cup UNION {job[w].summary : w \in Workers}

AcceptedNotLost ==
    \A m \in Messages :
        /\ answer[m] = "accepted" => fate[m] # {} \/ m \in Held
        /\ "dropped" \in fate[m] /\ DropPolicy = "summarize" =>
               fate[m] \cap {"ran", "unsummarised"} # {} \/ m \in ToSummarise

\* A new user message never overtakes queued work: when a handler runs its
\* message at once, nothing that was queued when the handler started is
\* still waiting.
NoOvertaking ==
    \A m \in Messages \ Internal :
        hpc[m] = "attach" => 
            ahead[m] \cap {queue.items[i].msg : i \in Originals} = {}

\* What a stop took out of the queue, with a "Stopped." status to its
\* sender, never starts to run afterwards.
StoppedNeverStarts ==
    \A m \in Messages :
        "stopped" \in fate[m] /\ "ran" \notin fate[m] => "ran" \notin fate'[m]

\* After a stop or reset of the room is over, no message that was queued,
\* picked up or running when it was requested is waiting in the queue.  (A run
\* of steer+backlog mode puts its message back after the stop.)
StopClearsQueue == stopPc = "idle" => Queued \cap halted = {}

\* What a stop takes away stays away, wherever handlers, drainers and ending
\* runs have it while the stop marks, cancels and drains.
StopIsFinal == [][StopClearsQueue' /\ StoppedNeverStarts]_vars

\* The turns that messages lead to, at once or through the queue, are serial:
\* the room implements SerialRoom for them.  A heartbeat's turn is not one of
\* them; it holds nothing and may be in progress beside any of them.
LiveTurns == {<<w, Prompted(job[w])>> : w \in {v \in Workers : Running(v)}}
Serial == INSTANCE SerialRoom WITH live <- LiveTurns
DispatchedTurnsAreSerial == Serial!Spec

\* However it ends, whoever owns the room gives it back, and the draining mark
\* does not stay behind: processPendingQueue refuses to start while it is set.
RoomIsReleased ==
    /\ (alive /\ active) ~> (~alive \/ ~active)
    /\ queue.draining ~> (~alive \/ ~queue.draining)

\* Every sender gets an answer.
EveryoneAnswered ==
    \A m \in Messages : hpc[m] # "new" ~> (~alive \/ hpc[m] = "done")
=============================================================================
