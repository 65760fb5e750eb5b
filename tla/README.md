# A TLA+ model of AgentRemote

AgentRemote is a set of Matrix bridges that put AI agents into chat rooms: `bridges/ai` runs
its own agent loop against model providers, `bridges/codex`, `bridges/openclaw` and
`bridges/opencode` drive external agent servers, and an SDK (`sdk/`, `turns/`, the files at the
top of the repository) holds what they share. This directory models the parts of it in which
concurrent goroutines have to agree, checks them with TLC and proves part of what TLC finds
to hold with TLAPS. All paths below are relative to `src/`. `PROJECT.json` maps every
definition to the lines it models.

## 1. Inventory

| Component | State | Operations | Talks to | Hard behaviour | Correct when |
|---|---|---|---|---|---|
| Room dispatch and pending queue (`bridges/ai/client.go`, `room_runs.go`, `pending_queue.go`, `internal_dispatch.go`, `abort_helpers.go`, `pkg/runtime/queue_policy.go`) | `activeRooms`, `activeRoomRuns`, `roomRunState`, `pendingQueues`, each behind its own lock | handle a message, dispatch an internal one, run, steer, requeue, drain, stop, reset | agent loop, Matrix status messages, database | four locks, work between critical sections, failure paths of the drainer, stop against everything | one run per room, no accepted message lost, no overtaking, stop is final, room always released |
| Approval flow (`approval_flow.go`, `approval_prompt.go`, users in every bridge) | `pending`, prompt store with three indexes, settled prompts, one channel per request | register, prompt, resolve, react, wait, expire, reap | Matrix reactions, agent servers, waiting turns | the same approval finalized from five sides, timeouts against late answers, IDs used again | one verdict per prompt, waits end, nothing stays pending, indexes agree |
| SDK turn manager (`sdk/turn_manager.go`) | a gate per key: token channel, waiter count | Acquire, release, evict, Run, IsActive | one goroutine per message (`sdk/client.go`) | gates evicted while goroutines refer to them, channel operations outside the mutex, cancellation | one handler per key, each message handled, gates do not leak |
| SDK turn (`sdk/turn.go`, `sdk/conversation.go`) | started/ended flags, stream, idle timer | start, emit, end, abort | stream session, approval flow | end racing start, idle timeout | one terminal event |
| Turn stream session (`turns/session.go`) | sequence number, pending parts, target, debounce state | Start, EmitPart, flush, End | beeper stream publisher, debounced edits | parts emitted before the target is known; failed flushes; start against end | parts published once and in order; the final flush is complete |
| Stream UI reducer (`pkg/shared/streamui`) | message parts | apply a stream part | stream session, edits | out-of-order tool parts | the final message equals the stream's content |
| Inbound debounce and dedupe (`bridges/ai/debounce.go`, `inbound_debounce.go`, `dedupe.go`) | buffers and timers per key, seen set | enqueue, flush, flush now | room dispatch | timer against append | each message once and in order |
| Scheduler, cron, heartbeats (`bridges/ai/scheduler*.go`) | jobs in the database, delayed Matrix events | schedule, tick, run, reschedule | homeserver, room dispatch | restarts, duplicate and stale ticks, failed scheduling | a due job runs, once and not early; nothing due is forgotten |
| Agent loop retry and compaction (`bridges/ai/response_retry.go`, `streaming_executor.go`, `pkg/runtime/compaction*.go`) | attempt, context | run, compact, retry, fall back | providers | retry after tools ran | bounded attempts, no tool twice |
| Tool calls of a stream (`bridges/ai/streaming_tool_lifecycle.go`) | calls by item and by call ID | upsert, finalize | approvals, UI | late and duplicate events | one output per call |
| Sub-agents (`bridges/ai/subagent_*.go`) | registry of runs | spawn, complete, announce, stop | room dispatch | stop against completion | each run announced once |
| Codex RPC and client (`bridges/codex`) | pending calls, threads, active turns | call, notify, reconnect | child process, its rooms | process death with calls open, a turn ending while a message is queued | each call answered, turns of a room serial and in order |
| OpenClaw gateway and manager (`bridges/openclaw`) | connection, pending requests, event channel, sessions | connect, request, dispatch events, close | gateway | a full channel, shutdown from four sides, a lost link | each request answered or failed, events in order, a lost link noticed |
| OpenCode manager (`bridges/opencode`) | instances, message parts, seen events | connect, event, sync | server event stream | reconnect, replay | parts bridged once |
| Client cache and logins (`client_cache.go`, login processes) | clients by login | load, replace, remove | bridge framework | removal racing load | one live client per login |
| Everything else: session store, tools, media, search, memory, agents, prompts, policies, connectors, provisioning, commands, CLI, dummy bridge | | | | input/output, text and tables | not modelled, see section 8 |

How the modelled parts fit together: a Matrix event reaches the bridge's `HandleMatrixMessage`. In
`bridges/ai` it is debounced and handed to room dispatch, which runs it, steers it into the live
run or queues it; the run streams a turn, whose tool calls may ask for approvals, whose answers
come back as reactions. In bridges built on the SDK the message gets a goroutine that the turn
manager serialises per room; its handler writes a turn of the SDK, which streams parts through a
session. The scheduler dispatches internal messages into rooms when delayed events arrive. Codex
has a room queue of its own in front of an app server it speaks JSON-RPC with; OpenClaw turns the
events of one gateway connection into messages.

The hazards of this code, each at its line and with the properties that watch it, are in
`PROJECT.json` (`hazards`).

## 2. Plan

Done, in the order of the plan:

1. **Room dispatch**: `PendingQueue`, `RoomDispatch`, abstract `SerialRoom`.
2. **Approval flow**: `ApprovalPrompts`, `ApprovalFlow`, abstract `OneVerdict`.
3. **Turn manager**: `TurnManager`.
4. **Stream session and SDK turn**: `StreamSession`, `SdkTurn`, abstract `OrderedStream`.
5. **Scheduler**: `DelayedTicks`, `CronJobs`, `Heartbeats`, composed by `Scheduler`.
6. **RPC clients**: `CodexRpc` composed with the rooms that call it in `CodexRoom`, which implements
   `SerialRoom` once more; `GatewayClient`, which implements `OrderedStream` once more.
7. **Inbound**: `Inbound`, dedupe and debounce in front of room dispatch.

What is left, the most valuable first:

8. **Room teardown**: deleting a chat (`delete_chat.go`) and stopping sub-agents, as an extension of
   `RoomDispatch`.
9. **Sub-agents**: registry, completion and announcement.
10. **Connections that come and go**: OpenClaw's reconnect loop and run recovery, a Codex connect
    after a disconnect, the OpenCode manager.
11. **Response retry and compaction** of the agent loop.
12. **Pure functions**: the stream UI reducer and tool-call registry as operators checked against
    a reference over bounded inputs.

Theorems left: none for the safety properties of the runs (section 5); liveness stays with TLC
(section 6). Modules still to come bring their own.

The number of TLC runs is kept small: questions that can be asked of one instance share a run, and
a run that shows a disagreement is kept only where a message of the program says otherwise. What
else the models show is in section 7.

## 3. Modules

| Module | What it is |
|---|---|
| `PendingQueue` | queue modes and drop policies, and the pending queue as a value with its operations |
| `RoomDispatch` | handlers, runs, drainers, stops of one room over that queue |
| `SerialRoom` | abstract: one turn at a time; implemented by `RoomDispatch` and by `CodexRoom` |
| `ApprovalPrompts` | the prompt store as a value: registrations and their indexes |
| `ApprovalFlow` | requests, reactions, remote decisions, waits and the reaper over that store |
| `OneVerdict` | abstract: a prompt shows one verdict and keeps it |
| `TurnManager` | gates and the goroutines that use them |
| `StreamSession` | the stream of one turn: numbering, buffering, flushing, registration, end |
| `SdkTurn` | a turn of the SDK over that session: producer, idle timer, start poll |
| `OrderedStream` | abstract: parts arrive in order, none skipped, none twice; implemented by `SdkTurn` and by `GatewayClient` |
| `DelayedTicks` | the homeserver's delayed events and the persisted record of a scheduled entity |
| `CronJobs`, `Heartbeats` | what a cron job, what a managed heartbeat does with them |
| `Scheduler` | either of them with its requests, ticks, crashes and reconnects |
| `CodexRpc` | JSON-RPC calls to an app server that may die |
| `CodexRoom` | rooms, queues and turns of the Codex bridge over those calls |
| `GatewayClient` | one connection to an OpenClaw gateway with those who use it |
| `Inbound` | dedupe and debounce of Matrix events |
| `...Proofs` | theorems about the module of that name (section 5) |
| `MC...` | the constants of the TLC instances |

### 3.1 RoomDispatch

An action is one critical section. What the code does between two (database and Matrix I/O,
building a prompt) is where other goroutines run. `hpc[m]` is where the handler of message `m`
is, `wpc[w]` where a worker, `bpc[b]` where a heartbeat, `stopPc` where a stop is. A worker is the
goroutine of a run (`run`, `stream`, `requeue`, `release`, then `kick`, the call of
`processPendingQueue`) or of a drainer (`snapshot` to `unmark`).

| Code | Model |
|---|---|
| `activeRooms[room]`, `activeRoomRuns[room]` | `active`, `run` |
| `roomRunState` (`streaming`, the cancel function, `steerQueue`, the turn bound to it) | `runState[w]` |
| `pendingQueues[room]`; a deleted map entry | `queue`; `EmptyQueue` |
| `dispatchOrQueueCore`, `dispatchInternalMessage` | `BeginHandler` ... `HandlerEnqueue` |
| `runAgentLoop`, `getSteeringMessages`, deferred requeue and release | `RunStream` ... `RunKick` |
| `processPendingQueue`, `takePendingQueueDispatchCandidate`, `dispatchQueuedPrompt` | `DrainSnapshot` ... `DrainUnmark` |
| `runHeartbeatOnce`, `hasInflightRequests`, the loop it starts | `BeatCheckRoom` ... `BeatEnd` |
| `executeUserStopPlan`, reset command | `StopRoom` ... `ResetCancel` |

`fate`, `answer`, `ahead` and `halted` are history variables: what became of a message, what its
sender was told, what was queued when its handler started, and what a stop was about. The code
finds the run through the room and not by pointer; the actions do so too (`runState'[run]`,
also in the actions of a heartbeat, where that run is somebody else's or none),
which is why `AttachedIsRunning`, a part of `RoomHasOneRun`, matters.

Heartbeats. `runHeartbeatOnce` goes by none of the room's rules: under one lock it sees no room active,
under another no queue with work, and some database reads later it starts an agent loop in its room
without `acquireRoom` and without `attachRoomRun`. Inside, that loop is like any other: it binds its
turn to whatever run the room has by now, marks that run as streaming, takes what was steered into
it, and takes the mark off when it ends. The model has one heartbeat that may do so again and again
beside all the rest. What is claimed of the room is therefore claimed of its owners
(`RoomHasOneRun`) and of the turns that messages lead to (`DispatchedTurnsAreSerial`); section 7 has what a heartbeat
breaks. Binding and marking are two critical sections and one action here; the state in between
allows nothing that the states before and after it do not.

Abstractions. The debounce window is a choice (a queue may be waited for or not), not a time.
Message texts are left out; a message is also in the database before it is queued, so the
history variables, not the prompt, tell whether it ran. Mode is chosen anew for every handler
and requeue, drop policy and cap are constants of an instance. Ending a worker frees it for
the next goroutine; that there are only a few delays a start and removes none. `alive`
becomes false when a goroutine panics; the drainer is not recovered. Every loop marks its run as
streaming; in the code those over the chat completions API do not, and so nothing is steered into
them (`SteerRefused`). Sub-agent rooms, deletion of the chat and stopping sub-agents are left out,
and so is the other work of a heartbeat: its session, its delivery, what it says.

### 3.2 ApprovalFlow

An action is one section under `f.mu` or one operation on a Pending's channel. A request is both
the call that registers and prompts and the pointer of its `Pending`, so `pending[a] = r` says
which `Pending` an ID has by now. `pc` tells where the goroutine of a request, or the handler
of a remote decision about an approval, is; one reaction and one pass of the reaper are under
way at a time, as the bridge framework handles the events of a room one after the other and the
reaper is one goroutine. `Client` selects the code that drives the flow: `bridges/ai`, Codex
and the SDK turn wait on the channel, OpenCode and OpenClaw deliver through a callback
and have a server that also decides for other clients (`RemoteDecides`, external; the first
decision wins). "timeout" also stands for OpenClaw's "expired".

| Code | Model |
|---|---|
| `pending`, `promptsByApproval` and its indexes, `resolvedBy...` | `pending`, `store`, `settled` |
| `Register`, `SendPrompt` | `Register` ... `PromptSchedule` |
| `Resolve`, `ResolveExternal`, `FinishResolved`, `finalizeWithPromptVersion` | `ResolveLookup` ... `Finish`, `Finalize` |
| `Wait` | `WaitBegin` ... `WaitCancelled` |
| `HandleReaction`, `matchReactionTarget` | `React...` |
| `runReaper`, `reapExpired`, `finalizeExpiredCandidate` | `ReapScan`, `ReapCheck`, `ReapFinish` |

`edits`, `ended`, `accepted` are history. Time is a small clock. Reactions of others than the
owner, the room check, `Close` and restarting the reaper are left out. The two scans that
look for a prompt by its room are one action.

Two clocks may run for one request. `Register` is given a lifetime, and ten minutes stand in for one
that is not positive; a prompt is given a time. Codex, `bridges/ai`, the SDK and OpenCode ask for
both from the same lifetime (`TTL`). OpenClaw takes both from the server's `ExpiresAtMs`
(`EndOf[r]`): a time that is missing or past leaves a `Pending` of ten minutes (`PendingExpiry`) under a
prompt that is over already (`PromptExpiry`). `EndOf[r] = None` is a client without such a time.

### 3.3 TurnManager

A goroutine per message, as `HandleMatrixMessage` starts it, goes through `Acquire`, the debounce
delay, the handler, the release and the eviction; a probe is a call of `IsActive`. An action is
one section under `tm.mu` or one operation on the token channel. `gateOf[p]` is the pointer a
goroutine holds; a gate nobody refers to is garbage and its identity is used again (`Fresh`).
`Cancel` is the end of the login's context, on which a waiting or debouncing goroutine gives up.

The code's comment that debouncing coalesces messages is not reflected by anything in it: each
message runs, after its own delay. `QueueSize` is only a hint read by nobody.

### 3.4 StreamSession and SdkTurn

Actors are goroutines: the producer (the provider's), the idle timer's callback, and the starter
(`awaitStreamStart`). `at[a]` is where an actor is inside the session, `ops[a]` what it has left to
do in the turn. The steps are the critical sections of `NextSeq`, `streamMu` and `flushMu`, the
swap of `closed`, and each call to the publisher, which may fail.

| Code | Model |
|---|---|
| `UIStepCount`, `pendingParts`, `streamStarted`, `closed`, `flushMu` | `stepCount`, `pendingParts`, `registration`, `closed`, `flusher` |
| `EmitPart`, `FlushPending`, `publishPendingPart`, `requeuePendingFront` | `NextSeq` ... `PublishFails`, `FlushNoTarget` |
| `currentTargetEventID`, `EnsureStarted`, `Start`, `End` | `FindTarget`, `Register`, `EndClose`, `EndRelease` |
| `ensureStarted`, `resetIdleTimeout`, `handleIdleTimeout` | `SendPlaceholder`, `ResetIdleTimeout`, `TimerFires`, `HandleIdleTimeout` |
| `End`, `EndWithError`, `Abort`, `finalizeTurn` | `ProducerEnds`, `Abort`, `Finalisation`, `Persist` |
| `awaitStreamStart` | `StarterPolls` |

`Watchdog` says whether turns have an idle timeout: a negative `IdleTimeoutMs` switches it off, and then
`ResetIdleTimeout` arms nothing and a turn ends only if its provider ends it. `TurnEnds` is stated
with that circumstance (`Ending`). `FlushPending` of a turn whose placeholder failed returns without an
error and without publishing (`FlushNoTarget`); there is no event to complete then, and
`FinalFlushIsComplete` is about flushes that found one.

A part is its sequence number. `owed` is history: how many parts were accepted when the turn ended.
A publication that failed is taken to have had no effect: one that took effect and reports
a failure is repeated under a new transaction, and no property here says otherwise.
Left out: what the parts and the final edit contain, turns whose send is suppressed, the debounced
edits of a session without a publisher, approvals that a provider serves on further goroutines.

### 3.5 The scheduler

`scheduler.go` keeps no timers: the homeserver holds delayed events and delivers them when their
time has come, and the database record is all a restarted process knows. `rec` is that record,
`delayed` what the homeserver holds, `inbox` what it delivered, `runs` the runs between the two
critical sections of their handler. Everything else happens under `s.mu` and is one action.

| Code | Model |
|---|---|
| `scheduleTickLocked`, `cancelPendingDelayLocked`, the run key `rev<r>:<kind>:<ms>` | `ScheduleTick`, `CancelPending`, keys `[rev, kind, at, n]` |
| `CronAdd`, `CronUpdate`, `CronRemove`, `CronRun` | the same names |
| `handleCronPlan`, `handleCronRun` | `HandleCronPlan`, `StartCronRun`, `FinishCronRun` |
| `RequestHeartbeatNow`, `handleHeartbeatPlan`, `handleHeartbeatRun` | `RequestHeartbeatNow`, `HandleHeartbeatPlan`, `StartHeartbeatRun`, `FinishHeartbeatRun` |
| `Start`, `reconcileCronLocked`, `reconcileHeartbeatLocked` | `Crash`, `Reconcile` |

A crash loses what was in progress and may have events of the inbox delivered again. A call to the
homeserver or database fails at most `MaxFaults` times. `trouble` and `healthy` are history: what
went wrong so far (with what a reconnect does not notice, `Unnoticed`), and whether no tick was lost since a
reconciliation could have repaired it (`Repairable`, `DueWasSkipped`). Time is a
number of slots and `Horizon` the 24 hours beyond which a planner tick stands in for the run.
Left out: validation, active hours, why a heartbeat is skipped, delivery of a job's text.

### 3.6 CodexRpc and CodexRoom

A call of `CodexRpc` enters `pending`, writes, and waits for its channel or its deadline; when the
child's output ends the reader first fails what is pending and then closes. `CodexRoom` uses it
for `turn/start`: `stage[m]` is where a message and its goroutine are, `active` and `queue` are
`activeRooms` and `pendingMessages`, `notifs`, `current`, `subs` and `inbox` the way of
`turn/completed` from the reader over the dispatcher to the turn that subscribed to it.

| Code | Model |
|---|---|
| `Call`, the read loop, `failAllPending`, `Close` | `StartCall` ... `Deadline`, `OutputEnds`, `FailAllPending`, `CloseAfterRead` |
| `HandleMatrixMessage`, `acquireRoomIfQueueEmpty`, `queuePendingCodex` | `HandleMessage`, `AcquireRoom`, `QueuePending` |
| `runTurn`, `subscribeTurn`, the wait for the terminal event | `CallTurnStart` ... `TurnCompleted`, `TurnTimesOut` |
| `releaseRoom`, `beginPendingCodex`, `processPendingCodex` | `ReleaseRoom`, `BeginPending`, `LoadPending` |
| `dispatchNotifications` | `DispatchNext`, `DispatchToTurn`, `DispatchGivesUp` |

The app server (answers, completed turns, death) is external. Left out: commands, the events of a
turn but its last, Disconnect and what comes after it.

### 3.7 GatewayClient

One WebSocket connection after its handshake. `reader` is `readLoop` with the event it holds in
`frame`; `events` is the channel of bounded capacity; `shut` and `closer` say how far `shutdown` is
and who runs it inside `shutdownOnce` while the others wait; `main` is `Start` of the manager, which
synchronises (one request that must succeed), handles events (each may make a request on the same
connection) and closes; `stopper` is `Disconnect`.

| Code | Model |
|---|---|
| `Request`, `failPending` | `StartRequest` ... `Deadline`, `FailPending` |
| `readLoop` | `ReadAnswer` ... `ReaderLeaves`, `Deliver`, `WaitForRoom`, `DeliverCancelled`, `DeliverPanics` |
| `pingLoop`, `shutdown`, `Close` | `PingFails`, `BeginShutdown`, `CloseConn`, `CloseEvents` |
| `Manager.Start`, `Stop`, `eventLoop` | `MainRequests` ... `StartReturns`, `TakeGateway`, `StopReturns` |

Left out: the handshake, the reconnect loop, what an event does beyond its request.

### 3.8 Inbound

A handler `h = <<event, delivery>>` goes through the dedupe cache, then either into the buffer of its
room and sender or, for media and commands, over a flush of that buffer to dispatch. `fired[k]`
counts timers that fired and still wait for the lock: stopping such a timer does not stop it, so it
flushes whatever the buffer of the key holds by then. `flights` are batches whose buffer is gone
but that are not handed over yet. `Disconnect` flushes key by key. `ahead` and `forgotten` are
history. Left out: which messages may be debounced (a choice), how batches are merged.

## 4. Runs

| Run | Instance | Shows |
|---|---|---|
| `room_main` | 3 messages (one internal) in 2 threads, 3 workers, a heartbeat, interrupt and collect, cap 2, policy old, one stop or reset | one owner of the room and the attached run is the owner's, heartbeat or not, accepted messages are not lost, no overtaking, what is stopped is gone and never starts |
| `room_live` | 3 messages (one of them text, which can be steered), 2 workers, a heartbeat, steer+backlog, cap 1, policy summarize, failing prompts, fairness | the turns of messages implement `SerialRoom`; the room and its draining mark are released, every sender is answered; steered, requeued and summarised messages are not lost |
| `approval_codex` | one request, auto-approval, failing sends, cancelled turns, 2 reactions, fairness | waits end and nothing stays pending, no early timeout, one verdict |
| `approval_ai` | two approvals replying to one message | the indexes of the prompt store agree |
| `approval_remote` | one request whose end the server gives, a reaction, a remote decision, deliveries that fail before or after taking effect | the prompt shows what the server holds, no timeout before the end of the request or the one the server gave |
| `turn_gates` | messages of two keys and a probe, debounce, cancellation, fairness | one handler per key, counted waiters get their turn, gates are evicted |
| `turn_stream` | a turn with 2 parts and an idle timeout, one failure of the homeserver, fairness | the stream implements `OrderedStream`, the final flush is complete, one finalisation, the turn and all it started come to an end |
| `scheduler` | one job or heartbeat, 3 slots, 3 requests, one fault or repetition, fairness | nothing due is forgotten and there is one chain of ticks, no early run, no repeated run, one-shot jobs run |
| `codex_turns` | 3 messages of one room, an app server that refuses, is late, dies; fairness | each room implements `SerialRoom`, turns in order, ends of turns kick the queue, a closed client leaves no call waiting |
| `codex_wedge` | 2 messages of one room, fairness | violated: "Queued — waiting for current turn to finish..." (`bridges/codex/client.go`): a message queued just after that turn kicked the queue is not started |
| `gateway` | 3 events over a channel of 1, a user's request and two of the manager, failing link and pings, Disconnect, fairness | events in order (`OrderedStream`), a lost link is noticed, neither a request nor the reader waits for ever |
| `inbound` | 4 events of one sender, one delivered twice, dedupe cache of 2, Disconnect, fairness | nothing is handled twice, nothing overtakes buffered text, buffered text is dispatched |

Each property of a passing run has a mutant in `PROJECT.json`: a plausible slip in the code under
which TLC finds the property violated. Some properties name the circumstances in which the code
does not keep them (a failed save, a hanging `Close`, a batch that cannot be built); section 7 lists those.

### Why the bounds are enough

*Room.* Three messages are the fewest in which one runs, one is queued and one comes in; a cap of one
overflows with them (section 7 names a question that takes four, and is not asked here). A run becomes the drainer it kicks and starts the next run in another worker,
so two workers suffice for a room to go on and a third meets both at once. One stop meets every
interleaving with the others. One heartbeat is enough: it holds nothing, so two only set and lift the same mark
and take from the same steer queue. One text message is enough to be steered into the run of
another while the third waits in the queue. `MaxAttempts = 1` keeps one streaming phase per run: another only
repeats the phase before it.

*Approvals.* Two requests are the fewest that share a target; a lifetime of one tick within two or
three leaves expiry before, at and after each step; an end given as time 1 is ahead of a request
made at once and past for a later one.

*Turn manager.* Three goroutines on one key are a holder, a waiter and one that has only looked up the
gate; as keys share nothing but the map, the second key has its own small load.

*Stream.* Two parts and the final ones that the producer and the timer add are enough for one part
to be numbered, one buffered and one in flight; one failure puts parts back in front of later ones.

*Scheduler.* Each chain of ticks depends on one record, so one entity is enough. A record with room
for two run keys (eight in the code) has to forget one within the run. Three slots with a
horizon of one have due times before, at and beyond the horizon; three requests are an addition and
two changes around a run; any single fault meets any of them.

*Codex.* Three messages of a room: one runs, one is queued, one comes in; rooms share only the app
server, whose death reaches all calls alike. *Gateway.* A channel of one is full with one event, blocks
the reader with the second, and the third is behind it on the wire. *Inbound.* Two events fill the
cache, a third evicts, the fourth lets a batch have company; keys share only the cache.

`CHECK_DEADLOCK FALSE` stands in every configuration because all these systems may rightly come
to rest: rooms go idle, requests are answered, goroutines end.

### Fairness

In the room, the approvals, the turn manager and the SDK turn: weak fairness of each goroutine. Go
schedules what can run, and the calls in between return. A model call that stalls is cut off by
the inactivity timeout of the agent loop (`bridges/ai/agent_loop_runtime.go`), Matrix calls have
the framework's. For approvals also: the clock goes on and the
server's events are delivered. Weak fairness of a timer's callback is that
Go runs timers.

In the scheduler, the Codex room, the gateway client and `Inbound` one condition is enough:
`WF(Progress)`, where `Progress` has the steps that the program, its timers and (scheduler) the
homeserver's delivery take by themselves. Each of them uses something up - a tick, a frame, a stage
of a message - so that they cannot go on for ever without each enabled goroutine's turn
coming; it is weaker than fairness of each goroutine. Deadlines are part of it only where the code
has them (`TurnTimesOut`; not the answer to a request of the gateway).

Nothing makes a user send, react or stop, a login end, a policy approve, a server answer or the
process restart.

## 5. What is proved

`RoomDispatchProofs`, for any messages, workers, modes, cap and bounds:

- `SpecRoomHasOneRun`: the room has at most one owner (a handler about to attach its run, a
  run, or a drainer preparing one), `active` is up exactly while it has one, and the attached
  `roomRunState` is the one of the run that owns the room. Heartbeats take their steps in between; they
  own nothing, and that only the owner writes into that state is not claimed.
- The argument (`SpecIInv`): neither part is inductive alone. A release clears the flag, so that no
  owner is left needs that there was only one; a run attaches itself over whatever is there, so
  that it replaces nothing needs that the attached run would have been an owner.
  Together with the types of the control variables they are inductive. The other variables do
  not matter to them (`IInvUnchanged`), and a heartbeat's steps change only others.
- `SpecTypeOK`: every variable keeps its type, for queues of any length. The argument (`DInv`): a
  worker that dispatches, runs or requeues has an item to do it with, so the code's "last of the
  batch" is one. What the operations of the queue do to sequences is stated as lemmas about
  `Enqueue`, `Pop`, `RemoveSource`, `CollectCount`; two of them need an induction over the data
  (the k-th item that is left, the first change of thread), which `LeastOf` supplies: the least
  element of a set of numbers exists because a chain of shrinking intervals ends.
- `SpecNoOvertaking`: a handler that runs its message at once overtakes nothing that was queued when
  it started. The argument (`OInv`): only a handler that saw the queue empty, or emptied it, goes
  on to acquire the room; whatever enters the queue after that look belongs to a handler that had not
  finished when this one started, whereas everything in `ahead` belongs to handlers that had. Runs,
  drainers and stops only take messages out (a requeued copy is not the message itself).
- `SpecAcceptedNotLost`: in every session that is `Lossless`, an accepted message stays in the room or
  something has become of it. `Lossless` excludes what the code does lose: a batch whose prompt cannot
  be built (only its last sender is told), a run that ends with plain steer messages unread, and an
  internal message that the policy "new" refuses. It holds in both room runs, and without
  it the property is false (section 7). The argument (`KInv`): what an operation takes out of the queue
  it hands on (`EnqueueHands`, `PopHands`, `RemoveHands`, `ConsumeHands`: nothing is both gone and
  unaccounted for), to the drop policy's record, to the stop's record or to the job of a drainer. The
  property itself counts every job as holding its messages, also the one of a drainer that plans a
  summary in the name of an item; the invariant counts only jobs that took their items out of the queue
  (`Carries`), and says where each worker is with which kind of job (`FitsAt`), so that a job that
  can fail is of one message. The part about dropped messages needs no hypothesis.
- `SpecStopIsFinal`: in every session that is `QueuedOnce`, no message that was in the room when a stop
  or reset of it was requested is in the queue when that is over, and no message whose sender was told
  "Stopped." starts afterwards. `QueuedOnce` excludes the mode steer+backlog, which puts a message
  back after the stop, and the policy "summarize", whose planned summary may run a stopped message
  (section 7). The argument (`SInv`): a message is in one place at a time. Until its handler
  is done it is in no queue and no job; it is queued once (`Distinct`); a pop takes it out of the
  queue; and what is marked stopped leaves the queue in the same step, so that it is neither queued
  nor carried and no handler is left that would queue it. `StopHolds` states what a step must satisfy to
  keep that, and each operation is shown to.
- `SpecDispatchedTurnsAreSerial`: the turns that messages lead to implement `SerialRoom`, under the mapping of
  live turns to the running workers and what they put before the model (a heartbeat's turn is none
  of them). Attaching a run begins a turn, and
  only the owner attaches, so none is live; releasing the room ends the only one; every
  other step leaves running workers and their jobs alone and is a stutter.

`ApprovalFlowProofs`, for any requests, approvals, targets and clients:

- `SpecStoreIndexed`: the message indexes of the prompt store and its prompts agree.
- The argument (`SpecIInv`): each operation of the store keeps its indexes right as long as no other
  approval has the message it registers or binds (`FreeFor`). The
  invariant therefore adds that the message of a prompt, and of a prompt `SendPrompt` has put
  aside, was sent by a request for that same approval; and that reactions and the reaper
  refer to approvals. An approval that shares a target with another takes it over in `byTarget`,
  which is why that index is only claimed to lead to a prompt with this target.

- `SpecPromptsShowOneVerdict`: the approval flow implements `OneVerdict`, so a prompt message is
  edited to one verdict and keeps it.
- The argument (`SpecVInv`): a message can be edited while a prompt of the store has it, and may come
  back into the store while a request holds the prompt it replaced. The invariant says that a
  message is in one of these places at most, and in none before it is bound and after it was
  edited. Finalizing edits the message of the prompt it drops, and so of the only place it was in;
  restoring and registering move it from one place to another; binding puts a new message
  in. All other steps only lose places.
- `SpecUpstreamAgrees`: the answer a prompt shows is the one the agent server holds. The argument
  (`SpecUInv`): the server answers once, and whoever is about to finalize with an answer got it from
  the server: an event carries what the server decided, and a reaction is finalized only when
  the server took it.
- `SpecTypeOK`: besides types, a registered Pending was not finalized and is registered under its own
  approval, and what is marked as done, which the reaper leaves alone, is for an approval that got a
  decision. The argument (`SpecTypeInv`): a handler that delivers holds a Pending of its
  approval, and one that is about to mark a Pending (`ResolveClose` marks whatever the ID has by
  then) has just delivered.
- `SpecTimeoutIsDue`: a Pending is only timed out once it has expired, the end its server gave is past, or
  the server has decided it. The
  argument (`SpecDueInv`): each of those that may time an approval out - the end of a Wait, its
  timer, the timer of the prompt, `Resolve`, a reaction, the reaper - has seen, at some time, an
  expired Pending of the approval or an expired prompt. What an expired prompt says of the Pending
  depends on where the prompt's time comes from: without an end given by the server it is reckoned
  from a later time than the Pending's and so lives as long; with one the prompt ends at that
  end, whatever lifetime the Pending got. Hence the property speaks of either. What was seen stays true: time does not go back, and a
  registered Pending keeps its expiry. A request that ends with a timeout because it found no
  Pending ends nothing of its own. That the Pending seen is the one that is finalized holds because
  the approval ID is used once (`Alone`); section 7 has what happens when it is used again.

`TurnManagerProofs`, for any goroutines, keys and gates:

- `SpecOneHolder`: two goroutines of one key never have the token at the same time.
- The argument (`SpecIInv`): a key may have had several gates, and goroutines may still refer to the
  old ones. The invariant says that a gate with a token is in the map, that no two keys share a
  gate or a reference to one, and that the gate of a holder is in the map without its token. A
  goroutine that takes a token thus takes it from the key's present gate, and nobody else can
  hold that key.
- `SpecTypeOK`: the counter of a gate is the number of those who wait for it, also after it was
  evicted (`CountsAreExact`): each step that counts a goroutine adds one to the set of those
  counted, and each that uncounts it takes it out.
- `SpecGateIsEvicted`: when the last turn of a key is over its gate is gone from the map, unless
  `IsActive` made one. The argument (`SpecEInv`): a gate in the map has its token or somebody has it
  in hand (`TokenOrHolder`), so a gate that is left behind is one whose last goroutine counted
  others, and as counts are exact these are yet to leave.

`SdkTurnProofs`, for any number of parts and failures:

- `SpecStreamKeepsOrder`: the turn implements `OrderedStream`.
- The argument (`SpecStreamInv`): whoever is about to publish holds `flushMu`, so one part at most is
  in flight; what was published, that part and `pendingParts` together are what was accepted. A
  failed publish puts its part back in front, which is where it came from.
- `SpecFinalisedOnce`: no two of `End`, `Abort`, the idle timer and the start poll finalize. The
  argument (`FinalInv`): `ended` is set in the critical section that queues a finalization, so
  whoever has one left to do finds `ended` set, and nobody else queues another.
- `SpecFinalFlushIsComplete`: a final flush that has found the event and succeeds leaves nothing accepted
  before it unpublished. The argument (`OwedInv`): what is accepted only grows, and a flush that returns
  without error leaves neither a part in the queue nor one in flight, because it held `flushMu`.

`SchedulerProofs`, for any horizon, grid and bounds:

- `SpecNeverEarly`: a one-shot job does not start on its own before its time, as long as no save
  failed (section 7 has what happens then).
- The argument (`SpecEInv`): a tick of an older revision is refused, so what matters are ticks of
  the record's revision. No tick is ahead of that revision, because every update counts it up and
  saves it with the tick it sent; and no run tick of it is earlier than the job's time.
- `SpecTypeOK` and `SpecRecordedNotRepeated`, whatever fails: a tick whose run is finished and
  recorded does not run again, unless the record was full and forgot its key. The argument
  (`SpecRInv`): every section saves a draft of the record it loaded, whose run keys are the old
  ones, with one more at the end when a run ends and the oldest gone only when there is no room;
  a failed save leaves record and history alone; and a record that is removed takes its history
  with it.
- `SpecOneChain`: a job or heartbeat that is owed a run keeps a chain of ticks, and one only. It keeps one
  as long as no section was lost (`healthy`); there is no second one unless an answer, a save or a
  cancellation failed, a tick was delivered twice or a reconnect overlooked something (section 7).
- The argument (`SpecChainInv`) has five parts. Ticks and processed run keys are of the past, so a
  key that is planned is new to the record (`TicksInv`). Recording the run of a job leaves its
  pending tick acceptable (`PendingUnworked`). The pending tick of a healthy record is on its way
  and current, or a run is in progress that will plan the next (`HealthInv`). Whatever else is on its
  way is of an earlier revision and will be refused (`CronChain`, which needs `EInv`; `BeatChain`).
  For a heartbeat the last part needs the time of its next run as well: that time has passed
  while a run is in progress, and nothing else keeps a wake-up from starting a second chain
  then. Every section is first brought into one of three forms, a record planned with one new tick,
  changed without one, or kept (the lemmas called `...Outcome`).

`CodexRoomProofs`, for any calls, rooms and messages:

- `SpecCallsAreFailed`: once the client is closed and drained, no call that was pending by then waits
  for an answer that cannot come.
- `SpecTurnsAreSerial`: each room implements `SerialRoom`; the flag of `activeRooms` is up exactly
  while one message has the room.
- `SpecTurnsInOrder`: a turn never starts before an older message of its room that waits. The
  invariant behind it: the queue is sorted, and a handler that finds the room free finds it with an
  empty queue.

`GatewayClientProofs`, for any requests, number of events and capacity:

- `SpecEventsInOrder`: the client implements `OrderedStream`: `Start` sees the gateway's events in
  order and without a gap.
- The argument (`SpecOrderInv`): what was handled, the channel, the event the reader holds and the
  wire, one after the other, are rising and without a gap; the wire only matters as long as the reader
  may still read from it, because a reader that gives up an event never reads again.
- `SpecTypeOK`: the channel never has more than its capacity, and the pending map has exactly the
  requests in flight until shutdown has emptied it. The argument (`TypeInv`): a request enters and
  leaves the map in the step that puts it in flight or ends it, and only that request does.

`InboundProofs`, for any events, repetitions, keys and size of the cache:

- `SpecHandledOnce`: what waits is in one place, and an event delivered again is not handled again
  unless the cache gave it up.
- `SpecNoOvertaking`: media and commands come after the text their sender wrote before, unless a
  timer or Disconnect has it in hand.
- The argument (`SpecIInv`): the handlers of a key come one after the other (`Receive`, as the bridge
  framework handles the events of a room); an entry that waits is in one buffer,
  one handler's hands or one flight, and in none twice; what was handled is in the cache or was
  given up by it; and what a handler found buffered is, until that handler is done, in the
  buffer it is about to flush, in its own hands, in flight, or dispatched.

Assumptions: those named in the modules (constants are sets and functions of the right kind; the
value `None` is no decision and no record, as a nil pointer of the code is none).
TLC evaluates them in every run.

## 6. What is only model-checked

The liveness properties: `RequestsSettled`, `QueueIsKicked`, `LinkLossIsNoticed`, `NobodyIsStuck`,
`TextIsDispatched`, `RoomIsReleased`, `EveryoneAnswered`, `OneShotRuns`, `CountedTurnEnds` and
`TurnEnds` (with the idle timeout on, or in a turn that its provider ends). They follow from fairness, about which TLAPS does not reason. The violation
`QueuedIsServed` is a liveness property too. Every invariant and every action property of
the passing runs has a theorem (section 5).

## 7. What the models show beyond the runs

These follow from actions that are in the modules (unless said otherwise), but no run is kept for them.

Room (`bridges/ai`):

- "Turn-based message queuing: only one response per room at a time" (`client.go:280`) is not kept by a
  heartbeat: its look at rooms and queues (`heartbeat_execute.go:74`) reserves nothing, and
  its loop (`:209`) runs in a room it does not hold. A message that comes meanwhile starts a second
  turn there. The two then share one `roomRunState`: the heartbeat may take a message steered
  into the user's run into its own prompt (`streaming_responses_api.go:300`), lift that run's
  streaming mark when it ends (`streaming_executor.go:69`), so that later messages are not steered,
  and bind its turn over the user's (`streaming_init.go:131`), after which a stop by reply no longer
  finds the user's turn, and one that replies to the heartbeat cancels the user's run
  (`abort_helpers.go:114`). Nothing in the room cancels the heartbeat.
- A handler that found the room busy may queue its message after the run released the room and
  kicked an empty queue (`client.go:711`, `streaming_executor.go:94`): it waits for the next activity.
- A queue with dropped messages and no items makes the drainer index an empty slice in the summary
  branch (`pending_queue.go:342`); with a cap of one this needs no stop.
- A drainer whose prompt cannot be built kicks the queue while its own draining mark is set
  (`client.go:821`), so the rest of the queue waits for the next event (`DrainFailKick`).
- In plain steer mode a message accepted into the steer queue of a run that then ends is dropped with
  the run (`room_runs.go:62`, `ReleaseRoom`).
- When building a collected batch fails only its last sender is told (`client.go:818`).
- An internal message refused by the drop policy is reported as queued
  (`internal_dispatch.go:123`).
- A stop by reply marks and cancels whatever run the room has by then (`abort_helpers.go:160`); a drainer that
  already took its messages, or a steer+backlog requeue, is not reached by a stop
  (`client.go:774`, `pending_queue.go:503`).
- The size of a collected batch is counted in one critical section and popped in another; an
  overflow, a stop or an interrupt in between changes which messages those are
  (`pending_queue.go:300`), so that one turn may merge messages of two threads. It takes four
  messages: one that runs, two of a thread in a queue of two, and one of another thread that
  evicts the first of them. With three it cannot happen.
- With the policy "summarize", a reset or a stop between the snapshot in which a drainer takes `lastItem`
  for a summary (`pending_queue.go:341`) and `consumeQueueSummary` empties the queue; the
  summary is then empty, and the item runs as an ordinary prompt (`pending_queue.go:393`) although
  its sender was told "Stopped.". TLC finds `StoppedNeverStarts` violated so; it is why
  `SpecStopIsFinal` excludes that policy.
- A stop between the taking of a summary and the popping of the batch it goes with leaves an empty
  candidate, and the summary is gone without a word (`pending_queue.go:325`, `client.go:780`).

Approvals:

- A reaction accepted before `Wait` begins is lost when the wait starts with a lookup that no longer
  finds the approval (`approval_flow.go:1103`, `bridges/ai/tool_approvals.go:326`): an approved call
  is treated as denied.
- A prompt may be edited to "timed out" after the channel accepted an answer and before
  `FinishResolved` (`approval_flow.go:1087`); finalizing one of two prompts that share a target
  settles the target for both (`:1017`); the reaper may finalize a request that was registered
  again under the same ID (`:359`); `Resolve` may mark the wrong `Pending` as done (`:1368`); a
  prompt finalized before its message is bound leaves the message open (`:975`).
- When an approval ID is used again, the second request may be timed out early: `Register` replaces a
  `Pending` that has expired (`:383`), and then the `Wait` of the first request, which has noticed its
  own expiry, times out whatever the ID has by then (`:551`), and so may its finish and its
  `Resolve` (`:518`). Approval IDs of Codex may be the number of the server's JSON-RPC request
  (`bridges/codex/client.go:2168`), which starts anew when the app server does. `TimeoutIsDue` is
  about IDs used once.
- An OpenClaw request with a missing or past `ExpiresAtMs` gets a `Pending` of ten minutes (`:378`,
  `bridges/openclaw/manager.go:1755`), but a prompt that is over (`manager.go:1658`), so that it is
  timed out as soon as the prompt is bound (`:1342`). A given end that is ahead is kept by both.

SDK:

- With a negative `IdleTimeoutMs` (`sdk/turn_manager.go:14`, `sdk/turn.go:984`) a turn whose provider falls silent
  never ends.
- A goroutine that looked up its gate before the gate was evicted waits for ever, or until its context
  ends (`sdk/turn_manager.go:92`); `CountedTurnEnds` is about waiters that were counted.
- `NextSeq` and queueing are two critical sections, so two writers may queue their parts in the
  opposite order of their numbers (`turns/session.go:247`); `OrderedStream` speaks of the
  order of queueing.
- A stream registered after the session was closed stays registered (`turns/session.go:127`).

Scheduler (`bridges/ai/scheduler*.go`):

- A failed save leaves a tick that carries the revision of the next update: it may run a job early.
- `delayedEventExistsLocked` never reports a delay as missing, so a lost tick is not sent again.
- After a skipped heartbeat whose retry could not be scheduled, reconciling sends a tick whose key
  was already processed: that heartbeat ends.
- When sending fails after the pending tick was cancelled, the record keeps its stale ID; a
  wake-up that fails so saves nothing. A wake-up whose `NextRunAt` has passed is ignored from then on.
- A reconnect of a heartbeat during a run, or with a wake-up or retry pending, starts a second chain of
  ticks. So does one before its first run, while its tick is pending: the record is given `now` plus
  the interval as its next run (`scheduler_heartbeat.go:255`), which is later than that tick, so a wake-up
  is accepted while the tick's run is in progress. And so does switching it off and on after a change of
  its interval: the change counts the revision up and forgets the pending tick without cancelling it
  (`:366`), and the new record starts at the first revision, which that tick may carry.
- A planner tick of a heartbeat that is handled after the run of the same due time was skipped (delivered
  again, its key forgotten) sends a tick whose key was processed already, so that heartbeat ends.
- A finished one-shot job that is given a new time does not run (`scheduler_cron.go:678`); after a
  manual run of a kept one-shot job reconciling forgets its pending tick, which still fires.
- A tick delivered again while its run is in progress runs twice.
- A tick delivered late may run again although its run is recorded: when the record, which keeps
  the last eight run keys, has forgotten it; and when a heartbeat was switched off, removed by
  reconciling and switched on again, because the new record starts at the first revision
  with no run keys (`scheduler_heartbeat.go:352`). `RecordedNotRepeated` is about the rest.

Codex (`bridges/codex/client.go`):

- The terminal event of a turn is dropped when the turn subscribes later than a second after it
  (`:1442`); a queued message whose thread cannot be loaded leaves the queue waiting (`:1877`).
- A call that enters `pending` between `failAllPending` and `Close` waits for its deadline; a client
  whose child died is used again (`:1293`).
- From the code, not the model: Disconnect clears `cc.rpc` while `runTurn` reads it without a lock
  (`:611`).

OpenClaw (`bridges/openclaw`):

- `Close` of a healthy connection waits for the reader inside `shutdownOnce` while the reader, on its way
  out, waits for that same `Once` (`gateway_client.go:655`). `Stop`, and `Start` after a failed
  synchronisation, hang there unless the reader stood at the channel.
- The reader may send on the channel that shutdown has closed (`DeliverPanics`).
- An event handler that waits for an answer behind an event the channel has no room for is freed only
  by its deadline or a failing ping (`gateway_client.go:1275`).
- Disconnect may come between `Start` leaving without closing (its context is cancelled) and `Stop`
  finding no gateway any more: nobody closes the connection.
- From the code, not the model: run recovery checks that no stream is active, and a final event that
  arrives after the check adds the message a second time (`manager.go:2360`).

Inbound (`bridges/ai`):

- Text in the hands of a fired timer can be overtaken by media or a command, although the buffer is
  flushed first (`handlematrix.go:249`).
- A stop typed as text neither flushes nor drops debounced text, which runs after the stop.
- Disconnect cancels the login's context before it flushes, and clears rooms and queues right after
  (`client.go:855`).
- An event whose handling failed counts as seen when it is delivered again.

## 8. Not modelled

The parts of the plan that are still to come (section 2), most of all sub-agents, response retry,
the OpenCode manager and the session state of the OpenClaw manager. Beyond it: the SQL of the session store and
bridge database, tools, media, search, fetching and memory (calls to services, no protocol of
their own); agents, prompts, policies and model catalogues (text and tables); connectors,
provisioning and commands (glue; stop and reset are in `RoomDispatch`); the client cache and login
steps (a map behind one mutex); typing and status indicators; the CLI and the managed runtime; the
dummy bridge and generated code. Most of the repository's lines are of these kinds, which is why the
share of lines the map names is small.

## 9. Running it

    tlc -config RoomMain.cfg MCRoomDispatch.tla        # also RoomLive.cfg
    tlc -config ApprovalCodex.cfg MCApprovalFlow.tla   # also ApprovalAi.cfg, ApprovalRemote.cfg
    tlc -config TurnGates.cfg MCTurnManager.tla
    tlc -config TurnStream.cfg MCSdkTurn.tla
    tlc -config Scheduler.cfg MCScheduler.tla
    tlc -config CodexTurns.cfg MCCodexRoom.tla         # also CodexWedge.cfg
    tlc -config Gateway.cfg MCGatewayClient.tla
    tlc -config Inbound.cfg MCInbound.tla
    tlapm RoomDispatchProofs.tla                       # and the other ...Proofs modules
