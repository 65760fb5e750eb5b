----------------------------- MODULE Heartbeats -----------------------------
(***************************************************************************)
(* src/bridges/ai/scheduler_heartbeat.go: the managed heartbeat of one     *)
(* agent.  A heartbeat has no schedule of its own: each run schedules the  *)
(* next, an interval after its end, or a retry a minute later when it was  *)
(* skipped; a wake-up takes the place of the pending tick.                 *)
(*                                                                         *)
(* Abstracted: why a run is skipped (quiet hours, requests in flight, the  *)
(* heartbeat file), active hours, which shift a due time, and the time of  *)
(* the last heartbeat of the session, the due time of a heartbeat that has *)
(* never run.                                                              *)
(***************************************************************************)
EXTENDS DelayedTicks

CONSTANTS
    Intervals,  \* the intervals the configuration may give, in slots; 0, one of them, switches off
    Coalesce    \* scheduleHeartbeatCoalesce, in slots

ASSUME HeartbeatAssumption == 0 \in Intervals /\ Intervals \subseteq Nat /\ Coalesce \in Nat \ {0}

VARIABLE interval   \* the configured interval

Beat == [enabled : {TRUE}, rev : Nat, interval : Nat \ {0}, pending : Nat \cup {None}, next : Nat,
         last : [at : Int, n : Nat] \cup {None}, keys : Seq(Key)]

\* upsertManagedHeartbeat, for an interval that is not 0.
Upserted(beat) ==
    CASE beat = None -> [enabled |-> TRUE, rev |-> 1, interval |-> interval, pending |-> None,
                         next |-> 0, last |-> None, keys |-> <<>>]
      [] beat # None /\ beat.interval # interval ->
            [beat EXCEPT !.interval = interval, !.rev = @ + 1, !.pending = None]
      [] OTHER -> beat

\* computeManagedHeartbeatDue
BeatDue(beat, n) ==
    IF beat.last = None THEN [at |-> now + beat.interval, n |-> n]
    ELSE [at |-> beat.last.at + beat.interval, n |-> beat.last.n]

\* A successful send sets NextRunAtMs with the pending delay.
SendBeat(d, key, next, f) ==
    LET sentTick == ScheduleTick(d, key, f)
    IN  IF f \in {"send", "answer"} THEN sentTick ELSE [sentTick EXCEPT !.rec.next = next]

\* scheduleHeartbeatStateLocked without validateExisting
ScheduleState(d, f) ==
    LET due == BeatDue(d.rec, d.sent + 1)
    IN  SendBeat(CancelPending(d, f), KeyTowards(d.rec, due, d.sent + 1), due.at, f)

\* scheduleHeartbeatRetryLocked
ScheduleRetry(d, f) ==
    SendBeat(CancelPending(d, f),
             [rev |-> d.rec.rev, kind |-> "retry", at |-> now + Coalesce, n |-> d.sent + 1],
             now + Coalesce, f)

-----------------------------------------------------------------------------

Configure ==
    /\ Operate
    /\ interval' \in Intervals \ {interval}
    /\ UNCHANGED <<now, delayed, inbox, sent, rec, runs, faults, healthy, trouble, finished>>

\* A wake-up that comes when the next run is near, or late, is dropped; so is
\* one whose pending tick cannot be cancelled any more.  When its tick cannot
\* be sent nothing is saved, and the pending tick is cancelled all the same.
RequestHeartbeatNow ==
    \E f \in Fault \ {"load"} :
        LET beat == Upserted(rec)
            d == CancelPending(Draft(beat), f)
            wake == [rev |-> beat.rev, kind |-> "wake", at |-> now, n |-> sent + 1]
        IN  /\ interval > 0 /\ Operate
            /\ beat.next = 0 \/ beat.next - now > Coalesce
            /\ Suffer(f)
            /\ IF beat.pending # None /\ d.delayed = delayed
               THEN UNCHANGED <<rec, delayed, sent>>
               ELSE Save(SendBeat(d, wake, now, f), IF f \in {"send", "answer"} THEN "save" ELSE f)
            /\ UNCHANGED <<now, inbox, runs, finished, interval>>

\* The run at the due time of the heartbeat was skipped before: a tick scheduled
\* for it has the run key that the record has processed already.
DueWasSkipped(beat) ==
    /\ beat.last # None
    /\ \E k \in Range(beat.keys) : k.kind = "run" /\ k.rev = beat.rev /\ k.n = beat.last.n

HandleHeartbeatPlan(t) ==
    \E f \in (Fault \ {"cancel"}) \cup {"again"} :
        /\ t.key.kind = "plan"
        /\ Taken(t, f)
        /\ Suffering(f, Current(t) /\ DueWasSkipped(rec))
        /\ IF f = "load" \/ ~Current(t)
           THEN UNCHANGED <<rec, delayed, sent>>
           ELSE Save(ScheduleState(Draft([rec EXCEPT !.pending = None,
                                                     !.keys = AppendRunKey(@, t.key)]), f), f)
        /\ UNCHANGED <<now, runs, ops, finished, interval>>

StartHeartbeatRun(t) ==
    \E f \in {"none", "load", "save", "again"} :
        /\ t.key.kind # "plan"
        /\ Taken(t, f)
        /\ Suffer(f)
        /\ IF f = "load" \/ ~Current(t)
           THEN UNCHANGED <<rec, delayed, sent, runs>>
           ELSE /\ Save(Draft([rec EXCEPT !.pending = None]), f)
                /\ runs' = IF f = "save" THEN runs ELSE runs \cup {t}
        /\ UNCHANGED <<now, ops, finished, interval>>

\* The draft after a run, or after a skipped one.
AfterRun(ran, f) ==
    LET d == Draft(rec)
    IN  IF ran
        THEN ScheduleState([d EXCEPT !.rec.last = [at |-> now, n |-> sent + 1]], f)
        ELSE ScheduleRetry(d, f)

FinishHeartbeatRun(t) ==
    \E ran \in BOOLEAN, f \in Fault :
        /\ t \in runs
        /\ runs' = runs \ {t}
        /\ Suffer(f)
        /\ IF f = "load" \/ ~Current(t)
           THEN UNCHANGED <<rec, delayed, sent, finished>>
           ELSE /\ Save([AfterRun(ran, f) EXCEPT !.rec.keys = AppendRunKey(@, t.key)], f)
                /\ finished' = IF f = "save" THEN finished ELSE finished \cup {t.key}
        /\ UNCHANGED <<now, inbox, ops, interval>>

-----------------------------------------------------------------------------
(* reconcileHeartbeatLocked; the look-up as in CronJobs.                   *)

ReconciledBeat_NeverOff(f) ==
    IF Upserted(rec).pending # None THEN Draft(Upserted(rec)) ELSE ScheduleState(Draft(Upserted(rec)), f)

ReconciledBeat(f) ==
    CASE interval = 0 -> [(IF rec = None THEN Draft(rec) ELSE CancelPending(Draft(rec), f))
                          EXCEPT !.rec = None]
      [] interval # 0 /\ Upserted(rec).pending # None ->
            Draft([Upserted(rec) EXCEPT !.next = BeatDue(Upserted(rec), sent + 1).at])
      [] OTHER -> ScheduleState(Draft(Upserted(rec)), f)
=============================================================================
