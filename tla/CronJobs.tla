------------------------------ MODULE CronJobs ------------------------------
(***************************************************************************)
(* src/bridges/ai/scheduler_cron.go: one cron job, from CronAdd to its     *)
(* removal.  A job of kind "at" is due once; the kinds "every" (with an    *)
(* anchor) and "cron" are due on a grid of slots.  Validation, the job's   *)
(* text, its room, the status fields of its last run and RunningAtMs,      *)
(* which is only shown, are left out; executing the job ends in one way    *)
(* because every outcome is recorded alike.                                *)
(***************************************************************************)
EXTENDS DelayedTicks

CONSTANTS
    Every       \* the distance of the grid of a recurring job

ASSUME CronAssumption == Every \in Nat \ {0}

Recurring == -1     \* the time of a job that is not of kind "at"

Job == [at : Int, enabled : BOOLEAN, deleteAfterRun : BOOLEAN, ran : BOOLEAN, rev : Nat,
        pending : Nat \cup {None}, keys : Seq(Key)]

NextSlot(t) == (t \div Every + 1) * Every

\* computeInitialCronDue
InitialDue(job, n) ==
    CASE job.at = Recurring -> [at |-> NextSlot(now), n |-> 0]
      [] job.at # Recurring /\ job.ran -> None
      [] OTHER -> IF job.at <= now THEN [at |-> now, n |-> n] ELSE [at |-> job.at, n |-> 0]

\* scheduleCronDueLocked
ScheduleDue(d, due, f) == ScheduleTick(d, KeyTowards(d.rec, due, d.sent + 1), f)

\* scheduleCronRecordLocked without validateExisting
ScheduleRecord_NoReplan(d, f) == [d EXCEPT !.rec.pending = None]

ScheduleRecord(d, f) ==
    LET due == InitialDue(d.rec, d.sent + 1)
    IN  IF due = None \/ ~d.rec.enabled
        THEN [d EXCEPT !.rec.pending = None]
        ELSE ScheduleDue(CancelPending(d, f), due, f)

-----------------------------------------------------------------------------
(* Requests of the agent's cron tool.                                      *)

CronAdd ==
    \E at \in {Recurring} \cup (now..MaxTime), once \in BOOLEAN, on \in BOOLEAN,
       f \in Fault \ {"load", "cancel"} :
        /\ ops = 0 /\ Operate
        /\ Suffer(f)
        /\ LET job == [at |-> at, enabled |-> on, deleteAfterRun |-> once, ran |-> FALSE, rev |-> 1,
                       pending |-> None, keys |-> <<>>]
           IN  Save(ScheduleRecord(Draft(job), f), f)
        /\ UNCHANGED <<now, inbox, runs, finished>>

\* applyScheduledCronPatch: switch the job on or off, or move its time.
Patched_SameRevision(job, on, at) == [job EXCEPT !.enabled = on, !.at = at]

Patched(job, on, at) == [job EXCEPT !.enabled = on, !.at = at, !.rev = @ + 1]

CronUpdate ==
    /\ rec # None
    /\ Operate
    /\ \E on \in BOOLEAN, at \in {rec.at} \cup (IF rec.at = Recurring THEN {} ELSE now..MaxTime),
          f \in Fault \ {"load"} :
        /\ Suffer(f)
        /\ LET patched == Patched(rec, on, at)
           IN  Save(ScheduleRecord(CancelPending(Draft(patched), f), f), f)
    /\ UNCHANGED <<now, inbox, runs, finished>>

CronRemove ==
    \E f \in {"none", "save", "cancel"} :
        /\ rec # None /\ Operate
        /\ Suffer(f)
        /\ Save([CancelPending(Draft(rec), f) EXCEPT !.rec = None], f)
        /\ UNCHANGED <<now, inbox, runs, finished>>

\* The revision is read here; the run starts in another critical section.
CronRun ==
    /\ rec # None /\ rec.enabled
    /\ Operate
    /\ sent' = sent + 1
    /\ inbox' = inbox \cup {[id |-> sent + 1,
                             key |-> [rev |-> rec.rev, kind |-> "manual", at |-> now, n |-> sent + 1]]}
    /\ UNCHANGED <<now, delayed, rec, runs, faults, healthy, trouble, finished>>

-----------------------------------------------------------------------------
(* Ticks.                                                                  *)

HandleCronPlan(t) ==
    \E f \in (Fault \ {"cancel"}) \cup {"again"} :
        /\ t.key.kind = "plan"
        /\ Taken(t, f)
        /\ IF f = "load" \/ ~Current(t)
           THEN Suffer(f) /\ UNCHANGED <<rec, delayed, sent>>
           ELSE /\ Suffer(f)
                /\ Save(ScheduleRecord(Draft([rec EXCEPT !.pending = None,
                                                         !.keys = AppendRunKey(@, t.key)]), f), f)
        /\ UNCHANGED <<now, runs, ops, finished>>

\* A tick has come: the next one is scheduled before the job is executed.
Rescheduled_Late(t, f) == Draft([rec EXCEPT !.pending = None])

Rescheduled(t, f) ==
    IF t.key.kind = "manual" THEN Draft(rec)
    ELSE LET d == Draft([rec EXCEPT !.pending = None])
             last == IF t.key.at > now THEN t.key.at ELSE now
         IN  IF rec.at # Recurring THEN d
             ELSE ScheduleDue(d, [at |-> NextSlot(last), n |-> 0], f)

StartCronRun(t) ==
    \E f \in (Fault \ {"cancel"}) \cup {"again"} :
        /\ t.key.kind # "plan"
        /\ Taken(t, f)
        /\ Suffer(f)
        /\ IF f = "load" \/ ~Current(t)
           THEN UNCHANGED <<rec, delayed, sent, runs>>
           ELSE /\ Save(Rescheduled(t, f), f)
                /\ runs' = IF f = "save" THEN runs ELSE runs \cup {t}
        /\ UNCHANGED <<now, ops, finished>>

\* The job has been executed, successfully or not.
FinishedJob(t) ==
    [rec EXCEPT !.ran = TRUE, !.keys = AppendRunKey(@, t.key),
                !.enabled = @ /\ ~rec.deleteAfterRun,
                !.pending = IF rec.deleteAfterRun THEN None ELSE @]

FinishCronRun(t) ==
    \E f \in {"none", "load", "save", "cancel"} :
        /\ t \in runs
        /\ runs' = runs \ {t}
        /\ Suffer(f)
        /\ IF f = "load" \/ ~Current(t)
           THEN UNCHANGED <<rec, delayed, sent, finished>>
           ELSE /\ Save([(IF rec.deleteAfterRun THEN CancelPending(Draft(rec), f) ELSE Draft(rec))
                         EXCEPT !.rec = FinishedJob(t)], f)
                /\ finished' = IF f = "save" THEN finished ELSE finished \cup {t.key}
        /\ UNCHANGED <<now, inbox, ops>>

-----------------------------------------------------------------------------
(* reconcileCronLocked, when the login connects.  The look-up of a delayed *)
(* event fails or returns a list, so a pending delay is never found        *)
(* missing: delayedEventExistsLocked compares the answer with nil.         *)

ReconciledCron(f) ==
    IF rec = None \/ (rec.pending # None /\ rec.enabled /\ InitialDue(rec, sent + 1) # None)
    THEN Draft(rec)
    ELSE ScheduleRecord(Draft(rec), f)
=============================================================================
