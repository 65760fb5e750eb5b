----------------------------- MODULE Scheduler -----------------------------
(***************************************************************************)
(* src/bridges/ai/scheduler.go: ticks, requests, restarts and reconnects   *)
(* of one entity, a cron job or the heartbeat of an agent.  s.mu is held   *)
(* by every action but for the execution of a run, which lies between the  *)
(* two critical sections of its handler.                                   *)
(***************************************************************************)
EXTENDS CronJobs, Heartbeats

ASSUME NoRecordAssumption == None \notin Job \cup Beat \cup Nat \cup [at : Int, n : Nat]

VARIABLE entity     \* what the record is: "cron" or "heartbeat"

allVars == <<vars, interval, entity>>

TypeOK ==
    /\ now \in 1..MaxTime
    /\ delayed \cup inbox \cup runs \subseteq Tick
    /\ finished \subseteq Key
    /\ sent \in Nat /\ ops \in 0..MaxOps /\ faults \in 0..MaxFaults
    /\ healthy \in BOOLEAN
    /\ trouble \subseteq Fault \cup {"again", "overlap"}
    /\ interval \in Intervals
    /\ entity \in {"cron", "heartbeat"}
    /\ rec # None => rec \in (IF entity = "cron" THEN Job ELSE Beat)

Init ==
    /\ TicksInit
    /\ entity \in {"cron", "heartbeat"}
    /\ interval \in Intervals
    /\ entity = "cron" => interval = 0

OnTheWay == {t \in delayed \cup inbox : t.key.kind # "manual"}

\* Can a reconciliation repair the record?  Not when it has a pending delay that
\* is gone, nor when a heartbeat is due at a time whose run was skipped before.
Repairable ==
    rec # None =>
        /\ rec.pending # None => \E t \in OnTheWay : t.id = rec.pending /\ Current(t)
        /\ entity = "heartbeat" => ~DueWasSkipped(rec)

\* What a reconnect does not notice about a heartbeat: the ticks being handled;
\* that its pending tick is a wake-up or a retry, or was due an interval after an
\* earlier connect, when it gives it the time of the next regular run; and, when
\* it removes the heartbeat, ticks other than the pending one.
Unnoticed ==
    /\ entity = "heartbeat"
    /\ \/ runs \cup inbox # {}
       \/ rec # None /\ \E t \in delayed : \/ t.key.kind \in {"wake", "retry"}
                                           \/ rec.last = None
                                           \/ interval = 0 /\ t.id # rec.pending

\* reconcile, on every connect: a start of the process or a reconnect of the
\* login while runs are in progress.
Reconcile ==
    \E f \in Fault \ {"load"} :    \* one that cannot load changes nothing
        /\ Operate
        /\ f # "none" => faults < MaxFaults
        /\ faults' = IF f = "none" THEN faults ELSE faults + 1
        /\ Save(IF entity = "cron" THEN ReconciledCron(f) ELSE ReconciledBeat(f), f)
        /\ trouble' = trouble \cup ({f} \ {"none"})
                             \cup (IF Unnoticed THEN {"overlap"} ELSE {})
        /\ healthy' = (f \in {"none", "cancel"} /\ Repairable)
        /\ finished' = IF rec' = None THEN {} ELSE finished
        /\ UNCHANGED <<now, inbox, runs, interval, entity>>

Serve(t) ==
    IF entity = "cron"
    THEN (HandleCronPlan(t) \/ StartCronRun(t)) /\ UNCHANGED interval
    ELSE HandleHeartbeatPlan(t) \/ StartHeartbeatRun(t)

Finish(t) ==
    IF entity = "cron" THEN FinishCronRun(t) /\ UNCHANGED interval ELSE FinishHeartbeatRun(t)

Request ==
    IF entity = "cron"
    THEN (CronAdd \/ CronUpdate \/ CronRemove \/ CronRun) /\ UNCHANGED interval
    ELSE RequestHeartbeatNow \/ Configure

\* Time passes, the homeserver delivers what is due, and handlers go on.
Progress ==
    \/ Advance /\ UNCHANGED <<interval, entity>>
    \/ Deliver /\ UNCHANGED <<interval, entity>>
    \/ \E t \in inbox : Serve(t) /\ UNCHANGED entity
    \/ \E t \in runs : Finish(t) /\ UNCHANGED entity

Next ==
    \/ Progress
    \/ Request /\ UNCHANGED entity
    \/ \E repeated \in SUBSET inbox : Crash(repeated) /\ UNCHANGED <<interval, entity>>
    \/ Reconcile

Spec == Init /\ [][Next]_allVars

\* Each of these steps uses something up, so none of them can starve another.
FairSpec == Spec /\ WF_allVars(Progress)

-----------------------------------------------------------------------------
(* Properties.                                                             *)

\* Is something still to happen for the record, by its own schedule?
Owed == rec # None /\ rec.enabled /\ (entity = "cron" => rec.at = Recurring \/ ~rec.ran)

\* A recurring job gets its next tick before it is executed; a one-shot job
\* and a heartbeat live on in the handler of their run.
AtWork == {t \in runs : /\ t.key.kind # "manual"
                        /\ entity = "cron" => rec.at # Recurring}

\* Nothing scheduled is ever forgotten: as long as no call failed and nothing
\* was lost since the last reconciliation that could repair it, an enabled
\* entity that is due again has a tick its handler will accept, or is at
\* work, through updates, wake-ups, planner ticks, crashes and reconnects.
OwedHasTick == healthy /\ Owed => \E t \in OnTheWay \cup AtWork : Current(t)

\* As long as an entity is owed a run the only tick a handler would accept is
\* the pending one of the record: there is no second chain of ticks.  Lost
\* answers, failed saves and cancellations, a tick delivered twice and what a
\* reconnect does not notice do make second chains; see the README.
LiveIsPending ==
    trouble \subseteq {"load", "send"} =>
        \A t \in OnTheWay : Owed /\ Current(t) => t.id = rec.pending

\* Whatever is owed a run has a chain of ticks, and one only.
OneChain == OwedHasTick /\ LiveIsPending

\* A one-shot job never starts on its own before the time of its current
\* schedule, whatever ticks of older schedules could not be cancelled.  (A failed
\* save leaves a tick with the revision that the next update will use.)
NeverEarly ==
    [][\A t \in runs' \ runs :
          /\ entity = "cron" /\ t.key.kind # "manual" /\ rec.at # Recurring
          /\ "save" \notin trouble
          => now >= rec.at]_allVars

\* A run that was finished and recorded is not started again by a tick that is
\* delivered once more, also not after a restart, unless the record has no room
\* left and forgot the key for later ones.  (A heartbeat that was removed and
\* comes back is a new record of the first revision; see the README.)
RecordedNotRepeated ==
    [][\A t \in runs' \ runs : t.key \in finished => Len(rec.keys) = KeyLimit]_allVars

\* A one-shot job of which nothing was lost is executed in the end, unless it
\* is switched off or removed.
OneShotRuns ==
    (entity = "cron" /\ Owed /\ rec.at # Recurring /\ healthy)
        ~> (entity = "heartbeat" \/ rec = None \/ ~rec.enabled \/ rec.ran \/ ~healthy)
=============================================================================
