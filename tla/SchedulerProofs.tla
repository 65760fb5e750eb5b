-------------------------- MODULE SchedulerProofs --------------------------
(***************************************************************************)
(* Theorems about Scheduler, for every horizon, grid, interval and bound.  *)
(*                                                                         *)
(* NeverEarly: a one-shot job is not started before its time.  Ticks of    *)
(* older schedules may still come, so the invariant EInv is about every    *)
(* tick there is: none carries a revision the record has not reached, and  *)
(* one of the current revision that would run the job is not early.  A     *)
(* failed save breaks it, because the tick that was sent then keeps the    *)
(* revision of the next update.                                            *)
(*                                                                         *)
(* TypeOK and RecordedNotRepeated hold with every fault.  The invariant    *)
(* RInv says which record a section may save: it keeps the run keys of the *)
(* finished runs as long as there is room for them.                        *)
(*                                                                         *)
(* OneChain: what each section does is put into one of three forms first,  *)
(* the record planned with one new tick, changed without one, or kept; see *)
(* the lemmas called ...Outcome.  The invariant ChainInv says that ticks   *)
(* and run keys are of the past (so a planned key is new), that a healthy  *)
(* record's pending tick is acceptable or a run is in progress, and that   *)
(* everything else on its way is of an earlier revision.  For a heartbeat  *)
(* that needs the time of its next run as well: it has passed while a run  *)
(* is in progress, and that alone keeps wake-ups away.                     *)
(***************************************************************************)
EXTENDS Scheduler, SequenceTheorems, TLAPS

\* No tick is ahead of record r, and no tick of its revision would run it early.
Timely(r, ticks) ==
    \A t \in ticks :
        /\ t.key.rev <= r.rev
        /\ t.key.rev = r.rev /\ t.key.kind \notin {"plan", "manual"} /\ r.at # Recurring
           => t.key.at >= r.at

CronInv ==
    /\ now \in Nat /\ sent \in Nat /\ ops \in Nat
    /\ delayed \cup inbox \cup runs \subseteq Tick
    /\ rec # None => rec \in Job /\ Timely(rec, delayed \cup inbox)
    /\ \A t \in inbox : t.key.kind # "manual" => t.key.at <= now
    /\ ops = 0 => rec = None /\ delayed = {} /\ inbox = {}

EInv == entity = "cron" /\ "save" \notin trouble => CronInv

Drafts == [rec : Job, delayed : SUBSET Tick, sent : Nat]

\* What the planning of a draft may do: it keeps the job and its revision, and
\* every tick of the draft stays timely.
Plans(d, e) ==
    /\ e \in Drafts
    /\ e.rec.rev = d.rec.rev /\ e.rec.at = d.rec.at
    /\ Timely(e.rec, e.delayed)

-----------------------------------------------------------------------------
(* Lemmas about the operators of DelayedTicks and CronJobs.                *)

LEMMA AppendType ==
    ASSUME NEW keys \in Seq(Key), NEW key \in Key
    PROVE  AppendRunKey(keys, key) \in Seq(Key)
<1>1. Append(keys, key) \in Seq(Key) /\ Len(Append(keys, key)) = Len(keys) + 1
  BY SMT
<1>2. Append(keys, key) # <<>> /\ Len(keys) \in Nat
  BY <1>1, SMT
<1>3. Tail(Append(keys, key)) \in Seq(Key)
  BY <1>1, <1>2, SMT
<1> QED
  BY <1>1, <1>3 DEF AppendRunKey

\* A tick of the current revision that is not early may be sent.
LEMMA ScheduleTickPlans ==
    ASSUME NEW d \in Drafts, NEW f, NEW key \in Key, Timely(d.rec, d.delayed),
           key.rev = d.rec.rev,
           key.kind # "plan" /\ d.rec.at # Recurring => key.at >= d.rec.at
    PROVE  Plans(d, ScheduleTick(d, key, f))
<1> DEFINE tick == [id |-> d.sent + 1, key |-> key]
           all == d.delayed \cup {tick}
           after == [d.rec EXCEPT !.pending = d.sent + 1]
<1>1. d.rec \in Job /\ d.sent + 1 \in Nat /\ all \subseteq Tick /\ tick.key = key
  BY DEF Drafts, Tick
<1>2. after \in Job /\ after.rev = d.rec.rev /\ after.at = d.rec.at
  BY <1>1 DEF Job
<1>3. Timely(d.rec, all) /\ Timely(after, all)
  BY <1>1, <1>2 DEF Timely, Job, Tick, Key
<1>4. CASE f = "send"
  BY <1>4 DEF ScheduleTick, Plans
<1>5. CASE f = "answer"
  <2>1. ScheduleTick(d, key, f) = [rec |-> d.rec, delayed |-> all, sent |-> d.sent + 1]
    BY <1>5 DEF ScheduleTick, Drafts
  <2> QED
    BY <2>1, <1>1, <1>3 DEF Plans, Drafts
<1>6. CASE f \notin {"send", "answer"}
  <2>1. ScheduleTick(d, key, f) = [rec |-> after, sent |-> d.sent + 1, delayed |-> all]
    BY <1>6 DEF ScheduleTick
  <2> HIDE DEF after, all
  <2> QED
    BY <2>1, <1>1, <1>2, <1>3 DEF Plans, Drafts
<1> QED
  BY <1>4, <1>5, <1>6

LEMMA CancelPlans ==
    ASSUME NEW d \in Drafts, NEW f, Timely(d.rec, d.delayed)
    PROVE  /\ Plans(d, CancelPending(d, f))
           /\ CancelPending(d, f).rec = d.rec
           /\ CancelPending(d, f).delayed \subseteq d.delayed
           /\ CancelPending(d, f).sent = d.sent
<1> DEFINE rest == {t \in d.delayed : t.id # d.rec.pending}
<1>1. CASE f = "cancel"
  BY <1>1 DEF CancelPending, Plans
<1>2. CASE f # "cancel"
  <2>1. CancelPending(d, f) = [rec |-> d.rec, delayed |-> rest, sent |-> d.sent]
    BY <1>2 DEF CancelPending, Drafts
  <2>2. Timely(d.rec, rest)
    BY DEF Timely
  <2> QED
    BY <2>1, <2>2 DEF Plans, Drafts
<1> QED
  BY <1>1, <1>2

LEMMA NextSlotType ==
    ASSUME NEW t \in Nat
    PROVE  NextSlot(t) \in Nat
<1>1. Every \in Nat /\ Every > 0
  BY CronAssumption
<1>2. t \div Every \in Nat
  BY <1>1, SMT
<1> QED
  BY <1>1, <1>2, SMT DEF NextSlot

\* A due time that is not early leads to a run that is not, or to a planner tick.
LEMMA ScheduleDuePlans ==
    ASSUME NEW d \in Drafts, NEW f, NEW due \in [at : Int, n : Nat],
           now \in Nat, Timely(d.rec, d.delayed),
           d.rec.at # Recurring => due.at >= d.rec.at
    PROVE  Plans(d, ScheduleDue(d, due, f))
<1> DEFINE key == KeyTowards(d.rec, due, d.sent + 1)
<1>1. d.rec \in Job /\ d.sent + 1 \in Nat /\ Horizon \in Nat
  BY TicksAssumption DEF Drafts
<1>2. key \in Key
  BY <1>1 DEF KeyTowards, Key, Job
<1>3. key.rev = d.rec.rev /\ (key.kind # "plan" /\ d.rec.at # Recurring => key.at >= d.rec.at)
  BY <1>1 DEF KeyTowards
<1> HIDE DEF key
<1>4. Plans(d, ScheduleTick(d, key, f))
  BY <1>2, <1>3, ScheduleTickPlans
<1> QED
  BY <1>4 DEF ScheduleDue, key

LEMMA InitialDueType ==
    ASSUME NEW job \in Job, NEW n \in Nat, now \in Nat, InitialDue(job, n) # None
    PROVE  /\ InitialDue(job, n) \in [at : Int, n : Nat]
           /\ job.at # Recurring => InitialDue(job, n).at >= job.at
<1>1. CASE job.at = Recurring
  <2>1. InitialDue(job, n) = [at |-> NextSlot(now), n |-> 0]
    BY <1>1 DEF InitialDue
  <2> QED
    BY <1>1, <2>1, NextSlotType
<1>2. CASE job.at # Recurring
  <2>1. ~job.ran
    BY <1>2 DEF InitialDue
  <2>2. InitialDue(job, n) = IF job.at <= now THEN [at |-> now, n |-> n] ELSE [at |-> job.at, n |-> 0]
    BY <1>2, <2>1 DEF InitialDue
  <2> QED
    BY <2>2 DEF Job
<1> QED
  BY <1>1, <1>2

\* Every way to plan a job anew: on a request, a planner tick or a connect.
LEMMA ScheduleRecordPlans ==
    ASSUME NEW d \in Drafts, NEW f, now \in Nat, Timely(d.rec, d.delayed)
    PROVE  Plans(d, ScheduleRecord(d, f))
<1> DEFINE due == InitialDue(d.rec, d.sent + 1)
           idle == [d.rec EXCEPT !.pending = None]
           e == CancelPending(d, f)
<1>1. d.rec \in Job /\ d.sent + 1 \in Nat
  BY DEF Drafts
<1>2. CASE due = None \/ ~d.rec.enabled
  <2>1. ScheduleRecord(d, f) = [rec |-> idle, delayed |-> d.delayed, sent |-> d.sent]
    BY <1>2 DEF ScheduleRecord, Drafts
  <2>2. idle \in Job /\ idle.rev = d.rec.rev /\ idle.at = d.rec.at
    BY <1>1 DEF Job
  <2>3. Timely(idle, d.delayed)
    BY <2>2 DEF Timely
  <2> HIDE DEF idle
  <2> QED
    BY <2>1, <2>2, <2>3 DEF Plans, Drafts
<1>3. CASE due # None /\ d.rec.enabled
  <2>1. ScheduleRecord(d, f) = ScheduleDue(e, due, f)
    BY <1>3 DEF ScheduleRecord
  <2>2. e \in Drafts /\ e.rec = d.rec /\ Timely(e.rec, e.delayed)
    BY CancelPlans DEF Plans
  <2>3. due \in [at : Int, n : Nat] /\ (d.rec.at # Recurring => due.at >= d.rec.at)
    BY <1>1, <1>3, InitialDueType
  <2> HIDE DEF due, e
  <2>4. Plans(e, ScheduleDue(e, due, f))
    BY <2>2, <2>3, ScheduleDuePlans
  <2> QED
    BY <2>1, <2>2, <2>4 DEF Plans
<1> QED
  BY <1>2, <1>3

\* The next tick of a recurring job, sent before the job is executed.
LEMMA RescheduledPlans ==
    ASSUME NEW t \in Tick, NEW f, now \in Nat, sent \in Nat, delayed \subseteq Tick,
           rec \in Job, Timely(rec, delayed)
    PROVE  Plans(Draft(rec), Rescheduled(t, f))
<1> DEFINE idle == [rec EXCEPT !.pending = None]
           last == IF t.key.at > now THEN t.key.at ELSE now
           due == [at |-> NextSlot(last), n |-> 0]
<1>1. Draft(rec) = [rec |-> rec, delayed |-> delayed, sent |-> sent]
  BY DEF Draft
<1>2. idle \in Job /\ idle.rev = rec.rev /\ idle.at = rec.at
  BY DEF Job
<1>3. Draft(idle) = [rec |-> idle, delayed |-> delayed, sent |-> sent]
  BY DEF Draft
<1>4. Timely(idle, delayed)
  BY <1>2 DEF Timely
<1>5. last \in Nat
  BY DEF Tick, Key
<1>6. due \in [at : Int, n : Nat]
  BY <1>5, NextSlotType
<1>7. Rescheduled(t, f) = IF t.key.kind = "manual" THEN Draft(rec)
                          ELSE IF rec.at # Recurring THEN Draft(idle)
                          ELSE ScheduleDue(Draft(idle), due, f)
  BY DEF Rescheduled
<1> HIDE DEF idle, last, due
<1>8. Draft(rec) \in Drafts /\ Draft(idle) \in Drafts
  BY <1>1, <1>2, <1>3 DEF Drafts
<1>9. rec.at = Recurring => Plans(Draft(idle), ScheduleDue(Draft(idle), due, f))
  BY <1>2, <1>3, <1>4, <1>6, <1>8, ScheduleDuePlans
<1> QED
  BY <1>1, <1>2, <1>3, <1>4, <1>7, <1>8, <1>9 DEF Plans

-----------------------------------------------------------------------------
(* The invariant, action by action.                                        *)

LEMMA DraftOfRecord ==
    ASSUME CronInv, NEW r \in Job, Timely(r, delayed)
    PROVE  Draft(r) \in Drafts /\ Draft(r).rec = r /\ Draft(r).delayed = delayed
BY DEF Draft, Drafts, CronInv

\* A critical section that plans the record anew and saves it.
LEMMA SavedPlan ==
    ASSUME CronInv, NEW r \in Job, NEW e, NEW f, f # "save",
           Timely(r, delayed \cup inbox), Plans(Draft(r), e), Save(e, f),
           inbox' \subseteq inbox, runs' \subseteq Tick, now' = now, ops' \in Nat \ {0}
    PROVE  CronInv'
<1>1. rec' = e.rec /\ delayed' = e.delayed /\ sent' = e.sent
  BY DEF Save
<1>2. e.rec \in Job /\ e.rec.rev = r.rev /\ e.rec.at = r.at
  BY DEF Plans, Drafts, Draft
<1>3. e.delayed \subseteq Tick /\ e.sent \in Nat /\ Timely(e.rec, e.delayed)
  BY DEF Plans, Drafts
<1>4. Timely(e.rec, inbox')
  BY <1>2 DEF Timely
<1>5. Timely(rec', delayed' \cup inbox')
  BY <1>1, <1>3, <1>4 DEF Timely
<1>6. \A t \in inbox' : t.key.kind # "manual" => t.key.at <= now'
  BY DEF CronInv
<1>7. (delayed \cup inbox \cup runs)' \subseteq Tick
  BY <1>1, <1>3 DEF CronInv
<1>8. now' \in Nat /\ sent' \in Nat /\ ops' \in Nat /\ ops' # 0
  BY <1>1, <1>3 DEF CronInv
<1> QED
  BY <1>1, <1>2, <1>5, <1>6, <1>7, <1>8 DEF CronInv

\* A section that finds nothing to do for the record.
LEMMA TickTaken ==
    ASSUME CronInv, UNCHANGED <<rec, delayed, sent, now, ops>>,
           inbox' \subseteq inbox, runs' \subseteq Tick
    PROVE  CronInv'
BY DEF CronInv, Timely

LEMMA ReconcileStep ==
    ASSUME CronInv, entity = "cron", Reconcile, "save" \notin trouble'
    PROVE  CronInv'
<1>1. PICK f \in Fault \ {"load"} : /\ Operate /\ Save(ReconciledCron(f), f)
                                    /\ trouble' = trouble \cup ({f} \ {"none"})
                                         \cup (IF Unnoticed THEN {"overlap"} ELSE {})
                                    /\ UNCHANGED <<now, inbox, runs>>
  BY Zenon DEF Reconcile
<1>2. f # "save"
  BY <1>1
<1>3. ops' \in Nat \ {0} /\ runs' \subseteq Tick
  BY <1>1 DEF CronInv, Operate
<1>4. CASE rec = None
  <2>1. ReconciledCron(f) = [rec |-> rec, delayed |-> delayed, sent |-> sent]
    BY <1>4 DEF ReconciledCron, Draft
  <2>2. UNCHANGED <<rec, delayed, sent>>
    BY <1>1, <1>2, <2>1 DEF Save
  <2> QED
    BY <1>1, <1>3, <1>4, <2>2 DEF CronInv
<1>5. CASE rec # None
  <2>1. rec \in Job /\ Timely(rec, delayed) /\ Timely(rec, delayed \cup inbox)
    BY <1>5 DEF CronInv, Timely
  <2>2. Draft(rec) \in Drafts /\ Draft(rec).rec = rec /\ Draft(rec).delayed = delayed
    BY <2>1, DraftOfRecord
  <2>3. Plans(Draft(rec), ReconciledCron(f))
    <3>1. Plans(Draft(rec), Draft(rec))
      BY <2>1, <2>2 DEF Plans
    <3>2. Plans(Draft(rec), ScheduleRecord(Draft(rec), f))
      BY <2>1, <2>2, ScheduleRecordPlans DEF CronInv
    <3> QED
      BY <3>1, <3>2 DEF ReconciledCron
  <2> QED
    BY <1>1, <1>2, <1>3, <2>1, <2>3, SavedPlan
<1> QED
  BY <1>4, <1>5

LEMMA AddStep ==
    ASSUME CronInv, CronAdd, "save" \notin trouble'
    PROVE  CronInv'
<1>1. PICK at \in {Recurring} \cup (now..MaxTime), once \in BOOLEAN, on \in BOOLEAN,
           f \in Fault \ {"load", "cancel"} :
        /\ ops = 0 /\ Operate /\ Suffer(f)
        /\ Save(ScheduleRecord(Draft([at |-> at, enabled |-> on, deleteAfterRun |-> once,
                                      ran |-> FALSE, rev |-> 1, pending |-> None, keys |-> <<>>]), f), f)
        /\ UNCHANGED <<now, inbox, runs>>
  BY Zenon DEF CronAdd
<1> DEFINE job == [at |-> at, enabled |-> on, deleteAfterRun |-> once, ran |-> FALSE, rev |-> 1,
                   pending |-> None, keys |-> <<>>]
<1>2. job \in Job
  BY DEF CronInv, Recurring, Job
<1>3. Timely(job, delayed) /\ Timely(job, delayed \cup inbox)
  BY <1>1 DEF CronInv, Timely
<1>4. f # "save" /\ ops' \in Nat \ {0} /\ runs' \subseteq Tick
  BY <1>1 DEF Suffer, Suffering, Operate, CronInv
<1>5. Save(ScheduleRecord(Draft(job), f), f)
  BY <1>1
<1> HIDE DEF job
<1>6. Plans(Draft(job), ScheduleRecord(Draft(job), f))
  BY <1>2, <1>3, DraftOfRecord, ScheduleRecordPlans DEF CronInv
<1> QED
  BY <1>1, <1>2, <1>3, <1>4, <1>5, <1>6, SavedPlan

LEMMA PatchedType ==
    ASSUME NEW job \in Job, NEW on \in BOOLEAN, NEW time \in Int
    PROVE  Patched(job, on, time) \in Job /\ Patched(job, on, time).rev = job.rev + 1
<1> DEFINE switched == [job EXCEPT !.enabled = on]
           moved == [switched EXCEPT !.at = time]
<1>1. switched \in Job /\ switched.rev = job.rev
  BY DEF Job
<1> HIDE DEF switched
<1>2. moved \in Job /\ moved.rev = job.rev
  BY <1>1 DEF Job
<1> HIDE DEF moved
<1>3. job.rev + 1 \in Nat
  BY DEF Job
<1>4. [moved EXCEPT !.rev = job.rev + 1] \in Job /\ [moved EXCEPT !.rev = job.rev + 1].rev = job.rev + 1
  BY <1>2, <1>3 DEF Job
<1>5. Patched(job, on, time) = [moved EXCEPT !.rev = job.rev + 1]
  BY DEF Patched, Job, moved, switched
<1> QED
  BY <1>4, <1>5

\* The update gives the job a revision that no tick has yet.
LEMMA UpdateStep ==
    ASSUME CronInv, CronUpdate, "save" \notin trouble'
    PROVE  CronInv'
<1>1. rec \in Job /\ Timely(rec, delayed \cup inbox) /\ rec # None
  BY DEF CronUpdate, CronInv
<1>2. PICK on \in BOOLEAN, at \in {rec.at} \cup (IF rec.at = Recurring THEN {} ELSE now..MaxTime),
           f \in Fault \ {"load"} :
        /\ Suffer(f)
        /\ Save(ScheduleRecord(CancelPending(Draft(Patched(rec, on, at)), f), f), f)
  BY Zenon DEF CronUpdate
<1> DEFINE job == Patched(rec, on, at)
           cleared == CancelPending(Draft(job), f)
<1>3. at \in Int /\ on \in BOOLEAN
  BY <1>1, <1>2 DEF Job, CronInv
<1>4. job \in Job /\ job.rev = rec.rev + 1
  BY <1>1, <1>3, PatchedType
<1>5. Timely(job, delayed) /\ Timely(job, delayed \cup inbox)
  BY <1>1, <1>4 DEF CronInv, Timely, Tick, Key, Job
<1>6. f # "save" /\ ops' \in Nat \ {0} /\ runs' \subseteq Tick /\ now' = now /\ inbox' = inbox
  BY <1>2 DEF CronUpdate, Suffer, Suffering, Operate, CronInv
<1>7. Save(ScheduleRecord(cleared, f), f)
  BY <1>2
<1> HIDE DEF job
<1>8. Draft(job) \in Drafts /\ Draft(job).rec = job /\ Draft(job).delayed = delayed
  BY <1>4, <1>5, DraftOfRecord
<1>9. Plans(Draft(job), cleared) /\ cleared.rec = job
  BY <1>5, <1>8, CancelPlans
<1> HIDE DEF cleared
<1>10. Plans(cleared, ScheduleRecord(cleared, f))
  BY <1>9, ScheduleRecordPlans DEF Plans, CronInv
<1>11. Plans(Draft(job), ScheduleRecord(cleared, f))
  BY <1>8, <1>9, <1>10 DEF Plans
<1> QED
  BY <1>4, <1>5, <1>6, <1>7, <1>11, SavedPlan

LEMMA RemoveStep ==
    ASSUME CronInv, CronRemove, "save" \notin trouble'
    PROVE  CronInv'
<1>1. rec \in Job /\ Timely(rec, delayed) /\ rec # None
  BY DEF CronRemove, CronInv, Timely
<1>2. PICK f \in {"none", "save", "cancel"} :
        Operate /\ Suffer(f) /\ Save([CancelPending(Draft(rec), f) EXCEPT !.rec = None], f)
        /\ UNCHANGED <<now, inbox, runs>>
  BY Zenon DEF CronRemove
<1> DEFINE cleared == CancelPending(Draft(rec), f)
<1>3. cleared \in Drafts /\ cleared.delayed \subseteq delayed
  BY <1>1, DraftOfRecord, CancelPlans DEF Plans
<1> HIDE DEF cleared
<1>4. f # "save"
  BY <1>2 DEF Suffer, Suffering
<1>5. rec' = None /\ delayed' = cleared.delayed /\ sent' = cleared.sent
  BY <1>2, <1>3, <1>4 DEF Save, Drafts, cleared
<1> QED
  BY <1>2, <1>3, <1>5 DEF CronInv, Operate, Drafts

LEMMA ManualRunStep ==
    ASSUME CronInv, CronRun
    PROVE  CronInv'
<1> DEFINE tick == [id |-> sent + 1, key |-> [rev |-> rec.rev, kind |-> "manual", at |-> now, n |-> sent + 1]]
<1>1. rec \in Job /\ rec # None /\ rec' = rec
  BY DEF CronRun, CronInv
<1>2. tick \in Tick /\ tick.key.kind = "manual" /\ tick.key.rev = rec.rev
  BY <1>1 DEF Tick, Key, Job, CronInv
<1>3. inbox' = inbox \cup {tick} /\ sent' = sent + 1 /\ UNCHANGED <<now, delayed, runs>>
  BY DEF CronRun
<1>4. ops' \in Nat \ {0}
  BY DEF CronRun, Operate, CronInv
<1> HIDE DEF tick
<1>5. Timely(rec', delayed' \cup inbox')
  BY <1>1, <1>2, <1>3 DEF Timely, CronInv, Job
<1> QED
  BY <1>1, <1>2, <1>3, <1>4, <1>5 DEF CronInv

LEMMA PlanTickStep ==
    ASSUME CronInv, NEW t \in inbox, HandleCronPlan(t), "save" \notin trouble'
    PROVE  CronInv'
<1>1. PICK f \in (Fault \ {"cancel"}) \cup {"again"} :
        /\ Taken(t, f) /\ Suffer(f)
        /\ IF f = "load" \/ ~Current(t)
           THEN UNCHANGED <<rec, delayed, sent>>
           ELSE Save(ScheduleRecord(Draft([rec EXCEPT !.pending = None,
                                                      !.keys = AppendRunKey(@, t.key)]), f), f)
        /\ UNCHANGED <<now, runs, ops>>
  BY Zenon DEF HandleCronPlan
<1>2. f # "save" /\ inbox' \subseteq inbox /\ runs' \subseteq Tick
  BY <1>1 DEF Suffer, Suffering, Taken, CronInv
<1>3. CASE f = "load" \/ ~Current(t)
  BY <1>1, <1>2, <1>3, TickTaken
<1>4. CASE ~(f = "load" \/ ~Current(t))
  <2> DEFINE job == [rec EXCEPT !.pending = None, !.keys = AppendRunKey(@, t.key)]
  <2>1. rec # None /\ rec \in Job /\ Timely(rec, delayed \cup inbox) /\ t.key \in Key
    BY <1>4 DEF Current, CronInv, Tick
  <2>2. AppendRunKey(rec.keys, t.key) \in Seq(Key)
    BY <2>1, AppendType DEF Job
  <2>3. job \in Job /\ job.rev = rec.rev /\ job.at = rec.at
    BY <2>1, <2>2 DEF Job
  <2>4. Save(ScheduleRecord(Draft(job), f), f)
    BY <1>1, <1>4
  <2> HIDE DEF job
  <2>5. Timely(job, delayed) /\ Timely(job, delayed \cup inbox)
    BY <2>1, <2>3 DEF Timely
  <2>6. Plans(Draft(job), ScheduleRecord(Draft(job), f))
    BY <2>3, <2>5, DraftOfRecord, ScheduleRecordPlans DEF CronInv
  <2>7. now' = now /\ ops' \in Nat \ {0}
    BY <1>1, <2>1 DEF CronInv
  <2> QED
    BY <1>2, <2>3, <2>4, <2>5, <2>6, <2>7, SavedPlan
<1> QED
  BY <1>3, <1>4

LEMMA RunTickStep ==
    ASSUME CronInv, NEW t \in inbox, StartCronRun(t), "save" \notin trouble'
    PROVE  CronInv'
<1>1. PICK f \in (Fault \ {"cancel"}) \cup {"again"} :
        /\ Taken(t, f) /\ Suffer(f)
        /\ IF f = "load" \/ ~Current(t)
           THEN UNCHANGED <<rec, delayed, sent, runs>>
           ELSE /\ Save(Rescheduled(t, f), f)
                /\ runs' = IF f = "save" THEN runs ELSE runs \cup {t}
        /\ UNCHANGED <<now, ops>>
  BY Zenon DEF StartCronRun
<1>2. f # "save" /\ inbox' \subseteq inbox /\ t \in Tick /\ runs' \subseteq Tick
  BY <1>1 DEF Suffer, Suffering, Taken, CronInv
<1>3. CASE f = "load" \/ ~Current(t)
  BY <1>1, <1>2, <1>3, TickTaken
<1>4. CASE ~(f = "load" \/ ~Current(t))
  <2>1. rec # None /\ rec \in Job /\ Timely(rec, delayed) /\ Timely(rec, delayed \cup inbox)
    BY <1>4 DEF Current, CronInv, Timely
  <2>2. Plans(Draft(rec), Rescheduled(t, f))
    BY <1>2, <2>1, RescheduledPlans DEF CronInv
  <2>3. now' = now /\ ops' \in Nat \ {0}
    BY <1>1, <2>1 DEF CronInv
  <2> QED
    BY <1>1, <1>2, <1>4, <2>1, <2>2, <2>3, SavedPlan
<1> QED
  BY <1>3, <1>4

LEMMA FinishStep ==
    ASSUME CronInv, NEW t \in runs, FinishCronRun(t), "save" \notin trouble'
    PROVE  CronInv'
<1>1. PICK f \in {"none", "load", "save", "cancel"} :
        /\ runs' = runs \ {t} /\ Suffer(f)
        /\ IF f = "load" \/ ~Current(t)
           THEN UNCHANGED <<rec, delayed, sent, finished>>
           ELSE /\ Save([(IF rec.deleteAfterRun THEN CancelPending(Draft(rec), f) ELSE Draft(rec))
                         EXCEPT !.rec = FinishedJob(t)], f)
                /\ finished' = IF f = "save" THEN finished ELSE finished \cup {t.key}
        /\ UNCHANGED <<now, inbox, ops>>
  BY Zenon DEF FinishCronRun
<1>2. f # "save" /\ t \in Tick /\ runs' \subseteq Tick
  BY <1>1 DEF Suffer, Suffering, CronInv
<1>3. CASE f = "load" \/ ~Current(t)
  BY <1>1, <1>2, <1>3, TickTaken
<1>4. CASE ~(f = "load" \/ ~Current(t))
  <2> DEFINE job == FinishedJob(t)
             d == IF rec.deleteAfterRun THEN CancelPending(Draft(rec), f) ELSE Draft(rec)
             e == [d EXCEPT !.rec = job]
  <2>1. rec # None /\ rec \in Job /\ Timely(rec, delayed) /\ Timely(rec, delayed \cup inbox)
        /\ t.key \in Key
    BY <1>2, <1>4 DEF Current, CronInv, Timely, Tick
  <2>2. AppendRunKey(rec.keys, t.key) \in Seq(Key)
    BY <2>1, AppendType DEF Job
  <2>3. job \in Job /\ job.rev = rec.rev /\ job.at = rec.at
    BY <2>1, <2>2 DEF Job, FinishedJob
  <2>4. Save(e, f)
    BY <1>1, <1>4
  <2>5. d \in Drafts /\ d.delayed \subseteq delayed
    BY <2>1, DraftOfRecord, CancelPlans DEF Plans
  <2> HIDE DEF job, d
  <2>6. e \in Drafts /\ e.rec = job /\ e.delayed = d.delayed
    BY <2>3, <2>5 DEF Drafts
  <2> HIDE DEF e
  <2>7. Timely(job, delayed \cup inbox) /\ Timely(job, e.delayed)
    BY <2>1, <2>3, <2>5, <2>6 DEF Timely
  <2>8. Draft(job).rec = job
    BY DEF Draft
  <2>9. Plans(Draft(job), e)
    BY <2>6, <2>7, <2>8 DEF Plans
  <2>10. now' = now /\ ops' \in Nat \ {0} /\ inbox' = inbox
    BY <1>1, <2>1 DEF CronInv
  <2> QED
    BY <1>2, <2>3, <2>4, <2>7, <2>9, <2>10, SavedPlan
<1> QED
  BY <1>3, <1>4

\* The clock, the homeserver and a crash.
LEMMA WorldStep ==
    ASSUME CronInv, Advance \/ Deliver \/ \E repeated \in SUBSET inbox : Crash(repeated)
    PROVE  CronInv'
<1>1. CASE Advance
  BY <1>1 DEF Advance, CronInv, Timely, Tick, Key
<1>2. CASE Deliver
  <2>1. PICK t \in delayed : /\ t.key.at <= now
                             /\ delayed' = delayed \ {t} /\ inbox' = inbox \cup {t}
                             /\ UNCHANGED <<now, sent, rec, runs, ops>>
    BY <1>2, Zenon DEF Deliver
  <2>2. delayed' \cup inbox' = delayed \cup inbox
    BY <2>1
  <2> QED
    BY <2>1, <2>2 DEF CronInv
<1>3. CASE \E repeated \in SUBSET inbox : Crash(repeated)
  <2>1. inbox' \subseteq inbox /\ runs' = {} /\ ops' = ops + 1
        /\ UNCHANGED <<now, sent, rec, delayed>>
    BY <1>3 DEF Crash, Operate
  <2> QED
    BY <2>1 DEF CronInv, Timely
<1> QED
  BY <1>1, <1>2, <1>3

-----------------------------------------------------------------------------
(* The theorems.                                                           *)

\* What is true of the trouble of a history stays true.
LEMMA TroubleStays ==
    ASSUME [Next]_allVars
    PROVE  entity' = entity /\ ("save" \in trouble => "save" \in trouble')
<1>1. CASE Progress
  BY <1>1 DEF Progress, Advance, Deliver, Serve, Finish, HandleCronPlan, StartCronRun, FinishCronRun,
              HandleHeartbeatPlan, StartHeartbeatRun, FinishHeartbeatRun, Suffer, Suffering
<1>2. CASE Request /\ UNCHANGED entity
  BY <1>2 DEF Request, CronAdd, CronUpdate, CronRemove, CronRun, RequestHeartbeatNow, Configure, Suffer, Suffering
<1>3. CASE Reconcile
  BY <1>3 DEF Reconcile
<1>4. CASE \E repeated \in SUBSET inbox : Crash(repeated) /\ UNCHANGED <<interval, entity>>
  BY <1>4 DEF Crash
<1>5. CASE UNCHANGED allVars
  BY <1>5 DEF allVars, vars
<1> QED
  BY <1>1, <1>2, <1>3, <1>4, <1>5 DEF Next

LEMMA NextEInv ==
    ASSUME EInv, [Next]_allVars
    PROVE  EInv'
<1> SUFFICES ASSUME entity' = "cron", "save" \notin trouble'
             PROVE  CronInv'
  BY DEF EInv
<1>1. CronInv /\ entity = "cron"
  BY TroubleStays DEF EInv
<1>2. CASE Progress
  BY <1>1, <1>2, WorldStep, PlanTickStep, RunTickStep, FinishStep DEF Progress, Serve, Finish
<1>3. CASE Request
  BY <1>1, <1>3, AddStep, UpdateStep, RemoveStep, ManualRunStep DEF Request
<1>4. CASE Reconcile
  BY <1>1, <1>4, ReconcileStep
<1>5. CASE \E repeated \in SUBSET inbox : Crash(repeated)
  BY <1>1, <1>5, WorldStep
<1>6. CASE UNCHANGED allVars
  BY <1>1, <1>6 DEF CronInv, Timely, allVars, vars
<1> QED
  BY <1>2, <1>3, <1>4, <1>5, <1>6 DEF Next

\* As long as every save succeeded, no tick of a cron job is ahead of the record
\* and none of its revision would run a one-shot job early.
THEOREM SpecEInv == Spec => []EInv
<1>1. Init => EInv
  BY DEF Init, TicksInit, EInv, CronInv
<1>2. EInv /\ [Next]_allVars => EInv'
  BY NextEInv
<1> QED
  BY <1>1, <1>2, PTL DEF Spec

\* A run starts from a tick of the record's revision that has come, so not
\* before its time, which is not before the time of the job.
THEOREM SpecNeverEarly == Spec => NeverEarly
<1> DEFINE Starts == \A t \in runs' \ runs :
                        /\ entity = "cron" /\ t.key.kind # "manual" /\ rec.at # Recurring
                        /\ "save" \notin trouble
                        => now >= rec.at
<1>1. EInv /\ [Next]_allVars => [Starts]_allVars
  <2> SUFFICES ASSUME EInv, Next, NEW t \in runs' \ runs, entity = "cron", t.key.kind # "manual",
                      rec.at # Recurring, "save" \notin trouble
               PROVE  now >= rec.at
    OBVIOUS
  <2>1. t \in inbox /\ StartCronRun(t)
    BY DEF Next, Progress, Request, Reconcile, Advance, Deliver, Crash, Serve, Finish, HandleCronPlan,
           FinishCronRun, CronAdd, CronUpdate, CronRemove, CronRun, StartCronRun
  <2>2. t.key.kind # "plan" /\ Current(t)
    BY <2>1 DEF StartCronRun
  <2>3. CronInv /\ rec # None
    BY <2>2 DEF EInv, Current
  <2>4. t.key.at <= now /\ t.key.at >= rec.at /\ t.key.rev = rec.rev
    BY <2>1, <2>2, <2>3 DEF CronInv, Timely, Current
  <2> QED
    BY <2>1, <2>3, <2>4 DEF CronInv, Tick, Key, Job
<1> QED
  BY SpecEInv, <1>1, PTL DEF Spec, NeverEarly

-----------------------------------------------------------------------------
(* What every critical section keeps, whatever call of it fails: the types *)
(* of the record and its ticks, and the run keys.                          *)

Drafting(R) == [rec : R, delayed : SUBSET Tick, sent : Nat]

\* A kind of record that may be given another pending delay.
Plannable(R) == \A r \in R, p \in Nat \cup {None} : [r EXCEPT !.pending = p] \in R

LEMMA ScheduleTickType ==
    ASSUME NEW R, Plannable(R), NEW d \in Drafting(R), NEW f, NEW key \in Key
    PROVE  ScheduleTick(d, key, f) \in Drafting(R)
<1> DEFINE tick == [id |-> d.sent + 1, key |-> key]
           all == d.delayed \cup {tick}
           after == [d.rec EXCEPT !.pending = d.sent + 1]
<1>1. d.rec \in R /\ d.sent + 1 \in Nat /\ all \subseteq Tick
  BY DEF Drafting, Tick
<1>2. after \in R
  BY <1>1 DEF Plannable
<1>3. CASE f = "send"
  BY <1>3 DEF ScheduleTick
<1>4. CASE f = "answer"
  <2>1. ScheduleTick(d, key, f) = [rec |-> d.rec, delayed |-> all, sent |-> d.sent + 1]
    BY <1>4 DEF ScheduleTick, Drafting
  <2> QED
    BY <2>1, <1>1 DEF Drafting
<1>5. CASE f \notin {"send", "answer"}
  <2>1. ScheduleTick(d, key, f) = [rec |-> after, sent |-> d.sent + 1, delayed |-> all]
    BY <1>5 DEF ScheduleTick
  <2> HIDE DEF after, all
  <2> QED
    BY <2>1, <1>1, <1>2 DEF Drafting
<1> QED
  BY <1>3, <1>4, <1>5

LEMMA CancelType ==
    ASSUME NEW R, NEW d \in Drafting(R), NEW f
    PROVE  /\ CancelPending(d, f) \in Drafting(R)
           /\ CancelPending(d, f).rec = d.rec
           /\ CancelPending(d, f).sent = d.sent
<1> DEFINE rest == {t \in d.delayed : t.id # d.rec.pending}
<1>1. CASE f = "cancel"
  BY <1>1 DEF CancelPending
<1>2. CASE f # "cancel"
  <2>1. CancelPending(d, f) = [rec |-> d.rec, delayed |-> rest, sent |-> d.sent]
    BY <1>2 DEF CancelPending, Drafting
  <2> QED
    BY <2>1 DEF Drafting
<1> QED
  BY <1>1, <1>2

LEMMA KeyTowardsType ==
    ASSUME NEW r, r.rev \in Nat, NEW due \in [at : Int, n : Nat], NEW n \in Nat, now \in Nat
    PROVE  KeyTowards(r, due, n) \in Key
<1>1. Horizon \in Nat
  BY TicksAssumption
<1> QED
  BY <1>1 DEF KeyTowards, Key

\* The cron jobs with run keys ks, and the heartbeats.
JobsWith(ks) == {job \in Job : job.keys = ks}
BeatsWith(ks) == {beat \in Beat : beat.keys = ks /\ (beat.last # None => beat.last.at \in Nat)}

LEMMA PlannableKinds ==
    ASSUME NEW ks
    PROVE  Plannable(JobsWith(ks)) /\ Plannable(BeatsWith(ks))
<1>1. ASSUME NEW r \in JobsWith(ks), NEW p \in Nat \cup {None}
      PROVE  [r EXCEPT !.pending = p] \in JobsWith(ks)
  BY DEF JobsWith, Job
<1>2. ASSUME NEW r \in BeatsWith(ks), NEW p \in Nat \cup {None}
      PROVE  [r EXCEPT !.pending = p] \in BeatsWith(ks)
  BY DEF BeatsWith, Beat
<1> QED
  BY <1>1, <1>2 DEF Plannable

LEMMA ScheduleDueType ==
    ASSUME NEW ks, NEW d \in Drafting(JobsWith(ks)), NEW f, NEW due \in [at : Int, n : Nat], now \in Nat
    PROVE  ScheduleDue(d, due, f) \in Drafting(JobsWith(ks))
<1>1. d.rec.rev \in Nat /\ d.sent + 1 \in Nat
  BY DEF Drafting, JobsWith, Job
<1> QED
  BY <1>1, KeyTowardsType, PlannableKinds, ScheduleTickType DEF ScheduleDue

LEMMA ScheduleRecordType ==
    ASSUME NEW ks, NEW d \in Drafting(JobsWith(ks)), NEW f, now \in Nat
    PROVE  ScheduleRecord(d, f) \in Drafting(JobsWith(ks))
<1> DEFINE due == InitialDue(d.rec, d.sent + 1)
           idle == [d.rec EXCEPT !.pending = None]
           e == CancelPending(d, f)
<1>1. d.rec \in JobsWith(ks) /\ d.rec \in Job /\ d.sent + 1 \in Nat
  BY DEF Drafting, JobsWith
<1>2. CASE due = None \/ ~d.rec.enabled
  <2>1. ScheduleRecord(d, f) = [rec |-> idle, delayed |-> d.delayed, sent |-> d.sent]
    BY <1>2 DEF ScheduleRecord, Drafting
  <2>2. idle \in JobsWith(ks)
    BY <1>1, PlannableKinds DEF Plannable
  <2> HIDE DEF idle
  <2> QED
    BY <2>1, <2>2 DEF Drafting
<1>3. CASE due # None /\ d.rec.enabled
  <2>1. ScheduleRecord(d, f) = ScheduleDue(e, due, f)
    BY <1>3 DEF ScheduleRecord
  <2>2. e \in Drafting(JobsWith(ks))
    BY CancelType
  <2>3. due \in [at : Int, n : Nat]
    BY <1>1, <1>3, InitialDueType
  <2> HIDE DEF due, e
  <2> QED
    BY <2>1, <2>2, <2>3, ScheduleDueType
<1> QED
  BY <1>2, <1>3

LEMMA RescheduledType ==
    ASSUME NEW t \in Tick, NEW f, now \in Nat, sent \in Nat, delayed \subseteq Tick, rec \in Job
    PROVE  Rescheduled(t, f) \in Drafting(JobsWith(rec.keys))
<1> DEFINE idle == [rec EXCEPT !.pending = None]
           last == IF t.key.at > now THEN t.key.at ELSE now
           due == [at |-> NextSlot(last), n |-> 0]
<1>1. rec \in JobsWith(rec.keys) /\ idle \in JobsWith(rec.keys)
  BY PlannableKinds DEF JobsWith, Plannable
<1>2. last \in Nat
  BY DEF Tick, Key
<1>3. due \in [at : Int, n : Nat]
  BY <1>2, NextSlotType
<1>4. Rescheduled(t, f) = IF t.key.kind = "manual" THEN Draft(rec)
                          ELSE IF rec.at # Recurring THEN Draft(idle)
                          ELSE ScheduleDue(Draft(idle), due, f)
  BY DEF Rescheduled
<1> HIDE DEF idle, last, due
<1>5. Draft(rec) \in Drafting(JobsWith(rec.keys)) /\ Draft(idle) \in Drafting(JobsWith(rec.keys))
  BY <1>1 DEF Draft, Drafting
<1>6. ScheduleDue(Draft(idle), due, f) \in Drafting(JobsWith(rec.keys))
  BY <1>3, <1>5, ScheduleDueType
<1> QED
  BY <1>4, <1>5, <1>6

LEMMA BeatDueType ==
    ASSUME NEW ks, NEW beat \in BeatsWith(ks), NEW n \in Nat, now \in Nat
    PROVE  BeatDue(beat, n) \in [at : Nat, n : Nat]
BY DEF BeatDue, BeatsWith, Beat

LEMMA SendBeatType ==
    ASSUME NEW ks, NEW d \in Drafting(BeatsWith(ks)), NEW key \in Key, NEW next \in Nat, NEW f
    PROVE  SendBeat(d, key, next, f) \in Drafting(BeatsWith(ks))
<1> DEFINE e == ScheduleTick(d, key, f)
           r == [e.rec EXCEPT !.next = next]
<1>1. e \in Drafting(BeatsWith(ks))
  BY PlannableKinds, ScheduleTickType
<1>2. SendBeat(d, key, next, f) = IF f \in {"send", "answer"} THEN e ELSE [e EXCEPT !.rec.next = next]
  BY DEF SendBeat
<1> HIDE DEF e
<1>3. e.rec \in BeatsWith(ks)
  BY <1>1 DEF Drafting
<1>4. r \in BeatsWith(ks)
  BY <1>3 DEF BeatsWith, Beat
<1>5. [e EXCEPT !.rec.next = next] = [rec |-> r, delayed |-> e.delayed, sent |-> e.sent]
  BY <1>1 DEF Drafting
<1> HIDE DEF r
<1>6. [e EXCEPT !.rec.next = next] \in Drafting(BeatsWith(ks))
  BY <1>1, <1>4, <1>5 DEF Drafting
<1> QED
  BY <1>1, <1>2, <1>6

LEMMA ScheduleStateType ==
    ASSUME NEW ks, NEW d \in Drafting(BeatsWith(ks)), NEW f, now \in Nat
    PROVE  ScheduleState(d, f) \in Drafting(BeatsWith(ks))
<1> DEFINE due == BeatDue(d.rec, d.sent + 1)
           key == KeyTowards(d.rec, due, d.sent + 1)
           e == CancelPending(d, f)
<1>0. d.rec \in BeatsWith(ks) /\ d.sent + 1 \in Nat
  BY DEF Drafting
<1>1. d.rec.rev \in Nat
  BY <1>0 DEF BeatsWith, Beat
<1>2. due \in [at : Nat, n : Nat]
  BY <1>0, BeatDueType
<1>3. due \in [at : Int, n : Nat] /\ due.at \in Nat
  BY <1>2
<1> HIDE DEF due
<1>4. key \in Key
  BY <1>0, <1>1, <1>3, KeyTowardsType
<1>5. e \in Drafting(BeatsWith(ks))
  BY CancelType
<1>6. ScheduleState(d, f) = SendBeat(e, key, due.at, f)
  BY DEF ScheduleState, due
<1> HIDE DEF key, e
<1> QED
  BY <1>3, <1>4, <1>5, <1>6, SendBeatType

LEMMA ScheduleRetryType ==
    ASSUME NEW ks, NEW d \in Drafting(BeatsWith(ks)), NEW f, now \in Nat
    PROVE  ScheduleRetry(d, f) \in Drafting(BeatsWith(ks))
<1> DEFINE key == [rev |-> d.rec.rev, kind |-> "retry", at |-> now + Coalesce, n |-> d.sent + 1]
           e == CancelPending(d, f)
<1>0. d.rec \in BeatsWith(ks) /\ d.sent + 1 \in Nat /\ now + Coalesce \in Nat
  BY HeartbeatAssumption DEF Drafting
<1>1. d.rec.rev \in Nat
  BY <1>0 DEF BeatsWith, Beat
<1>2. key \in Key
  BY <1>0, <1>1 DEF Key
<1>3. e \in Drafting(BeatsWith(ks))
  BY CancelType
<1>4. ScheduleRetry(d, f) = SendBeat(e, key, now + Coalesce, f)
  BY DEF ScheduleRetry
<1> HIDE DEF key, e
<1> QED
  BY <1>0, <1>2, <1>3, <1>4, SendBeatType

\* upsertManagedHeartbeat keeps the run keys; a new record has none.
LEMMA UpsertedType ==
    ASSUME interval \in Nat \ {0}, rec # None => rec \in BeatsWith(rec.keys)
    PROVE  Upserted(rec) \in BeatsWith(IF rec = None THEN <<>> ELSE rec.keys)
<1>1. CASE rec = None
  <2>1. Upserted(rec) = [enabled |-> TRUE, rev |-> 1, interval |-> interval, pending |-> None,
                         next |-> 0, last |-> None, keys |-> <<>>]
    BY <1>1 DEF Upserted
  <2>2. <<>> \in Seq(Key)
    BY EmptySeq
  <2>3. Upserted(rec) \in Beat
    BY <2>1, <2>2 DEF Beat
  <2> QED
    BY <1>1, <2>1, <2>3 DEF BeatsWith
<1>2. CASE rec # None /\ rec.interval = interval
  BY <1>2 DEF Upserted
<1>3. CASE rec # None /\ rec.interval # interval
  <2> DEFINE moved == [rec EXCEPT !.interval = interval]
             newer == [moved EXCEPT !.rev = rec.rev + 1]
  <2>1. rec \in BeatsWith(rec.keys)
    BY <1>3
  <2>2. rec \in Beat /\ (rec.last # None => rec.last.at \in Nat)
    BY <2>1 DEF BeatsWith
  <2>3. rec.rev + 1 \in Nat
    BY <2>2 DEF Beat
  <2>4. moved \in Beat /\ moved.last = rec.last /\ moved.keys = rec.keys /\ moved.rev = rec.rev
    BY <2>2 DEF Beat
  <2>5. Upserted(rec) = [newer EXCEPT !.pending = None]
    BY <1>3, <2>2 DEF Upserted, Beat
  <2> HIDE DEF moved
  <2>6. newer \in Beat /\ newer.last = rec.last /\ newer.keys = rec.keys
    BY <2>2, <2>4, <2>3 DEF Beat
  <2>7. newer \in BeatsWith(rec.keys)
    BY <2>2, <2>6 DEF BeatsWith
  <2> HIDE DEF newer
  <2>8. [newer EXCEPT !.pending = None] \in BeatsWith(rec.keys)
    BY <2>7, PlannableKinds DEF Plannable
  <2> QED
    BY <1>3, <2>5, <2>8
<1> QED
  BY <1>1, <1>2, <1>3

LEMMA ElementsOfAppend ==
    ASSUME NEW S, NEW s \in Seq(S), NEW e \in S
    PROVE  /\ Append(s, e) \in Seq(S) /\ Len(Append(s, e)) = Len(s) + 1
           /\ ToSet(Append(s, e)) = ToSet(s) \cup {e}
<1> DEFINE t == Append(s, e)
<1>1. /\ t \in Seq(S)
      /\ Len(t) = Len(s) + 1
      /\ \A i \in 1 .. Len(s) : t[i] = s[i]
      /\ t[Len(s) + 1] = e
  BY AppendProperties
<1>2. DOMAIN t = DOMAIN s \cup {Len(s) + 1} /\ DOMAIN s = 1 .. Len(s)
  BY <1>1
<1> HIDE DEF t
<1>3. ToSet(t) = ToSet(s) \cup {e}
  BY <1>1, <1>2 DEF ToSet
<1> QED
  BY <1>1, <1>3 DEF t

\* The record has the run keys of all the runs in fin, or no room left for more.
Remembers(keys, fin) ==
    /\ keys \in Seq(Key) /\ Len(keys) <= KeyLimit
    /\ fin \subseteq ToSet(keys) \/ Len(keys) = KeyLimit

\* appendRunKey adds the key, and drops the oldest only when the record is full.
LEMMA AppendRemembers ==
    ASSUME NEW keys, NEW fin, Remembers(keys, fin), NEW key \in Key
    PROVE  Remembers(AppendRunKey(keys, key), fin \cup {key})
<1> DEFINE longer == Append(keys, key)
<1>1. keys \in Seq(Key) /\ Len(keys) \in Nat /\ KeyLimit \in Nat \ {0} /\ Len(keys) <= KeyLimit
      /\ (fin \subseteq ToSet(keys) \/ Len(keys) = KeyLimit)
  BY TicksAssumption DEF Remembers
<1>2. longer \in Seq(Key) /\ Len(longer) = Len(keys) + 1 /\ ToSet(longer) = ToSet(keys) \cup {key}
  BY <1>1, ElementsOfAppend
<1>3. longer # <<>>
  BY <1>1, <1>2, EmptySeq
<1>4. AppendRunKey(keys, key) = IF Contains(keys, key) THEN keys
                                ELSE IF Len(longer) > KeyLimit THEN Tail(longer) ELSE longer
  BY DEF AppendRunKey
<1>5. Contains(keys, key) => key \in ToSet(keys)
  BY <1>1 DEF Contains, ToSet
<1>6. Tail(longer) \in Seq(Key) /\ Len(Tail(longer)) = Len(longer) - 1
  BY <1>2, <1>3, HeadTailProperties
<1> HIDE DEF longer
<1>7. CASE Contains(keys, key)
  BY <1>1, <1>4, <1>5, <1>7 DEF Remembers
<1>8. CASE ~Contains(keys, key) /\ Len(longer) > KeyLimit
  BY <1>1, <1>2, <1>4, <1>6, <1>8 DEF Remembers
<1>9. CASE ~Contains(keys, key) /\ ~(Len(longer) > KeyLimit)
  BY <1>1, <1>2, <1>4, <1>9 DEF Remembers
<1> QED
  BY <1>7, <1>8, <1>9

LEMMA RemembersFewer ==
    ASSUME NEW keys, NEW fin, NEW fewer, Remembers(keys, fin), fewer \subseteq fin
    PROVE  Remembers(keys, fewer)
BY DEF Remembers

-----------------------------------------------------------------------------
(* The invariant of the record, for every fault.                           *)

\* What no section but a reconciliation decides about the record.
FrameOK ==
    /\ now \in 1..MaxTime
    /\ inbox \cup runs \subseteq Tick
    /\ ops \in 0..MaxOps /\ faults \in 0..MaxFaults
    /\ healthy \in BOOLEAN
    /\ trouble \subseteq Fault \cup {"again", "overlap"}
    /\ interval \in Intervals
    /\ entity \in {"cron", "heartbeat"}

RecordsWith(keys) == IF entity = "cron" THEN JobsWith(keys) ELSE BeatsWith(keys)

\* A record that is gone has no finished runs to remember: a job does not come
\* back, and a heartbeat that does starts with none.
RecordOK ==
    /\ delayed \subseteq Tick /\ sent \in Nat /\ finished \subseteq Key
    /\ rec # None => rec \in RecordsWith(rec.keys) /\ Remembers(rec.keys, finished)
    /\ rec = None /\ entity = "heartbeat" => finished = {}
    /\ entity = "cron" /\ ops = 0 => rec = None /\ finished = {}

RInv == FrameOK /\ RecordOK

\* A critical section that saves a draft with the run keys of the runs in fin.
LEMMA SaveKeeps ==
    ASSUME RecordOK, NEW keys, NEW d \in Drafting(RecordsWith(keys)), NEW f, Save(d, f),
           finished' \subseteq Key, f # "save" => Remembers(keys, finished'),
           f = "save" => finished' = finished,
           entity' = entity, entity = "cron" => ops' # 0 \/ (rec # None /\ ops' = ops)
    PROVE  RecordOK'
<1>1. d.rec \in RecordsWith(keys) /\ d.delayed \subseteq Tick /\ d.sent \in Nat
  BY DEF Drafting
<1>2. d.rec # None /\ d.rec.keys = keys
  BY <1>1, NoRecordAssumption DEF RecordsWith, JobsWith, BeatsWith
<1>3. delayed' \subseteq Tick /\ sent' \in Nat
  BY <1>1 DEF Save
<1>4. \A k : RecordsWith(k)' = RecordsWith(k)
  BY DEF RecordsWith
<1>5. entity' = "cron" => ops' # 0
  BY DEF RecordOK
<1>6. CASE f = "save"
  <2>1. rec' = rec /\ finished' = finished
    BY <1>6 DEF Save
  <2> QED
    BY <1>3, <1>4, <1>5, <2>1 DEF RecordOK
<1>7. CASE f # "save"
  <2>1. rec' = d.rec
    BY <1>7 DEF Save
  <2> QED
    BY <1>1, <1>2, <1>3, <1>4, <1>5, <1>7, <2>1 DEF RecordOK
<1> QED
  BY <1>6, <1>7

\* A section that changes nothing of the record.
LEMMA RecordStays ==
    ASSUME RecordOK, UNCHANGED <<rec, delayed, sent, finished, entity>>,
           ops' = ops \/ ops' # 0
    PROVE  RecordOK'
BY DEF RecordOK, RecordsWith

\* Fields of the frame that every section treats alike.
LEMMA SufferKeeps ==
    ASSUME FrameOK, NEW f \in Fault \cup {"again"}, NEW loses, Suffering(f, loses)
    PROVE  /\ faults' \in 0..MaxFaults
           /\ healthy' \in BOOLEAN
           /\ trouble' \subseteq Fault \cup {"again", "overlap"}
<1>1. faults' \in 0..MaxFaults
  BY TicksAssumption DEF FrameOK, Suffer, Suffering
<1>2. healthy' \in BOOLEAN
  BY Zenon DEF FrameOK, Suffer, Suffering
<1>3. trouble' \subseteq Fault \cup {"again", "overlap"}
  BY DEF FrameOK, Suffer, Suffering
<1> QED
  BY <1>1, <1>2, <1>3

LEMMA OperateKeeps ==
    ASSUME FrameOK, Operate
    PROVE  ops' \in 0..MaxOps /\ ops' # 0
BY TicksAssumption DEF FrameOK, Operate

LEMMA RecordFacts ==
    ASSUME RInv
    PROVE  /\ now \in Nat
           /\ interval \in Nat
           /\ rec # None /\ entity = "cron" => rec \in JobsWith(rec.keys) /\ rec \in Job
           /\ rec # None /\ entity = "heartbeat" => rec \in BeatsWith(rec.keys) /\ rec \in Beat
BY TicksAssumption, HeartbeatAssumption DEF RInv, FrameOK, RecordOK, RecordsWith, JobsWith, BeatsWith

LEMMA DraftKeeps ==
    ASSUME RecordOK, NEW R, NEW r \in R
    PROVE  Draft(r) \in Drafting(R)
BY DEF RecordOK, Draft, Drafting

\* Handlers of ticks take them out of the inbox or leave them for another delivery.
LEMMA ServeFrame ==
    ASSUME RInv, NEW t \in inbox, Serve(t), entity' = entity
    PROVE  FrameOK'
<1>1. /\ inbox' \subseteq inbox /\ runs' \subseteq runs \cup {t}
      /\ UNCHANGED <<now, ops, interval>>
  BY DEF Serve, HandleCronPlan, StartCronRun, HandleHeartbeatPlan, StartHeartbeatRun, Taken
<1>2. \E f \in Fault \cup {"again"} :
        Suffer(f) \/ Suffering(f, Current(t) /\ DueWasSkipped(rec))
  <2>1. CASE HandleCronPlan(t)
    <3>1. PICK f \in (Fault \ {"cancel"}) \cup {"again"} : Suffer(f)
      BY <2>1, Zenon DEF HandleCronPlan
    <3> QED
      BY <3>1
  <2>2. CASE StartCronRun(t)
    <3>1. PICK f \in (Fault \ {"cancel"}) \cup {"again"} : Suffer(f)
      BY <2>2, Zenon DEF StartCronRun
    <3> QED
      BY <3>1
  <2>3. CASE HandleHeartbeatPlan(t)
    <3>1. PICK f \in (Fault \ {"cancel"}) \cup {"again"} :
            Suffering(f, Current(t) /\ DueWasSkipped(rec))
      BY <2>3, Zenon DEF HandleHeartbeatPlan
    <3> QED
      BY <3>1
  <2>4. CASE StartHeartbeatRun(t)
    <3>1. PICK f \in {"none", "load", "save", "again"} : Suffer(f)
      BY <2>4, Zenon DEF StartHeartbeatRun
    <3> QED
      BY <3>1 DEF Fault
  <2> QED
    BY <2>1, <2>2, <2>3, <2>4 DEF Serve
<1>3. faults' \in 0..MaxFaults /\ healthy' \in BOOLEAN /\ trouble' \subseteq Fault \cup {"again", "overlap"}
  BY <1>2, SufferKeeps DEF RInv, Suffer
<1> QED
  BY <1>1, <1>3 DEF RInv, FrameOK

LEMMA FinishFrame ==
    ASSUME RInv, NEW t \in runs, Finish(t), entity' = entity
    PROVE  FrameOK'
<1>1. inbox' = inbox /\ runs' = runs \ {t} /\ UNCHANGED <<now, ops, interval>>
  BY DEF Finish, FinishCronRun, FinishHeartbeatRun
<1>2. \E f \in Fault \cup {"again"} : Suffer(f)
  <2>1. CASE FinishCronRun(t)
    <3>1. PICK f \in {"none", "load", "save", "cancel"} : Suffer(f)
      BY <2>1, Zenon DEF FinishCronRun
    <3> QED
      BY <3>1 DEF Fault
  <2>2. CASE FinishHeartbeatRun(t)
    BY <2>2, Zenon DEF FinishHeartbeatRun
  <2> QED
    BY <2>1, <2>2 DEF Finish
<1>3. faults' \in 0..MaxFaults /\ healthy' \in BOOLEAN /\ trouble' \subseteq Fault \cup {"again", "overlap"}
  BY <1>2, SufferKeeps DEF RInv, Suffer
<1> QED
  BY <1>1, <1>3 DEF RInv, FrameOK

LEMMA RequestFrame ==
    ASSUME RInv, Request, entity' = entity
    PROVE  FrameOK'
<1>1. now' = now /\ runs' = runs /\ Operate
  BY DEF Request, CronAdd, CronUpdate, CronRemove, CronRun, RequestHeartbeatNow, Configure
<1>2. interval' \in Intervals
  BY DEF Request, CronAdd, CronUpdate, CronRemove, CronRun, RequestHeartbeatNow, Configure, RInv, FrameOK
<1>3. inbox' \subseteq Tick
  <2>1. CASE CronRun /\ entity = "cron"
    <3>1. rec # None /\ inbox' = inbox \cup {[id |-> sent + 1,
                 key |-> [rev |-> rec.rev, kind |-> "manual", at |-> now, n |-> sent + 1]]}
      BY <2>1 DEF CronRun
    <3>2. rec.rev \in Nat /\ now \in Nat /\ sent + 1 \in Nat
      BY <2>1, <3>1, RecordFacts DEF Job, RInv, RecordOK
    <3> QED
      BY <3>1, <3>2 DEF RInv, FrameOK, Tick, Key
  <2>2. CASE ~(CronRun /\ entity = "cron")
    BY <2>2 DEF Request, CronAdd, CronUpdate, CronRemove, RequestHeartbeatNow, Configure, RInv, FrameOK
  <2> QED
    BY <2>1, <2>2
<1>4. (\E f \in Fault \cup {"again"} : Suffer(f)) \/ UNCHANGED <<faults, healthy, trouble>>
  <2>1. CASE CronAdd
    <3>1. PICK f \in Fault \ {"load", "cancel"} : Suffer(f)
      BY <2>1, Zenon DEF CronAdd
    <3> QED
      BY <3>1
  <2>2. CASE CronUpdate
    <3>1. PICK f \in Fault \ {"load"} : Suffer(f)
      BY <2>2, Zenon DEF CronUpdate
    <3> QED
      BY <3>1
  <2>3. CASE CronRemove
    <3>1. PICK f \in {"none", "save", "cancel"} : Suffer(f)
      BY <2>3, Zenon DEF CronRemove
    <3> QED
      BY <3>1 DEF Fault
  <2>4. CASE RequestHeartbeatNow
    <3>1. PICK f \in Fault \ {"load"} : Suffer(f)
      BY <2>4, Zenon DEF RequestHeartbeatNow
    <3> QED
      BY <3>1
  <2>5. CASE CronRun \/ Configure
    BY <2>5 DEF CronRun, Configure
  <2> QED
    BY <2>1, <2>2, <2>3, <2>4, <2>5 DEF Request
<1>5. faults' \in 0..MaxFaults /\ healthy' \in BOOLEAN /\ trouble' \subseteq Fault \cup {"again", "overlap"}
  <2>1. CASE \E f \in Fault \cup {"again"} : Suffer(f)
    BY <2>1, SufferKeeps DEF RInv, Suffer
  <2>2. CASE UNCHANGED <<faults, healthy, trouble>>
    BY <2>2 DEF RInv, FrameOK
  <2> QED
    BY <1>4, <2>1, <2>2
<1>6. ops' \in 0..MaxOps
  BY <1>1, OperateKeeps DEF RInv
<1> QED
  BY <1>1, <1>2, <1>3, <1>5, <1>6 DEF RInv, FrameOK

LEMMA ReconcileFrame ==
    ASSUME RInv, Reconcile
    PROVE  FrameOK'
<1>1. PICK f \in Fault \ {"load"} :
        /\ Operate
        /\ f # "none" => faults < MaxFaults
        /\ faults' = IF f = "none" THEN faults ELSE faults + 1
        /\ trouble' = trouble \cup ({f} \ {"none"})
                             \cup (IF Unnoticed THEN {"overlap"} ELSE {})
        /\ healthy' = (f \in {"none", "cancel"} /\ Repairable)
        /\ UNCHANGED <<now, inbox, runs, interval, entity>>
  BY Zenon DEF Reconcile
<1>2. faults' \in 0..MaxFaults
  BY <1>1, TicksAssumption DEF RInv, FrameOK
<1>3. healthy' \in BOOLEAN
  BY <1>1, Zenon
<1>4. trouble' \subseteq Fault \cup {"again", "overlap"}
  BY <1>1 DEF RInv, FrameOK
<1>5. ops' \in 0..MaxOps
  BY <1>1, OperateKeeps DEF RInv
<1> QED
  BY <1>1, <1>2, <1>3, <1>4, <1>5 DEF RInv, FrameOK

\* The clock, the homeserver and a crash, and steps of others.
LEMMA WorldKeeps ==
    ASSUME RInv, entity' = entity,
           \/ (Advance \/ Deliver \/ \E repeated \in SUBSET inbox : Crash(repeated)) /\ interval' = interval
           \/ UNCHANGED allVars
    PROVE  RInv'
<1>1. CASE Advance /\ interval' = interval
  <2>1. now' \in 1..MaxTime
    BY <1>1, TicksAssumption DEF Advance, RInv, FrameOK
  <2> QED
    BY <1>1, <2>1, RecordStays DEF Advance, RInv, FrameOK
<1>2. CASE Deliver /\ interval' = interval
  <2>1. PICK t \in delayed : delayed' = delayed \ {t} /\ inbox' = inbox \cup {t}
    BY <1>2, Zenon DEF Deliver
  <2>2. UNCHANGED <<now, sent, rec, runs, ops, faults, healthy, trouble, finished>>
    BY <1>2 DEF Deliver
  <2>3. FrameOK'
    BY <1>2, <2>1, <2>2 DEF RInv, FrameOK, RecordOK
  <2>4. RecordOK'
    BY <2>1, <2>2 DEF RInv, RecordOK, RecordsWith
  <2> QED
    BY <2>3, <2>4 DEF RInv
<1>3. CASE (\E repeated \in SUBSET inbox : Crash(repeated)) /\ interval' = interval
  <2>1. /\ Operate /\ runs' = {} /\ inbox' \subseteq inbox /\ healthy' \in BOOLEAN
        /\ UNCHANGED <<now, delayed, sent, rec, faults, trouble, finished>>
    <3>1. PICK repeated \in SUBSET inbox : Crash(repeated)
      BY <1>3
    <3>2. healthy' \in BOOLEAN
      BY <3>1, Zenon DEF Crash
    <3> QED
      BY <3>1, <3>2 DEF Crash
  <2>2. ops' \in 0..MaxOps /\ ops' # 0
    BY <2>1, OperateKeeps DEF RInv
  <2>3. FrameOK'
    BY <1>3, <2>1, <2>2 DEF RInv, FrameOK
  <2> QED
    BY <2>1, <2>2, <2>3, RecordStays DEF RInv
<1>4. CASE UNCHANGED allVars
  BY <1>4, RecordStays DEF allVars, vars, RInv, FrameOK
<1> QED
  BY <1>1, <1>2, <1>3, <1>4

-----------------------------------------------------------------------------
(* The record, section by section.                                         *)

LEMMA CronRequestRecord ==
    ASSUME RInv, entity = "cron", entity' = entity, CronAdd \/ CronUpdate \/ CronRemove \/ CronRun
    PROVE  RecordOK'
<1>0. RecordOK /\ now \in Nat /\ \A k : RecordsWith(k) = JobsWith(k)
  BY RecordFacts DEF RInv, RecordsWith
<1>1. CASE CronAdd
  <2>1. PICK at \in {Recurring} \cup (now..MaxTime), once \in BOOLEAN, on \in BOOLEAN,
             f \in Fault \ {"load", "cancel"} :
          /\ ops = 0 /\ Operate
          /\ Save(ScheduleRecord(Draft([at |-> at, enabled |-> on, deleteAfterRun |-> once,
                                        ran |-> FALSE, rev |-> 1, pending |-> None, keys |-> <<>>]), f), f)
          /\ finished' = finished
    BY <1>1, Zenon DEF CronAdd
  <2> DEFINE job == [at |-> at, enabled |-> on, deleteAfterRun |-> once, ran |-> FALSE, rev |-> 1,
                     pending |-> None, keys |-> <<>>]
  <2>2. job \in JobsWith(<<>>)
    <3>1. job \in Job
      BY <1>0, EmptySeq DEF Recurring, Job
    <3> QED
      BY <3>1 DEF JobsWith
  <2>3. Save(ScheduleRecord(Draft(job), f), f)
    BY <2>1
  <2> HIDE DEF job
  <2>4. ScheduleRecord(Draft(job), f) \in Drafting(RecordsWith(<<>>))
    BY <1>0, <2>2, DraftKeeps, ScheduleRecordType
  <2>5. finished' = {} /\ ops' # 0
    BY <1>0, <2>1, OperateKeeps DEF RecordOK, RInv
  <2>6. Remembers(<<>>, finished')
    BY <2>5, EmptySeq, TicksAssumption DEF Remembers
  <2> QED
    BY <1>0, <2>1, <2>3, <2>4, <2>5, <2>6, SaveKeeps
<1>2. CASE CronUpdate
  <2>1. rec # None /\ finished' = finished /\ ops' # 0
    BY <1>2, OperateKeeps DEF CronUpdate, RInv
  <2>2. PICK on \in BOOLEAN, at \in {rec.at} \cup (IF rec.at = Recurring THEN {} ELSE now..MaxTime),
             f \in Fault \ {"load"} :
          Save(ScheduleRecord(CancelPending(Draft(Patched(rec, on, at)), f), f), f)
    BY <1>2, Zenon DEF CronUpdate
  <2> DEFINE job == Patched(rec, on, at)
             d == CancelPending(Draft(job), f)
  <2>3. rec \in Job
    BY <2>1, RecordFacts
  <2>4. at \in Int
    BY <1>0, <2>2, <2>3 DEF Job
  <2>5. job \in Job /\ job.keys = rec.keys
    <3>1. job \in Job
      BY <2>2, <2>3, <2>4, PatchedType
    <3>2. job.keys = rec.keys
      BY <2>3 DEF Patched, Job
    <3> QED
      BY <3>1, <3>2
  <2>6. job \in JobsWith(rec.keys)
    BY <2>5 DEF JobsWith
  <2> HIDE DEF job
  <2>7. d \in Drafting(JobsWith(rec.keys))
    BY <1>0, <2>6, DraftKeeps, CancelType
  <2>8. Save(ScheduleRecord(d, f), f)
    BY <2>2 DEF job
  <2> HIDE DEF d
  <2>9. ScheduleRecord(d, f) \in Drafting(RecordsWith(rec.keys))
    BY <1>0, <2>7, ScheduleRecordType
  <2> QED
    BY <1>0, <2>1, <2>8, <2>9, SaveKeeps DEF RecordOK
<1>3. CASE CronRemove
  <2>1. PICK f \in {"none", "save", "cancel"} :
          Save([CancelPending(Draft(rec), f) EXCEPT !.rec = None], f)
    BY <1>3, Zenon DEF CronRemove
  <2>2. rec # None /\ finished' = finished /\ ops' # 0
    BY <1>3, OperateKeeps DEF CronRemove, RInv
  <2> DEFINE d == CancelPending(Draft(rec), f)
  <2>3. d \in Drafting(JobsWith(rec.keys))
    BY <1>0, <2>2, RecordFacts, DraftKeeps, CancelType
  <2> HIDE DEF d
  <2>4. rec' = (IF f = "save" THEN rec ELSE None) /\ delayed' = d.delayed /\ sent' = d.sent
    BY <2>1, <2>3 DEF Save, Drafting, d
  <2>5. delayed' \subseteq Tick /\ sent' \in Nat
    BY <2>3, <2>4 DEF Drafting
  <2> QED
    BY <1>0, <2>2, <2>4, <2>5 DEF RecordOK, RecordsWith
<1>4. CASE CronRun
  <2>1. sent' = sent + 1 /\ UNCHANGED <<delayed, rec, finished>> /\ ops' # 0
    BY <1>4, OperateKeeps DEF CronRun, RInv
  <2>2. sent' \in Nat
    BY <1>0, <2>1 DEF RecordOK
  <2>3. rec # None
    BY <1>4 DEF CronRun
  <2> QED
    BY <1>0, <2>1, <2>2, <2>3 DEF RecordOK, RecordsWith
<1> QED
  BY <1>1, <1>2, <1>3, <1>4

LEMMA CronTickRecord ==
    ASSUME RInv, entity = "cron", entity' = entity, NEW t \in inbox,
           HandleCronPlan(t) \/ StartCronRun(t)
    PROVE  RecordOK'
<1>0. RecordOK /\ now \in Nat /\ t \in Tick /\ t.key \in Key /\ \A k : RecordsWith(k) = JobsWith(k)
  BY RecordFacts DEF RInv, FrameOK, RecordsWith, Tick
<1>1. CASE HandleCronPlan(t)
  <2>1. PICK f \in (Fault \ {"cancel"}) \cup {"again"} :
          /\ IF f = "load" \/ ~Current(t)
             THEN UNCHANGED <<rec, delayed, sent>>
             ELSE Save(ScheduleRecord(Draft([rec EXCEPT !.pending = None,
                                                        !.keys = AppendRunKey(@, t.key)]), f), f)
          /\ UNCHANGED <<ops, finished>>
    BY <1>1, Zenon DEF HandleCronPlan
  <2>2. CASE f = "load" \/ ~Current(t)
    BY <1>0, <2>1, <2>2, RecordStays
  <2>3. CASE ~(f = "load" \/ ~Current(t))
    <3> DEFINE keys == AppendRunKey(rec.keys, t.key)
               job == [rec EXCEPT !.pending = None, !.keys = AppendRunKey(@, t.key)]
    <3>1. rec # None /\ rec \in Job /\ Remembers(rec.keys, finished)
      BY <1>0, <2>3, RecordFacts DEF Current, RecordOK
    <3>2. Remembers(keys, finished)
      <4>1. Remembers(keys, finished \cup {t.key})
        BY <1>0, <3>1, AppendRemembers
      <4> HIDE DEF keys
      <4> QED
        BY <4>1, RemembersFewer
    <3>3. keys \in Seq(Key)
      BY <3>2 DEF Remembers
    <3>4. job \in JobsWith(keys)
      BY <3>1, <3>3 DEF JobsWith, Job
    <3>5. Save(ScheduleRecord(Draft(job), f), f)
      BY <2>1, <2>3
    <3> HIDE DEF job, keys
    <3>6. ScheduleRecord(Draft(job), f) \in Drafting(RecordsWith(keys))
      BY <1>0, <3>4, DraftKeeps, ScheduleRecordType
    <3> QED
      BY <1>0, <2>1, <3>1, <3>2, <3>5, <3>6, SaveKeeps DEF RecordOK
  <2> QED
    BY <2>2, <2>3
<1>2. CASE StartCronRun(t)
  <2>1. PICK f \in (Fault \ {"cancel"}) \cup {"again"} :
          /\ IF f = "load" \/ ~Current(t)
             THEN UNCHANGED <<rec, delayed, sent, runs>>
             ELSE /\ Save(Rescheduled(t, f), f)
                  /\ runs' = IF f = "save" THEN runs ELSE runs \cup {t}
          /\ UNCHANGED <<ops, finished>>
    BY <1>2, Zenon DEF StartCronRun
  <2>2. CASE f = "load" \/ ~Current(t)
    BY <1>0, <2>1, <2>2, RecordStays
  <2>3. CASE ~(f = "load" \/ ~Current(t))
    <3>1. rec # None /\ rec \in Job
      BY <2>3, RecordFacts DEF Current
    <3>2. Rescheduled(t, f) \in Drafting(RecordsWith(rec.keys))
      BY <1>0, <3>1, RescheduledType DEF RecordOK
    <3> QED
      BY <1>0, <2>1, <2>3, <3>1, <3>2, SaveKeeps DEF RecordOK
  <2> QED
    BY <2>2, <2>3
<1> QED
  BY <1>1, <1>2

LEMMA FinishedJobKeys ==
    ASSUME rec \in Job, NEW t, AppendRunKey(rec.keys, t.key) \in Seq(Key)
    PROVE  FinishedJob(t) \in JobsWith(AppendRunKey(rec.keys, t.key))
BY DEF FinishedJob, JobsWith, Job

LEMMA CronFinishRecord ==
    ASSUME RInv, entity = "cron", entity' = entity, NEW t \in runs, FinishCronRun(t)
    PROVE  RecordOK'
<1>0. RecordOK /\ t \in Tick /\ t.key \in Key /\ \A k : RecordsWith(k) = JobsWith(k)
  BY DEF RInv, FrameOK, RecordsWith, Tick
<1>1. PICK f \in {"none", "load", "save", "cancel"} :
        /\ IF f = "load" \/ ~Current(t)
           THEN UNCHANGED <<rec, delayed, sent, finished>>
           ELSE /\ Save([(IF rec.deleteAfterRun THEN CancelPending(Draft(rec), f) ELSE Draft(rec))
                         EXCEPT !.rec = FinishedJob(t)], f)
                /\ finished' = IF f = "save" THEN finished ELSE finished \cup {t.key}
        /\ ops' = ops
  BY Zenon DEF FinishCronRun
<1>2. CASE f = "load" \/ ~Current(t)
  BY <1>0, <1>1, <1>2, RecordStays
<1>3. CASE ~(f = "load" \/ ~Current(t))
  <2> DEFINE d == IF rec.deleteAfterRun THEN CancelPending(Draft(rec), f) ELSE Draft(rec)
             keys == AppendRunKey(rec.keys, t.key)
             e == [d EXCEPT !.rec = FinishedJob(t)]
  <2>1. rec # None /\ rec \in Job /\ rec \in JobsWith(rec.keys) /\ Remembers(rec.keys, finished)
    BY <1>0, <1>3, RecordFacts DEF Current, RecordOK
  <2>2. Remembers(keys, finished \cup {t.key})
    BY <1>0, <2>1, AppendRemembers
  <2>3. FinishedJob(t) \in JobsWith(keys)
    BY <2>1, <2>2, FinishedJobKeys DEF Remembers
  <2>4. d \in Drafting(JobsWith(rec.keys))
    BY <1>0, <2>1, DraftKeeps, CancelType
  <2> HIDE DEF d, keys
  <2>5. e \in Drafting(RecordsWith(keys))
    BY <1>0, <2>3, <2>4 DEF Drafting
  <2>6. Save(e, f) /\ finished' = IF f = "save" THEN finished ELSE finished \cup {t.key}
    BY <1>1, <1>3 DEF d
  <2> HIDE DEF e
  <2>7. finished' \subseteq Key
    BY <1>0, <2>6 DEF RecordOK
  <2> QED
    BY <1>0, <1>1, <2>1, <2>2, <2>5, <2>6, <2>7, SaveKeeps
<1> QED
  BY <1>2, <1>3

LEMMA BeatTickRecord ==
    ASSUME RInv, entity = "heartbeat", entity' = entity, NEW t \in inbox,
           HandleHeartbeatPlan(t) \/ StartHeartbeatRun(t)
    PROVE  RecordOK'
<1>0. RecordOK /\ now \in Nat /\ t \in Tick /\ t.key \in Key /\ \A k : RecordsWith(k) = BeatsWith(k)
  BY RecordFacts DEF RInv, FrameOK, RecordsWith, Tick
<1>1. CASE HandleHeartbeatPlan(t)
  <2>1. PICK f \in (Fault \ {"cancel"}) \cup {"again"} :
          /\ IF f = "load" \/ ~Current(t)
             THEN UNCHANGED <<rec, delayed, sent>>
             ELSE Save(ScheduleState(Draft([rec EXCEPT !.pending = None,
                                                       !.keys = AppendRunKey(@, t.key)]), f), f)
          /\ UNCHANGED <<ops, finished>>
    BY <1>1, Zenon DEF HandleHeartbeatPlan
  <2>2. CASE f = "load" \/ ~Current(t)
    BY <1>0, <2>1, <2>2, RecordStays
  <2>3. CASE ~(f = "load" \/ ~Current(t))
    <3> DEFINE keys == AppendRunKey(rec.keys, t.key)
               idle == [rec EXCEPT !.pending = None]
               beat == [rec EXCEPT !.pending = None, !.keys = AppendRunKey(@, t.key)]
    <3>1. rec # None /\ rec \in BeatsWith(rec.keys) /\ Remembers(rec.keys, finished)
      BY <1>0, <2>3, RecordFacts DEF Current, RecordOK
    <3>2. Remembers(keys, finished)
      <4>1. Remembers(keys, finished \cup {t.key})
        BY <1>0, <3>1, AppendRemembers
      <4> HIDE DEF keys
      <4> QED
        BY <4>1, RemembersFewer
    <3>3. beat \in BeatsWith(keys)
      <4>1. keys \in Seq(Key) /\ rec \in Beat /\ (rec.last # None => rec.last.at \in Nat)
        BY <3>1, <3>2 DEF Remembers, BeatsWith
      <4>2. idle \in Beat /\ idle.last = rec.last
        BY <4>1 DEF Beat
      <4>3. beat = [idle EXCEPT !.keys = keys]
        BY <4>1 DEF Beat
      <4> HIDE DEF idle, keys
      <4>4. [idle EXCEPT !.keys = keys] \in Beat /\ [idle EXCEPT !.keys = keys].last = rec.last
            /\ [idle EXCEPT !.keys = keys].keys = keys
        BY <4>1, <4>2 DEF Beat
      <4> QED
        BY <4>1, <4>3, <4>4 DEF BeatsWith
    <3>4. Save(ScheduleState(Draft(beat), f), f)
      BY <2>1, <2>3
    <3> HIDE DEF beat, keys
    <3>5. ScheduleState(Draft(beat), f) \in Drafting(RecordsWith(keys))
      BY <1>0, <3>3, DraftKeeps, ScheduleStateType
    <3> QED
      BY <1>0, <2>1, <3>1, <3>2, <3>4, <3>5, SaveKeeps DEF RecordOK
  <2> QED
    BY <2>2, <2>3
<1>2. CASE StartHeartbeatRun(t)
  <2>1. PICK f \in {"none", "load", "save", "again"} :
          /\ IF f = "load" \/ ~Current(t)
             THEN UNCHANGED <<rec, delayed, sent, runs>>
             ELSE /\ Save(Draft([rec EXCEPT !.pending = None]), f)
                  /\ runs' = IF f = "save" THEN runs ELSE runs \cup {t}
          /\ UNCHANGED <<ops, finished>>
    BY <1>2, Zenon DEF StartHeartbeatRun
  <2>2. CASE f = "load" \/ ~Current(t)
    BY <1>0, <2>1, <2>2, RecordStays
  <2>3. CASE ~(f = "load" \/ ~Current(t))
    <3> DEFINE idle == [rec EXCEPT !.pending = None]
    <3>1. rec # None /\ rec \in BeatsWith(rec.keys)
      BY <2>3, RecordFacts DEF Current
    <3>2. idle \in BeatsWith(rec.keys)
      BY <3>1, PlannableKinds DEF Plannable
    <3>3. Save(Draft(idle), f)
      BY <2>1, <2>3
    <3> HIDE DEF idle
    <3>4. Draft(idle) \in Drafting(RecordsWith(rec.keys))
      BY <1>0, <3>2, DraftKeeps
    <3> QED
      BY <1>0, <2>1, <3>1, <3>3, <3>4, SaveKeeps DEF RecordOK
  <2> QED
    BY <2>2, <2>3
<1> QED
  BY <1>1, <1>2

\* After a run the next one is counted from now, after a skipped one a retry is due.
LEMMA AfterRunType ==
    ASSUME RecordOK, rec \in BeatsWith(rec.keys), now \in Nat, NEW ran \in BOOLEAN, NEW f
    PROVE  AfterRun(ran, f) \in Drafting(BeatsWith(rec.keys))
<1> DEFINE d == Draft(rec)
           beat == [rec EXCEPT !.last = [at |-> now, n |-> sent + 1]]
<1>1. d \in Drafting(BeatsWith(rec.keys)) /\ d = [rec |-> rec, delayed |-> delayed, sent |-> sent]
  BY DraftKeeps DEF Draft
<1>2. beat \in BeatsWith(rec.keys)
  <2>1. [at |-> now, n |-> sent + 1] \in [at : Int, n : Nat]
    BY DEF RecordOK
  <2>2. rec \in Beat
    BY DEF BeatsWith
  <2>3. beat \in Beat /\ beat.keys = rec.keys /\ beat.last.at = now
    BY <2>1, <2>2 DEF Beat
  <2> QED
    BY <2>3 DEF BeatsWith
<1>3. [d EXCEPT !.rec.last = [at |-> now, n |-> sent + 1]] = Draft(beat)
  BY <1>1 DEF Draft
<1>4. AfterRun(ran, f) = IF ran THEN ScheduleState(Draft(beat), f) ELSE ScheduleRetry(d, f)
  BY <1>3 DEF AfterRun
<1> HIDE DEF d, beat
<1>5. ScheduleState(Draft(beat), f) \in Drafting(BeatsWith(rec.keys))
  BY <1>2, DraftKeeps, ScheduleStateType
<1>6. ScheduleRetry(d, f) \in Drafting(BeatsWith(rec.keys))
  BY <1>1, ScheduleRetryType
<1> QED
  BY <1>4, <1>5, <1>6

LEMMA BeatFinishRecord ==
    ASSUME RInv, entity = "heartbeat", entity' = entity, NEW t \in runs, FinishHeartbeatRun(t)
    PROVE  RecordOK'
<1>0. RecordOK /\ now \in Nat /\ t \in Tick /\ t.key \in Key /\ \A k : RecordsWith(k) = BeatsWith(k)
  BY RecordFacts DEF RInv, FrameOK, RecordsWith, Tick
<1>1. PICK ran \in BOOLEAN, f \in Fault :
        /\ IF f = "load" \/ ~Current(t)
           THEN UNCHANGED <<rec, delayed, sent, finished>>
           ELSE /\ Save([AfterRun(ran, f) EXCEPT !.rec.keys = AppendRunKey(@, t.key)], f)
                /\ finished' = IF f = "save" THEN finished ELSE finished \cup {t.key}
        /\ ops' = ops
  BY Zenon DEF FinishHeartbeatRun
<1>2. CASE f = "load" \/ ~Current(t)
  BY <1>0, <1>1, <1>2, RecordStays
<1>3. CASE ~(f = "load" \/ ~Current(t))
  <2> DEFINE d == AfterRun(ran, f)
             keys == AppendRunKey(rec.keys, t.key)
             beat == [d.rec EXCEPT !.keys = keys]
             e == [d EXCEPT !.rec.keys = AppendRunKey(@, t.key)]
  <2>1. rec # None /\ rec \in BeatsWith(rec.keys) /\ Remembers(rec.keys, finished)
    BY <1>0, <1>3, RecordFacts DEF Current, RecordOK
  <2>2. Remembers(keys, finished \cup {t.key})
    BY <1>0, <2>1, AppendRemembers
  <2>3. d \in Drafting(BeatsWith(rec.keys))
    BY <1>0, <2>1, AfterRunType
  <2> HIDE DEF d
  <2>4. d.rec \in BeatsWith(rec.keys)
    BY <2>3 DEF Drafting
  <2>5. d.rec \in Beat /\ d.rec.keys = rec.keys /\ (d.rec.last # None => d.rec.last.at \in Nat)
    BY <2>4 DEF BeatsWith
  <2>6. e = [rec |-> beat, delayed |-> d.delayed, sent |-> d.sent]
    BY <2>3, <2>5 DEF Drafting
  <2>7. Save(e, f) /\ finished' = IF f = "save" THEN finished ELSE finished \cup {t.key}
    BY <1>1, <1>3 DEF d
  <2> HIDE DEF e, keys
  <2>8. beat \in BeatsWith(keys)
    <3>1. keys \in Seq(Key)
      BY <2>2 DEF Remembers
    <3>2. beat \in Beat /\ beat.keys = keys /\ beat.last = d.rec.last
      BY <2>5, <3>1 DEF Beat
    <3> QED
      BY <2>5, <3>2 DEF BeatsWith
  <2> HIDE DEF beat
  <2>9. e \in Drafting(RecordsWith(keys))
    BY <1>0, <2>3, <2>6, <2>8 DEF Drafting
  <2>10. finished' \subseteq Key
    BY <1>0, <2>7 DEF RecordOK
  <2> QED
    BY <1>0, <1>1, <2>1, <2>2, <2>7, <2>9, <2>10, SaveKeeps
<1> QED
  BY <1>2, <1>3

LEMMA KeptOrNew ==
    ASSUME RInv, entity = "heartbeat"
    PROVE  Remembers(IF rec = None THEN <<>> ELSE rec.keys, finished)
<1>1. CASE rec = None
  <2>1. finished = {}
    BY <1>1 DEF RInv, RecordOK
  <2> QED
    BY <1>1, <2>1, EmptySeq, TicksAssumption DEF Remembers
<1>2. CASE rec # None
  BY <1>2 DEF RInv, RecordOK
<1> QED
  BY <1>1, <1>2

LEMMA BeatRequestRecord ==
    ASSUME RInv, entity = "heartbeat", entity' = entity, RequestHeartbeatNow \/ Configure
    PROVE  RecordOK'
<1>0. RecordOK /\ now \in Nat /\ interval \in Nat /\ \A k : RecordsWith(k) = BeatsWith(k)
  BY RecordFacts DEF RInv, RecordsWith
<1>1. CASE Configure
  BY <1>0, <1>1 DEF Configure, RecordOK, RecordsWith
<1>2. CASE RequestHeartbeatNow
  <2> DEFINE beat == Upserted(rec)
             keys == IF rec = None THEN <<>> ELSE rec.keys
             wake == [rev |-> beat.rev, kind |-> "wake", at |-> now, n |-> sent + 1]
  <2>1. PICK f \in Fault \ {"load"} :
          LET d == CancelPending(Draft(Upserted(rec)), f)
          IN  /\ interval > 0
              /\ IF beat.pending # None /\ d.delayed = delayed
                 THEN UNCHANGED <<rec, delayed, sent>>
                 ELSE Save(SendBeat(d, wake, now, f), IF f \in {"send", "answer"} THEN "save" ELSE f)
              /\ finished' = finished
    BY <1>2, Zenon DEF RequestHeartbeatNow
  <2>2. ops' # 0
    BY <1>2, OperateKeeps DEF RequestHeartbeatNow, RInv
  <2>3. interval \in Nat \ {0} /\ (rec # None => rec \in BeatsWith(rec.keys))
    BY <1>0, <2>1, RecordFacts
  <2>4. beat \in BeatsWith(keys)
    BY <2>3, UpsertedType
  <2>5. Remembers(keys, finished)
    BY KeptOrNew
  <2> HIDE DEF beat, keys
  <2> DEFINE d == CancelPending(Draft(beat), f)
             g == IF f \in {"send", "answer"} THEN "save" ELSE f
  <2>6. wake \in Key
    BY <1>0, <2>4 DEF BeatsWith, Beat, Key, RecordOK
  <2>7. d \in Drafting(BeatsWith(keys))
    BY <1>0, <2>4, DraftKeeps, CancelType
  <2>8. UNCHANGED <<rec, delayed, sent>> \/ Save(SendBeat(d, wake, now, f), g)
    BY <2>1 DEF beat
  <2> HIDE DEF d, wake, g
  <2>9. SendBeat(d, wake, now, f) \in Drafting(RecordsWith(keys))
    BY <1>0, <2>6, <2>7, SendBeatType
  <2>10. CASE UNCHANGED <<rec, delayed, sent>>
    BY <1>0, <2>1, <2>2, <2>10, RecordStays
  <2>11. CASE Save(SendBeat(d, wake, now, f), g)
    BY <1>0, <2>1, <2>2, <2>5, <2>9, <2>11, SaveKeeps DEF RecordOK
  <2> QED
    BY <2>8, <2>10, <2>11
<1> QED
  BY <1>1, <1>2

LEMMA ReconcileRecord ==
    ASSUME RInv, Reconcile
    PROVE  RecordOK'
<1>1. PICK f \in Fault \ {"load"} :
        /\ Operate
        /\ Save(IF entity = "cron" THEN ReconciledCron(f) ELSE ReconciledBeat(f), f)
        /\ finished' = IF rec' = None THEN {} ELSE finished
        /\ entity' = entity
  BY Zenon DEF Reconcile
<1>2. RecordOK /\ now \in Nat /\ interval \in Nat /\ ops' # 0
      /\ (entity = "cron" => \A k : RecordsWith(k) = JobsWith(k))
      /\ (entity = "heartbeat" => \A k : RecordsWith(k) = BeatsWith(k))
      /\ entity \in {"cron", "heartbeat"}
  BY <1>1, RecordFacts, OperateKeeps DEF RInv, FrameOK, RecordsWith
<1>3. finished' \subseteq finished /\ finished' \subseteq Key
  BY <1>1, <1>2 DEF RecordOK
<1>4. CASE entity = "cron" /\ rec = None
  <2>1. Save(Draft(rec), f)
    BY <1>1, <1>4 DEF ReconciledCron
  <2>2. rec' = None /\ delayed' = delayed /\ sent' = sent
    BY <1>4, <2>1 DEF Save, Draft
  <2> QED
    BY <1>1, <1>2, <1>3, <1>4, <2>2 DEF RecordOK
<1>5. CASE entity = "cron" /\ rec # None
  <2>1. rec \in JobsWith(rec.keys) /\ Remembers(rec.keys, finished)
    BY <1>2, <1>5 DEF RecordOK
  <2>2. Draft(rec) \in Drafting(JobsWith(rec.keys))
    BY <1>2, <2>1, DraftKeeps
  <2>3. ReconciledCron(f) \in Drafting(JobsWith(rec.keys))
    BY <1>2, <2>2, ScheduleRecordType DEF ReconciledCron
  <2>4. ReconciledCron(f).rec # None
    BY <2>3, NoRecordAssumption DEF Drafting, JobsWith
  <2>5. Save(ReconciledCron(f), f)
    BY <1>1, <1>5
  <2>6. finished' = finished
    BY <1>1, <1>5, <2>4, <2>5 DEF Save
  <2>7. ReconciledCron(f) \in Drafting(RecordsWith(rec.keys))
    BY <1>2, <1>5, <2>3
  <2> QED
    BY <1>1, <1>2, <1>3, <2>1, <2>5, <2>6, <2>7, SaveKeeps
<1>6. CASE entity = "heartbeat" /\ interval = 0
  <2> DEFINE d == IF rec = None THEN Draft(rec) ELSE CancelPending(Draft(rec), f)
             R == {rec}
  <2>1. Draft(rec) \in Drafting(R)
    BY <1>2, DraftKeeps
  <2>2. d \in Drafting(R)
    BY <2>1, CancelType
  <2>3. Save([d EXCEPT !.rec = None], f)
    BY <1>1, <1>6 DEF ReconciledBeat
  <2> HIDE DEF d
  <2>4. (rec' = rec \/ rec' = None) /\ delayed' = d.delayed /\ sent' = d.sent
    BY <2>2, <2>3 DEF Save, Drafting
  <2>5. delayed' \subseteq Tick /\ sent' \in Nat
    BY <2>2, <2>4 DEF Drafting
  <2>6. CASE rec' = None
    BY <1>1, <1>3, <1>6, <2>5, <2>6 DEF RecordOK
  <2>7. CASE rec' # None
    <3>1. rec' = rec /\ finished' = finished
      BY <1>1, <2>4, <2>7
    <3> QED
      BY <1>1, <1>2, <1>6, <2>5, <2>7, <3>1 DEF RecordOK, RecordsWith
  <2> QED
    BY <2>6, <2>7
<1>7. CASE entity = "heartbeat" /\ interval # 0
  <2> DEFINE beat == Upserted(rec)
             keys == IF rec = None THEN <<>> ELSE rec.keys
             due == BeatDue(beat, sent + 1)
             moved == [beat EXCEPT !.next = due.at]
             e == ReconciledBeat(f)
  <2>1. beat \in BeatsWith(keys)
    BY <1>2, <1>7, RecordFacts, UpsertedType
  <2>2. Remembers(keys, finished)
    BY <1>7, KeptOrNew
  <2> HIDE DEF keys
  <2>3. due.at \in Nat
    <3>1. sent + 1 \in Nat
      BY <1>2 DEF RecordOK
    <3>2. due \in [at : Nat, n : Nat]
      BY <1>2, <2>1, <3>1, BeatDueType
    <3> HIDE DEF due
    <3> QED
      BY <3>2
  <2>4. e = IF beat.pending # None THEN Draft(moved) ELSE ScheduleState(Draft(beat), f)
    BY <1>7 DEF ReconciledBeat
  <2> HIDE DEF beat, due
  <2>5. moved \in BeatsWith(keys)
    <3>1. beat \in Beat /\ beat.keys = keys /\ (beat.last # None => beat.last.at \in Nat)
      BY <2>1 DEF BeatsWith
    <3>2. moved \in Beat /\ moved.keys = keys /\ moved.last = beat.last
      BY <2>3, <3>1 DEF Beat
    <3> QED
      BY <3>1, <3>2 DEF BeatsWith
  <2> HIDE DEF moved
  <2>6. e \in Drafting(BeatsWith(keys))
    BY <1>2, <2>1, <2>4, <2>5, DraftKeeps, ScheduleStateType
  <2>7. Save(e, f)
    BY <1>1, <1>7
  <2> HIDE DEF e
  <2>8. e.rec # None
    BY <2>6, NoRecordAssumption DEF Drafting, BeatsWith
  <2>9. Remembers(keys, finished')
    BY <1>3, <2>2, RemembersFewer
  <2>10. f = "save" => finished' = finished
    <3>1. rec = None => finished = {}
      BY <1>2, <1>7 DEF RecordOK
    <3> QED
      BY <1>1, <2>7, <3>1 DEF Save
  <2>11. e \in Drafting(RecordsWith(keys))
    BY <1>2, <1>7, <2>6
  <2> QED
    BY <1>1, <1>2, <1>3, <2>7, <2>9, <2>10, <2>11, SaveKeeps
<1> QED
  BY <1>2, <1>4, <1>5, <1>6, <1>7

LEMMA NextRInv ==
    ASSUME RInv, [Next]_allVars
    PROVE  RInv'
<1>1. entity' = entity
  BY TroubleStays
<1>2. entity \in {"cron", "heartbeat"}
  BY DEF RInv, FrameOK
<1>3. CASE \E t \in inbox : Serve(t)
  <2>1. PICK t \in inbox : Serve(t)
    BY <1>3
  <2>2. FrameOK'
    BY <1>1, <2>1, ServeFrame
  <2>3. RecordOK'
    BY <1>1, <1>2, <2>1, CronTickRecord, BeatTickRecord DEF Serve
  <2> QED
    BY <2>2, <2>3 DEF RInv
<1>4. CASE \E t \in runs : Finish(t)
  <2>1. PICK t \in runs : Finish(t)
    BY <1>4
  <2>2. FrameOK'
    BY <1>1, <2>1, FinishFrame
  <2>3. RecordOK'
    BY <1>1, <1>2, <2>1, CronFinishRecord, BeatFinishRecord DEF Finish
  <2> QED
    BY <2>2, <2>3 DEF RInv
<1>5. CASE Request
  <2>1. FrameOK'
    BY <1>1, <1>5, RequestFrame
  <2>2. RecordOK'
    BY <1>1, <1>2, <1>5, CronRequestRecord, BeatRequestRecord DEF Request
  <2> QED
    BY <2>1, <2>2 DEF RInv
<1>6. CASE Reconcile
  BY <1>6, ReconcileFrame, ReconcileRecord DEF RInv
<1>7. CASE \/ (Advance \/ Deliver \/ \E repeated \in SUBSET inbox : Crash(repeated)) /\ interval' = interval
           \/ UNCHANGED allVars
  BY <1>1, <1>7, WorldKeeps
<1> QED
  BY <1>3, <1>4, <1>5, <1>6, <1>7 DEF Next, Progress

-----------------------------------------------------------------------------
(* The theorems about the record.                                          *)

\* Whatever call of whatever section fails, the persisted record keeps the run key
\* of every finished run, until it has no room for them.
THEOREM SpecRInv == Spec => []RInv
<1>1. Init => RInv
  <2> SUFFICES ASSUME Init PROVE RInv
    OBVIOUS
  <2>1. FrameOK
    BY TicksAssumption, HeartbeatAssumption DEF Init, TicksInit, FrameOK, Fault
  <2>2. RecordOK
    BY DEF Init, TicksInit, RecordOK
  <2> QED
    BY <2>1, <2>2 DEF RInv
<1>2. RInv /\ [Next]_allVars => RInv'
  BY NextRInv
<1> QED
  BY <1>1, <1>2, PTL DEF Spec

\* The type invariant of the scheduler: whatever fails, the record stays a job or
\* a heartbeat, with a time, a revision and run keys, and ticks stay ticks.
THEOREM SpecTypeOK == Spec => []TypeOK
<1>1. RInv => TypeOK
  <2> SUFFICES ASSUME RInv PROVE TypeOK
    OBVIOUS
  <2>1. rec # None => rec \in (IF entity = "cron" THEN Job ELSE Beat)
    BY RecordFacts DEF RInv, FrameOK
  <2> QED
    BY <2>1 DEF TypeOK, RInv, FrameOK, RecordOK
<1> QED
  BY SpecRInv, <1>1, PTL

\* The handler of a tick looks its key up in the record before it starts the run,
\* and the record has the keys of the finished runs unless it is full.
THEOREM SpecRecordedNotRepeated == Spec => RecordedNotRepeated
<1>1. RInv /\ [Next]_allVars =>
        [\A t \in runs' \ runs : t.key \in finished => Len(rec.keys) = KeyLimit]_allVars
  <2> SUFFICES ASSUME RInv, [Next]_allVars, NEW t \in runs' \ runs, t.key \in finished
               PROVE  Len(rec.keys) = KeyLimit
    OBVIOUS
  <2>1. t \in inbox /\ Serve(t)
    BY DEF Next, Progress, Request, allVars, vars, Reconcile, Advance, Deliver, Crash, Serve, Finish,
           HandleCronPlan, StartCronRun, HandleHeartbeatPlan, StartHeartbeatRun, FinishCronRun,
           FinishHeartbeatRun, CronAdd, CronUpdate, CronRemove, CronRun, RequestHeartbeatNow, Configure
  <2>2. Current(t)
    <3>1. StartCronRun(t) \/ StartHeartbeatRun(t)
      BY <2>1 DEF Serve, HandleCronPlan, HandleHeartbeatPlan
    <3> QED
      BY <3>1 DEF StartCronRun, StartHeartbeatRun
  <2>3. rec # None /\ ~Contains(rec.keys, t.key)
    BY <2>2 DEF Current
  <2>4. Remembers(rec.keys, finished)
    BY <2>3 DEF RInv, RecordOK
  <2>5. ~(finished \subseteq ToSet(rec.keys))
    BY <2>3, <2>4 DEF Remembers, Contains, ToSet
  <2> QED
    BY <2>4, <2>5 DEF Remembers
<1> QED
  BY SpecRInv, <1>1, PTL DEF Spec, RecordedNotRepeated

-----------------------------------------------------------------------------
(* OneChain.  The ticks and run keys of a record were all sent before.     *)

OldKey(key) == key.n <= sent /\ key.at <= now

\* A record whose pending delay has been sent and whose run keys are of the past.
Dated(r) ==
    /\ r.pending # None => r.pending <= sent
    /\ \A k \in Range(r.keys) : OldKey(k) /\ (entity = "heartbeat" => k.rev <= r.rev)
    /\ entity = "heartbeat" /\ r.last # None => r.last.n <= sent + 1

TicksInv ==
    /\ \A t \in delayed \cup inbox \cup runs :
          /\ t.id <= sent /\ t.key.n <= sent
          /\ entity = "heartbeat" => t.key.kind # "manual"
    /\ \A t \in inbox \cup runs : t.key.at <= now
    /\ \A t, u \in delayed \cup inbox : t.id = u.id => t = u
    /\ delayed \cap inbox = {}
    /\ rec # None => Dated(rec)

LEMMA ContainsRange ==
    ASSUME NEW keys \in Seq(Key), NEW key
    PROVE  Contains(keys, key) <=> key \in Range(keys)
<1>1. DOMAIN keys = 1 .. Len(keys)
  BY LenProperties
<1> QED
  BY <1>1 DEF Contains, Range

\* What AppendRunKey leaves in the record.
LEMMA AppendedKeys ==
    ASSUME NEW keys \in Seq(Key), NEW key \in Key
    PROVE  /\ AppendRunKey(keys, key) \in Seq(Key)
           /\ Range(AppendRunKey(keys, key)) \subseteq Range(keys) \cup {key}
<1> DEFINE longer == Append(keys, key)
<1>1. longer \in Seq(Key) /\ Len(longer) = Len(keys) + 1 /\ Len(keys) \in Nat
      /\ (\A i \in 1 .. Len(keys) : longer[i] = keys[i]) /\ longer[Len(keys) + 1] = key
  BY AppendProperties, LenProperties
<1>2. longer # <<>>
  BY <1>1, EmptySeq
<1>3. AppendRunKey(keys, key) = IF Contains(keys, key) THEN keys
                                ELSE IF Len(longer) > KeyLimit THEN Tail(longer) ELSE longer
  BY DEF AppendRunKey
<1> HIDE DEF longer
<1>4. DOMAIN longer = 1 .. Len(keys) + 1 /\ DOMAIN keys = 1 .. Len(keys)
  BY <1>1, LenProperties
<1>5. Range(longer) \subseteq Range(keys) \cup {key}
  BY <1>1, <1>4 DEF Range
<1>6. Tail(longer) \in Seq(Key) /\ Len(Tail(longer)) = Len(longer) - 1
      /\ \A i \in 1 .. Len(Tail(longer)) : Tail(longer)[i] = longer[i + 1]
  BY <1>1, <1>2, HeadTailProperties
<1>7. DOMAIN Tail(longer) = 1 .. Len(keys)
  BY <1>1, <1>6, LenProperties
<1>8. Range(Tail(longer)) \subseteq Range(longer)
  BY <1>1, <1>4, <1>6, <1>7 DEF Range
<1> QED
  BY <1>1, <1>3, <1>5, <1>6, <1>8

\* A step that may send one tick, and give the record that or an older pending
\* delay and keys of ticks in the inbox or at work.
LEMMA TicksStep ==
    ASSUME RInv, TicksInv, NEW tick \in Tick,
           tick.id = sent + 1, tick.key.n <= sent + 1, tick.key.kind # "manual",
           \/ delayed' \subseteq delayed /\ sent' = sent
           \/ delayed' \subseteq delayed \cup {tick} /\ sent' = sent + 1,
           inbox' \subseteq inbox, runs' \subseteq runs \cup inbox,
           UNCHANGED <<now, entity>>,
           (rec # None => Dated(rec))'
    PROVE  TicksInv'
<1>1. delayed \cup inbox \cup runs \subseteq Tick /\ sent \in Nat
  BY DEF RInv, FrameOK, RecordOK
<1>2. (\A t \in delayed \cup inbox \cup runs :
          /\ t.id <= sent /\ t.key.n <= sent
          /\ entity = "heartbeat" => t.key.kind # "manual")'
  BY <1>1 DEF TicksInv, Tick, Key
<1>3. (\A t \in inbox \cup runs : t.key.at <= now)'
  BY DEF TicksInv
<1>4. \A t \in delayed \cup inbox : t.id # tick.id
  BY <1>1 DEF TicksInv, Tick
<1>5. (\A t, u \in delayed \cup inbox : t.id = u.id => t = u)'
  BY <1>4 DEF TicksInv
<1>6. delayed' \cap inbox' = {}
  BY <1>4 DEF TicksInv
<1> QED
  BY <1>2, <1>3, <1>5, <1>6, Zenon DEF TicksInv
-----------------------------------------------------------------------------
(* What planning sends: values of the operators on drafts.                 *)

\* The draft of record r after a tick with this key was sent, or call f failed,
\* when the homeserver holds left.
Sends(r, left, e, key, f) ==
    /\ e.sent = IF f = "send" THEN sent ELSE sent + 1
    /\ e.delayed = IF f = "send" THEN left ELSE left \cup {[id |-> sent + 1, key |-> key]}
    /\ e.rec.pending = IF f \in {"send", "answer"} THEN r.pending ELSE sent + 1
    /\ e.rec.rev = r.rev /\ e.rec.keys = r.keys /\ e.rec.enabled = r.enabled

Left(base, r, f) == IF f = "cancel" THEN base ELSE {t \in base : t.id # r.pending}

DraftOn(r, base) == [rec |-> r, delayed |-> base, sent |-> sent]

LEMMA CancelIs ==
    ASSUME NEW r, NEW base, NEW f
    PROVE  CancelPending(DraftOn(r, base), f) = DraftOn(r, Left(base, r, f))
BY DEF CancelPending, DraftOn, Left

\* A key of a planned tick of a cron job: of a time to come or read from the clock.
CronKey(r, key) ==
    /\ key.rev = r.rev /\ key.kind \in {"run", "plan"}
    /\ key.n <= sent + 1 /\ (key.n > sent \/ key.at > now)

CronSends(r, left, e, f) ==
    /\ \E key \in Key : CronKey(r, key) /\ Sends(r, left, e, key, f)
    /\ e.rec.at = r.at /\ e.rec.ran = r.ran

LEMMA ScheduleDueSends ==
    ASSUME NEW r \in Job, NEW left, NEW f, NEW due \in [at : Int, n : Nat], now \in Nat, sent \in Nat,
           due.n <= sent + 1, due.n > sent \/ due.at > now
    PROVE  CronSends(r, left, ScheduleDue(DraftOn(r, left), due, f), f)
<1> DEFINE key == KeyTowards(r, due, sent + 1)
           e == ScheduleTick(DraftOn(r, left), key, f)
           after == [r EXCEPT !.pending = sent + 1]
<1>1. Horizon \in Nat \ {0} /\ sent + 1 \in Nat
  BY TicksAssumption
<1>2. key \in Key /\ CronKey(r, key)
  <2>1. CASE due.at - now > Horizon
    <3>1. key = [rev |-> r.rev, kind |-> "plan", at |-> now + Horizon, n |-> sent + 1]
      BY <2>1 DEF KeyTowards
    <3> QED
      BY <1>1, <3>1 DEF Key, CronKey, Job
  <2>2. CASE ~(due.at - now > Horizon)
    <3>1. key = [rev |-> r.rev, kind |-> "run", at |-> due.at, n |-> due.n]
      BY <2>2 DEF KeyTowards
    <3> QED
      BY <1>1, <3>1 DEF Key, CronKey, Job
  <2> QED
    BY <2>1, <2>2
<1>3. ScheduleDue(DraftOn(r, left), due, f) = e
  BY DEF ScheduleDue, DraftOn
<1> HIDE DEF key
<1>4. after.pending = sent + 1 /\ after.rev = r.rev /\ after.keys = r.keys /\ after.enabled = r.enabled
      /\ after.at = r.at /\ after.ran = r.ran
  BY DEF Job
<1> DEFINE all == left \cup {[id |-> sent + 1, key |-> key]}
<1>5. e = IF f = "send" THEN DraftOn(r, left)
          ELSE IF f = "answer" THEN [rec |-> r, delayed |-> all, sent |-> sent + 1]
          ELSE [rec |-> after, delayed |-> all, sent |-> sent + 1]
  <2>1. CASE f = "send"
    BY <2>1 DEF ScheduleTick
  <2>2. CASE f = "answer"
    <3> DEFINE d == DraftOn(r, left)
               tick == [id |-> sent + 1, key |-> key]
    <3>1. d.rec = r /\ d.sent = sent /\ d.delayed = left
          /\ d = [rec |-> r, delayed |-> left, sent |-> sent]
      BY DEF DraftOn
    <3>2. e = [d EXCEPT !.sent = @ + 1, !.delayed = @ \cup {tick}]
      BY <2>2, <3>1 DEF ScheduleTick
    <3> HIDE DEF d, tick, e
    <3>3. e = [rec |-> r, delayed |-> left \cup {tick}, sent |-> sent + 1]
      BY <3>1, <3>2
    <3> QED
      BY <2>2, <3>3 DEF tick
  <2>3. CASE f \notin {"send", "answer"}
    BY <2>3 DEF ScheduleTick, DraftOn
  <2> QED
    BY <2>1, <2>2, <2>3
<1> HIDE DEF e, after
<1>6. Sends(r, left, e, key, f) /\ e.rec.at = r.at /\ e.rec.ran = r.ran
  BY <1>4, <1>5 DEF Sends, DraftOn
<1> QED
  BY <1>2, <1>3, <1>6 DEF CronSends

LEMMA NextSlotLater ==
    ASSUME NEW t \in Nat
    PROVE  NextSlot(t) > t
<1>1. Every \in Nat /\ Every > 0
  BY CronAssumption
<1>2. t < Every * (t \div Every + 1)
  BY <1>1, SMT
<1>3. t \div Every \in Nat
  BY <1>1, SMT
<1> QED
  BY <1>1, <1>2, <1>3, SMT DEF NextSlot

\* A job that is still to be executed.
JobOwed(r) == r.enabled /\ (r.at = Recurring \/ ~r.ran)

LEMMA IdleJob ==
    ASSUME NEW r \in Job
    PROVE  LET idle == [r EXCEPT !.pending = None]
           IN  /\ idle \in Job /\ idle.pending = None /\ idle.rev = r.rev /\ idle.keys = r.keys
               /\ idle.enabled = r.enabled /\ idle.at = r.at /\ idle.ran = r.ran
BY DEF Job

\* A job that is owed a run gets a tick, and another one loses its pending delay.
LEMMA ScheduleRecordSends ==
    ASSUME NEW r \in Job, NEW base, NEW f, now \in Nat, sent \in Nat
    PROVE  LET e == ScheduleRecord(DraftOn(r, base), f)
           IN  IF JobOwed(r) THEN CronSends(r, Left(base, r, f), e, f)
               ELSE e = DraftOn([r EXCEPT !.pending = None], base)
<1> DEFINE due == InitialDue(r, sent + 1)
           e == ScheduleRecord(DraftOn(r, base), f)
<1>1. DraftOn(r, base).rec = r /\ DraftOn(r, base).sent = sent
  BY DEF DraftOn
<1>2. e = IF due = None \/ ~r.enabled THEN [DraftOn(r, base) EXCEPT !.rec.pending = None]
          ELSE ScheduleDue(DraftOn(r, Left(base, r, f)), due, f)
  BY <1>1, CancelIs DEF ScheduleRecord
<1>3. CASE JobOwed(r)
  <2>1. due = IF r.at = Recurring THEN [at |-> NextSlot(now), n |-> 0]
              ELSE IF r.at <= now THEN [at |-> now, n |-> sent + 1] ELSE [at |-> r.at, n |-> 0]
    BY <1>3 DEF JobOwed, InitialDue
  <2>2. /\ due \in [at : Int, n : Nat] /\ due.n <= sent + 1 /\ (due.n > sent \/ due.at > now)
    <3>1. NextSlot(now) \in Nat /\ NextSlot(now) > now
      BY NextSlotType, NextSlotLater
    <3> QED
      BY <2>1, <3>1 DEF Job
  <2>3. due # None
    BY <2>2, NoRecordAssumption
  <2> HIDE DEF due
  <2>4. CronSends(r, Left(base, r, f), ScheduleDue(DraftOn(r, Left(base, r, f)), due, f), f)
    BY <2>2, ScheduleDueSends
  <2> QED
    BY <1>2, <1>3, <2>3, <2>4 DEF JobOwed
<1>4. CASE ~JobOwed(r)
  <2>1. due = None \/ ~r.enabled
    BY <1>4 DEF JobOwed, InitialDue
  <2>2. e = DraftOn([r EXCEPT !.pending = None], base)
    BY <1>2, <2>1 DEF DraftOn
  <2> QED
    BY <1>4, <2>2
<1> QED
  BY <1>3, <1>4

LEMMA DraftIs ==
    ASSUME NEW r
    PROVE  Draft(r) = DraftOn(r, delayed)
BY DEF Draft, DraftOn

\* The tick of a recurring job leads to the next one; other runs send none.
LEMMA RescheduledSends ==
    ASSUME NEW t \in Tick, NEW f, now \in Nat, sent \in Nat, rec \in Job
    PROVE  LET idle == [rec EXCEPT !.pending = None]
           IN  CASE t.key.kind = "manual" -> Rescheduled(t, f) = DraftOn(rec, delayed)
                 [] t.key.kind # "manual" /\ rec.at = Recurring ->
                       CronSends(idle, delayed, Rescheduled(t, f), f)
                 [] t.key.kind # "manual" /\ rec.at # Recurring ->
                       Rescheduled(t, f) = DraftOn(idle, delayed)
<1> DEFINE idle == [rec EXCEPT !.pending = None]
           last == IF t.key.at > now THEN t.key.at ELSE now
           due == [at |-> NextSlot(last), n |-> 0]
<1>1. Rescheduled(t, f) = IF t.key.kind = "manual" THEN DraftOn(rec, delayed)
                          ELSE IF rec.at # Recurring THEN DraftOn(idle, delayed)
                          ELSE ScheduleDue(DraftOn(idle, delayed), due, f)
  BY DraftIs DEF Rescheduled
<1>2. idle \in Job
  BY IdleJob
<1>3. last \in Nat /\ last >= now
  BY DEF Tick, Key
<1>4. due \in [at : Int, n : Nat] /\ due.n = 0 /\ due.at > now
  BY <1>3, NextSlotType, NextSlotLater
<1> HIDE DEF idle, due
<1>5. CronSends(idle, delayed, ScheduleDue(DraftOn(idle, delayed), due, f), f)
  BY <1>2, <1>4, ScheduleDueSends
<1> QED
  BY <1>1, <1>5 DEF idle

\* The same for a heartbeat, whose next run is noted with the tick.
BeatSends(r, left, e, key, next, f) ==
    /\ Sends(r, left, e, key, f)
    /\ e.rec.last = r.last /\ e.rec.interval = r.interval
    /\ e.rec.next = IF f \in {"send", "answer"} THEN r.next ELSE next

LEMMA PendingBeat ==
    ASSUME NEW r \in Beat, NEW p \in Nat \cup {None}
    PROVE  LET q == [r EXCEPT !.pending = p]
           IN  /\ q \in Beat /\ q.pending = p /\ q.rev = r.rev /\ q.keys = r.keys /\ q.next = r.next
               /\ q.enabled = r.enabled /\ q.last = r.last /\ q.interval = r.interval
BY DEF Beat

LEMMA SendBeatSends ==
    ASSUME NEW r \in Beat, NEW left, NEW key, NEW next \in Nat, NEW f, sent \in Nat
    PROVE  BeatSends(r, left, SendBeat(DraftOn(r, left), key, next, f), key, next, f)
<1> DEFINE d == DraftOn(r, left)
           tick == [id |-> sent + 1, key |-> key]
           all == left \cup {tick}
           idle == [r EXCEPT !.pending = sent + 1]
           after == [idle EXCEPT !.next = next]
           e == SendBeat(d, key, next, f)
<1>1. d.rec = r /\ d.sent = sent /\ d.delayed = left /\ d = [rec |-> r, delayed |-> left, sent |-> sent]
  BY DEF DraftOn
<1>2. idle \in Beat /\ idle.pending = sent + 1 /\ idle.rev = r.rev /\ idle.keys = r.keys
      /\ idle.enabled = r.enabled /\ idle.last = r.last /\ idle.interval = r.interval
  <2>1. sent + 1 \in Nat \cup {None}
    OBVIOUS
  <2> QED
    BY <2>1, PendingBeat
<1>3. ScheduleTick(d, key, f) = CASE f = "send" -> d
                                  [] f = "answer" -> [d EXCEPT !.sent = @ + 1, !.delayed = @ \cup {tick}]
                                  [] OTHER -> [rec |-> idle, sent |-> sent + 1, delayed |-> all]
  BY <1>1 DEF ScheduleTick
<1>4. e = IF f \in {"send", "answer"} THEN ScheduleTick(d, key, f)
          ELSE [ScheduleTick(d, key, f) EXCEPT !.rec.next = next]
  BY DEF SendBeat
<1> SUFFICES BeatSends(r, left, e, key, next, f)
  OBVIOUS
<1> HIDE DEF d, e, idle
<1>5. CASE f = "send"
  BY <1>1, <1>3, <1>4, <1>5 DEF BeatSends, Sends
<1>6. CASE f = "answer"
  <2>1. e = [d EXCEPT !.sent = @ + 1, !.delayed = @ \cup {tick}]
    BY <1>3, <1>4, <1>6
  <2> HIDE DEF tick
  <2>2. e = [rec |-> r, delayed |-> left \cup {tick}, sent |-> sent + 1]
    BY <1>1, <2>1
  <2> QED
    BY <1>6, <2>2 DEF BeatSends, Sends, tick
<1>7. CASE f \notin {"send", "answer"}
  <2>1. e = [[rec |-> idle, sent |-> sent + 1, delayed |-> all] EXCEPT !.rec.next = next]
    BY <1>3, <1>4, <1>7
  <2>2. after.pending = sent + 1 /\ after.rev = r.rev /\ after.keys = r.keys
        /\ after.enabled = r.enabled /\ after.last = r.last /\ after.interval = r.interval
        /\ after.next = next
    BY <1>2 DEF Beat
  <2> HIDE DEF all
  <2>3. e = [rec |-> after, sent |-> sent + 1, delayed |-> all]
    BY <2>1
  <2> HIDE DEF after
  <2> QED
    BY <1>7, <2>2, <2>3 DEF BeatSends, Sends, all
<1> QED
  BY <1>5, <1>6, <1>7

\* A heartbeat with times and run keys that are not ahead of what was sent.
SoundBeat(r) == r \in Beat /\ (r.last # None => r.last.at \in Nat /\ r.last.n <= sent + 1)

\* The tick of the next regular run, or the planner tick that leads to it.
RegularKey(r, key, next) ==
    /\ key \in Key /\ key.rev = r.rev /\ key.n <= sent + 1
    /\ next = BeatDue(r, sent + 1).at
    /\ \/ key.kind = "plan" /\ key.n = sent + 1
       \/ key.kind = "run" /\ key.at = next /\ key.n = BeatDue(r, sent + 1).n

LEMMA ScheduleStateSends ==
    ASSUME NEW r, SoundBeat(r), NEW base, NEW f, now \in Nat, sent \in Nat
    PROVE  \E key \in Key, next \in Nat :
              /\ RegularKey(r, key, next)
              /\ BeatSends(r, Left(base, r, f), ScheduleState(DraftOn(r, base), f), key, next, f)
<1> DEFINE due == BeatDue(r, sent + 1)
           key == KeyTowards(r, due, sent + 1)
           e == ScheduleState(DraftOn(r, base), f)
<1>1. DraftOn(r, base).rec = r /\ DraftOn(r, base).sent = sent
  BY DEF DraftOn
<1>2. e = SendBeat(DraftOn(r, Left(base, r, f)), key, due.at, f)
  BY <1>1, CancelIs DEF ScheduleState
<1>3. due \in [at : Nat, n : Nat] /\ due.n <= sent + 1
  BY DEF BeatDue, SoundBeat, Beat
<1>4. key \in Key /\ RegularKey(r, key, due.at)
  <2>1. r.rev \in Nat /\ Horizon \in Nat \ {0}
    BY TicksAssumption DEF SoundBeat, Beat
  <2> DEFINE next == due.at
  <2>2. next = BeatDue(r, sent + 1).at /\ due.n = BeatDue(r, sent + 1).n
    OBVIOUS
  <2> HIDE DEF next
  <2>3. CASE due.at - now > Horizon
    <3>1. key = [rev |-> r.rev, kind |-> "plan", at |-> now + Horizon, n |-> sent + 1]
      BY <2>3 DEF KeyTowards
    <3> HIDE DEF due
    <3> QED
      BY <2>1, <2>2, <3>1 DEF Key, RegularKey, next
  <2>4. CASE ~(due.at - now > Horizon)
    <3>1. key = [rev |-> r.rev, kind |-> "run", at |-> due.at, n |-> due.n]
      BY <2>4 DEF KeyTowards
    <3> HIDE DEF due
    <3> QED
      BY <1>3, <2>1, <2>2, <3>1 DEF Key, RegularKey, next
  <2> QED
    BY <2>3, <2>4
<1>5. due.at \in Nat /\ r \in Beat
  BY <1>3 DEF SoundBeat
<1> HIDE DEF due, key, e
<1>6. BeatSends(r, Left(base, r, f), e, key, due.at, f)
  BY <1>2, <1>5, SendBeatSends
<1> QED
  BY <1>4, <1>5, <1>6 DEF e

LEMMA ScheduleRetrySends ==
    ASSUME NEW r \in Beat, NEW base, NEW f, now \in Nat, sent \in Nat
    PROVE  LET key == [rev |-> r.rev, kind |-> "retry", at |-> now + Coalesce, n |-> sent + 1]
           IN  key \in Key /\ BeatSends(r, Left(base, r, f), ScheduleRetry(DraftOn(r, base), f), key,
                                        now + Coalesce, f)
<1> DEFINE key == [rev |-> r.rev, kind |-> "retry", at |-> now + Coalesce, n |-> sent + 1]
           e == ScheduleRetry(DraftOn(r, base), f)
<1>1. DraftOn(r, base).rec = r /\ DraftOn(r, base).sent = sent
  BY DEF DraftOn
<1>2. e = SendBeat(DraftOn(r, Left(base, r, f)), key, now + Coalesce, f)
  BY <1>1, CancelIs DEF ScheduleRetry
<1>3. now + Coalesce \in Nat /\ key \in Key
  BY HeartbeatAssumption DEF Key, Beat
<1> HIDE DEF e
<1>4. BeatSends(r, Left(base, r, f), e, key, now + Coalesce, f)
  BY <1>2, <1>3, SendBeatSends
<1> QED
  BY <1>3, <1>4 DEF e

-----------------------------------------------------------------------------
(* What the sections of a heartbeat do, whatever call of them fails.       *)

\* The section has planned record r and saved it, unless the save g failed.
Planned(r, left, key, f, g) ==
    /\ sent' = IF f = "send" THEN sent ELSE sent + 1
    /\ delayed' = IF f = "send" THEN left ELSE left \cup {[id |-> sent + 1, key |-> key]}
    /\ g = "save" => rec' = rec
    /\ g # "save" =>
          /\ rec' # None
          /\ rec'.pending = IF f \in {"send", "answer"} THEN r.pending ELSE sent + 1
          /\ rec'.rev = r.rev /\ rec'.keys = r.keys /\ rec'.enabled = r.enabled

BeatPlanned(r, left, key, next, f, g) ==
    /\ Planned(r, left, key, f, g)
    /\ g # "save" => /\ rec'.last = r.last /\ rec'.interval = r.interval
                     /\ rec'.next = IF f \in {"send", "answer"} THEN r.next ELSE next

LEMMA SavedBeat ==
    ASSUME NEW r, NEW left, NEW e \in Drafting(Beat), NEW key, NEW next, NEW f, NEW g,
           BeatSends(r, left, e, key, next, f), Save(e, g)
    PROVE  BeatPlanned(r, left, key, next, f, g)
<1>1. e.rec # None
  BY NoRecordAssumption DEF Drafting
<1> QED
  BY <1>1 DEF BeatSends, Sends, BeatPlanned, Planned, Save

LEMMA StatePlanned ==
    ASSUME RInv, NEW r, SoundBeat(r), NEW f, NEW g, Save(ScheduleState(Draft(r), f), g)
    PROVE  \E key \in Key, next \in Nat :
              RegularKey(r, key, next) /\ BeatPlanned(r, Left(delayed, r, f), key, next, f, g)
<1> DEFINE e == ScheduleState(Draft(r), f)
<1>1. RecordOK /\ now \in Nat /\ sent \in Nat /\ Draft(r) = DraftOn(r, delayed)
  BY RecordFacts, DraftIs DEF RInv, RecordOK
<1>2. r \in BeatsWith(r.keys)
  BY DEF SoundBeat, BeatsWith
<1>3. e \in Drafting(BeatsWith(r.keys))
  BY <1>1, <1>2, DraftKeeps, ScheduleStateType
<1>4. e \in Drafting(Beat)
  BY <1>3 DEF Drafting, BeatsWith
<1>5. PICK key \in Key, next \in Nat :
         RegularKey(r, key, next) /\ BeatSends(r, Left(delayed, r, f), e, key, next, f)
  BY <1>1, ScheduleStateSends
<1> HIDE DEF e
<1>6. BeatPlanned(r, Left(delayed, r, f), key, next, f, g)
  BY <1>4, <1>5, SavedBeat DEF e
<1> QED
  BY <1>5, <1>6

LEMMA RecordIsSound ==
    ASSUME RInv, TicksInv, entity = "heartbeat", rec # None
    PROVE  SoundBeat(rec) /\ rec \in Beat /\ rec.keys \in Seq(Key)
BY RecordFacts DEF TicksInv, Dated, SoundBeat, BeatsWith, Beat

\* A heartbeat before it is planned anew by a planner tick.
Replanned(t) == [rec EXCEPT !.pending = None, !.keys = AppendRunKey(@, t.key)]

LEMMA ReplannedIs ==
    ASSUME rec \in Beat, NEW t \in Tick
    PROVE  LET r == Replanned(t)
           IN  /\ r \in Beat /\ r.pending = None /\ r.keys = AppendRunKey(rec.keys, t.key)
               /\ r.rev = rec.rev /\ r.enabled = rec.enabled /\ r.next = rec.next
               /\ r.last = rec.last /\ r.interval = rec.interval
<1> DEFINE idle == [rec EXCEPT !.pending = None]
           ks == AppendRunKey(rec.keys, t.key)
<1>1. idle \in Beat /\ idle.pending = None /\ idle.rev = rec.rev /\ idle.next = rec.next
      /\ idle.enabled = rec.enabled /\ idle.interval = rec.interval /\ idle.last = rec.last
  BY PendingBeat
<1>2. ks \in Seq(Key)
  BY AppendedKeys DEF Beat, Tick
<1>3. Replanned(t) = [idle EXCEPT !.keys = ks]
  BY DEF Replanned, Beat
<1> HIDE DEF idle, ks
<1> DEFINE r == [idle EXCEPT !.keys = ks]
<1>4. /\ r \in Beat /\ r.pending = idle.pending /\ r.keys = ks /\ r.rev = idle.rev
      /\ r.enabled = idle.enabled /\ r.next = idle.next /\ r.last = idle.last /\ r.interval = idle.interval
  BY <1>1, <1>2 DEF Beat
<1> HIDE DEF r
<1> QED
  BY <1>1, <1>3, <1>4 DEF r, ks

LEMMA BeatPlanOutcome ==
    ASSUME RInv, TicksInv, entity = "heartbeat", NEW t \in inbox, HandleHeartbeatPlan(t)
    PROVE  \E f \in (Fault \ {"cancel"}) \cup {"again"} :
             /\ t.key.kind = "plan" /\ Taken(t, f) /\ Suffering(f, Current(t) /\ DueWasSkipped(rec))
             /\ UNCHANGED <<now, runs, ops>>
             /\ f = "load" \/ ~Current(t) => UNCHANGED <<rec, delayed, sent>>
             /\ f # "load" /\ Current(t) =>
                  \E key \in Key, next \in Nat :
                     /\ RegularKey(Replanned(t), key, next)
                     /\ BeatPlanned(Replanned(t), delayed, key, next, f, f)
<1>1. PICK f \in (Fault \ {"cancel"}) \cup {"again"} :
        /\ t.key.kind = "plan" /\ Taken(t, f) /\ Suffering(f, Current(t) /\ DueWasSkipped(rec))
        /\ UNCHANGED <<now, runs, ops>>
        /\ IF f = "load" \/ ~Current(t)
           THEN UNCHANGED <<rec, delayed, sent>>
           ELSE Save(ScheduleState(Draft(Replanned(t)), f), f)
  BY Zenon DEF HandleHeartbeatPlan, Replanned
<1>2. CASE f = "load" \/ ~Current(t)
  BY <1>1, <1>2
<1>3. CASE f # "load" /\ Current(t)
  <2>1. SoundBeat(rec) /\ rec \in Beat /\ rec.keys \in Seq(Key)
    BY <1>3, RecordIsSound DEF Current
  <2>3. SoundBeat(Replanned(t)) /\ Replanned(t).pending = None
    <3>1. t \in Tick
      BY DEF RInv, FrameOK
    <3> QED
      BY <2>1, <3>1, ReplannedIs DEF SoundBeat
  <2>4. Left(delayed, Replanned(t), f) = delayed
    BY <2>3, NoRecordAssumption DEF Left, RInv, RecordOK, Tick
  <2>5. Save(ScheduleState(Draft(Replanned(t)), f), f)
    BY <1>1, <1>3
  <2>6. PICK key \in Key, next \in Nat :
           RegularKey(Replanned(t), key, next) /\ BeatPlanned(Replanned(t), delayed, key, next, f, f)
    BY <2>3, <2>4, <2>5, StatePlanned
  <2> QED
    BY <1>1, <1>3, <2>6
<1> QED
  BY <1>2, <1>3

LEMMA BeatStartOutcome ==
    ASSUME NEW t \in inbox, StartHeartbeatRun(t)
    PROVE  \E f \in {"none", "load", "save", "again"} :
             /\ t.key.kind # "plan" /\ Taken(t, f) /\ Suffer(f)
             /\ UNCHANGED <<now, ops, delayed, sent>>
             /\ f \in {"load", "save"} \/ ~Current(t) => UNCHANGED <<rec, runs>>
             /\ f \notin {"load", "save"} /\ Current(t) =>
                  rec' = [rec EXCEPT !.pending = None] /\ runs' = runs \cup {t}
<1>1. PICK f \in {"none", "load", "save", "again"} :
        /\ t.key.kind # "plan" /\ Taken(t, f) /\ Suffer(f)
        /\ IF f = "load" \/ ~Current(t)
           THEN UNCHANGED <<rec, delayed, sent, runs>>
           ELSE /\ Save(Draft([rec EXCEPT !.pending = None]), f)
                /\ runs' = IF f = "save" THEN runs ELSE runs \cup {t}
        /\ UNCHANGED <<now, ops>>
  BY Zenon DEF StartHeartbeatRun
<1> QED
  BY <1>1 DEF Save, Draft

\* A heartbeat whose run has ended, before the next one is planned.
Finished(t, ran) ==
    [rec EXCEPT !.last = IF ran THEN [at |-> now, n |-> sent + 1] ELSE @,
                !.keys = AppendRunKey(@, t.key)]

LEMMA FinishedIs ==
    ASSUME rec \in Beat, NEW t \in Tick, NEW ran \in BOOLEAN, now \in Nat, sent \in Nat
    PROVE  LET r == Finished(t, ran)
           IN  /\ r \in Beat /\ r.pending = rec.pending /\ r.keys = AppendRunKey(rec.keys, t.key)
               /\ r.rev = rec.rev /\ r.enabled = rec.enabled /\ r.next = rec.next
               /\ r.last = IF ran THEN [at |-> now, n |-> sent + 1] ELSE rec.last
               /\ r.interval = rec.interval
<1> DEFINE l == IF ran THEN [at |-> now, n |-> sent + 1] ELSE rec.last
           ks == AppendRunKey(rec.keys, t.key)
           timed == [rec EXCEPT !.last = l]
           r == [timed EXCEPT !.keys = ks]
<1>1. l \in [at : Int, n : Nat] \cup {None} /\ ks \in Seq(Key)
  BY AppendedKeys DEF Beat, Tick
<1>2. Finished(t, ran) = r
  BY DEF Finished, Beat
<1> HIDE DEF ks, l
<1>3. timed \in Beat /\ timed.pending = rec.pending /\ timed.rev = rec.rev /\ timed.next = rec.next
      /\ timed.enabled = rec.enabled /\ timed.interval = rec.interval /\ timed.last = l
  BY <1>1 DEF Beat
<1> HIDE DEF timed
<1>4. /\ r \in Beat /\ r.pending = timed.pending /\ r.keys = ks /\ r.rev = timed.rev
      /\ r.enabled = timed.enabled /\ r.next = timed.next /\ r.last = timed.last /\ r.interval = timed.interval
  BY <1>1, <1>3 DEF Beat
<1> HIDE DEF r
<1> QED
  BY <1>2, <1>3, <1>4 DEF ks, l

\* The run key is added to the record after the next tick was sent.
LEMMA SavedFinished ==
    ASSUME NEW r \in Beat, NEW r0 \in Beat, NEW left, NEW d \in Drafting(Beat), NEW e, NEW key, NEW next,
           NEW f, NEW ks \in Seq(Key), BeatSends(r0, left, d, key, next, f),
           e = [d EXCEPT !.rec.keys = ks], Save(e, f),
           r.keys = ks /\ r.pending = r0.pending /\ r.rev = r0.rev /\ r.enabled = r0.enabled,
           r.next = r0.next /\ r.last = r0.last /\ r.interval = r0.interval
    PROVE  BeatPlanned(r, left, key, next, f, f)
<1> DEFINE beat == [d.rec EXCEPT !.keys = ks]
<1>1. d.rec \in Beat /\ d = [rec |-> d.rec, delayed |-> d.delayed, sent |-> d.sent]
  BY DEF Drafting
<1>2. e = [rec |-> beat, delayed |-> d.delayed, sent |-> d.sent]
  BY <1>1 DEF Drafting
<1>3. beat \in Beat /\ beat.keys = ks /\ beat.pending = d.rec.pending /\ beat.rev = d.rec.rev
      /\ beat.enabled = d.rec.enabled /\ beat.next = d.rec.next /\ beat.last = d.rec.last
      /\ beat.interval = d.rec.interval
  BY <1>1 DEF Beat
<1> HIDE DEF beat
<1>4. e.rec = beat /\ e.delayed = d.delayed /\ e.sent = d.sent /\ beat # None
  BY <1>2, <1>3, NoRecordAssumption
<1> QED
  BY <1>3, <1>4 DEF BeatSends, Sends, BeatPlanned, Planned, Save

RetryKey(r) == [rev |-> r.rev, kind |-> "retry", at |-> now + Coalesce, n |-> sent + 1]

LEMMA BeatFinishOutcome ==
    ASSUME RInv, TicksInv, entity = "heartbeat", NEW t \in runs, FinishHeartbeatRun(t)
    PROVE  \E ran \in BOOLEAN, f \in Fault :
             /\ runs' = runs \ {t} /\ Suffer(f) /\ UNCHANGED <<now, inbox, ops>>
             /\ f = "load" \/ ~Current(t) => UNCHANGED <<rec, delayed, sent>>
             /\ f # "load" /\ Current(t) =>
                  \E key \in Key, next \in Nat :
                     /\ IF ran THEN RegularKey(Finished(t, ran), key, next)
                        ELSE key = RetryKey(rec) /\ next = now + Coalesce
                     /\ BeatPlanned(Finished(t, ran), Left(delayed, rec, f), key, next, f, f)
<1>1. PICK ran \in BOOLEAN, f \in Fault :
        /\ runs' = runs \ {t} /\ Suffer(f) /\ UNCHANGED <<now, inbox, ops>>
        /\ IF f = "load" \/ ~Current(t)
           THEN UNCHANGED <<rec, delayed, sent>>
           ELSE Save([AfterRun(ran, f) EXCEPT !.rec.keys = AppendRunKey(@, t.key)], f)
  BY Zenon DEF FinishHeartbeatRun
<1>2. CASE f = "load" \/ ~Current(t)
  BY <1>1, <1>2
<1>3. CASE f # "load" /\ Current(t)
  <2> DEFINE d == AfterRun(ran, f)
             ks == AppendRunKey(rec.keys, t.key)
             e == [d EXCEPT !.rec.keys = ks]
             r == Finished(t, ran)
             timed == [rec EXCEPT !.last = [at |-> now, n |-> sent + 1]]
  <2>1. SoundBeat(rec) /\ rec \in Beat /\ rec.keys \in Seq(Key) /\ rec \in BeatsWith(rec.keys)
    BY <1>3, RecordIsSound, RecordFacts DEF Current
  <2>2. RecordOK /\ now \in Nat /\ sent \in Nat /\ t \in Tick
    BY RecordFacts DEF RInv, FrameOK, RecordOK
  <2>3. d \in Drafting(BeatsWith(rec.keys))
    BY <2>1, <2>2, AfterRunType
  <2>4. d \in Drafting(Beat) /\ d.rec.keys = rec.keys
    BY <2>3 DEF Drafting, BeatsWith
  <2>5. ks \in Seq(Key)
    BY <2>1, <2>2, AppendedKeys DEF Tick
  <2>6. Save(e, f)
    <3>1. e = [d EXCEPT !.rec.keys = AppendRunKey(@, t.key)]
      BY <2>4 DEF Drafting
    <3> QED
      BY <1>1, <1>3, <3>1
  <2>7. /\ r \in Beat /\ r.pending = rec.pending /\ r.keys = ks
        /\ r.rev = rec.rev /\ r.enabled = rec.enabled /\ r.next = rec.next
        /\ r.last = IF ran THEN [at |-> now, n |-> sent + 1] ELSE rec.last
        /\ r.interval = rec.interval
    BY <2>1, <2>2, FinishedIs
  <2>8. CASE ran
    <3>1. /\ timed \in Beat /\ timed.pending = rec.pending /\ timed.rev = rec.rev /\ timed.next = rec.next
          /\ timed.enabled = rec.enabled /\ timed.interval = rec.interval
          /\ timed.last = [at |-> now, n |-> sent + 1]
      <4>1. [at |-> now, n |-> sent + 1] \in [at : Int, n : Nat]
        BY <2>2
      <4> QED
        BY <2>1, <4>1 DEF Beat
    <3>2. d = ScheduleState(DraftOn(timed, delayed), f)
      BY <2>8 DEF AfterRun, Draft, DraftOn
    <3>3. Left(delayed, timed, f) = Left(delayed, rec, f)
      BY <3>1 DEF Left
    <3> HIDE DEF timed, d, e, ks, r
    <3>4. SoundBeat(timed)
      BY <2>2, <3>1 DEF SoundBeat
    <3>5. PICK key \in Key, next \in Nat :
             RegularKey(timed, key, next) /\ BeatSends(timed, Left(delayed, timed, f), d, key, next, f)
      BY <2>2, <3>2, <3>4, ScheduleStateSends
    <3>6. BeatPlanned(r, Left(delayed, rec, f), key, next, f, f)
      BY <2>4, <2>5, <2>6, <2>7, <2>8, <3>1, <3>3, <3>5, SavedFinished DEF e
    <3>7. RegularKey(r, key, next)
      BY <2>7, <2>8, <3>1, <3>5 DEF RegularKey, BeatDue
    <3> QED
      BY <1>1, <1>3, <2>8, <3>6, <3>7 DEF r
  <2>9. CASE ~ran
    <3>1. d = ScheduleRetry(DraftOn(rec, delayed), f)
      BY <2>9, DraftIs DEF AfterRun
    <3> HIDE DEF d, e, ks, r
    <3>2. RetryKey(rec) \in Key
          /\ BeatSends(rec, Left(delayed, rec, f), d, RetryKey(rec), now + Coalesce, f)
      BY <2>1, <2>2, <3>1, ScheduleRetrySends DEF RetryKey
    <3>3. BeatPlanned(r, Left(delayed, rec, f), RetryKey(rec), now + Coalesce, f, f)
      BY <2>1, <2>4, <2>5, <2>6, <2>7, <2>9, <3>2, SavedFinished DEF e
    <3>4. now + Coalesce \in Nat
      BY <2>2, HeartbeatAssumption
    <3> QED
      BY <1>1, <1>3, <2>9, <3>2, <3>3, <3>4 DEF r
  <2> QED
    BY <2>8, <2>9
<1> QED
  BY <1>2, <1>3

\* upsertManagedHeartbeat: a new record, the same, or the next revision of it.
LEMMA UpsertedIs ==
    ASSUME rec # None => rec \in Beat, interval \in Nat \ {0}
    PROVE  LET b == Upserted(rec)
           IN  /\ b \in Beat /\ b.interval = interval /\ b.enabled
               /\ rec = None => b.pending = None /\ b.keys = <<>> /\ b.last = None /\ b.next = 0 /\ b.rev = 1
               /\ rec # None => /\ b.keys = rec.keys /\ b.last = rec.last /\ b.next = rec.next
                                /\ IF rec.interval = interval THEN b = rec
                                   ELSE b.rev = rec.rev + 1 /\ b.pending = None
<1>1. CASE rec = None
  <2>1. Upserted(rec) = [enabled |-> TRUE, rev |-> 1, interval |-> interval, pending |-> None,
                         next |-> 0, last |-> None, keys |-> <<>>]
    BY <1>1 DEF Upserted
  <2>2. <<>> \in Seq(Key)
    BY EmptySeq
  <2> QED
    BY <1>1, <2>1, <2>2 DEF Beat
<1>2. CASE rec # None /\ rec.interval = interval
  BY <1>2 DEF Upserted, Beat
<1>3. CASE rec # None /\ rec.interval # interval
  <2> DEFINE moved == [rec EXCEPT !.interval = interval]
             newer == [moved EXCEPT !.rev = rec.rev + 1]
             b == [newer EXCEPT !.pending = None]
  <2>0. rec \in Beat
    BY <1>3
  <2>1. rec.rev + 1 \in Nat
    BY <2>0 DEF Beat
  <2>2. moved \in Beat /\ moved.last = rec.last /\ moved.keys = rec.keys /\ moved.next = rec.next
        /\ moved.enabled /\ moved.interval = interval
    BY <2>0, <2>1 DEF Beat
  <2>3. Upserted(rec) = b
    BY <1>3, <2>0 DEF Upserted, Beat
  <2> HIDE DEF moved
  <2>4. newer \in Beat /\ newer.last = rec.last /\ newer.keys = rec.keys /\ newer.next = rec.next
        /\ newer.enabled /\ newer.interval = interval /\ newer.rev = rec.rev + 1
    BY <2>0, <2>1, <2>2 DEF Beat
  <2> HIDE DEF newer
  <2>5. b \in Beat /\ b.last = newer.last /\ b.keys = newer.keys /\ b.next = newer.next
        /\ b.enabled = newer.enabled /\ b.interval = newer.interval /\ b.rev = newer.rev /\ b.pending = None
    BY <2>4, PendingBeat
  <2> HIDE DEF b
  <2> QED
    BY <1>3, <2>3, <2>4, <2>5
<1> QED
  BY <1>1, <1>2, <1>3

WakeKey(r) == [rev |-> r.rev, kind |-> "wake", at |-> now, n |-> sent + 1]

LEMMA WakeOutcome ==
    ASSUME RInv, entity = "heartbeat", RequestHeartbeatNow
    PROVE  LET b == Upserted(rec)
           IN  /\ interval \in Nat \ {0} /\ (b.next = 0 \/ b.next - now > Coalesce)
               /\ UNCHANGED <<now, inbox, runs, interval>> /\ WakeKey(b) \in Key
               /\ \E f \in Fault \ {"load"} :
                    /\ Suffer(f)
                    /\ \/ UNCHANGED <<rec, delayed, sent>>
                       \/ /\ b.pending # None => Left(delayed, b, f) # delayed
                          /\ BeatPlanned(b, Left(delayed, b, f), WakeKey(b), now, f,
                                         IF f \in {"send", "answer"} THEN "save" ELSE f)
<1> DEFINE b == Upserted(rec)
<1>1. PICK f \in Fault \ {"load"} :
        LET d == CancelPending(Draft(b), f)
        IN  /\ interval > 0
            /\ b.next = 0 \/ b.next - now > Coalesce
            /\ Suffer(f)
            /\ IF b.pending # None /\ d.delayed = delayed
               THEN UNCHANGED <<rec, delayed, sent>>
               ELSE Save(SendBeat(d, WakeKey(b), now, f), IF f \in {"send", "answer"} THEN "save" ELSE f)
  BY Zenon DEF RequestHeartbeatNow, WakeKey
<1>2. UNCHANGED <<now, inbox, runs, interval>>
  BY DEF RequestHeartbeatNow
<1>3. interval \in Nat \ {0} /\ now \in Nat /\ sent \in Nat /\ (rec # None => rec \in Beat)
      /\ (rec # None => rec \in BeatsWith(rec.keys)) /\ RecordOK
  BY <1>1, RecordFacts DEF RInv, RecordOK
<1>4. b \in Beat
  BY <1>3, UpsertedIs
<1>5. WakeKey(b) \in Key
  BY <1>3, <1>4 DEF WakeKey, Key, Beat
<1>6. CancelPending(Draft(b), f) = DraftOn(b, Left(delayed, b, f))
  BY DraftIs, CancelIs
<1> HIDE DEF b
<1> DEFINE g == IF f \in {"send", "answer"} THEN "save" ELSE f
           e == SendBeat(DraftOn(b, Left(delayed, b, f)), WakeKey(b), now, f)
<1>7. IF b.pending # None /\ Left(delayed, b, f) = delayed
      THEN UNCHANGED <<rec, delayed, sent>>
      ELSE Save(e, g)
  BY <1>1, <1>6 DEF DraftOn
<1>8. e \in Drafting(Beat)
  <2>1. b \in BeatsWith(IF rec = None THEN <<>> ELSE rec.keys)
    BY <1>3, UpsertedType DEF b
  <2> DEFINE ks == IF rec = None THEN <<>> ELSE rec.keys
  <2>2. DraftOn(b, Left(delayed, b, f)) \in Drafting(BeatsWith(ks))
    BY <1>3, <2>1 DEF DraftOn, Drafting, Left, RecordOK
  <2> HIDE DEF ks
  <2>3. e \in Drafting(BeatsWith(ks))
    BY <1>3, <1>5, <2>2, SendBeatType
  <2> QED
    BY <2>3 DEF Drafting, BeatsWith
<1>9. BeatSends(b, Left(delayed, b, f), e, WakeKey(b), now, f)
  BY <1>3, <1>4, SendBeatSends
<1> HIDE DEF e, g
<1>10. UNCHANGED <<rec, delayed, sent>>
       \/ ((b.pending # None => Left(delayed, b, f) # delayed)
           /\ BeatPlanned(b, Left(delayed, b, f), WakeKey(b), now, f, g))
  BY <1>7, <1>8, <1>9, SavedBeat
<1> QED
  BY <1>1, <1>2, <1>3, <1>5, <1>10 DEF b, g

LEMMA BeatReconcileOutcome ==
    ASSUME RInv, TicksInv, entity = "heartbeat", Reconcile
    PROVE  \E f \in Fault \ {"load"} :
             LET b == Upserted(rec)
             IN  /\ trouble' = trouble \cup ({f} \ {"none"}) \cup (IF Unnoticed THEN {"overlap"} ELSE {})
                 /\ healthy' = (f \in {"none", "cancel"} /\ Repairable)
                 /\ UNCHANGED <<now, inbox, runs, interval, entity>>
                 /\ interval = 0 =>
                      /\ sent' = sent
                      /\ delayed' = (IF rec = None THEN delayed ELSE Left(delayed, rec, f))
                      /\ rec' = IF f = "save" THEN rec ELSE None
                 /\ interval # 0 /\ b.pending # None =>
                      /\ UNCHANGED <<sent, delayed>>
                      /\ rec' = IF f = "save" THEN rec ELSE [b EXCEPT !.next = BeatDue(b, sent + 1).at]
                 /\ interval # 0 /\ b.pending = None =>
                      \E key \in Key, next \in Nat :
                         RegularKey(b, key, next) /\ BeatPlanned(b, delayed, key, next, f, f)
<1> DEFINE b == Upserted(rec)
<1>1. PICK f \in Fault \ {"load"} :
        /\ Save(ReconciledBeat(f), f)
        /\ trouble' = trouble \cup ({f} \ {"none"}) \cup (IF Unnoticed THEN {"overlap"} ELSE {})
        /\ healthy' = (f \in {"none", "cancel"} /\ Repairable)
        /\ UNCHANGED <<now, inbox, runs, interval, entity>>
  BY Zenon DEF Reconcile
<1>2. CASE interval = 0
  <2> DEFINE d == IF rec = None THEN DraftOn(rec, delayed) ELSE DraftOn(rec, Left(delayed, rec, f))
  <2>1. ReconciledBeat(f) = [d EXCEPT !.rec = None]
    BY <1>2, DraftIs, CancelIs DEF ReconciledBeat
  <2>2. sent' = sent /\ delayed' = (IF rec = None THEN delayed ELSE Left(delayed, rec, f))
        /\ rec' = IF f = "save" THEN rec ELSE None
    BY <1>1, <2>1 DEF Save, DraftOn
  <2> QED
    BY <1>1, <1>2, <2>2
<1>3. CASE interval # 0 /\ b.pending # None
  <2>1. ReconciledBeat(f) = DraftOn([b EXCEPT !.next = BeatDue(b, sent + 1).at], delayed)
    BY <1>3, DraftIs DEF ReconciledBeat
  <2>2. UNCHANGED <<sent, delayed>>
        /\ rec' = IF f = "save" THEN rec ELSE [b EXCEPT !.next = BeatDue(b, sent + 1).at]
    BY <1>1, <2>1 DEF Save, DraftOn
  <2> QED
    BY <1>1, <1>3, <2>2
<1>4. CASE interval # 0 /\ b.pending = None
  <2>1. interval \in Nat \ {0} /\ (rec # None => rec \in Beat /\ SoundBeat(rec))
    BY <1>4, RecordFacts, RecordIsSound
  <2>2. b \in Beat /\ b.last = (IF rec = None THEN None ELSE rec.last)
    BY <2>1, UpsertedIs
  <2>3. ReconciledBeat(f) = ScheduleState(Draft(b), f)
    BY <1>4 DEF ReconciledBeat
  <2>4. Left(delayed, b, f) = delayed
    BY <1>4, NoRecordAssumption DEF Left, RInv, RecordOK, Tick
  <2> HIDE DEF b
  <2>5. SoundBeat(b)
    BY <2>1, <2>2 DEF SoundBeat
  <2>6. \E key \in Key, next \in Nat :
           RegularKey(b, key, next) /\ BeatPlanned(b, delayed, key, next, f, f)
    BY <1>1, <2>3, <2>4, <2>5, StatePlanned
  <2> QED
    BY <1>1, <1>4, <2>6 DEF b
<1> QED
  BY <1>2, <1>3, <1>4

-----------------------------------------------------------------------------
(* What the sections of a cron job do.                                     *)

CronPlanned(r, left, f) ==
    /\ \E key \in Key : CronKey(r, key) /\ Planned(r, left, key, f, f)
    /\ f # "save" => rec'.at = r.at /\ rec'.ran = r.ran

CronIdle(r, left, f) ==
    sent' = sent /\ delayed' = left /\ rec' = IF f = "save" THEN rec ELSE r

\* Record r is planned anew: it gets a tick or loses its pending delay.
CronReplanned(r, base, f) ==
    IF JobOwed(r) THEN CronPlanned(r, Left(base, r, f), f)
    ELSE CronIdle([r EXCEPT !.pending = None], base, f)

LEMMA SavedJob ==
    ASSUME NEW r, NEW left, NEW e \in Drafting(Job), NEW f, CronSends(r, left, e, f), Save(e, f)
    PROVE  CronPlanned(r, left, f)
<1>1. e.rec # None
  BY NoRecordAssumption DEF Drafting
<1>2. PICK key \in Key : CronKey(r, key) /\ Sends(r, left, e, key, f)
  BY DEF CronSends
<1>3. Planned(r, left, key, f, f)
  BY <1>1, <1>2 DEF Sends, Planned, Save
<1>4. f # "save" => rec'.at = r.at /\ rec'.ran = r.ran
  BY DEF Save, CronSends
<1> QED
  BY <1>2, <1>3, <1>4 DEF CronPlanned

LEMMA RecordReplanned ==
    ASSUME RInv, NEW r \in Job, NEW base, base \subseteq delayed, NEW f,
           Save(ScheduleRecord(DraftOn(r, base), f), f)
    PROVE  CronReplanned(r, base, f)
<1> DEFINE e == ScheduleRecord(DraftOn(r, base), f)
<1>1. now \in Nat /\ sent \in Nat /\ delayed \subseteq Tick
  BY RecordFacts DEF RInv, RecordOK
<1>2. DraftOn(r, base) \in Drafting(JobsWith(r.keys))
  BY <1>1 DEF DraftOn, Drafting, JobsWith
<1>3. e \in Drafting(JobsWith(r.keys))
  BY <1>1, <1>2, ScheduleRecordType
<1>4. e \in Drafting(Job)
  BY <1>3 DEF Drafting, JobsWith
<1>5. IF JobOwed(r) THEN CronSends(r, Left(base, r, f), e, f)
      ELSE e = DraftOn([r EXCEPT !.pending = None], base)
  BY <1>1, ScheduleRecordSends
<1>6. Save(e, f)
  OBVIOUS
<1> HIDE DEF e
<1>7. CASE JobOwed(r)
  BY <1>4, <1>5, <1>6, <1>7, SavedJob DEF CronReplanned
<1>8. CASE ~JobOwed(r)
  BY <1>5, <1>6, <1>8 DEF CronReplanned, CronIdle, Save, DraftOn
<1> QED
  BY <1>7, <1>8

LEMMA CronAddOutcome ==
    ASSUME RInv, CronAdd
    PROVE  \E f \in Fault \ {"load", "cancel"}, job \in Job :
             /\ ops = 0 /\ ops' # 0 /\ Suffer(f) /\ UNCHANGED <<now, inbox, runs>>
             /\ job.pending = None /\ job.rev = 1 /\ job.keys = <<>>
             /\ CronReplanned(job, delayed, f)
<1>1. PICK at \in {Recurring} \cup (now..MaxTime), once \in BOOLEAN, on \in BOOLEAN,
           f \in Fault \ {"load", "cancel"} :
        /\ ops = 0 /\ Operate /\ Suffer(f)
        /\ Save(ScheduleRecord(Draft([at |-> at, enabled |-> on, deleteAfterRun |-> once,
                                      ran |-> FALSE, rev |-> 1, pending |-> None, keys |-> <<>>]), f), f)
        /\ UNCHANGED <<now, inbox, runs>>
  BY Zenon DEF CronAdd
<1> DEFINE job == [at |-> at, enabled |-> on, deleteAfterRun |-> once, ran |-> FALSE, rev |-> 1,
                   pending |-> None, keys |-> <<>>]
<1>2. job \in Job /\ job.pending = None /\ job.rev = 1 /\ job.keys = <<>>
  BY RecordFacts, EmptySeq DEF Recurring, Job
<1>3. Save(ScheduleRecord(DraftOn(job, delayed), f), f)
  BY <1>1, DraftIs
<1> HIDE DEF job
<1>4. CronReplanned(job, delayed, f)
  BY <1>2, <1>3, RecordReplanned
<1>5. ops' # 0
  BY <1>1, OperateKeeps DEF RInv
<1> QED
  BY <1>1, <1>2, <1>4, <1>5

LEMMA CronUpdateOutcome ==
    ASSUME RInv, entity = "cron", CronUpdate
    PROVE  \E f \in Fault \ {"load"}, job \in Job :
             /\ rec # None /\ Suffer(f) /\ UNCHANGED <<now, inbox, runs>>
             /\ job.pending = rec.pending /\ job.rev = rec.rev + 1 /\ job.keys = rec.keys
             /\ CronReplanned(job, Left(delayed, rec, f), f)
<1>1. rec # None /\ rec \in Job /\ UNCHANGED <<now, inbox, runs>> /\ now \in Nat
  BY RecordFacts DEF CronUpdate
<1>2. PICK on \in BOOLEAN, at \in {rec.at} \cup (IF rec.at = Recurring THEN {} ELSE now..MaxTime),
           f \in Fault \ {"load"} :
        Suffer(f) /\ Save(ScheduleRecord(CancelPending(Draft(Patched(rec, on, at)), f), f), f)
  BY Zenon DEF CronUpdate
<1> DEFINE job == Patched(rec, on, at)
<1>3. at \in Int
  BY <1>1, <1>2 DEF Job
<1>4. job \in Job /\ job.rev = rec.rev + 1
  BY <1>1, <1>2, <1>3, PatchedType
<1>5. job.pending = rec.pending /\ job.keys = rec.keys
  BY <1>1 DEF Patched, Job
<1> HIDE DEF job
<1>6. CancelPending(Draft(job), f) = DraftOn(job, Left(delayed, rec, f))
  <2>1. CancelPending(Draft(job), f) = DraftOn(job, Left(delayed, job, f))
    BY DraftIs, CancelIs
  <2>2. Left(delayed, job, f) = Left(delayed, rec, f)
    BY <1>5 DEF Left
  <2> QED
    BY <2>1, <2>2
<1>7. CronReplanned(job, Left(delayed, rec, f), f)
  <2>1. Left(delayed, rec, f) \subseteq delayed
    BY DEF Left
  <2>2. Save(ScheduleRecord(DraftOn(job, Left(delayed, rec, f)), f), f)
    BY <1>2, <1>6 DEF job
  <2> QED
    BY <1>4, <2>1, <2>2, RecordReplanned
<1> QED
  BY <1>1, <1>2, <1>4, <1>5, <1>7

LEMMA CronRemoveOutcome ==
    ASSUME CronRemove
    PROVE  \E f \in {"none", "save", "cancel"} :
             /\ rec # None /\ Suffer(f) /\ UNCHANGED <<now, inbox, runs>>
             /\ CronIdle(None, Left(delayed, rec, f), f)
<1>1. PICK f \in {"none", "save", "cancel"} :
        /\ rec # None /\ Suffer(f) /\ UNCHANGED <<now, inbox, runs>>
        /\ Save([CancelPending(Draft(rec), f) EXCEPT !.rec = None], f)
  BY Zenon DEF CronRemove
<1>2. CancelPending(Draft(rec), f) = [rec |-> rec, delayed |-> Left(delayed, rec, f), sent |-> sent]
  BY DraftIs, CancelIs DEF DraftOn
<1>3. CronIdle(None, Left(delayed, rec, f), f)
  BY <1>1, <1>2 DEF CronIdle, Save
<1> QED
  BY <1>1, <1>3

LEMMA JobReplannedIs ==
    ASSUME rec \in Job, NEW t \in Tick
    PROVE  LET r == Replanned(t)
           IN  /\ r \in Job /\ r.pending = None /\ r.keys = AppendRunKey(rec.keys, t.key)
               /\ r.rev = rec.rev /\ r.enabled = rec.enabled /\ r.at = rec.at /\ r.ran = rec.ran
<1> DEFINE idle == [rec EXCEPT !.pending = None]
           ks == AppendRunKey(rec.keys, t.key)
           r == [idle EXCEPT !.keys = ks]
<1>1. idle \in Job /\ idle.pending = None /\ idle.rev = rec.rev
      /\ idle.enabled = rec.enabled /\ idle.at = rec.at /\ idle.ran = rec.ran
  BY IdleJob
<1>2. ks \in Seq(Key)
  BY AppendedKeys DEF Job, Tick
<1>3. Replanned(t) = r
  BY DEF Replanned, Job
<1> HIDE DEF idle, ks
<1>4. /\ r \in Job /\ r.pending = idle.pending /\ r.keys = ks /\ r.rev = idle.rev
      /\ r.enabled = idle.enabled /\ r.at = idle.at /\ r.ran = idle.ran
  BY <1>1, <1>2 DEF Job
<1> HIDE DEF r
<1> QED
  BY <1>1, <1>3, <1>4 DEF ks

LEMMA CronPlanOutcome ==
    ASSUME RInv, entity = "cron", NEW t \in inbox, HandleCronPlan(t)
    PROVE  \E f \in (Fault \ {"cancel"}) \cup {"again"} :
             /\ t.key.kind = "plan" /\ Taken(t, f) /\ Suffer(f) /\ UNCHANGED <<now, runs, ops>>
             /\ f = "load" \/ ~Current(t) => UNCHANGED <<rec, delayed, sent>>
             /\ f # "load" /\ Current(t) => CronReplanned(Replanned(t), delayed, f)
<1>1. PICK f \in (Fault \ {"cancel"}) \cup {"again"} :
        /\ t.key.kind = "plan" /\ Taken(t, f) /\ UNCHANGED <<now, runs, ops>>
        /\ IF f = "load" \/ ~Current(t)
           THEN Suffer(f) /\ UNCHANGED <<rec, delayed, sent>>
           ELSE Suffer(f) /\ Save(ScheduleRecord(Draft(Replanned(t)), f), f)
  BY Zenon DEF HandleCronPlan, Replanned
<1>2. CASE f = "load" \/ ~Current(t)
  BY <1>1, <1>2
<1>3. CASE f # "load" /\ Current(t)
  <2>1. rec \in Job /\ t \in Tick
    BY <1>3, RecordFacts DEF Current, RInv, FrameOK
  <2>2. Replanned(t) \in Job
    BY <2>1, JobReplannedIs
  <2>3. Save(ScheduleRecord(DraftOn(Replanned(t), delayed), f), f)
    BY <1>1, <1>3, DraftIs
  <2>4. CronReplanned(Replanned(t), delayed, f)
    BY <2>2, <2>3, RecordReplanned
  <2> QED
    BY <1>1, <1>3, <2>4
<1> QED
  BY <1>2, <1>3

LEMMA CronStartOutcome ==
    ASSUME RInv, entity = "cron", NEW t \in inbox, StartCronRun(t)
    PROVE  \E f \in (Fault \ {"cancel"}) \cup {"again"} :
             LET idle == [rec EXCEPT !.pending = None]
             IN  /\ t.key.kind # "plan" /\ Taken(t, f) /\ Suffer(f) /\ UNCHANGED <<now, ops>>
                 /\ f = "load" \/ ~Current(t) => UNCHANGED <<rec, delayed, sent, runs>>
                 /\ f # "load" /\ Current(t) =>
                      /\ runs' = IF f = "save" THEN runs ELSE runs \cup {t}
                      /\ IF t.key.kind = "manual" THEN CronIdle(rec, delayed, f)
                         ELSE IF rec.at = Recurring THEN CronPlanned(idle, delayed, f)
                         ELSE CronIdle(idle, delayed, f)
<1> DEFINE idle == [rec EXCEPT !.pending = None]
<1>1. PICK f \in (Fault \ {"cancel"}) \cup {"again"} :
        /\ t.key.kind # "plan" /\ Taken(t, f) /\ Suffer(f)
        /\ IF f = "load" \/ ~Current(t)
           THEN UNCHANGED <<rec, delayed, sent, runs>>
           ELSE /\ Save(Rescheduled(t, f), f)
                /\ runs' = IF f = "save" THEN runs ELSE runs \cup {t}
        /\ UNCHANGED <<now, ops>>
  BY Zenon DEF StartCronRun
<1>2. CASE f = "load" \/ ~Current(t)
  BY <1>1, <1>2
<1>3. CASE f # "load" /\ Current(t)
  <2> DEFINE e == Rescheduled(t, f)
  <2>1. rec \in Job /\ t \in Tick /\ now \in Nat /\ sent \in Nat /\ delayed \subseteq Tick
    BY <1>3, RecordFacts DEF Current, RInv, FrameOK, RecordOK
  <2>2. e \in Drafting(JobsWith(rec.keys))
    BY <2>1, RescheduledType
  <2>3. e \in Drafting(Job)
    BY <2>2 DEF Drafting, JobsWith
  <2>4. Save(e, f) /\ runs' = IF f = "save" THEN runs ELSE runs \cup {t}
    BY <1>1, <1>3
  <2>5. CASE t.key.kind = "manual"
    <3>1. e = DraftOn(rec, delayed)
      BY <2>1, <2>5, RescheduledSends
    <3>2. CronIdle(rec, delayed, f)
      BY <2>4, <3>1 DEF CronIdle, Save, DraftOn
    <3> QED
      BY <1>1, <1>3, <2>4, <2>5, <3>2
  <2>6. CASE t.key.kind # "manual" /\ rec.at = Recurring
    <3>1. CronSends(idle, delayed, e, f)
      BY <2>1, <2>6, RescheduledSends
    <3> HIDE DEF e, idle
    <3>2. CronPlanned(idle, delayed, f)
      BY <2>3, <2>4, <3>1, SavedJob
    <3> QED
      BY <1>1, <1>3, <2>4, <2>6, <3>2 DEF idle
  <2>7. CASE t.key.kind # "manual" /\ rec.at # Recurring
    <3>1. e = DraftOn(idle, delayed)
      BY <2>1, <2>7, RescheduledSends
    <3> HIDE DEF e, idle
    <3>2. CronIdle(idle, delayed, f)
      BY <2>4, <3>1 DEF CronIdle, Save, DraftOn
    <3> QED
      BY <1>1, <1>3, <2>4, <2>7, <3>2 DEF idle
  <2> QED
    BY <2>5, <2>6, <2>7
<1> QED
  BY <1>2, <1>3

LEMMA CronFinishOutcome ==
    ASSUME NEW t \in runs, FinishCronRun(t)
    PROVE  \E f \in {"none", "load", "save", "cancel"} :
             /\ runs' = runs \ {t} /\ Suffer(f) /\ UNCHANGED <<now, inbox, ops>>
             /\ f = "load" \/ ~Current(t) => UNCHANGED <<rec, delayed, sent>>
             /\ f # "load" /\ Current(t) =>
                  CronIdle(FinishedJob(t), IF rec.deleteAfterRun THEN Left(delayed, rec, f) ELSE delayed, f)
<1>1. PICK f \in {"none", "load", "save", "cancel"} :
        /\ runs' = runs \ {t} /\ Suffer(f) /\ UNCHANGED <<now, inbox, ops>>
        /\ IF f = "load" \/ ~Current(t)
           THEN UNCHANGED <<rec, delayed, sent>>
           ELSE Save([(IF rec.deleteAfterRun THEN CancelPending(Draft(rec), f) ELSE Draft(rec))
                      EXCEPT !.rec = FinishedJob(t)], f)
  BY Zenon DEF FinishCronRun
<1> DEFINE left == IF rec.deleteAfterRun THEN Left(delayed, rec, f) ELSE delayed
<1>2. (IF rec.deleteAfterRun THEN CancelPending(Draft(rec), f) ELSE Draft(rec))
         = [rec |-> rec, delayed |-> left, sent |-> sent]
  BY DraftIs, CancelIs DEF DraftOn
<1> HIDE DEF left
<1>3. f # "load" /\ Current(t) => CronIdle(FinishedJob(t), left, f)
  BY <1>1, <1>2 DEF CronIdle, Save
<1> QED
  BY <1>1, <1>3 DEF left

LEMMA CronReconcileOutcome ==
    ASSUME RInv, entity = "cron", Reconcile
    PROVE  \E f \in Fault \ {"load"} :
             /\ trouble' = trouble \cup ({f} \ {"none"})
             /\ healthy' = (f \in {"none", "cancel"} /\ Repairable)
             /\ UNCHANGED <<now, inbox, runs, entity>> /\ ops' # 0
             /\ IF rec = None \/ (rec.pending # None /\ JobOwed(rec)) THEN UNCHANGED <<rec, delayed, sent>>
                ELSE CronReplanned(rec, delayed, f)
<1>1. PICK f \in Fault \ {"load"} :
        /\ Operate /\ Save(ReconciledCron(f), f)
        /\ trouble' = trouble \cup ({f} \ {"none"}) \cup (IF Unnoticed THEN {"overlap"} ELSE {})
        /\ healthy' = (f \in {"none", "cancel"} /\ Repairable)
        /\ UNCHANGED <<now, inbox, runs, entity>>
  BY Zenon DEF Reconcile
<1>2. trouble' = trouble \cup ({f} \ {"none"}) /\ ops' # 0
  BY <1>1, OperateKeeps DEF Unnoticed, RInv
<1>3. CASE rec = None \/ (rec.pending # None /\ JobOwed(rec))
  <2>1. rec # None => InitialDue(rec, sent + 1) # None
    <3>1. CASE rec # None /\ JobOwed(rec)
      <4>1. rec \in Job /\ now \in Nat /\ sent \in Nat
        BY <3>1, RecordFacts DEF RInv, RecordOK
      <4>2. InitialDue(rec, sent + 1) =
              IF rec.at = Recurring THEN [at |-> NextSlot(now), n |-> 0]
              ELSE IF rec.at <= now THEN [at |-> now, n |-> sent + 1] ELSE [at |-> rec.at, n |-> 0]
        BY <3>1 DEF JobOwed, InitialDue
      <4>3. NextSlot(now) \in Nat
        BY <4>1, NextSlotType
      <4>4. InitialDue(rec, sent + 1) \in [at : Int, n : Nat]
        BY <4>1, <4>2, <4>3 DEF Job
      <4> QED
        BY <4>4, NoRecordAssumption
    <3> QED
      BY <1>3, <3>1
  <2>2. ReconciledCron(f) = Draft(rec)
    BY <1>3, <2>1 DEF ReconciledCron, JobOwed
  <2>3. UNCHANGED <<rec, delayed, sent>>
    BY <1>1, <2>2 DEF Save, Draft
  <2> QED
    BY <1>1, <1>2, <1>3, <2>3
<1>4. CASE ~(rec = None \/ (rec.pending # None /\ JobOwed(rec)))
  <2>1. rec \in Job
    BY <1>4, RecordFacts
  <2>2. ReconciledCron(f) = ScheduleRecord(DraftOn(rec, delayed), f)
    <3>1. CASE rec.pending = None \/ ~rec.enabled
      BY <1>4, <3>1, DraftIs DEF ReconciledCron
    <3>2. CASE rec.at # Recurring /\ rec.ran
      BY <1>4, <3>2, DraftIs DEF ReconciledCron, InitialDue
    <3> QED
      BY <1>4, <3>1, <3>2 DEF JobOwed
  <2>3. CronReplanned(rec, delayed, f)
    BY <1>1, <2>1, <2>2, RecordReplanned
  <2> QED
    BY <1>1, <1>2, <1>4, <2>3
<1> QED
  BY <1>3, <1>4

-----------------------------------------------------------------------------
(* TicksInv, section by section.                                           *)

LEMMA RecordTypes ==
    ASSUME RInv, rec # None
    PROVE  /\ rec.keys \in Seq(Key) /\ rec.pending \in Nat \cup {None} /\ rec.rev \in Nat
           /\ Range(rec.keys) \subseteq Key
           /\ entity = "heartbeat" /\ rec.last # None => rec.last.n \in Nat
<1>1. entity \in {"cron", "heartbeat"}
  BY DEF RInv, FrameOK
<1>2. CASE entity = "cron"
  <2>1. rec \in Job
    BY <1>2, RecordFacts
  <2>2. rec.keys \in Seq(Key) /\ rec.pending \in Nat \cup {None} /\ rec.rev \in Nat
    BY <2>1 DEF Job
  <2> QED
    BY <1>2, <2>2, LenProperties DEF Range
<1>3. CASE entity = "heartbeat"
  <2>1. rec \in Beat
    BY <1>3, RecordFacts
  <2>2. rec.keys \in Seq(Key) /\ rec.pending \in Nat \cup {None} /\ rec.rev \in Nat
        /\ (rec.last # None => rec.last.n \in Nat)
    BY <2>1 DEF Beat
  <2> QED
    BY <1>3, <2>2, LenProperties DEF Range
<1> QED
  BY <1>1, <1>2, <1>3

\* The record after a section is of the past when the planned one was.
LEMMA DatedPlanned ==
    ASSUME RInv, NEW r, r.keys \in Seq(Key), r.pending \in Nat \cup {None}, Dated(r),
           NEW left, NEW key, NEW f, NEW g, Planned(r, left, key, f, g), g # "save",
           UNCHANGED <<now, entity>>,
           entity = "heartbeat" => rec'.last = r.last /\ (r.last # None => r.last.n \in Nat)
    PROVE  Dated(rec)'
<1>1. sent \in Nat /\ sent' \in {sent, sent + 1} /\ now \in Nat
  BY RecordFacts DEF RInv, RecordOK, Planned
<1>2. rec'.pending # None => rec'.pending <= sent'
  BY <1>1 DEF Planned, Dated
<1>3. rec'.keys = r.keys /\ rec'.rev = r.rev
  BY DEF Planned
<1>4. \A k \in Range(r.keys) : k.n <= sent' /\ k.at <= now' /\ (entity' = "heartbeat" => k.rev <= r.rev)
  <2>1. Range(r.keys) \subseteq Key
    BY LenProperties DEF Range
  <2> QED
    BY <1>1, <2>1 DEF Dated, OldKey, Key
<1>5. entity' = "heartbeat" /\ rec'.last # None => rec'.last.n <= sent' + 1
  BY <1>1 DEF Dated
<1> QED
  BY <1>2, <1>3, <1>4, <1>5 DEF Dated, OldKey

LEMMA TicksPlanned ==
    ASSUME RInv, TicksInv, NEW r, r.keys \in Seq(Key), r.pending \in Nat \cup {None}, Dated(r),
           NEW left, left \subseteq delayed, NEW key \in Key, key.n <= sent + 1, key.kind # "manual",
           NEW f, NEW g, Planned(r, left, key, f, g),
           inbox' \subseteq inbox, runs' \subseteq runs \cup inbox, UNCHANGED <<now, entity>>,
           entity = "heartbeat" /\ g # "save" =>
              rec'.last = r.last /\ (r.last # None => r.last.n \in Nat)
    PROVE  TicksInv'
<1> DEFINE tick == [id |-> sent + 1, key |-> key]
<1>1. sent \in Nat /\ sent' \in Nat /\ sent' >= sent
  BY DEF RInv, RecordOK, Planned
<1>2. tick \in Tick /\ tick.id = sent + 1 /\ tick.key.n <= sent + 1 /\ tick.key.kind # "manual"
  BY <1>1 DEF Tick
<1>3. \/ delayed' \subseteq delayed /\ sent' = sent
      \/ delayed' \subseteq delayed \cup {tick} /\ sent' = sent + 1
  BY DEF Planned
<1> HIDE DEF tick
<1>4. (rec # None => Dated(rec))'
  <2>1. CASE g = "save"
    <3>1. rec' = rec
      BY <2>1 DEF Planned
    <3>2. CASE rec # None
      <4>1. Dated(rec)
        BY <3>2 DEF TicksInv
      <4>2. /\ rec.pending \in Nat \cup {None} /\ Range(rec.keys) \subseteq Key
            /\ entity = "heartbeat" /\ rec.last # None => rec.last.n \in Nat
        BY <3>2, RecordTypes
      <4> QED
        BY <1>1, <3>1, <4>1, <4>2 DEF Dated, OldKey, Key
    <3> QED
      BY <3>1, <3>2
  <2>2. CASE g # "save"
    BY <2>2, DatedPlanned
  <2> QED
    BY <2>1, <2>2
<1> QED
  BY <1>2, <1>3, <1>4, TicksStep

\* A section that sends nothing.
LEMMA TicksKept ==
    ASSUME RInv, TicksInv, delayed' \subseteq delayed, sent' = sent,
           inbox' \subseteq inbox, runs' \subseteq runs \cup inbox, UNCHANGED <<now, entity>>,
           (rec # None => Dated(rec))'
    PROVE  TicksInv'
<1> DEFINE tick == [id |-> sent + 1, key |-> [rev |-> 0, kind |-> "run", at |-> 0, n |-> 0]]
<1>1. tick \in Tick /\ tick.id = sent + 1 /\ tick.key.n <= sent + 1 /\ tick.key.kind # "manual"
  BY DEF RInv, RecordOK, Tick, Key
<1> HIDE DEF tick
<1> QED
  BY <1>1, TicksStep

\* Another record whose pending delay and run keys are those of r, or one of a tick that came.
LEMMA DatedLike ==
    ASSUME RInv, NEW r, NEW q, Dated(r), q.pending \in {r.pending, None},
           NEW K, K \subseteq Key, Range(q.keys) \subseteq Range(r.keys) \cup K,
           \A k \in K : OldKey(k) /\ (entity = "heartbeat" => k.rev <= q.rev),
           r.keys \in Seq(Key), r.rev \in Nat, q.rev \in Nat, q.rev >= r.rev,
           entity = "heartbeat" => q.last = r.last \/ q.last = [at |-> now, n |-> sent + 1]
    PROVE  Dated(q)
<1>1. Range(r.keys) \subseteq Key
  BY LenProperties DEF Range
<1>2. sent \in Nat
  BY DEF RInv, RecordOK
<1>3. \A k \in Range(q.keys) : OldKey(k) /\ (entity = "heartbeat" => k.rev <= q.rev)
  BY <1>1 DEF Dated, Key
<1> QED
  BY <1>2, <1>3 DEF Dated

LEMMA TicksIdle ==
    ASSUME RInv, TicksInv, NEW r, r # None => Dated(r), NEW left, left \subseteq delayed, NEW f,
           CronIdle(r, left, f), inbox' \subseteq inbox, runs' \subseteq runs \cup inbox,
           UNCHANGED <<now, entity>>
    PROVE  TicksInv'
<1>1. delayed' \subseteq delayed /\ sent' = sent /\ rec' \in {rec, r}
  BY DEF CronIdle
<1>2. (rec # None => Dated(rec))'
  BY <1>1 DEF TicksInv, Dated, OldKey
<1> QED
  BY <1>1, <1>2, TicksKept

LEMMA TicksCronPlanned ==
    ASSUME RInv, TicksInv, entity = "cron", NEW r \in Job, Dated(r), NEW left, left \subseteq delayed,
           NEW f, CronPlanned(r, left, f), inbox' \subseteq inbox, runs' \subseteq runs \cup inbox,
           UNCHANGED <<now, entity>>
    PROVE  TicksInv'
<1>1. PICK key \in Key : CronKey(r, key) /\ Planned(r, left, key, f, f)
  BY DEF CronPlanned
<1>2. key.n <= sent + 1 /\ key.kind # "manual"
  BY <1>1 DEF CronKey
<1>3. r.keys \in Seq(Key) /\ r.pending \in Nat \cup {None}
  BY DEF Job
<1> QED
  BY <1>1, <1>2, <1>3, TicksPlanned

LEMMA LeftFewer ==
    ASSUME NEW base, base \subseteq delayed, NEW r, NEW f
    PROVE  Left(base, r, f) \subseteq delayed
BY DEF Left

LEMMA TicksReplanned ==
    ASSUME RInv, TicksInv, entity = "cron", NEW r \in Job, Dated(r), NEW base, base \subseteq delayed,
           NEW f, CronReplanned(r, base, f), inbox' \subseteq inbox, runs' \subseteq runs \cup inbox,
           UNCHANGED <<now, entity>>
    PROVE  TicksInv'
<1>1. CASE JobOwed(r)
  BY <1>1, LeftFewer, TicksCronPlanned DEF CronReplanned
<1>2. CASE ~JobOwed(r)
  <2> DEFINE idle == [r EXCEPT !.pending = None]
  <2>1. idle.pending = None /\ idle.keys = r.keys
    BY IdleJob
  <2>2. Dated(idle)
    BY <2>1 DEF Dated
  <2>3. CronIdle(idle, base, f)
    BY <1>2 DEF CronReplanned
  <2> HIDE DEF idle
  <2> QED
    BY <2>2, <2>3, TicksIdle
<1> QED
  BY <1>1, <1>2

LEMMA EmptyKeys == Range(<<>>) = {}
BY DEF Range

LEMMA TakenFewer ==
    ASSUME NEW t, NEW f, Taken(t, f)
    PROVE  inbox' \subseteq inbox
BY DEF Taken

\* A tick that came has a run key of the past.
LEMMA CameBefore ==
    ASSUME RInv, TicksInv, NEW t \in inbox \cup runs
    PROVE  t \in Tick /\ t.key \in Key /\ OldKey(t.key)
BY DEF RInv, FrameOK, TicksInv, Tick, OldKey

LEMMA ReplannedDated ==
    ASSUME RInv, TicksInv, NEW t \in inbox, rec # None, Current(t)
    PROVE  Dated(Replanned(t))
<1> DEFINE r == Replanned(t)
<1>1. t \in Tick /\ t.key \in Key /\ OldKey(t.key)
  BY CameBefore
<1>2. rec.keys \in Seq(Key) /\ rec.rev \in Nat
  BY RecordTypes
<1>3. Dated(rec)
  BY DEF TicksInv
<1>4. r.pending = None /\ r.keys = AppendRunKey(rec.keys, t.key) /\ r.rev = rec.rev
      /\ (entity = "heartbeat" => r.last = rec.last)
  <2>1. entity \in {"cron", "heartbeat"}
    BY DEF RInv, FrameOK
  <2> QED
    BY <1>1, <2>1, RecordFacts, JobReplannedIs, ReplannedIs
<1>5. Range(r.keys) \subseteq Range(rec.keys) \cup {t.key}
  BY <1>1, <1>2, <1>4, AppendedKeys
<1>6. t.key.rev = rec.rev
  BY DEF Current
<1> HIDE DEF r
<1>7. \A k \in {t.key} : OldKey(k) /\ (entity = "heartbeat" => k.rev <= r.rev)
  BY <1>1, <1>2, <1>4, <1>6 DEF Key
<1>8. Dated(r)
  <2>1. {t.key} \subseteq Key /\ r.rev \in Nat /\ r.rev >= rec.rev
    BY <1>1, <1>2, <1>4
  <2> QED
    BY <1>2, <1>3, <1>4, <1>5, <1>7, <2>1, DatedLike
<1> QED
  BY <1>8 DEF r

LEMMA FinishedJobIs ==
    ASSUME rec \in Job, NEW t \in Tick
    PROVE  LET r == FinishedJob(t)
           IN  /\ r \in Job /\ r.pending = (IF rec.deleteAfterRun THEN None ELSE rec.pending)
               /\ r.keys = AppendRunKey(rec.keys, t.key) /\ r.rev = rec.rev
               /\ r.enabled = (rec.enabled /\ ~rec.deleteAfterRun) /\ r.at = rec.at /\ r.ran
<1>1. AppendRunKey(rec.keys, t.key) \in Seq(Key)
  BY AppendType DEF Job, Tick
<1>2. FinishedJob(t) \in Job
  BY <1>1, FinishedJobKeys DEF JobsWith
<1> QED
  BY <1>2 DEF FinishedJob, Job

LEMMA FinishedDated ==
    ASSUME RInv, TicksInv, entity = "cron", NEW t \in runs, Current(t)
    PROVE  Dated(FinishedJob(t))
<1> DEFINE r == FinishedJob(t)
<1>1. t \in Tick /\ t.key \in Key /\ OldKey(t.key)
  BY CameBefore
<1>2. rec # None /\ rec \in Job
  BY RecordFacts DEF Current
<1>3. rec.keys \in Seq(Key) /\ rec.rev \in Nat /\ Dated(rec)
  BY <1>2, RecordTypes DEF TicksInv
<1>4. r.pending \in {rec.pending, None} /\ r.keys = AppendRunKey(rec.keys, t.key) /\ r.rev = rec.rev
  BY <1>1, <1>2, FinishedJobIs
<1>5. Range(r.keys) \subseteq Range(rec.keys) \cup {t.key}
  BY <1>1, <1>3, <1>4, AppendedKeys
<1> HIDE DEF r
<1>6. \A k \in Range(r.keys) : OldKey(k)
  BY <1>1, <1>3, <1>5 DEF Dated
<1>7. r.pending # None => r.pending <= sent
  BY <1>3, <1>4 DEF Dated
<1>8. Dated(r)
  BY <1>6, <1>7 DEF Dated
<1> QED
  BY <1>8 DEF r

LEMMA CronRequestTicks ==
    ASSUME RInv, TicksInv, entity = "cron", entity' = entity, CronAdd \/ CronUpdate \/ CronRemove \/ CronRun
    PROVE  TicksInv'
<1>1. CASE CronAdd
  <2>1. PICK f \in Fault \ {"load", "cancel"}, job \in Job :
          /\ UNCHANGED <<now, inbox, runs>> /\ job.pending = None /\ job.keys = <<>>
          /\ CronReplanned(job, delayed, f)
    BY <1>1, CronAddOutcome
  <2>2. Dated(job)
    BY <2>1, EmptyKeys DEF Dated
  <2> QED
    BY <2>1, <2>2, TicksReplanned
<1>2. CASE CronUpdate
  <2>1. PICK f \in Fault \ {"load"}, job \in Job :
          /\ rec # None /\ UNCHANGED <<now, inbox, runs>>
          /\ job.pending = rec.pending /\ job.keys = rec.keys
          /\ CronReplanned(job, Left(delayed, rec, f), f)
    BY <1>2, CronUpdateOutcome
  <2>2. Dated(job)
    BY <2>1 DEF Dated, TicksInv
  <2> QED
    BY <2>1, <2>2, LeftFewer, TicksReplanned
<1>3. CASE CronRemove
  <2>1. PICK f \in {"none", "save", "cancel"} :
          UNCHANGED <<now, inbox, runs>> /\ CronIdle(None, Left(delayed, rec, f), f)
    BY <1>3, CronRemoveOutcome
  <2> QED
    BY <2>1, LeftFewer, TicksIdle
<1>4. CASE CronRun
  <2> DEFINE tick == [id |-> sent + 1,
                      key |-> [rev |-> rec.rev, kind |-> "manual", at |-> now, n |-> sent + 1]]
  <2>1. /\ sent' = sent + 1 /\ inbox' = inbox \cup {tick} /\ rec # None
        /\ UNCHANGED <<now, delayed, rec, runs>>
    BY <1>4 DEF CronRun
  <2>2. /\ tick.id = sent + 1 /\ tick.key.n = sent + 1 /\ tick.key.at = now
        /\ sent \in Nat /\ now \in Nat /\ delayed \cup inbox \cup runs \subseteq Tick
    BY RecordFacts DEF RInv, FrameOK, RecordOK
  <2> HIDE DEF tick
  <2>3. (\A t \in delayed \cup inbox \cup runs :
           t.id <= sent /\ t.key.n <= sent /\ (entity = "heartbeat" => t.key.kind # "manual"))'
    BY <2>1, <2>2 DEF TicksInv, Tick, Key
  <2>4. (\A t \in inbox \cup runs : t.key.at <= now)'
    BY <2>1, <2>2 DEF TicksInv
  <2>5. \A t \in delayed \cup inbox : t.id # tick.id
    BY <2>2 DEF TicksInv, Tick
  <2>6. (\A t, u \in delayed \cup inbox : t.id = u.id => t = u)'
    BY <2>1, <2>5 DEF TicksInv
  <2>7. delayed' \cap inbox' = {}
    BY <2>1, <2>5 DEF TicksInv
  <2>8. (rec # None => Dated(rec))'
    <3>1. Dated(rec)
      BY <2>1 DEF TicksInv
    <3>2. rec.pending \in Nat \cup {None} /\ Range(rec.keys) \subseteq Key
      BY <2>1, RecordTypes
    <3> QED
      BY <2>1, <2>2, <3>1, <3>2 DEF Dated, OldKey, Key
  <2> QED
    BY <2>3, <2>4, <2>6, <2>7, <2>8, Zenon DEF TicksInv
<1> QED
  BY <1>1, <1>2, <1>3, <1>4

LEMMA CronTickTicks ==
    ASSUME RInv, TicksInv, entity = "cron", entity' = entity, NEW t \in inbox,
           HandleCronPlan(t) \/ StartCronRun(t)
    PROVE  TicksInv'
<1>0. rec # None => Dated(rec) /\ rec \in Job
  BY RecordFacts DEF TicksInv
<1>1. t \in Tick
  BY CameBefore
<1>2. CASE HandleCronPlan(t)
  <2>1. PICK f \in (Fault \ {"cancel"}) \cup {"again"} :
          /\ Taken(t, f) /\ UNCHANGED <<now, runs>>
          /\ f = "load" \/ ~Current(t) => UNCHANGED <<rec, delayed, sent>>
          /\ f # "load" /\ Current(t) => CronReplanned(Replanned(t), delayed, f)
    BY <1>2, CronPlanOutcome
  <2>2. CASE f = "load" \/ ~Current(t)
    <3>1. CronIdle(rec, delayed, f)
      BY <2>1, <2>2 DEF CronIdle
    <3> QED
      BY <1>0, <2>1, <3>1, TakenFewer, TicksIdle
  <2>3. CASE f # "load" /\ Current(t)
    <3>1. rec # None
      BY <2>3 DEF Current
    <3>2. Replanned(t) \in Job /\ Dated(Replanned(t))
      BY <1>0, <1>1, <2>3, <3>1, JobReplannedIs, ReplannedDated
    <3> QED
      BY <2>1, <2>3, <3>2, TakenFewer, TicksReplanned
  <2> QED
    BY <2>2, <2>3
<1>3. CASE StartCronRun(t)
  <2> DEFINE idle == [rec EXCEPT !.pending = None]
  <2>1. PICK f \in (Fault \ {"cancel"}) \cup {"again"} :
          /\ Taken(t, f) /\ now' = now
          /\ f = "load" \/ ~Current(t) => UNCHANGED <<rec, delayed, sent, runs>>
          /\ f # "load" /\ Current(t) =>
               /\ runs' = IF f = "save" THEN runs ELSE runs \cup {t}
               /\ IF t.key.kind = "manual" THEN CronIdle(rec, delayed, f)
                  ELSE IF rec.at = Recurring THEN CronPlanned(idle, delayed, f)
                  ELSE CronIdle(idle, delayed, f)
    BY <1>3, CronStartOutcome
  <2>2. CASE f = "load" \/ ~Current(t)
    <3>1. CronIdle(rec, delayed, f) /\ runs' = runs
      BY <2>1, <2>2 DEF CronIdle
    <3> QED
      BY <1>0, <2>1, <3>1, TakenFewer, TicksIdle
  <2>3. CASE f # "load" /\ Current(t)
    <3>1. rec # None
      BY <2>3 DEF Current
    <3>2. idle \in Job /\ idle.pending = None /\ idle.keys = rec.keys
      BY <1>0, <3>1, IdleJob
    <3>3. Dated(idle)
      BY <1>0, <3>1, <3>2 DEF Dated
    <3> HIDE DEF idle
    <3>4. runs' \subseteq runs \cup inbox
      BY <2>1, <2>3
    <3>5. CASE t.key.kind = "manual"
      BY <1>0, <2>1, <2>3, <3>4, <3>5, TakenFewer, TicksIdle
    <3>6. CASE t.key.kind # "manual" /\ rec.at = Recurring
      BY <2>1, <2>3, <3>2, <3>3, <3>4, <3>6, TakenFewer, TicksCronPlanned
    <3>7. CASE t.key.kind # "manual" /\ rec.at # Recurring
      BY <2>1, <2>3, <3>2, <3>3, <3>4, <3>7, TakenFewer, TicksIdle
    <3> QED
      BY <3>5, <3>6, <3>7
  <2> QED
    BY <2>2, <2>3
<1> QED
  BY <1>2, <1>3

LEMMA CronFinishTicks ==
    ASSUME RInv, TicksInv, entity = "cron", entity' = entity, NEW t \in runs, FinishCronRun(t)
    PROVE  TicksInv'
<1>1. PICK f \in {"none", "load", "save", "cancel"} :
        /\ runs' = runs \ {t} /\ UNCHANGED <<now, inbox>>
        /\ f = "load" \/ ~Current(t) => UNCHANGED <<rec, delayed, sent>>
        /\ f # "load" /\ Current(t) =>
             CronIdle(FinishedJob(t), IF rec.deleteAfterRun THEN Left(delayed, rec, f) ELSE delayed, f)
  BY CronFinishOutcome
<1>2. CASE f = "load" \/ ~Current(t)
  <2>1. CronIdle(rec, delayed, f)
    BY <1>1, <1>2 DEF CronIdle
  <2>2. rec # None => Dated(rec)
    BY DEF TicksInv
  <2> QED
    BY <1>1, <2>1, <2>2, TicksIdle
<1>3. CASE f # "load" /\ Current(t)
  <2> DEFINE left == IF rec.deleteAfterRun THEN Left(delayed, rec, f) ELSE delayed
  <2>1. Dated(FinishedJob(t))
    BY <1>3, FinishedDated
  <2>2. left \subseteq delayed
    BY LeftFewer
  <2>3. CronIdle(FinishedJob(t), left, f)
    BY <1>1, <1>3
  <2> HIDE DEF left
  <2> QED
    BY <1>1, <2>1, <2>2, <2>3, TicksIdle
<1> QED
  BY <1>2, <1>3

LEMMA CronReconcileTicks ==
    ASSUME RInv, TicksInv, entity = "cron", Reconcile
    PROVE  TicksInv'
<1>1. PICK f \in Fault \ {"load"} :
        /\ UNCHANGED <<now, inbox, runs, entity>>
        /\ IF rec = None \/ (rec.pending # None /\ JobOwed(rec)) THEN UNCHANGED <<rec, delayed, sent>>
           ELSE CronReplanned(rec, delayed, f)
  BY CronReconcileOutcome
<1>2. rec # None => Dated(rec) /\ rec \in Job
  BY RecordFacts DEF TicksInv
<1>3. CASE rec = None \/ (rec.pending # None /\ JobOwed(rec))
  <2>1. CronIdle(rec, delayed, f)
    BY <1>1, <1>3 DEF CronIdle
  <2> QED
    BY <1>1, <1>2, <2>1, TicksIdle
<1>4. CASE ~(rec = None \/ (rec.pending # None /\ JobOwed(rec)))
  BY <1>1, <1>2, <1>4, TicksReplanned
<1> QED
  BY <1>3, <1>4

LEMMA TicksBeatPlanned ==
    ASSUME RInv, TicksInv, entity = "heartbeat", NEW r \in Beat, Dated(r), NEW left, left \subseteq delayed,
           NEW key \in Key, key.n <= sent + 1, key.kind # "manual", NEW next, NEW f, NEW g,
           BeatPlanned(r, left, key, next, f, g),
           inbox' \subseteq inbox, runs' \subseteq runs \cup inbox, UNCHANGED <<now, entity>>
    PROVE  TicksInv'
<1>1. r.keys \in Seq(Key) /\ r.pending \in Nat \cup {None} /\ (r.last # None => r.last.n \in Nat)
  BY DEF Beat
<1>2. Planned(r, left, key, f, g) /\ (g # "save" => rec'.last = r.last)
  BY DEF BeatPlanned
<1> QED
  BY <1>1, <1>2, TicksPlanned

LEMMA FinishedBeatDated ==
    ASSUME RInv, TicksInv, entity = "heartbeat", NEW t \in runs, Current(t), NEW ran \in BOOLEAN
    PROVE  Finished(t, ran) \in Beat /\ Dated(Finished(t, ran))
<1> DEFINE r == Finished(t, ran)
<1>1. t \in Tick /\ t.key \in Key /\ OldKey(t.key)
  BY CameBefore
<1>2. rec # None /\ rec \in Beat /\ now \in Nat /\ sent \in Nat
  BY RecordFacts DEF Current, RInv, RecordOK
<1>3. rec.keys \in Seq(Key) /\ rec.rev \in Nat /\ Dated(rec)
  BY <1>2, RecordTypes DEF TicksInv
<1>4. /\ r \in Beat /\ r.pending = rec.pending /\ r.keys = AppendRunKey(rec.keys, t.key) /\ r.rev = rec.rev
      /\ r.last = IF ran THEN [at |-> now, n |-> sent + 1] ELSE rec.last
  BY <1>1, <1>2, FinishedIs
<1>5. Range(r.keys) \subseteq Range(rec.keys) \cup {t.key}
  BY <1>1, <1>3, <1>4, AppendedKeys
<1>6. t.key.rev = rec.rev
  BY DEF Current
<1> HIDE DEF r
<1>7. \A k \in Range(r.keys) : OldKey(k) /\ k.rev <= r.rev
  BY <1>1, <1>3, <1>4, <1>5, <1>6 DEF Dated
<1>8. r.pending # None => r.pending <= sent
  BY <1>3, <1>4 DEF Dated
<1>9. r.last # None => r.last.n <= sent + 1
  BY <1>2, <1>3, <1>4 DEF Dated
<1>10. r \in Beat /\ Dated(r)
  BY <1>4, <1>7, <1>8, <1>9 DEF Dated
<1> QED
  BY <1>10 DEF r

\* What the configuration asks of the record is of the past as well.
LEMMA UpsertedDated ==
    ASSUME RInv, TicksInv, entity = "heartbeat", interval \in Nat \ {0}
    PROVE  Upserted(rec) \in Beat /\ Dated(Upserted(rec))
<1> DEFINE b == Upserted(rec)
<1>1. rec # None => rec \in Beat
  BY RecordFacts
<1>2. /\ b \in Beat
      /\ rec = None => b.pending = None /\ b.keys = <<>> /\ b.last = None
      /\ rec # None => /\ b.keys = rec.keys /\ b.last = rec.last
                       /\ IF rec.interval = interval THEN b = rec
                          ELSE b.rev = rec.rev + 1 /\ b.pending = None
  BY <1>1, UpsertedIs
<1> SUFFICES b \in Beat /\ Dated(b)
  OBVIOUS
<1> HIDE DEF b
<1>3. CASE rec = None
  BY <1>2, <1>3, EmptyKeys DEF Dated
<1>4. CASE rec # None /\ rec.interval = interval
  BY <1>2, <1>4 DEF TicksInv
<1>5. CASE rec # None /\ rec.interval # interval
  <2>1. Dated(rec) /\ rec.rev \in Nat /\ Range(rec.keys) \subseteq Key
    BY <1>5, RecordTypes DEF TicksInv
  <2>2. \A k \in Range(b.keys) : OldKey(k) /\ k.rev <= b.rev
    BY <1>2, <1>5, <2>1 DEF Dated, Key
  <2> QED
    BY <1>2, <1>5, <2>1, <2>2 DEF Dated
<1> QED
  BY <1>2, <1>3, <1>4, <1>5

LEMMA BeatRecord ==
    ASSUME RInv, TicksInv, entity = "heartbeat"
    PROVE  rec # None => rec \in Beat /\ Dated(rec)
BY RecordFacts DEF TicksInv

LEMMA BeatTickTicks ==
    ASSUME RInv, TicksInv, entity = "heartbeat", entity' = entity, NEW t \in inbox,
           HandleHeartbeatPlan(t) \/ StartHeartbeatRun(t)
    PROVE  TicksInv'
<1>1. t \in Tick
  BY CameBefore
<1>2. CASE HandleHeartbeatPlan(t)
  <2>1. PICK f \in (Fault \ {"cancel"}) \cup {"again"} :
          /\ Taken(t, f) /\ UNCHANGED <<now, runs>>
          /\ f = "load" \/ ~Current(t) => UNCHANGED <<rec, delayed, sent>>
          /\ f # "load" /\ Current(t) =>
               \E key \in Key, next \in Nat :
                  /\ RegularKey(Replanned(t), key, next)
                  /\ BeatPlanned(Replanned(t), delayed, key, next, f, f)
    BY <1>2, BeatPlanOutcome
  <2>2. CASE f = "load" \/ ~Current(t)
    <3>1. CronIdle(rec, delayed, f)
      BY <2>1, <2>2 DEF CronIdle
    <3> QED
      BY <2>1, <3>1, BeatRecord, TakenFewer, TicksIdle
  <2>3. CASE f # "load" /\ Current(t)
    <3>1. rec # None /\ rec \in Beat
      BY <2>3, BeatRecord DEF Current
    <3>2. Replanned(t) \in Beat /\ Dated(Replanned(t))
      BY <1>1, <2>3, <3>1, ReplannedIs, ReplannedDated
    <3>3. PICK key \in Key, next \in Nat :
            /\ RegularKey(Replanned(t), key, next)
            /\ BeatPlanned(Replanned(t), delayed, key, next, f, f)
      BY <2>1, <2>3
    <3>4. key.n <= sent + 1 /\ key.kind # "manual"
      BY <3>3 DEF RegularKey
    <3> QED
      BY <2>1, <3>2, <3>3, <3>4, TakenFewer, TicksBeatPlanned
  <2> QED
    BY <2>2, <2>3
<1>3. CASE StartHeartbeatRun(t)
  <2> DEFINE idle == [rec EXCEPT !.pending = None]
  <2>1. PICK f \in {"none", "load", "save", "again"} :
          /\ Taken(t, f) /\ UNCHANGED <<now, delayed, sent>>
          /\ f \in {"load", "save"} \/ ~Current(t) => UNCHANGED <<rec, runs>>
          /\ f \notin {"load", "save"} /\ Current(t) => rec' = idle /\ runs' = runs \cup {t}
    BY <1>3, BeatStartOutcome
  <2>2. CASE f \in {"load", "save"} \/ ~Current(t)
    <3>1. CronIdle(rec, delayed, f) /\ runs' = runs
      BY <2>1, <2>2 DEF CronIdle
    <3> QED
      BY <2>1, <3>1, BeatRecord, TakenFewer, TicksIdle
  <2>3. CASE f \notin {"load", "save"} /\ Current(t)
    <3>1. rec # None /\ rec \in Beat /\ Dated(rec)
      BY <2>3, BeatRecord DEF Current
    <3>2. idle.pending = None /\ idle.keys = rec.keys /\ idle.rev = rec.rev /\ idle.last = rec.last
      BY <3>1, PendingBeat
    <3>3. Dated(idle)
      BY <3>1, <3>2 DEF Dated
    <3> HIDE DEF idle
    <3>4. runs' \subseteq runs \cup inbox
      BY <2>1, <2>3
    <3>5. CronIdle(idle, delayed, f)
      BY <2>1, <2>3 DEF CronIdle
    <3> QED
      BY <2>1, <3>3, <3>4, <3>5, TakenFewer, TicksIdle
  <2> QED
    BY <2>2, <2>3
<1> QED
  BY <1>2, <1>3

LEMMA BeatFinishTicks ==
    ASSUME RInv, TicksInv, entity = "heartbeat", entity' = entity, NEW t \in runs, FinishHeartbeatRun(t)
    PROVE  TicksInv'
<1>1. PICK ran \in BOOLEAN, f \in Fault :
        /\ runs' = runs \ {t} /\ UNCHANGED <<now, inbox>>
        /\ f = "load" \/ ~Current(t) => UNCHANGED <<rec, delayed, sent>>
        /\ f # "load" /\ Current(t) =>
             \E key \in Key, next \in Nat :
                /\ IF ran THEN RegularKey(Finished(t, ran), key, next)
                   ELSE key = RetryKey(rec) /\ next = now + Coalesce
                /\ BeatPlanned(Finished(t, ran), Left(delayed, rec, f), key, next, f, f)
  BY BeatFinishOutcome
<1>2. CASE f = "load" \/ ~Current(t)
  <2>1. CronIdle(rec, delayed, f)
    BY <1>1, <1>2 DEF CronIdle
  <2> QED
    BY <1>1, <2>1, BeatRecord, TicksIdle
<1>3. CASE f # "load" /\ Current(t)
  <2>1. PICK key \in Key, next \in Nat :
          /\ IF ran THEN RegularKey(Finished(t, ran), key, next)
             ELSE key = RetryKey(rec) /\ next = now + Coalesce
          /\ BeatPlanned(Finished(t, ran), Left(delayed, rec, f), key, next, f, f)
    BY <1>1, <1>3
  <2>2. key.n <= sent + 1 /\ key.kind # "manual"
    BY <2>1 DEF RegularKey, RetryKey, RInv, RecordOK
  <2>3. Left(delayed, rec, f) \subseteq delayed
    BY LeftFewer
  <2>4. Finished(t, ran) \in Beat /\ Dated(Finished(t, ran))
    BY <1>3, FinishedBeatDated
  <2>5. inbox' \subseteq inbox /\ runs' \subseteq runs \cup inbox
    BY <1>1
  <2> QED
    BY <1>1, <2>1, <2>2, <2>3, <2>4, <2>5, TicksBeatPlanned
<1> QED
  BY <1>2, <1>3

LEMMA BeatRequestTicks ==
    ASSUME RInv, TicksInv, entity = "heartbeat", entity' = entity, RequestHeartbeatNow \/ Configure
    PROVE  TicksInv'
<1>1. CASE RequestHeartbeatNow
  <2> DEFINE b == Upserted(rec)
  <2>1. /\ interval \in Nat \ {0} /\ UNCHANGED <<now, inbox, runs>> /\ WakeKey(b) \in Key
        /\ \E f \in Fault \ {"load"} :
              /\ Suffer(f)
              /\ \/ UNCHANGED <<rec, delayed, sent>>
                 \/ /\ b.pending # None => Left(delayed, b, f) # delayed
                    /\ BeatPlanned(b, Left(delayed, b, f), WakeKey(b), now, f,
                                   IF f \in {"send", "answer"} THEN "save" ELSE f)
    BY <1>1, WakeOutcome
  <2>2. PICK f \in Fault \ {"load"} :
              \/ UNCHANGED <<rec, delayed, sent>>
              \/ BeatPlanned(b, Left(delayed, b, f), WakeKey(b), now, f,
                             IF f \in {"send", "answer"} THEN "save" ELSE f)
    BY <2>1, Zenon
  <2>3. CASE UNCHANGED <<rec, delayed, sent>>
    <3>1. CronIdle(rec, delayed, f)
      BY <2>3 DEF CronIdle
    <3> QED
      BY <2>1, <3>1, BeatRecord, TicksIdle
  <2>4. CASE BeatPlanned(b, Left(delayed, b, f), WakeKey(b), now, f,
                         IF f \in {"send", "answer"} THEN "save" ELSE f)
    <3> DEFINE g == IF f \in {"send", "answer"} THEN "save" ELSE f
               key == WakeKey(b)
    <3>1. key.n <= sent + 1 /\ key.kind # "manual" /\ key \in Key
      BY <2>1 DEF WakeKey, RInv, RecordOK
    <3>2. b \in Beat /\ Dated(b)
      BY <2>1, UpsertedDated
    <3>3. BeatPlanned(b, Left(delayed, b, f), key, now, f, g)
      BY <2>4
    <3> HIDE DEF b, key, g
    <3> QED
      BY <2>1, <3>1, <3>2, <3>3, LeftFewer, TicksBeatPlanned
  <2> QED
    BY <2>2, <2>3, <2>4
<1>2. CASE Configure
  <2>1. UNCHANGED <<now, delayed, inbox, sent, rec, runs, entity>>
    BY <1>2 DEF Configure
  <2> QED
    BY <2>1 DEF TicksInv, Dated, OldKey
<1> QED
  BY <1>1, <1>2

LEMMA BeatReconcileTicks ==
    ASSUME RInv, TicksInv, entity = "heartbeat", Reconcile
    PROVE  TicksInv'
<1> DEFINE b == Upserted(rec)
<1>1. PICK f \in Fault \ {"load"} :
        /\ UNCHANGED <<now, inbox, runs, interval, entity>>
        /\ interval = 0 =>
             /\ sent' = sent
             /\ delayed' = (IF rec = None THEN delayed ELSE Left(delayed, rec, f))
             /\ rec' = IF f = "save" THEN rec ELSE None
        /\ interval # 0 /\ b.pending # None =>
             /\ UNCHANGED <<sent, delayed>>
             /\ rec' = IF f = "save" THEN rec ELSE [b EXCEPT !.next = BeatDue(b, sent + 1).at]
        /\ interval # 0 /\ b.pending = None =>
             \E key \in Key, next \in Nat :
                RegularKey(b, key, next) /\ BeatPlanned(b, delayed, key, next, f, f)
  BY BeatReconcileOutcome
<1>2. interval # 0 => b \in Beat /\ Dated(b)
  <2>1. interval \in Nat
    BY RecordFacts
  <2> QED
    BY <2>1, UpsertedDated
<1> HIDE DEF b
<1>3. CASE interval = 0
  <2> DEFINE left == IF rec = None THEN delayed ELSE Left(delayed, rec, f)
  <2>1. left \subseteq delayed
    BY LeftFewer
  <2>2. CronIdle(None, left, f)
    BY <1>1, <1>3 DEF CronIdle
  <2> HIDE DEF left
  <2> QED
    BY <1>1, <2>1, <2>2, TicksIdle
<1>4. CASE interval # 0 /\ b.pending # None
  <2> DEFINE kept == [b EXCEPT !.next = BeatDue(b, sent + 1).at]
  <2>1. kept.pending = b.pending /\ kept.keys = b.keys /\ kept.rev = b.rev /\ kept.last = b.last
    BY <1>2, <1>4 DEF Beat
  <2>2. CronIdle(kept, delayed, f)
    BY <1>1, <1>4 DEF CronIdle
  <2> HIDE DEF kept
  <2>3. Dated(kept)
    BY <1>2, <1>4, <2>1 DEF Dated
  <2> QED
    BY <1>1, <2>2, <2>3, TicksIdle
<1>5. CASE interval # 0 /\ b.pending = None
  <2>1. PICK key \in Key, next \in Nat :
          RegularKey(b, key, next) /\ BeatPlanned(b, delayed, key, next, f, f)
    BY <1>1, <1>5
  <2>2. key.n <= sent + 1 /\ key.kind # "manual"
    BY <2>1 DEF RegularKey
  <2> QED
    BY <1>1, <1>2, <1>5, <2>1, <2>2, TicksBeatPlanned
<1> QED
  BY <1>3, <1>4, <1>5

\* The clock, the homeserver and a crash.
LEMMA WorldTicks ==
    ASSUME RInv, TicksInv, entity' = entity,
           Advance \/ Deliver \/ \E repeated \in SUBSET inbox : Crash(repeated)
    PROVE  TicksInv'
<1>1. CASE Advance
  <2>1. now \in Nat /\ now' = now + 1 /\ UNCHANGED <<delayed, inbox, sent, rec, runs>>
    BY <1>1, RecordFacts DEF Advance
  <2>2. \A t \in inbox \cup runs : t.key.at \in Int
    BY DEF RInv, FrameOK, Tick, Key
  <2>3. (\A t \in inbox \cup runs : t.key.at <= now)'
    BY <2>1, <2>2 DEF TicksInv
  <2>4. (rec # None => Dated(rec))'
    <3>1. CASE rec # None
      <4>1. Range(rec.keys) \subseteq Key /\ Dated(rec)
        BY <3>1, RecordTypes DEF TicksInv
      <4> QED
        BY <2>1, <4>1 DEF Dated, OldKey, Key
    <3> QED
      BY <2>1, <3>1
  <2>5. (\A t \in delayed \cup inbox \cup runs :
           t.id <= sent /\ t.key.n <= sent /\ (entity = "heartbeat" => t.key.kind # "manual"))'
    BY <2>1 DEF TicksInv
  <2>6. (\A t, u \in delayed \cup inbox : t.id = u.id => t = u)' /\ (delayed \cap inbox = {})'
    BY <2>1 DEF TicksInv
  <2> QED
    BY <2>3, <2>4, <2>5, <2>6, Zenon DEF TicksInv
<1>2. CASE Deliver
  <2>1. PICK t \in delayed : /\ t.key.at <= now /\ delayed' = delayed \ {t} /\ inbox' = inbox \cup {t}
                             /\ UNCHANGED <<now, sent, rec, runs>>
    BY <1>2 DEF Deliver
  <2>2. (rec # None => Dated(rec))'
    BY <2>1 DEF TicksInv, Dated, OldKey
  <2>3. (\A u \in inbox \cup runs : u.key.at <= now)'
    BY <2>1 DEF TicksInv
  <2>4. (\A u \in delayed \cup inbox \cup runs :
           u.id <= sent /\ u.key.n <= sent /\ (entity = "heartbeat" => u.key.kind # "manual"))'
    BY <2>1 DEF TicksInv
  <2>5. (\A u, v \in delayed \cup inbox : u.id = v.id => u = v)' /\ (delayed \cap inbox = {})'
    BY <2>1 DEF TicksInv
  <2> QED
    BY <2>2, <2>3, <2>4, <2>5, Zenon DEF TicksInv
<1>3. CASE \E repeated \in SUBSET inbox : Crash(repeated)
  <2>1. inbox' \subseteq inbox /\ runs' = {} /\ UNCHANGED <<now, delayed, sent, rec>>
    BY <1>3 DEF Crash
  <2>2. CronIdle(rec, delayed, "none")
    BY <2>1 DEF CronIdle
  <2>3. rec # None => Dated(rec)
    BY DEF TicksInv
  <2>4. runs' \subseteq runs \cup inbox
    BY <2>1
  <2> QED
    BY <2>1, <2>2, <2>3, <2>4, TicksIdle
<1> QED
  BY <1>1, <1>2, <1>3

LEMMA NextTicksInv ==
    ASSUME RInv, TicksInv, [Next]_allVars
    PROVE  TicksInv'
<1>1. entity \in {"cron", "heartbeat"} /\ entity' = entity
  BY TroubleStays DEF RInv, FrameOK
<1>2. CASE UNCHANGED allVars
  BY <1>2 DEF allVars, vars, TicksInv, Dated, OldKey
<1>3. CASE Advance \/ Deliver \/ \E repeated \in SUBSET inbox : Crash(repeated)
  BY <1>1, <1>3, WorldTicks
<1>4. ASSUME NEW t \in inbox, Serve(t)
      PROVE  TicksInv'
  BY <1>1, <1>4, CronTickTicks, BeatTickTicks DEF Serve
<1>5. ASSUME NEW t \in runs, Finish(t)
      PROVE  TicksInv'
  BY <1>1, <1>5, CronFinishTicks, BeatFinishTicks DEF Finish
<1>6. CASE Request
  BY <1>1, <1>6, CronRequestTicks, BeatRequestTicks DEF Request
<1>7. CASE Reconcile
  BY <1>1, <1>7, CronReconcileTicks, BeatReconcileTicks
<1> QED
  BY <1>2, <1>3, <1>4, <1>5, <1>6, <1>7 DEF Next, Progress

-----------------------------------------------------------------------------
(* The pending tick of a cron job does not have the key of a run in        *)
(* progress, so recording that run leaves it acceptable.                   *)

PendingUnworked ==
    entity = "cron" /\ rec # None =>
        \A t \in OnTheWay, u \in runs : t.id = rec.pending => t.key # u.key

\* A planned key differs from those of the ticks that came and of the record.
LEMMA CronKeyIsNew ==
    ASSUME RInv, NEW r, NEW key \in Key, CronKey(r, key)
    PROVE  ~OldKey(key)
<1>1. sent \in Nat /\ now \in Nat
  BY RecordFacts DEF RInv, RecordOK
<1> QED
  BY <1>1 DEF CronKey, OldKey, Key

LEMMA UnworkedPlanned ==
    ASSUME RInv, TicksInv, PendingUnworked, entity = "cron", NEW r \in Job,
           r.pending = None \/ (rec # None /\ r.pending = rec.pending),
           NEW left, left \subseteq delayed, NEW f, CronPlanned(r, left, f),
           inbox' \subseteq inbox, runs' \subseteq runs \cup inbox,
           \A u \in runs' \ runs : f # "save" /\ r.pending = None,
           UNCHANGED <<now, entity>>
    PROVE  PendingUnworked'
<1>1. PICK key \in Key : CronKey(r, key) /\ Planned(r, left, key, f, f)
  BY DEF CronPlanned
<1>2. ~OldKey(key)
  BY <1>1, CronKeyIsNew
<1> SUFFICES ASSUME rec' # None, NEW t \in OnTheWay', NEW u \in runs', t.id = rec'.pending
             PROVE  t.key # u.key
  BY DEF PendingUnworked
<1> DEFINE tick == [id |-> sent + 1, key |-> key]
<1>3. t \in OnTheWay \/ t = tick
  BY <1>1 DEF OnTheWay, Planned
<1>4. u \in Tick /\ OldKey(u.key)
  BY CameBefore
<1>5. CASE t = tick
  BY <1>2, <1>4, <1>5
<1>6. CASE t \in OnTheWay
  <2>1. t \in Tick /\ t.id \in Nat /\ t.id <= sent /\ sent \in Nat
    BY <1>6 DEF OnTheWay, TicksInv, RInv, FrameOK, RecordOK, Tick
  <2>2. rec'.pending = (IF f = "save" THEN rec.pending
                        ELSE IF f \in {"send", "answer"} THEN r.pending ELSE sent + 1)
    BY <1>1 DEF Planned
  <2>3. f = "save" => rec' = rec
    BY <1>1 DEF Planned
  <2>4. rec # None /\ t.id = rec.pending /\ u \in runs
    BY <2>1, <2>2, <2>3, NoRecordAssumption
  <2> QED
    BY <1>6, <2>4 DEF PendingUnworked
<1> QED
  BY <1>3, <1>5, <1>6

LEMMA UnworkedIdle ==
    ASSUME RInv, TicksInv, PendingUnworked, NEW r,
           r # None => r.pending = None \/ (rec # None /\ r.pending = rec.pending),
           NEW left, left \subseteq delayed, NEW f, CronIdle(r, left, f),
           inbox' \subseteq inbox,
           \A u \in runs' \ runs : u.key.kind = "manual" \/ (f # "save" /\ r.pending = None),
           UNCHANGED <<now, entity>>
    PROVE  PendingUnworked'
<1> SUFFICES ASSUME entity = "cron", rec' # None, NEW t \in OnTheWay', NEW u \in runs', t.id = rec'.pending
             PROVE  t.key # u.key
  BY DEF PendingUnworked
<1>1. t \in OnTheWay /\ t.key.kind # "manual"
  BY DEF OnTheWay, CronIdle
<1>2. t.id \in Nat
  BY <1>1 DEF OnTheWay, RInv, FrameOK, RecordOK, Tick
<1>3. rec' = IF f = "save" THEN rec ELSE r
  BY DEF CronIdle
<1>4. rec # None /\ t.id = rec.pending
  BY <1>2, <1>3, NoRecordAssumption
<1>5. u \in runs \/ u.key.kind = "manual"
  BY <1>2, <1>3, NoRecordAssumption
<1> QED
  BY <1>1, <1>4, <1>5 DEF PendingUnworked

LEMMA UnworkedReplanned ==
    ASSUME RInv, TicksInv, PendingUnworked, entity = "cron", NEW r \in Job,
           r.pending = None \/ (rec # None /\ r.pending = rec.pending),
           NEW base, base \subseteq delayed, NEW f, CronReplanned(r, base, f),
           inbox' \subseteq inbox, runs' = runs, UNCHANGED <<now, entity>>
    PROVE  PendingUnworked'
<1>1. CASE JobOwed(r)
  <2>1. CronPlanned(r, Left(base, r, f), f) /\ Left(base, r, f) \subseteq delayed
    BY <1>1, LeftFewer DEF CronReplanned
  <2> QED
    BY <2>1, UnworkedPlanned
<1>2. CASE ~JobOwed(r)
  <2> DEFINE idle == [r EXCEPT !.pending = None]
  <2>1. CronIdle(idle, base, f) /\ idle.pending = None
    BY <1>2, IdleJob DEF CronReplanned
  <2> HIDE DEF idle
  <2> QED
    BY <2>1, UnworkedIdle
<1> QED
  BY <1>1, <1>2

LEMMA NextUnworked ==
    ASSUME RInv, TicksInv, PendingUnworked, [Next]_allVars
    PROVE  PendingUnworked'
<1>0. entity' = entity
  BY TroubleStays
<1> SUFFICES ASSUME entity = "cron" PROVE PendingUnworked'
  BY <1>0 DEF PendingUnworked
<1>1. rec # None => rec \in Job
  BY RecordFacts
<1>2. CASE UNCHANGED allVars \/ Advance
  BY <1>2 DEF allVars, vars, Advance, PendingUnworked, OnTheWay
<1>3. CASE Deliver
  <2>1. OnTheWay' = OnTheWay /\ UNCHANGED <<rec, runs, entity>>
    BY <1>0, <1>3 DEF Deliver, OnTheWay
  <2> QED
    BY <2>1 DEF PendingUnworked
<1>4. CASE \E repeated \in SUBSET inbox : Crash(repeated)
  BY <1>4 DEF Crash, PendingUnworked
<1>5. CASE CronAdd
  <2>1. PICK f \in Fault \ {"load", "cancel"}, job \in Job :
          UNCHANGED <<now, inbox, runs>> /\ job.pending = None /\ CronReplanned(job, delayed, f)
    BY <1>5, CronAddOutcome
  <2> QED
    BY <1>0, <2>1, UnworkedReplanned
<1>6. CASE CronUpdate
  <2>1. PICK f \in Fault \ {"load"}, job \in Job :
          /\ rec # None /\ UNCHANGED <<now, inbox, runs>> /\ job.pending = rec.pending
          /\ CronReplanned(job, Left(delayed, rec, f), f)
    BY <1>6, CronUpdateOutcome
  <2>2. Left(delayed, rec, f) \subseteq delayed
    BY LeftFewer
  <2> QED
    BY <1>0, <2>1, <2>2, UnworkedReplanned
<1>7. CASE CronRemove
  <2>1. PICK f \in {"none", "save", "cancel"} :
          UNCHANGED <<now, inbox, runs>> /\ CronIdle(None, Left(delayed, rec, f), f)
    BY <1>7, CronRemoveOutcome
  <2>2. Left(delayed, rec, f) \subseteq delayed
    BY LeftFewer
  <2> QED
    BY <1>0, <2>1, <2>2, UnworkedIdle
<1>8. CASE CronRun
  <2>1. OnTheWay' = OnTheWay /\ UNCHANGED <<rec, runs, entity>>
    BY <1>0, <1>8 DEF CronRun, OnTheWay
  <2> QED
    BY <2>1 DEF PendingUnworked
<1>9. ASSUME NEW t \in inbox, HandleCronPlan(t)
      PROVE  PendingUnworked'
  <2>1. PICK f \in (Fault \ {"cancel"}) \cup {"again"} :
          /\ Taken(t, f) /\ UNCHANGED <<now, runs>>
          /\ f = "load" \/ ~Current(t) => UNCHANGED <<rec, delayed, sent>>
          /\ f # "load" /\ Current(t) => CronReplanned(Replanned(t), delayed, f)
    BY <1>9, CronPlanOutcome
  <2>2. CASE f = "load" \/ ~Current(t)
    <3>1. CronIdle(rec, delayed, f)
      BY <2>1, <2>2 DEF CronIdle
    <3> QED
      BY <1>0, <2>1, <3>1, TakenFewer, UnworkedIdle
  <2>3. CASE f # "load" /\ Current(t)
    <3>1. t \in Tick /\ rec # None
      BY <2>3, CameBefore DEF Current
    <3>2. Replanned(t) \in Job /\ Replanned(t).pending = None
      BY <1>1, <3>1, JobReplannedIs
    <3> QED
      BY <1>0, <2>1, <2>3, <3>2, TakenFewer, UnworkedReplanned
  <2> QED
    BY <2>2, <2>3
<1>10. ASSUME NEW t \in inbox, StartCronRun(t)
       PROVE  PendingUnworked'
  <2> DEFINE idle == [rec EXCEPT !.pending = None]
  <2>1. PICK f \in (Fault \ {"cancel"}) \cup {"again"} :
          /\ Taken(t, f) /\ now' = now
          /\ f = "load" \/ ~Current(t) => UNCHANGED <<rec, delayed, sent, runs>>
          /\ f # "load" /\ Current(t) =>
               /\ runs' = IF f = "save" THEN runs ELSE runs \cup {t}
               /\ IF t.key.kind = "manual" THEN CronIdle(rec, delayed, f)
                  ELSE IF rec.at = Recurring THEN CronPlanned(idle, delayed, f)
                  ELSE CronIdle(idle, delayed, f)
    BY <1>10, CronStartOutcome
  <2>2. CASE f = "load" \/ ~Current(t)
    <3>1. CronIdle(rec, delayed, f) /\ runs' = runs
      BY <2>1, <2>2 DEF CronIdle
    <3> QED
      BY <1>0, <2>1, <3>1, TakenFewer, UnworkedIdle
  <2>3. CASE f # "load" /\ Current(t)
    <3>1. rec # None
      BY <2>3 DEF Current
    <3>2. idle \in Job /\ idle.pending = None
      BY <1>1, <3>1, IdleJob
    <3> HIDE DEF idle
    <3>4. runs' \subseteq runs \cup inbox /\ \A u \in runs' \ runs : u = t /\ f # "save"
      BY <2>1, <2>3
    <3>5. CASE t.key.kind = "manual"
      BY <1>0, <2>1, <2>3, <3>1, <3>4, <3>5, TakenFewer, UnworkedIdle
    <3>6. CASE t.key.kind # "manual" /\ rec.at = Recurring
      BY <1>0, <2>1, <2>3, <3>2, <3>4, <3>6, TakenFewer, UnworkedPlanned
    <3>7. CASE t.key.kind # "manual" /\ rec.at # Recurring
      BY <1>0, <2>1, <2>3, <3>2, <3>4, <3>7, TakenFewer, UnworkedIdle
    <3> QED
      BY <3>5, <3>6, <3>7
  <2> QED
    BY <2>2, <2>3
<1>11. ASSUME NEW t \in runs, FinishCronRun(t)
       PROVE  PendingUnworked'
  <2>1. PICK f \in {"none", "load", "save", "cancel"} :
          /\ runs' = runs \ {t} /\ UNCHANGED <<now, inbox>>
          /\ f = "load" \/ ~Current(t) => UNCHANGED <<rec, delayed, sent>>
          /\ f # "load" /\ Current(t) =>
               CronIdle(FinishedJob(t), IF rec.deleteAfterRun THEN Left(delayed, rec, f) ELSE delayed, f)
    BY <1>11, CronFinishOutcome
  <2>2. CASE f = "load" \/ ~Current(t)
    <3>1. CronIdle(rec, delayed, f)
      BY <2>1, <2>2 DEF CronIdle
    <3> QED
      BY <1>0, <2>1, <3>1, UnworkedIdle
  <2>3. CASE f # "load" /\ Current(t)
    <3> DEFINE left == IF rec.deleteAfterRun THEN Left(delayed, rec, f) ELSE delayed
               job == FinishedJob(t)
    <3>1. rec # None /\ t \in Tick
      BY <2>3, CameBefore DEF Current
    <3>2. job.pending = None \/ job.pending = rec.pending
      BY <1>1, <3>1, FinishedJobIs
    <3>3. left \subseteq delayed
      BY LeftFewer
    <3>4. CronIdle(job, left, f)
      BY <2>1, <2>3
    <3> HIDE DEF left, job
    <3> QED
      BY <1>0, <2>1, <3>1, <3>2, <3>3, <3>4, UnworkedIdle
  <2> QED
    BY <2>2, <2>3
<1>12. CASE Reconcile
  <2>1. PICK f \in Fault \ {"load"} :
          /\ UNCHANGED <<now, inbox, runs, entity>>
          /\ IF rec = None \/ (rec.pending # None /\ JobOwed(rec)) THEN UNCHANGED <<rec, delayed, sent>>
             ELSE CronReplanned(rec, delayed, f)
    BY <1>12, CronReconcileOutcome
  <2>2. CASE rec = None \/ (rec.pending # None /\ JobOwed(rec))
    <3>1. CronIdle(rec, delayed, f)
      BY <2>1, <2>2 DEF CronIdle
    <3> QED
      BY <2>1, <3>1, UnworkedIdle
  <2>3. CASE ~(rec = None \/ (rec.pending # None /\ JobOwed(rec)))
    BY <1>1, <2>1, <2>3, UnworkedReplanned
  <2> QED
    BY <2>2, <2>3
<1> QED
  BY <1>2, <1>3, <1>4, <1>5, <1>6, <1>7, <1>8, <1>9, <1>10, <1>11, <1>12
     DEF Next, Progress, Request, Serve, Finish

-----------------------------------------------------------------------------
(* Nothing is lost: the pending tick of a healthy record is on its way and *)
(* acceptable; without one a run in progress is.                           *)

HealthInv ==
    healthy /\ Owed =>
        IF rec.pending # None THEN \E t \in OnTheWay : t.id = rec.pending /\ Current(t)
        ELSE \E t \in AtWork : Current(t)

\* The record stays, and the ticks that it accepts.
LEMMA HealthKept ==
    ASSUME HealthInv, healthy' => healthy, UNCHANGED <<rec, entity>>,
           \A t \in OnTheWay : Current(t) => t \in OnTheWay',
           healthy' => rec = None \/ rec.pending # None \/
                          \A t \in runs : Current(t) /\ t.key.kind # "manual" => t \in runs'
    PROVE  HealthInv'
<1> SUFFICES ASSUME healthy', Owed'
             PROVE  (IF rec.pending # None THEN \E t \in OnTheWay : t.id = rec.pending /\ Current(t)
                     ELSE \E t \in AtWork : Current(t))'
  BY DEF HealthInv
<1>1. healthy /\ Owed /\ rec # None
  BY DEF Owed
<1>2. \A t : Current(t)' <=> Current(t)
  BY DEF Current
<1>3. CASE rec.pending # None
  <2>1. PICK t \in OnTheWay : t.id = rec.pending /\ Current(t)
    BY <1>1, <1>3 DEF HealthInv
  <2> QED
    BY <1>2, <1>3, <2>1
<1>4. CASE rec.pending = None
  <2>1. PICK t \in AtWork : Current(t)
    BY <1>1, <1>4 DEF HealthInv
  <2>2. t \in AtWork'
    BY <1>1, <1>4, <2>1 DEF AtWork
  <2>3. Current(t)'
    BY <1>2, <2>1
  <2> QED
    BY <1>4, <2>2, <2>3
<1> QED
  BY <1>3, <1>4

\* A section that gives the record a tick with a key it has not processed.
LEMMA HealthPlanned ==
    ASSUME RInv, NEW r, r.keys \in Seq(Key), NEW left, NEW key \in Key, key.rev = r.rev,
           key.kind # "manual", key \notin Range(r.keys), NEW f, NEW g, Planned(r, left, key, f, g),
           healthy' => f \in {"none", "cancel"} /\ g # "save"
    PROVE  HealthInv'
<1> SUFFICES ASSUME healthy', Owed'
             PROVE  rec'.pending # None /\ (\E t \in OnTheWay : t.id = rec.pending /\ Current(t))'
  BY DEF HealthInv
<1>1. PICK t \in delayed' : t = [id |-> sent + 1, key |-> key]
  BY DEF Planned
<1>2. /\ rec'.pending = sent + 1 /\ rec'.rev = r.rev /\ rec'.keys = r.keys /\ rec' # None
      /\ rec'.enabled
  BY DEF Planned, Owed
<1>3. Current(t)'
  BY <1>1, <1>2, ContainsRange DEF Current
<1>4. t \in OnTheWay' /\ t.id = rec'.pending
  BY <1>1, <1>2 DEF OnTheWay
<1>5. rec'.pending # None
  BY <1>2, NoRecordAssumption DEF RInv, RecordOK
<1> QED
  BY <1>3, <1>4, <1>5

LEMMA HealthCronPlanned ==
    ASSUME RInv, NEW r \in Job, entity = "cron", Dated(r), NEW left, NEW f, CronPlanned(r, left, f),
           healthy' => f \in {"none", "cancel"}
    PROVE  HealthInv'
<1>1. PICK key \in Key : CronKey(r, key) /\ Planned(r, left, key, f, f)
  BY DEF CronPlanned
<1>2. key \notin Range(r.keys)
  BY <1>1, CronKeyIsNew DEF Dated
<1>3. r.keys \in Seq(Key) /\ key.rev = r.rev /\ key.kind # "manual"
  BY <1>1 DEF Job, CronKey
<1> QED
  BY <1>1, <1>2, <1>3, HealthPlanned

\* A job that has nothing to do any more.
LEMMA HealthIdle ==
    ASSUME NEW r, r = None \/ ~JobOwed(r), NEW left, NEW f, CronIdle(r, left, f), entity' = "cron",
           healthy' => f # "save"
    PROVE  HealthInv'
BY DEF HealthInv, Owed, JobOwed, CronIdle

LEMMA HealthReplanned ==
    ASSUME RInv, NEW r \in Job, entity = "cron", entity' = entity, Dated(r), NEW base, NEW f,
           CronReplanned(r, base, f), healthy' => f \in {"none", "cancel"}
    PROVE  HealthInv'
<1>1. CASE JobOwed(r)
  BY <1>1, HealthCronPlanned DEF CronReplanned
<1>2. CASE ~JobOwed(r)
  <2> DEFINE idle == [r EXCEPT !.pending = None]
  <2>1. CronIdle(idle, base, f)
    BY <1>2 DEF CronReplanned
  <2>2. ~JobOwed(idle)
    <3>1. idle.enabled = r.enabled /\ idle.at = r.at /\ idle.ran = r.ran
      BY IdleJob
    <3> HIDE DEF idle
    <3> QED
      BY <1>2, <3>1 DEF JobOwed
  <2> HIDE DEF idle
  <2> QED
    BY <2>1, <2>2, HealthIdle
<1> QED
  BY <1>1, <1>2

LEMMA SuffersHealth ==
    ASSUME NEW f, NEW loses, Suffering(f, loses)
    PROVE  healthy' => healthy /\ f \in {"none", "cancel"} /\ ~loses
BY DEF Suffering

LEMMA SufferHealth ==
    ASSUME NEW f, Suffer(f)
    PROVE  healthy' => healthy /\ f \in {"none", "cancel"}
BY SuffersHealth DEF Suffer

LEMMA CronRequestHealth ==
    ASSUME RInv, TicksInv, HealthInv, entity = "cron", entity' = entity,
           CronAdd \/ CronUpdate \/ CronRemove \/ CronRun
    PROVE  HealthInv'
<1>1. CASE CronAdd
  <2>1. PICK f \in Fault \ {"load", "cancel"}, job \in Job :
          /\ Suffer(f) /\ job.pending = None /\ job.keys = <<>> /\ CronReplanned(job, delayed, f)
    BY <1>1, CronAddOutcome
  <2>2. Dated(job)
    BY <2>1, EmptyKeys DEF Dated
  <2> QED
    BY <2>1, <2>2, SufferHealth, HealthReplanned
<1>2. CASE CronUpdate
  <2>1. PICK f \in Fault \ {"load"}, job \in Job :
          /\ rec # None /\ Suffer(f) /\ job.pending = rec.pending /\ job.keys = rec.keys
          /\ CronReplanned(job, Left(delayed, rec, f), f)
    BY <1>2, CronUpdateOutcome
  <2>2. Dated(job)
    BY <2>1 DEF Dated, TicksInv
  <2> QED
    BY <2>1, <2>2, SufferHealth, HealthReplanned
<1>3. CASE CronRemove
  <2>1. PICK f \in {"none", "save", "cancel"} : Suffer(f) /\ CronIdle(None, Left(delayed, rec, f), f)
    BY <1>3, CronRemoveOutcome
  <2> QED
    BY <2>1, SufferHealth, HealthIdle
<1>4. CASE CronRun
  <2>1. OnTheWay' = OnTheWay /\ UNCHANGED <<rec, runs, entity, healthy>>
    BY <1>4 DEF CronRun, OnTheWay
  <2> QED
    BY <2>1, HealthKept
<1> QED
  BY <1>1, <1>2, <1>3, <1>4

\* A handler that has nothing to do with its tick.
LEMMA HealthSpurned ==
    ASSUME HealthInv, entity' = entity, NEW t \in inbox, NEW f, Taken(t, f), healthy' => healthy,
           UNCHANGED <<rec, delayed, runs>>, healthy' => ~Current(t)
    PROVE  HealthInv'
<1>1. CASE healthy'
  <2>1. \A u \in OnTheWay : Current(u) => u \in OnTheWay'
    BY <1>1 DEF OnTheWay, Taken
  <2> QED
    BY <2>1, HealthKept
<1>2. CASE ~healthy'
  BY <1>2 DEF HealthInv
<1> QED
  BY <1>1, <1>2

LEMMA CronTickHealth ==
    ASSUME RInv, TicksInv, HealthInv, entity = "cron", entity' = entity, NEW t \in inbox,
           HandleCronPlan(t) \/ StartCronRun(t)
    PROVE  HealthInv'
<1>0. rec # None => Dated(rec) /\ rec \in Job
  BY RecordFacts DEF TicksInv
<1>1. t \in Tick
  BY CameBefore
<1>2. CASE HandleCronPlan(t)
  <2>1. PICK f \in (Fault \ {"cancel"}) \cup {"again"} :
          /\ Taken(t, f) /\ Suffer(f) /\ UNCHANGED <<now, runs>>
          /\ f = "load" \/ ~Current(t) => UNCHANGED <<rec, delayed, sent>>
          /\ f # "load" /\ Current(t) => CronReplanned(Replanned(t), delayed, f)
    BY <1>2, CronPlanOutcome
  <2>2. CASE f = "load" \/ ~Current(t)
    <3>1. healthy' => healthy /\ ~Current(t)
      BY <2>1, <2>2, SufferHealth
    <3> QED
      BY <2>1, <2>2, <3>1, HealthSpurned
  <2>3. CASE f # "load" /\ Current(t)
    <3>1. rec # None
      BY <2>3 DEF Current
    <3>2. Replanned(t) \in Job /\ Dated(Replanned(t))
      BY <1>0, <1>1, <2>3, <3>1, JobReplannedIs, ReplannedDated
    <3> QED
      BY <2>1, <2>3, <3>2, SufferHealth, HealthReplanned
  <2> QED
    BY <2>2, <2>3
<1>3. CASE StartCronRun(t)
  <2> DEFINE idle == [rec EXCEPT !.pending = None]
  <2>1. PICK f \in (Fault \ {"cancel"}) \cup {"again"} :
          /\ t.key.kind # "plan" /\ Taken(t, f) /\ Suffer(f)
          /\ f = "load" \/ ~Current(t) => UNCHANGED <<rec, delayed, sent, runs>>
          /\ f # "load" /\ Current(t) =>
               /\ runs' = IF f = "save" THEN runs ELSE runs \cup {t}
               /\ IF t.key.kind = "manual" THEN CronIdle(rec, delayed, f)
                  ELSE IF rec.at = Recurring THEN CronPlanned(idle, delayed, f)
                  ELSE CronIdle(idle, delayed, f)
    BY <1>3, CronStartOutcome
  <2>2. CASE f = "load" \/ ~Current(t)
    <3>1. healthy' => healthy /\ ~Current(t)
      BY <2>1, <2>2, SufferHealth
    <3> QED
      BY <2>1, <2>2, <3>1, HealthSpurned
  <2>3. CASE f # "load" /\ Current(t)
    <3>1. rec # None
      BY <2>3 DEF Current
    <3>2. /\ idle \in Job /\ idle.pending = None /\ idle.keys = rec.keys /\ idle.rev = rec.rev
          /\ idle.enabled = rec.enabled /\ idle.at = rec.at
      BY <1>0, <3>1, IdleJob
    <3>3. Dated(idle)
      BY <1>0, <3>1, <3>2 DEF Dated
    <3>4. healthy' => healthy /\ f \in {"none", "cancel"}
      BY <2>1, SufferHealth
    <3> HIDE DEF idle
    <3>5. CASE t.key.kind = "manual"
      <4>1. CronIdle(rec, delayed, f) /\ runs \subseteq runs'
        BY <2>1, <2>3, <3>5
      <4>2. rec' = rec /\ delayed' = delayed
        BY <4>1 DEF CronIdle
      <4>3. OnTheWay' = OnTheWay
        BY <2>1, <3>5, <4>2 DEF OnTheWay, Taken
      <4> QED
        BY <3>4, <4>1, <4>2, <4>3, HealthKept
    <3>6. CASE t.key.kind # "manual" /\ rec.at = Recurring
      BY <2>1, <2>3, <3>2, <3>3, <3>4, <3>6, HealthCronPlanned
    <3>7. CASE t.key.kind # "manual" /\ rec.at # Recurring
      <4> SUFFICES ASSUME healthy', Owed'
                   PROVE  HealthInv'
        BY DEF HealthInv
      <4>1. rec' = idle /\ runs' = runs \cup {t}
        BY <2>1, <2>3, <3>4, <3>7 DEF CronIdle
      <4>2. idle # None
        BY <4>1 DEF Owed
      <4>3. Current(t)'
        BY <2>3, <3>2, <4>1, <4>2 DEF Current
      <4>4. t \in AtWork'
        BY <3>2, <3>7, <4>1 DEF AtWork
      <4> QED
        BY <3>2, <4>1, <4>3, <4>4 DEF HealthInv
    <3> QED
      BY <3>5, <3>6, <3>7
  <2> QED
    BY <2>2, <2>3
<1> QED
  BY <1>2, <1>3

\* A run that ends leaves the pending tick of a recurring job acceptable.
LEMMA CronFinishHealth ==
    ASSUME RInv, TicksInv, PendingUnworked, HealthInv, entity = "cron", entity' = entity,
           NEW t \in runs, FinishCronRun(t)
    PROVE  HealthInv'
<1>1. PICK f \in {"none", "load", "save", "cancel"} :
        /\ runs' = runs \ {t} /\ Suffer(f) /\ UNCHANGED <<now, inbox>>
        /\ f = "load" \/ ~Current(t) => UNCHANGED <<rec, delayed, sent>>
        /\ f # "load" /\ Current(t) =>
             CronIdle(FinishedJob(t), IF rec.deleteAfterRun THEN Left(delayed, rec, f) ELSE delayed, f)
  BY CronFinishOutcome
<1>2. healthy' => healthy /\ f \in {"none", "cancel"}
  BY <1>1, SufferHealth
<1> SUFFICES ASSUME healthy', Owed'
             PROVE  HealthInv'
  BY DEF HealthInv
<1>3. CASE ~Current(t)
  <2>1. OnTheWay' = OnTheWay /\ rec' = rec /\ \A u \in runs : Current(u) => u \in runs'
    BY <1>1, <1>3 DEF OnTheWay
  <2> QED
    BY <1>2, <2>1, HealthKept
<1>4. CASE Current(t)
  <2> DEFINE job == FinishedJob(t)
  <2>1. rec # None /\ rec \in Job /\ t \in Tick
    BY <1>4, RecordFacts, CameBefore DEF Current
  <2>2. /\ job.pending = (IF rec.deleteAfterRun THEN None ELSE rec.pending)
        /\ job.keys = AppendRunKey(rec.keys, t.key) /\ job.rev = rec.rev
        /\ job.enabled = (rec.enabled /\ ~rec.deleteAfterRun) /\ job.at = rec.at /\ job.ran /\ job \in Job
    BY <2>1, FinishedJobIs
  <2>3. rec' = job
    BY <1>1, <1>2, <1>4 DEF CronIdle
  <2> HIDE DEF job
  <2>4. job.enabled /\ job.at = Recurring /\ job # None
    BY <2>2, <2>3 DEF Owed
  <2>5. ~rec.deleteAfterRun /\ rec.enabled /\ rec.at = Recurring /\ job.pending = rec.pending
    BY <2>1, <2>2, <2>4 DEF Job
  <2>6. delayed' = delayed
    BY <1>1, <1>2, <1>4, <2>5 DEF CronIdle
  <2>7. Owed /\ healthy
    BY <1>2, <2>1, <2>5 DEF Owed
  <2>8. rec.pending # None
    BY <2>5, <2>7 DEF HealthInv, AtWork
  <2>9. PICK u \in OnTheWay : u.id = rec.pending /\ Current(u)
    BY <2>7, <2>8 DEF HealthInv
  <2>10. u.key # t.key
    BY <2>1, <2>9 DEF PendingUnworked
  <2>11. u \in OnTheWay'
    BY <1>1, <2>6 DEF OnTheWay
  <2>12. Current(u)'
    <3>1. rec.keys \in Seq(Key) /\ job.keys \in Seq(Key) /\ t.key \in Key
      BY <2>1, <2>2 DEF Job, Tick
    <3>2. Range(job.keys) \subseteq Range(rec.keys) \cup {t.key}
      BY <2>2, <3>1, AppendedKeys
    <3>3. u.key \notin Range(rec.keys) /\ u.key.rev = rec.rev
      BY <2>9, <3>1, ContainsRange DEF Current
    <3>4. ~Contains(job.keys, u.key)
      BY <2>10, <3>1, <3>2, <3>3, ContainsRange
    <3> QED
      BY <2>2, <2>3, <2>4, <3>3, <3>4 DEF Current
  <2> QED
    BY <2>3, <2>5, <2>8, <2>9, <2>11, <2>12 DEF HealthInv
<1> QED
  BY <1>3, <1>4

\* A connect calls the record healthy when its pending tick is acceptable.
LEMMA CronReconcileHealth ==
    ASSUME RInv, TicksInv, HealthInv, entity = "cron", Reconcile
    PROVE  HealthInv'
<1>1. PICK f \in Fault \ {"load"} :
        /\ healthy' = (f \in {"none", "cancel"} /\ Repairable)
        /\ UNCHANGED <<now, inbox, runs, entity>>
        /\ IF rec = None \/ (rec.pending # None /\ JobOwed(rec)) THEN UNCHANGED <<rec, delayed, sent>>
           ELSE CronReplanned(rec, delayed, f)
  BY CronReconcileOutcome
<1>2. CASE rec = None \/ (rec.pending # None /\ JobOwed(rec))
  <2> SUFFICES ASSUME healthy', Owed'
               PROVE  HealthInv'
    BY DEF HealthInv
  <2>1. rec' = rec /\ OnTheWay' = OnTheWay
    BY <1>1, <1>2 DEF OnTheWay
  <2>2. rec # None /\ rec.pending # None
    BY <1>2, <2>1 DEF Owed
  <2>3. PICK u \in OnTheWay : u.id = rec.pending /\ Current(u)
    BY <1>1, <2>2 DEF Repairable
  <2>4. Current(u)' /\ u \in OnTheWay'
    BY <2>1, <2>3 DEF Current
  <2> QED
    BY <2>1, <2>2, <2>3, <2>4 DEF HealthInv
<1>3. CASE ~(rec = None \/ (rec.pending # None /\ JobOwed(rec)))
  <2>1. Dated(rec) /\ rec \in Job
    BY <1>3, RecordFacts DEF TicksInv
  <2> QED
    BY <1>1, <1>3, <2>1, HealthReplanned
<1> QED
  BY <1>2, <1>3

\* The clock, the homeserver and a crash.
LEMMA WorldHealth ==
    ASSUME HealthInv, entity' = entity,
           Advance \/ Deliver \/ \E repeated \in SUBSET inbox : Crash(repeated)
    PROVE  HealthInv'
<1>1. CASE Advance
  <2>1. OnTheWay' = OnTheWay /\ UNCHANGED <<rec, runs, healthy>>
    BY <1>1 DEF Advance, OnTheWay
  <2> QED
    BY <2>1, HealthKept
<1>2. CASE Deliver
  <2>1. OnTheWay' = OnTheWay /\ UNCHANGED <<rec, runs, healthy>>
    BY <1>2 DEF Deliver, OnTheWay
  <2> QED
    BY <2>1, HealthKept
<1>3. CASE \E repeated \in SUBSET inbox : Crash(repeated)
  <2> SUFFICES ASSUME healthy' PROVE HealthInv'
    BY DEF HealthInv
  <2>1. PICK repeated \in SUBSET inbox : Crash(repeated)
    BY <1>3
  <2>2. /\ healthy /\ {t \in inbox : t.key.kind # "manual"} = repeated /\ inbox' = repeated
        /\ (\A t \in runs : t.key.kind = "manual") \/ rec = None \/ rec.pending # None
        /\ UNCHANGED <<rec, delayed>>
    BY <2>1 DEF Crash
  <2>3. \A t \in OnTheWay : t \in OnTheWay'
    BY <2>2 DEF OnTheWay
  <2> QED
    BY <2>2, <2>3, HealthKept
<1> QED
  BY <1>1, <1>2, <1>3

\* The key that a heartbeat's next tick gets is new to the record when no run at
\* its due time was skipped before.
LEMMA RegularKeyIsNew ==
    ASSUME RInv, NEW r \in Beat, NEW key, NEW next, RegularKey(r, key, next),
           \A k \in Range(r.keys) : k.n <= sent,
           r.last # None /\ r.last.n <= sent =>
              \A k \in Range(r.keys) : ~(k.kind = "run" /\ k.rev = r.rev /\ k.n = r.last.n)
    PROVE  key \notin Range(r.keys)
<1>1. sent \in Nat
  BY DEF RInv, RecordOK
<1>2. CASE key.n = sent + 1
  BY <1>1, <1>2
<1>3. CASE key.n # sent + 1
  <2>1. key.kind = "run" /\ key.rev = r.rev /\ r.last # None /\ key.n = r.last.n
    BY <1>3 DEF RegularKey, BeatDue
  <2>2. r.last.n \in Nat /\ key.n <= sent + 1
    BY <2>1 DEF Beat, RegularKey
  <2>3. r.last.n <= sent
    BY <1>1, <1>3, <2>1, <2>2
  <2> QED
    BY <2>1, <2>3
<1> QED
  BY <1>2, <1>3

LEMMA HealthBeatPlanned ==
    ASSUME RInv, NEW r \in Beat, NEW left, NEW key \in Key, key.rev = r.rev, key.kind # "manual",
           key \notin Range(r.keys), NEW next, NEW f, NEW g, BeatPlanned(r, left, key, next, f, g),
           healthy' => f \in {"none", "cancel"} /\ g # "save"
    PROVE  HealthInv'
<1>1. r.keys \in Seq(Key) /\ Planned(r, left, key, f, g)
  BY DEF Beat, BeatPlanned
<1> QED
  BY <1>1, HealthPlanned

LEMMA BeatTickHealth ==
    ASSUME RInv, TicksInv, HealthInv, entity = "heartbeat", entity' = entity, NEW t \in inbox,
           HandleHeartbeatPlan(t) \/ StartHeartbeatRun(t)
    PROVE  HealthInv'
<1>1. t \in Tick /\ t.key \in Key /\ t.key.kind # "manual"
  BY CameBefore DEF TicksInv
<1>2. CASE HandleHeartbeatPlan(t)
  <2>1. PICK f \in (Fault \ {"cancel"}) \cup {"again"} :
          /\ t.key.kind = "plan" /\ Taken(t, f) /\ Suffering(f, Current(t) /\ DueWasSkipped(rec))
          /\ UNCHANGED <<now, runs>>
          /\ f = "load" \/ ~Current(t) => UNCHANGED <<rec, delayed, sent>>
          /\ f # "load" /\ Current(t) =>
               \E key \in Key, next \in Nat :
                  /\ RegularKey(Replanned(t), key, next)
                  /\ BeatPlanned(Replanned(t), delayed, key, next, f, f)
    BY <1>2, BeatPlanOutcome
  <2>2. healthy' => healthy /\ f \in {"none", "cancel"} /\ ~(Current(t) /\ DueWasSkipped(rec))
    BY <2>1, SuffersHealth
  <2>3. CASE f = "load" \/ ~Current(t)
    <3>1. healthy' => healthy /\ ~Current(t)
      BY <2>2, <2>3
    <3> QED
      BY <2>1, <2>3, <3>1, HealthSpurned
  <2>4. CASE f # "load" /\ Current(t)
    <3> DEFINE r == Replanned(t)
    <3>1. rec # None /\ rec \in Beat /\ rec.keys \in Seq(Key)
      BY <2>4, BeatRecord DEF Current, Beat
    <3>2. /\ r \in Beat /\ Dated(r) /\ r.keys = AppendRunKey(rec.keys, t.key) /\ r.rev = rec.rev
          /\ r.last = rec.last
      BY <1>1, <2>4, <3>1, ReplannedIs, ReplannedDated
    <3>3. PICK key \in Key, next \in Nat : RegularKey(r, key, next) /\ BeatPlanned(r, delayed, key, next, f, f)
      BY <2>1, <2>4
    <3> HIDE DEF r
    <3>4. Range(r.keys) \subseteq Range(rec.keys) \cup {t.key}
      BY <1>1, <3>1, <3>2, AppendedKeys
    <3>5. key.rev = r.rev /\ key.kind # "manual"
      BY <3>3 DEF RegularKey
    <3>6. \A k \in Range(r.keys) : k.n <= sent
      BY <3>2 DEF Dated, OldKey
    <3>7. CASE healthy'
      <4>1. r.last # None =>
              \A k \in Range(r.keys) : ~(k.kind = "run" /\ k.rev = r.rev /\ k.n = r.last.n)
        BY <2>1, <2>2, <2>4, <3>2, <3>4, <3>7 DEF DueWasSkipped
      <4>2. key \notin Range(r.keys)
        BY <3>2, <3>3, <3>6, <4>1, RegularKeyIsNew
      <4> QED
        BY <2>2, <3>2, <3>3, <3>5, <4>2, HealthBeatPlanned
    <3>8. CASE ~healthy'
      BY <3>8 DEF HealthInv
    <3> QED
      BY <3>7, <3>8
  <2> QED
    BY <2>3, <2>4
<1>3. CASE StartHeartbeatRun(t)
  <2> DEFINE idle == [rec EXCEPT !.pending = None]
  <2>1. PICK f \in {"none", "load", "save", "again"} :
          /\ Taken(t, f) /\ Suffer(f) /\ UNCHANGED <<delayed, sent>>
          /\ f \in {"load", "save"} \/ ~Current(t) => UNCHANGED <<rec, runs>>
          /\ f \notin {"load", "save"} /\ Current(t) => rec' = idle /\ runs' = runs \cup {t}
    BY <1>3, BeatStartOutcome
  <2>2. healthy' => healthy /\ f \in {"none", "cancel"}
    BY <2>1, SufferHealth
  <2>3. CASE f \in {"load", "save"} \/ ~Current(t)
    <3>1. healthy' => healthy /\ ~Current(t)
      BY <2>2, <2>3
    <3> QED
      BY <2>1, <2>3, <3>1, HealthSpurned
  <2>4. CASE f \notin {"load", "save"} /\ Current(t)
    <3>1. rec # None /\ rec \in Beat
      BY <2>4, BeatRecord DEF Current
    <3>2. /\ idle \in Beat /\ idle.pending = None /\ idle.keys = rec.keys /\ idle.rev = rec.rev
          /\ idle.enabled = rec.enabled
      BY <3>1, PendingBeat
    <3>3. rec' = idle /\ runs' = runs \cup {t}
      BY <2>1, <2>4
    <3> HIDE DEF idle
    <3> SUFFICES ASSUME Owed'
                 PROVE  HealthInv'
      BY DEF HealthInv
    <3>4. idle # None
      BY <3>3 DEF Owed
    <3>5. Current(t)'
      BY <2>4, <3>2, <3>3, <3>4 DEF Current
    <3>6. t \in AtWork'
      BY <1>1, <3>3 DEF AtWork
    <3> QED
      BY <3>2, <3>3, <3>5, <3>6 DEF HealthInv
  <2> QED
    BY <2>3, <2>4
<1> QED
  BY <1>2, <1>3

LEMMA BeatFinishHealth ==
    ASSUME RInv, TicksInv, HealthInv, entity = "heartbeat", entity' = entity,
           NEW t \in runs, FinishHeartbeatRun(t)
    PROVE  HealthInv'
<1>1. PICK ran \in BOOLEAN, f \in Fault :
        /\ runs' = runs \ {t} /\ Suffer(f) /\ UNCHANGED <<now, inbox>>
        /\ f = "load" \/ ~Current(t) => UNCHANGED <<rec, delayed, sent>>
        /\ f # "load" /\ Current(t) =>
             \E key \in Key, next \in Nat :
                /\ IF ran THEN RegularKey(Finished(t, ran), key, next)
                   ELSE key = RetryKey(rec) /\ next = now + Coalesce
                /\ BeatPlanned(Finished(t, ran), Left(delayed, rec, f), key, next, f, f)
  BY BeatFinishOutcome
<1>2. healthy' => healthy /\ f \in {"none", "cancel"}
  BY <1>1, SufferHealth
<1>3. CASE f = "load" \/ ~Current(t)
  <2> SUFFICES ASSUME healthy'
               PROVE  HealthInv'
    BY DEF HealthInv
  <2>1. rec' = rec /\ OnTheWay' = OnTheWay /\ \A u \in runs : Current(u) => u \in runs'
    BY <1>1, <1>2, <1>3 DEF OnTheWay
  <2> QED
    BY <1>2, <2>1, HealthKept
<1>4. CASE f # "load" /\ Current(t)
  <2> DEFINE r == Finished(t, ran)
             left == Left(delayed, rec, f)
  <2>1. PICK key \in Key, next \in Nat :
          /\ IF ran THEN RegularKey(r, key, next) ELSE key = RetryKey(rec)
          /\ BeatPlanned(r, left, key, next, f, f)
    BY <1>1, <1>4
  <2>2. rec # None /\ rec \in Beat /\ rec.keys \in Seq(Key) /\ Dated(rec) /\ sent \in Nat /\ now \in Nat
    BY <1>4, BeatRecord, RecordFacts DEF Current, Beat, RInv, RecordOK
  <2>3. t \in Tick /\ t.key \in Key /\ OldKey(t.key)
    BY CameBefore
  <2>4. /\ r \in Beat /\ r.keys = AppendRunKey(rec.keys, t.key) /\ r.rev = rec.rev
        /\ r.last = IF ran THEN [at |-> now, n |-> sent + 1] ELSE rec.last
    BY <2>2, <2>3, FinishedIs
  <2> HIDE DEF r, left
  <2>5. \A k \in Range(r.keys) : k.n <= sent
    <3>1. Range(r.keys) \subseteq Range(rec.keys) \cup {t.key}
      BY <2>2, <2>3, <2>4, AppendedKeys
    <3> QED
      BY <2>2, <2>3, <3>1 DEF Dated, OldKey
  <2>6. key.rev = r.rev /\ key.kind # "manual" /\ key \notin Range(r.keys)
    <3>1. CASE ran
      <4>1. r.last.n = sent + 1
        BY <2>4, <3>1
      <4>2. ~(r.last.n <= sent)
        BY <2>2, <4>1
      <4>3. key \notin Range(r.keys)
        BY <2>1, <2>4, <2>5, <3>1, <4>2, RegularKeyIsNew
      <4> QED
        BY <2>1, <3>1, <4>3 DEF RegularKey
    <3>2. CASE ~ran
      <4>1. key.n = sent + 1 /\ key.rev = r.rev /\ key.kind = "retry"
        BY <2>1, <2>4, <3>2 DEF RetryKey
      <4> QED
        BY <2>2, <2>5, <4>1
    <3> QED
      BY <3>1, <3>2
  <2>7. healthy' => f \in {"none", "cancel"} /\ f # "save"
    BY <1>2
  <2> QED
    BY <2>1, <2>4, <2>6, <2>7, HealthBeatPlanned
<1> QED
  BY <1>3, <1>4

LEMMA BeatRequestHealth ==
    ASSUME RInv, TicksInv, HealthInv, entity = "heartbeat", entity' = entity,
           RequestHeartbeatNow \/ Configure
    PROVE  HealthInv'
<1>1. CASE RequestHeartbeatNow
  <2> DEFINE b == Upserted(rec)
  <2>1. /\ interval \in Nat \ {0} /\ UNCHANGED <<inbox, runs>> /\ WakeKey(b) \in Key
        /\ \E f \in Fault \ {"load"} :
              /\ Suffer(f)
              /\ \/ UNCHANGED <<rec, delayed, sent>>
                 \/ /\ b.pending # None => Left(delayed, b, f) # delayed
                    /\ BeatPlanned(b, Left(delayed, b, f), WakeKey(b), now, f,
                                   IF f \in {"send", "answer"} THEN "save" ELSE f)
    BY <1>1, WakeOutcome
  <2>2. PICK f \in Fault \ {"load"} :
              /\ Suffer(f)
              /\ \/ UNCHANGED <<rec, delayed, sent>>
                 \/ BeatPlanned(b, Left(delayed, b, f), WakeKey(b), now, f,
                                IF f \in {"send", "answer"} THEN "save" ELSE f)
    BY <2>1, Zenon
  <2>3. healthy' => healthy /\ f \in {"none", "cancel"}
    BY <2>2, SufferHealth
  <2>4. CASE UNCHANGED <<rec, delayed, sent>>
    <3>1. OnTheWay' = OnTheWay
      BY <2>1, <2>4 DEF OnTheWay
    <3> QED
      BY <2>1, <2>3, <2>4, <3>1, HealthKept
  <2>5. CASE BeatPlanned(b, Left(delayed, b, f), WakeKey(b), now, f,
                         IF f \in {"send", "answer"} THEN "save" ELSE f)
    <3> DEFINE g == IF f \in {"send", "answer"} THEN "save" ELSE f
               key == WakeKey(b)
               left == Left(delayed, b, f)
    <3>1. b \in Beat /\ Dated(b)
      BY <2>1, UpsertedDated
    <3>2. key.n = sent + 1 /\ key.kind = "wake" /\ key.rev = b.rev /\ key \in Key
      BY <2>1 DEF WakeKey
    <3>3. BeatPlanned(b, left, key, now, f, g)
      BY <2>5
    <3>4. healthy' => f \in {"none", "cancel"} /\ g # "save"
      BY <2>3
    <3>5. sent \in Nat
      BY DEF RInv, RecordOK
    <3> HIDE DEF b, key, left, g
    <3>6. key \notin Range(b.keys)
      BY <3>1, <3>2, <3>5 DEF Dated, OldKey
    <3> QED
      BY <3>1, <3>2, <3>3, <3>4, <3>6, HealthBeatPlanned
  <2> QED
    BY <2>2, <2>4, <2>5
<1>2. CASE Configure
  <2>1. OnTheWay' = OnTheWay /\ UNCHANGED <<rec, runs, healthy>>
    BY <1>2 DEF Configure, OnTheWay
  <2> QED
    BY <2>1, HealthKept
<1> QED
  BY <1>1, <1>2

LEMMA BeatReconcileHealth ==
    ASSUME RInv, TicksInv, HealthInv, entity = "heartbeat", Reconcile
    PROVE  HealthInv'
<1> DEFINE b == Upserted(rec)
<1>1. PICK f \in Fault \ {"load"} :
        /\ healthy' = (f \in {"none", "cancel"} /\ Repairable)
        /\ UNCHANGED <<inbox, runs, interval, entity>>
        /\ interval = 0 => rec' = IF f = "save" THEN rec ELSE None
        /\ interval # 0 /\ b.pending # None =>
             /\ UNCHANGED <<sent, delayed>>
             /\ rec' = IF f = "save" THEN rec ELSE [b EXCEPT !.next = BeatDue(b, sent + 1).at]
        /\ interval # 0 /\ b.pending = None =>
             \E key \in Key, next \in Nat :
                RegularKey(b, key, next) /\ BeatPlanned(b, delayed, key, next, f, f)
  BY BeatReconcileOutcome
<1> SUFFICES ASSUME healthy', Owed'
             PROVE  HealthInv'
  BY DEF HealthInv
<1>2. f \in {"none", "cancel"} /\ Repairable
  BY <1>1
<1>3. interval \in Nat \ {0} /\ rec' # None
  BY <1>1, <1>2, RecordFacts DEF Owed
<1>4. b \in Beat /\ Dated(b)
  BY <1>3, UpsertedDated
<1>5. rec # None => rec \in Beat /\ Dated(rec)
  BY BeatRecord
<1>6. /\ rec = None => b.pending = None /\ b.keys = <<>> /\ b.last = None
      /\ rec # None => /\ b.keys = rec.keys /\ b.last = rec.last
                       /\ IF rec.interval = interval THEN b = rec
                          ELSE b.rev = rec.rev + 1 /\ b.pending = None
  BY <1>3, <1>5, UpsertedIs
<1> HIDE DEF b
<1>7. CASE b.pending # None
  <2> DEFINE kept == [b EXCEPT !.next = BeatDue(b, sent + 1).at]
  <2>1. /\ kept.pending = b.pending /\ kept.keys = b.keys /\ kept.rev = b.rev /\ kept.enabled = b.enabled
        /\ kept.enabled
    BY <1>4 DEF Beat
  <2>2. rec # None /\ b = rec
    BY <1>6, <1>7
  <2>3. rec' = kept /\ delayed' = delayed
    BY <1>1, <1>2, <1>3, <1>7
  <2> HIDE DEF kept
  <2>4. PICK u \in OnTheWay : u.id = rec.pending /\ Current(u)
    BY <1>2, <1>7, <2>2 DEF Repairable
  <2>5. u \in OnTheWay'
    BY <1>1, <2>3 DEF OnTheWay
  <2>6. Current(u)'
    BY <1>3, <2>1, <2>2, <2>3, <2>4 DEF Current
  <2> QED
    BY <1>7, <2>1, <2>2, <2>3, <2>4, <2>5, <2>6 DEF HealthInv
<1>8. CASE b.pending = None
  <2>1. PICK key \in Key, next \in Nat : RegularKey(b, key, next) /\ BeatPlanned(b, delayed, key, next, f, f)
    BY <1>1, <1>3, <1>8
  <2>2. key.rev = b.rev /\ key.kind # "manual"
    BY <2>1 DEF RegularKey
  <2>3. \A k \in Range(b.keys) : k.n <= sent
    BY <1>4 DEF Dated, OldKey
  <2>4. b.last # None => \A k \in Range(b.keys) : ~(k.kind = "run" /\ k.rev = b.rev /\ k.n = b.last.n)
    <3>1. CASE rec = None
      BY <1>6, <3>1
    <3>2. CASE rec # None /\ rec.interval = interval
      BY <1>2, <1>6, <3>2 DEF Repairable, DueWasSkipped
    <3>3. CASE rec # None /\ rec.interval # interval
      <4>1. rec.rev \in Nat /\ Range(rec.keys) \subseteq Key
        BY <3>3, RecordTypes
      <4>2. \A k \in Range(b.keys) : k.rev <= rec.rev /\ k.rev \in Nat
        BY <1>5, <1>6, <3>3, <4>1 DEF Dated, Key
      <4>3. b.rev = rec.rev + 1
        BY <1>6, <3>3
      <4> QED
        BY <4>1, <4>2, <4>3
    <3> QED
      BY <3>1, <3>2, <3>3
  <2>5. key \notin Range(b.keys)
    BY <1>4, <2>1, <2>3, <2>4, RegularKeyIsNew
  <2>6. healthy' => f \in {"none", "cancel"} /\ f # "save"
    BY <1>2
  <2> QED
    BY <1>4, <2>1, <2>2, <2>5, <2>6, HealthBeatPlanned
<1> QED
  BY <1>7, <1>8

LEMMA NextHealth ==
    ASSUME RInv, TicksInv, PendingUnworked, HealthInv, [Next]_allVars
    PROVE  HealthInv'
<1>1. entity \in {"cron", "heartbeat"} /\ entity' = entity
  BY TroubleStays DEF RInv, FrameOK
<1>2. CASE UNCHANGED allVars
  <2>1. OnTheWay' = OnTheWay /\ UNCHANGED <<rec, runs, healthy>>
    BY <1>2 DEF allVars, vars, OnTheWay
  <2> QED
    BY <1>1, <2>1, HealthKept
<1>3. CASE Advance \/ Deliver \/ \E repeated \in SUBSET inbox : Crash(repeated)
  BY <1>1, <1>3, WorldHealth
<1>4. ASSUME NEW t \in inbox, Serve(t)
      PROVE  HealthInv'
  BY <1>1, <1>4, CronTickHealth, BeatTickHealth DEF Serve
<1>5. ASSUME NEW t \in runs, Finish(t)
      PROVE  HealthInv'
  BY <1>1, <1>5, CronFinishHealth, BeatFinishHealth DEF Finish
<1>6. CASE Request
  BY <1>1, <1>6, CronRequestHealth, BeatRequestHealth DEF Request
<1>7. CASE Reconcile
  BY <1>1, <1>7, CronReconcileHealth, BeatReconcileHealth
<1> QED
  BY <1>2, <1>3, <1>4, <1>5, <1>6, <1>7 DEF Next, Progress

-----------------------------------------------------------------------------
(* One chain of a cron job.  While every section succeeded, but for loads  *)
(* and sends, no tick on its way belongs to the revision of a job that is  *)
(* owed a run, except its pending one.                                     *)

Clean == trouble \subseteq {"load", "send"}

CronChain ==
    entity = "cron" /\ Clean /\ Owed =>
        \A t \in OnTheWay : t.key.rev = rec.rev => t.id = rec.pending

\* No tick of the revision of r.
Behind(ticks, r) == \A t \in ticks : t.key.rev # r.rev

LEMMA OwedIs ==
    ASSUME entity = "cron"
    PROVE  Owed <=> rec # None /\ JobOwed(rec)
BY DEF Owed, JobOwed

\* The job is planned when no other tick of its revision is on its way.
LEMMA CronChainPlanned ==
    ASSUME NEW r, NEW left, NEW f, f \in {"none", "load", "send"}, CronPlanned(r, left, f),
           Behind({t \in left \cup inbox' : t.key.kind # "manual"}, r), UNCHANGED entity
    PROVE  CronChain'
<1>1. PICK key \in Key : CronKey(r, key) /\ Planned(r, left, key, f, f)
  BY DEF CronPlanned
<1> SUFFICES ASSUME NEW t \in OnTheWay', t.key.rev = rec'.rev
             PROVE  t.id = rec'.pending
  BY DEF CronChain
<1>2. rec'.rev = r.rev
  BY <1>1 DEF Planned
<1>3. t \notin left \cup inbox'
  BY <1>2 DEF Behind, OnTheWay
<1>4. f # "send" /\ t = [id |-> sent + 1, key |-> key]
  BY <1>1, <1>3 DEF OnTheWay, Planned
<1> QED
  BY <1>1, <1>4 DEF Planned

\* A job that has nothing to do any more.
LEMMA CronChainIdle ==
    ASSUME NEW r, r = None \/ ~JobOwed(r), NEW left, NEW f, f # "save", CronIdle(r, left, f)
    PROVE  CronChain'
BY DEF CronChain, Owed, JobOwed, CronIdle

LEMMA CronChainReplanned ==
    ASSUME NEW r \in Job, NEW base, NEW f, f \in {"none", "load", "send"}, CronReplanned(r, base, f),
           JobOwed(r) => Behind({t \in Left(base, r, f) \cup inbox' : t.key.kind # "manual"}, r),
           UNCHANGED entity
    PROVE  CronChain'
<1>1. CASE JobOwed(r)
  BY <1>1, CronChainPlanned DEF CronReplanned
<1>2. CASE ~JobOwed(r)
  <2> DEFINE idle == [r EXCEPT !.pending = None]
  <2>1. CronIdle(idle, base, f)
    BY <1>2 DEF CronReplanned
  <2>2. ~JobOwed(idle)
    <3>1. idle.enabled = r.enabled /\ idle.at = r.at /\ idle.ran = r.ran
      BY IdleJob
    <3> HIDE DEF idle
    <3> QED
      BY <1>2, <3>1 DEF JobOwed
  <2> HIDE DEF idle
  <2> QED
    BY <2>1, <2>2, CronChainIdle
<1> QED
  BY <1>1, <1>2

\* The record stays what it is for the chain, and no tick is new.
LEMMA CronChainKept ==
    ASSUME CronChain, Clean' => Clean, UNCHANGED entity, Owed' => Owed,
           Owed' => rec'.rev = rec.rev /\ rec'.pending = rec.pending,
           OnTheWay' \subseteq OnTheWay
    PROVE  CronChain'
BY DEF CronChain

LEMMA CleanSuffer ==
    ASSUME NEW f \in Fault \cup {"again"}, NEW loses, Suffering(f, loses), Clean'
    PROVE  Clean /\ f \in {"none", "load", "send"}
BY DEF Clean, Suffering, Fault

\* Once the pending tick of a job that is owed a run was taken none is left.
LEMMA TakenLeavesNone ==
    ASSUME RInv, TicksInv, CronChain, entity = "cron", Clean, Owed,
           NEW t \in inbox, t.key.kind # "manual", Current(t), NEW f, f # "again", Taken(t, f)
    PROVE  Behind({u \in delayed \cup inbox' : u.key.kind # "manual"}, rec)
<1> SUFFICES ASSUME NEW u \in delayed \cup inbox', u.key.kind # "manual", u.key.rev = rec.rev
             PROVE  FALSE
  BY DEF Behind
<1>1. u \in delayed \cup inbox /\ u \in OnTheWay /\ t \in OnTheWay
  BY DEF Taken, OnTheWay
<1>2. t.id = rec.pending /\ u.id = rec.pending
  BY <1>1 DEF CronChain, Current
<1>3. u = t
  BY <1>1, <1>2 DEF TicksInv
<1> QED
  BY <1>3 DEF Taken, TicksInv

LEMMA CronRequestChain ==
    ASSUME RInv, TicksInv, EInv, CronChain, entity = "cron", entity' = entity,
           CronAdd \/ CronUpdate \/ CronRemove \/ CronRun
    PROVE  CronChain'
<1> SUFFICES ASSUME Clean'
             PROVE  CronChain'
  BY DEF CronChain
<1>1. CASE CronAdd
  <2>1. PICK f \in Fault \ {"load", "cancel"}, job \in Job :
          /\ ops = 0 /\ Suffer(f) /\ UNCHANGED inbox /\ CronReplanned(job, delayed, f)
    BY <1>1, CronAddOutcome
  <2>2. Clean /\ f \in {"none", "load", "send"}
    BY <2>1, CleanSuffer DEF Suffer
  <2>3. delayed = {} /\ inbox = {}
    BY <2>1, <2>2 DEF EInv, CronInv, Clean
  <2>4. Behind({t \in Left(delayed, job, f) \cup inbox' : t.key.kind # "manual"}, job)
    BY <2>1, <2>3 DEF Behind, Left
  <2> QED
    BY <2>1, <2>2, <2>4, CronChainReplanned
<1>2. CASE CronUpdate
  <2>1. PICK f \in Fault \ {"load"}, job \in Job :
          /\ rec # None /\ Suffer(f) /\ UNCHANGED inbox /\ job.rev = rec.rev + 1
          /\ CronReplanned(job, Left(delayed, rec, f), f)
    BY <1>2, CronUpdateOutcome
  <2>2. Clean /\ f \in {"none", "load", "send"}
    BY <2>1, CleanSuffer DEF Suffer
  <2>3. /\ rec \in Job /\ Timely(rec, delayed \cup inbox)
        /\ delayed \cup inbox \subseteq Tick
    BY <2>1, <2>2 DEF EInv, CronInv, Clean
  <2>4. \A t \in delayed \cup inbox : t.key.rev # job.rev
    BY <2>1, <2>3 DEF Timely, Tick, Key, Job
  <2>5. Behind({t \in Left(Left(delayed, rec, f), job, f) \cup inbox' : t.key.kind # "manual"}, job)
    BY <2>1, <2>4 DEF Behind, Left
  <2> QED
    BY <2>1, <2>2, <2>5, CronChainReplanned
<1>3. CASE CronRemove
  <2>1. PICK f \in {"none", "save", "cancel"} : Suffer(f) /\ CronIdle(None, Left(delayed, rec, f), f)
    BY <1>3, CronRemoveOutcome
  <2>2. f # "save"
    BY <2>1, CleanSuffer DEF Suffer, Fault
  <2> QED
    BY <2>1, <2>2, CronChainIdle
<1>4. CASE CronRun
  <2>1. OnTheWay' = OnTheWay /\ UNCHANGED <<rec, entity, trouble>>
    BY <1>4 DEF CronRun, OnTheWay
  <2> QED
    BY <2>1, CronChainKept DEF Clean, Owed
<1> QED
  BY <1>1, <1>2, <1>3, <1>4

LEMMA CronTickChain ==
    ASSUME RInv, TicksInv, CronChain, entity = "cron", entity' = entity, NEW t \in inbox,
           HandleCronPlan(t) \/ StartCronRun(t)
    PROVE  CronChain'
<1> SUFFICES ASSUME Clean'
             PROVE  CronChain'
  BY DEF CronChain
<1>0. rec # None => rec \in Job
  BY RecordFacts
<1>1. t \in Tick
  BY CameBefore
<1>2. CASE HandleCronPlan(t)
  <2>1. PICK f \in (Fault \ {"cancel"}) \cup {"again"} :
          /\ t.key.kind = "plan" /\ Taken(t, f) /\ Suffer(f)
          /\ f = "load" \/ ~Current(t) => UNCHANGED <<rec, delayed, sent>>
          /\ f # "load" /\ Current(t) => CronReplanned(Replanned(t), delayed, f)
    BY <1>2, CronPlanOutcome
  <2>2. Clean /\ f \in {"none", "load", "send"}
    BY <2>1, CleanSuffer DEF Suffer
  <2>3. CASE f = "load" \/ ~Current(t)
    <3>1. OnTheWay' \subseteq OnTheWay /\ rec' = rec
      BY <2>1, <2>3 DEF OnTheWay, Taken
    <3> QED
      BY <2>2, <3>1, CronChainKept DEF Owed
  <2>4. CASE f # "load" /\ Current(t)
    <3> DEFINE r == Replanned(t)
    <3>1. rec # None
      BY <2>4 DEF Current
    <3>2. /\ r \in Job /\ r.rev = rec.rev /\ r.enabled = rec.enabled /\ r.at = rec.at /\ r.ran = rec.ran
      BY <1>0, <1>1, <3>1, JobReplannedIs
    <3>3. CronReplanned(r, delayed, f)
      BY <2>1, <2>4
    <3> HIDE DEF r
    <3>4. ASSUME JobOwed(r)
          PROVE  Behind({u \in Left(delayed, r, f) \cup inbox' : u.key.kind # "manual"}, r)
      <4>1. Owed
        BY <3>1, <3>2, <3>4, OwedIs DEF JobOwed
      <4>2. Behind({u \in delayed \cup inbox' : u.key.kind # "manual"}, rec)
        BY <2>1, <2>2, <2>4, <4>1, TakenLeavesNone
      <4> QED
        BY <3>2, <4>2 DEF Behind, Left
    <3> QED
      BY <2>2, <3>2, <3>3, <3>4, CronChainReplanned
  <2> QED
    BY <2>3, <2>4
<1>3. CASE StartCronRun(t)
  <2> DEFINE idle == [rec EXCEPT !.pending = None]
  <2>1. PICK f \in (Fault \ {"cancel"}) \cup {"again"} :
          /\ t.key.kind # "plan" /\ Taken(t, f) /\ Suffer(f)
          /\ f = "load" \/ ~Current(t) => UNCHANGED <<rec, delayed, sent, runs>>
          /\ f # "load" /\ Current(t) =>
               /\ runs' = IF f = "save" THEN runs ELSE runs \cup {t}
               /\ IF t.key.kind = "manual" THEN CronIdle(rec, delayed, f)
                  ELSE IF rec.at = Recurring THEN CronPlanned(idle, delayed, f)
                  ELSE CronIdle(idle, delayed, f)
    BY <1>3, CronStartOutcome
  <2>2. Clean /\ f \in {"none", "load", "send"}
    BY <2>1, CleanSuffer DEF Suffer
  <2>3. CASE f = "load" \/ ~Current(t)
    <3>1. OnTheWay' \subseteq OnTheWay /\ rec' = rec
      BY <2>1, <2>3 DEF OnTheWay, Taken
    <3> QED
      BY <2>2, <3>1, CronChainKept DEF Owed
  <2>4. CASE f # "load" /\ Current(t)
    <3>1. rec # None
      BY <2>4 DEF Current
    <3>2. /\ idle \in Job /\ idle.rev = rec.rev /\ idle.enabled = rec.enabled /\ idle.at = rec.at
          /\ idle.ran = rec.ran
      BY <1>0, <3>1, IdleJob
    <3> HIDE DEF idle
    <3>3. CASE t.key.kind = "manual"
      <4>1. OnTheWay' \subseteq OnTheWay /\ rec' = rec
        BY <2>1, <2>4, <3>3 DEF OnTheWay, Taken, CronIdle
      <4> QED
        BY <2>2, <4>1, CronChainKept DEF Owed
    <3>4. CASE t.key.kind # "manual" /\ rec.at = Recurring
      <4>1. Owed
        BY <2>4, <3>1, <3>4 DEF Owed, Current
      <4>2. Behind({u \in delayed \cup inbox' : u.key.kind # "manual"}, rec)
        BY <2>1, <2>2, <2>4, <3>4, <4>1, TakenLeavesNone
      <4>3. Behind({u \in delayed \cup inbox' : u.key.kind # "manual"}, idle)
        BY <3>2, <4>2 DEF Behind
      <4> QED
        BY <2>1, <2>2, <2>4, <3>4, <4>3, CronChainPlanned
    <3>5. CASE t.key.kind # "manual" /\ rec.at # Recurring
      <4> SUFFICES ASSUME Owed', NEW u \in OnTheWay', u.key.rev = rec'.rev
                   PROVE  FALSE
        BY DEF CronChain
      <4>1. rec' = idle /\ delayed' = delayed
        BY <2>1, <2>2, <2>4, <3>5 DEF CronIdle
      <4>2. Owed
        BY <3>1, <3>2, <4>1 DEF Owed
      <4>3. Behind({v \in delayed \cup inbox' : v.key.kind # "manual"}, rec)
        BY <2>1, <2>2, <2>4, <3>5, <4>2, TakenLeavesNone
      <4> QED
        BY <3>2, <4>1, <4>3 DEF Behind, OnTheWay
    <3> QED
      BY <3>3, <3>4, <3>5
  <2> QED
    BY <2>3, <2>4
<1> QED
  BY <1>2, <1>3

LEMMA CronFinishChain ==
    ASSUME RInv, CronChain, entity = "cron", entity' = entity, NEW t \in runs, FinishCronRun(t)
    PROVE  CronChain'
<1> SUFFICES ASSUME Clean'
             PROVE  CronChain'
  BY DEF CronChain
<1>1. PICK f \in {"none", "load", "save", "cancel"} :
        /\ Suffer(f) /\ UNCHANGED <<now, inbox>>
        /\ f = "load" \/ ~Current(t) => UNCHANGED <<rec, delayed, sent>>
        /\ f # "load" /\ Current(t) =>
             CronIdle(FinishedJob(t), IF rec.deleteAfterRun THEN Left(delayed, rec, f) ELSE delayed, f)
  BY CronFinishOutcome
<1>2. Clean /\ f \in {"none", "load"}
  BY <1>1, CleanSuffer DEF Suffer, Fault
<1>3. CASE f = "load" \/ ~Current(t)
  <2>1. OnTheWay' = OnTheWay /\ rec' = rec
    BY <1>1, <1>3 DEF OnTheWay
  <2> QED
    BY <1>2, <2>1, CronChainKept DEF Owed
<1>4. CASE f # "load" /\ Current(t)
  <2> DEFINE job == FinishedJob(t)
  <2>1. rec # None /\ rec \in Job /\ t \in Tick
    BY <1>4, RecordFacts DEF Current, RInv, FrameOK
  <2>2. /\ job.pending = (IF rec.deleteAfterRun THEN None ELSE rec.pending) /\ job.rev = rec.rev
        /\ job.enabled = (rec.enabled /\ ~rec.deleteAfterRun) /\ job.at = rec.at /\ job.ran /\ job \in Job
    BY <2>1, FinishedJobIs
  <2>3. rec' = job /\ delayed' \subseteq delayed
    BY <1>1, <1>2, <1>4 DEF CronIdle, Left
  <2> HIDE DEF job
  <2>4. OnTheWay' \subseteq OnTheWay
    BY <1>1, <2>3 DEF OnTheWay
  <2>5. Owed' => Owed /\ rec'.rev = rec.rev /\ rec'.pending = rec.pending
    BY <2>1, <2>2, <2>3 DEF Owed, Job
  <2> QED
    BY <1>2, <2>4, <2>5, CronChainKept
<1> QED
  BY <1>3, <1>4

LEMMA CronReconcileChain ==
    ASSUME RInv, CronChain, entity = "cron", Reconcile
    PROVE  CronChain'
<1> SUFFICES ASSUME Clean'
             PROVE  CronChain'
  BY DEF CronChain
<1>1. PICK f \in Fault \ {"load"} :
        /\ trouble' = trouble \cup ({f} \ {"none"})
        /\ UNCHANGED <<now, inbox, runs, entity>>
        /\ IF rec = None \/ (rec.pending # None /\ JobOwed(rec)) THEN UNCHANGED <<rec, delayed, sent>>
           ELSE CronReplanned(rec, delayed, f)
  BY CronReconcileOutcome
<1>2. Clean /\ f \in {"none", "load", "send"}
  BY <1>1 DEF Clean, Fault
<1>3. CASE rec = None \/ (rec.pending # None /\ JobOwed(rec))
  <2>1. OnTheWay' = OnTheWay /\ rec' = rec
    BY <1>1, <1>3 DEF OnTheWay
  <2> QED
    BY <1>1, <1>2, <2>1, CronChainKept DEF Owed
<1>4. CASE ~(rec = None \/ (rec.pending # None /\ JobOwed(rec)))
  <2>1. rec # None /\ rec \in Job
    BY <1>4, RecordFacts
  <2>2. ASSUME JobOwed(rec)
        PROVE  Behind({t \in Left(delayed, rec, f) \cup inbox' : t.key.kind # "manual"}, rec)
    <3>1. Owed /\ rec.pending = None
      BY <1>4, <2>2, OwedIs
    <3> SUFFICES ASSUME NEW t \in delayed \cup inbox, t.key.kind # "manual", t.key.rev = rec.rev
                 PROVE  FALSE
      BY <1>1 DEF Behind, Left
    <3>2. t.id = None
      BY <1>2, <3>1 DEF CronChain, OnTheWay
    <3> QED
      BY <3>2, NoRecordAssumption DEF RInv, FrameOK, RecordOK, Tick
  <2> QED
    BY <1>1, <1>2, <1>4, <2>1, <2>2, CronChainReplanned
<1> QED
  BY <1>3, <1>4

LEMMA NextCronChain ==
    ASSUME RInv, TicksInv, EInv, CronChain, [Next]_allVars
    PROVE  CronChain'
<1>1. entity' = entity
  BY TroubleStays
<1> SUFFICES ASSUME entity = "cron"
             PROVE  CronChain'
  BY <1>1 DEF CronChain
<1>2. CASE UNCHANGED allVars \/ Advance \/ Deliver \/ \E repeated \in SUBSET inbox : Crash(repeated)
  <2>1. OnTheWay' \subseteq OnTheWay /\ UNCHANGED <<rec, trouble>>
    BY <1>2 DEF allVars, vars, Advance, Deliver, Crash, OnTheWay
  <2> QED
    BY <1>1, <2>1, CronChainKept DEF Clean, Owed
<1>3. ASSUME NEW t \in inbox, Serve(t)
      PROVE  CronChain'
  BY <1>1, <1>3, CronTickChain DEF Serve
<1>4. ASSUME NEW t \in runs, Finish(t)
      PROVE  CronChain'
  BY <1>1, <1>4, CronFinishChain DEF Finish
<1>5. CASE Request
  BY <1>1, <1>5, CronRequestChain DEF Request
<1>6. CASE Reconcile
  BY <1>6, CronReconcileChain
<1> QED
  BY <1>2, <1>3, <1>4, <1>5, <1>6 DEF Next, Progress

-----------------------------------------------------------------------------
(* One chain of a heartbeat: one tick on its way, the pending one, or one  *)
(* run in progress, of the current revision; and a time of the next run    *)
(* which keeps wake-ups away while that run is in progress.                *)

\* What the next run time says about the pending tick of record r.
DueOf(t, r) ==
    t.key.kind # "plan" =>
        /\ r.next # 0 /\ r.next <= t.key.at
        /\ t.key.kind = "run" /\ r.last # None => t.key.at = r.last.at + r.interval

\* What a run in progress says about record r.
AtWorkFor(u, r) == r.pending = None /\ r.next # 0 /\ r.next <= now

Chained(r) ==
    /\ \A t \in delayed \cup inbox :
          /\ t.key.rev <= r.rev
          /\ t.key.rev = r.rev => t.id = r.pending /\ DueOf(t, r)
    /\ \A u \in runs :
          /\ u.key.rev <= r.rev
          /\ u.key.rev = r.rev => AtWorkFor(u, r)
    /\ \A u, v \in runs : u.key.rev = r.rev /\ v.key.rev = r.rev => u = v

BeatChain ==
    entity = "heartbeat" /\ Clean =>
        IF rec = None THEN delayed \cup inbox \cup runs = {} ELSE Chained(rec)

LEMMA BeatChainKept ==
    ASSUME RInv, BeatChain, Clean' => Clean, UNCHANGED <<entity, rec>>, now' \in {now, now + 1},
           delayed' \cup inbox' \subseteq delayed \cup inbox, runs' \subseteq runs
    PROVE  BeatChain'
<1> SUFFICES ASSUME entity = "heartbeat", Clean'
             PROVE  (IF rec = None THEN delayed \cup inbox \cup runs = {} ELSE Chained(rec))'
  BY DEF BeatChain
<1>1. CASE rec = None
  BY <1>1 DEF BeatChain
<1>2. CASE rec # None
  <2>1. Chained(rec)
    BY <1>2 DEF BeatChain
  <2>2. now \in Nat /\ rec.next \in Nat
    BY <1>2, RecordFacts DEF Beat
  <2>3. (\A t \in delayed \cup inbox :
           t.key.rev <= rec.rev /\ (t.key.rev = rec.rev => t.id = rec.pending /\ DueOf(t, rec)))'
    BY <2>1 DEF Chained, DueOf
  <2>4. (\A u \in runs : u.key.rev <= rec.rev /\ (u.key.rev = rec.rev => AtWorkFor(u, rec)))'
    BY <2>1, <2>2 DEF Chained, AtWorkFor
  <2>5. (\A u, v \in runs : u.key.rev = rec.rev /\ v.key.rev = rec.rev => u = v)'
    BY <2>1 DEF Chained
  <2>6. Chained(rec)'
    BY <2>3, <2>4, <2>5, Zenon DEF Chained
  <2> QED
    BY <1>2, <2>6
<1> QED
  BY <1>1, <1>2

\* Everything in ticks is of an earlier revision than r.
AllBehind(ticks, r) == \A t \in ticks : t.key.rev < r.rev

\* The heartbeat is planned when nothing of its revision is on its way.
LEMMA BeatChainPlanned ==
    ASSUME NEW r \in Beat, NEW left, NEW key, NEW next, NEW f, f \in {"none", "load", "send"},
           BeatPlanned(r, left, key, next, f, f),
           key.rev = r.rev,
           key.kind # "plan" =>
               /\ next # 0 /\ next <= key.at
               /\ key.kind = "run" /\ r.last # None => key.at = r.last.at + r.interval,
           AllBehind(left \cup inbox' \cup runs', r),
           left \cup inbox' \cup runs' \subseteq Tick
    PROVE  BeatChain'
<1>1. /\ rec' # None /\ rec'.rev = r.rev /\ rec'.last = r.last /\ rec'.interval = r.interval
      /\ f # "send" => rec'.pending = sent + 1 /\ rec'.next = next
      /\ delayed' = IF f = "send" THEN left ELSE left \cup {[id |-> sent + 1, key |-> key]}
  BY DEF BeatPlanned, Planned
<1>2. \A t \in left \cup inbox' \cup runs' : t.key.rev <= rec'.rev /\ t.key.rev # rec'.rev
  BY <1>1 DEF AllBehind, Tick, Key, Beat
<1>3. (\A t \in delayed \cup inbox :
         t.key.rev <= rec.rev /\ (t.key.rev = rec.rev => t.id = rec.pending /\ DueOf(t, rec)))'
  <2> SUFFICES ASSUME NEW t \in delayed' \cup inbox'
               PROVE  t.key.rev <= rec'.rev
                      /\ (t.key.rev = rec'.rev => t.id = rec'.pending /\ DueOf(t, rec'))
    BY DEF DueOf
  <2>1. CASE t \in left \cup inbox'
    BY <1>2, <2>1
  <2>2. CASE t \notin left \cup inbox'
    <3>1. f # "send" /\ t = [id |-> sent + 1, key |-> key]
      BY <1>1, <2>2
    <3>2. t.key = key /\ t.id = rec'.pending /\ rec'.next = next
      BY <1>1, <3>1
    <3> QED
      BY <1>1, <3>2 DEF DueOf, Beat
  <2> QED
    BY <2>1, <2>2
<1>4. (\A u \in runs : u.key.rev <= rec.rev /\ (u.key.rev = rec.rev => AtWorkFor(u, rec)))'
  BY <1>2
<1>5. (\A u, v \in runs : u.key.rev = rec.rev /\ v.key.rev = rec.rev => u = v)'
  BY <1>2
<1>6. Chained(rec)'
  BY <1>3, <1>4, <1>5, Zenon DEF Chained
<1> QED
  BY <1>1, <1>6 DEF BeatChain

\* The time of the regular run that is planned.
LEMMA RegularDue ==
    ASSUME RInv, NEW r \in Beat, r.last # None => r.last.at \in Nat, NEW key, NEW next, RegularKey(r, key, next)
    PROVE  /\ key.rev = r.rev
           /\ key.kind # "plan" =>
                 /\ next # 0 /\ next <= key.at
                 /\ key.kind = "run" /\ r.last # None => key.at = r.last.at + r.interval
<1>1. now \in Nat /\ r.interval \in Nat \ {0}
  BY RecordFacts DEF Beat
<1>2. BeatDue(r, sent + 1).at = IF r.last = None THEN now + r.interval ELSE r.last.at + r.interval
  BY DEF BeatDue
<1> QED
  BY <1>1, <1>2 DEF RegularKey

LEMMA BeatsOnly ==
    ASSUME RInv, entity = "heartbeat"
    PROVE  /\ delayed \cup inbox \cup runs \subseteq Tick
           /\ rec # None => rec \in Beat /\ (rec.last # None => rec.last.at \in Nat)
BY RecordFacts DEF RInv, FrameOK, RecordOK, BeatsWith

\* Once the pending tick was taken nothing of the revision is left.
LEMMA TakenLeavesBehind ==
    ASSUME RInv, TicksInv, BeatChain, entity = "heartbeat", Clean,
           NEW t \in inbox, Current(t), NEW f, f # "again", Taken(t, f)
    PROVE  AllBehind(delayed \cup inbox' \cup runs, rec)
<1> SUFFICES ASSUME NEW u \in delayed \cup inbox' \cup runs
             PROVE  u.key.rev < rec.rev
  BY DEF AllBehind
<1>1. Chained(rec) /\ rec # None /\ t.key.rev = rec.rev
  BY DEF BeatChain, Current
<1>2. t.id = rec.pending /\ rec.pending # None
  <2>1. t.id = rec.pending
    BY <1>1 DEF Chained
  <2> QED
    BY <2>1, NoRecordAssumption DEF RInv, FrameOK, Tick
<1>3. u \in Tick /\ u.key.rev \in Nat /\ rec.rev \in Nat
  BY <1>1, BeatsOnly DEF Taken, Tick, Key, Beat
<1>4. CASE u \in runs
  BY <1>1, <1>2, <1>3, <1>4 DEF Chained, AtWorkFor
<1>5. CASE u \in delayed \cup inbox'
  <2>1. u \in delayed \cup inbox /\ u # t
    BY <1>5 DEF Taken, TicksInv
  <2>2. u.id # t.id
    BY <2>1 DEF TicksInv
  <2> QED
    BY <1>1, <1>2, <1>3, <2>1, <2>2 DEF Chained
<1> QED
  BY <1>4, <1>5

LEMMA BeatTickChain ==
    ASSUME RInv, TicksInv, BeatChain, entity = "heartbeat", entity' = entity, NEW t \in inbox,
           HandleHeartbeatPlan(t) \/ StartHeartbeatRun(t)
    PROVE  BeatChain'
<1> SUFFICES ASSUME Clean'
             PROVE  BeatChain'
  BY DEF BeatChain
<1>1. t \in Tick /\ t.key.at <= now
  BY CameBefore DEF OldKey
<1>2. CASE HandleHeartbeatPlan(t)
  <2>1. PICK f \in (Fault \ {"cancel"}) \cup {"again"} :
          /\ t.key.kind = "plan" /\ Taken(t, f) /\ Suffering(f, Current(t) /\ DueWasSkipped(rec))
          /\ UNCHANGED <<now, runs>>
          /\ f = "load" \/ ~Current(t) => UNCHANGED <<rec, delayed, sent>>
          /\ f # "load" /\ Current(t) =>
               \E key \in Key, next \in Nat :
                  /\ RegularKey(Replanned(t), key, next)
                  /\ BeatPlanned(Replanned(t), delayed, key, next, f, f)
    BY <1>2, BeatPlanOutcome
  <2>2. Clean /\ f \in {"none", "load", "send"}
    BY <2>1, CleanSuffer
  <2>3. CASE f = "load" \/ ~Current(t)
    <3>1. rec' = rec /\ delayed' \cup inbox' \subseteq delayed \cup inbox
      BY <2>1, <2>3 DEF Taken
    <3> QED
      BY <2>1, <2>2, <3>1, BeatChainKept
  <2>4. CASE f # "load" /\ Current(t)
    <3> DEFINE r == Replanned(t)
    <3>1. rec # None /\ rec \in Beat /\ (rec.last # None => rec.last.at \in Nat)
      BY <2>4, BeatsOnly DEF Current
    <3>2. r \in Beat /\ r.rev = rec.rev /\ r.last = rec.last
      BY <1>1, <3>1, ReplannedIs
    <3>3. PICK key \in Key, next \in Nat : RegularKey(r, key, next) /\ BeatPlanned(r, delayed, key, next, f, f)
      BY <2>1, <2>4
    <3> HIDE DEF r
    <3>4. AllBehind(delayed \cup inbox' \cup runs', r)
      BY <2>1, <2>2, <2>4, <3>2, TakenLeavesBehind DEF AllBehind
    <3>5. delayed \cup inbox' \cup runs' \subseteq Tick
      BY <2>1, BeatsOnly, TakenFewer
    <3>6. /\ key.rev = r.rev
          /\ key.kind # "plan" =>
                /\ next # 0 /\ next <= key.at
                /\ key.kind = "run" /\ r.last # None => key.at = r.last.at + r.interval
      BY <3>1, <3>2, <3>3, RegularDue
    <3> QED
      BY <2>2, <3>2, <3>3, <3>4, <3>5, <3>6, BeatChainPlanned
  <2> QED
    BY <2>3, <2>4
<1>3. CASE StartHeartbeatRun(t)
  <2> DEFINE idle == [rec EXCEPT !.pending = None]
  <2>1. PICK f \in {"none", "load", "save", "again"} :
          /\ t.key.kind # "plan" /\ Taken(t, f) /\ Suffer(f) /\ UNCHANGED <<now, delayed, sent>>
          /\ f \in {"load", "save"} \/ ~Current(t) => UNCHANGED <<rec, runs>>
          /\ f \notin {"load", "save"} /\ Current(t) => rec' = idle /\ runs' = runs \cup {t}
    BY <1>3, BeatStartOutcome
  <2>2. Clean /\ f \in {"none", "load"}
    BY <2>1, CleanSuffer DEF Suffer, Fault
  <2>3. CASE f = "load" \/ ~Current(t)
    <3>1. rec' = rec /\ runs' = runs /\ delayed' \cup inbox' \subseteq delayed \cup inbox
      BY <2>1, <2>3 DEF Taken
    <3> QED
      BY <2>1, <2>2, <3>1, BeatChainKept
  <2>4. CASE f # "load" /\ Current(t)
    <3>1. rec # None /\ rec \in Beat /\ t.key.rev = rec.rev /\ Chained(rec)
      BY <2>2, <2>4, BeatsOnly DEF Current, BeatChain
    <3>2. /\ idle \in Beat /\ idle.pending = None /\ idle.rev = rec.rev /\ idle.next = rec.next
      BY <3>1, PendingBeat
    <3>3. rec' = idle /\ runs' = runs \cup {t}
      BY <2>1, <2>2, <2>4
    <3> HIDE DEF idle
    <3>4. AllBehind(delayed \cup inbox' \cup runs, rec)
      BY <2>1, <2>2, <2>4, TakenLeavesBehind
    <3>5. \A u \in delayed' \cup inbox' \cup runs : u.key.rev <= rec'.rev /\ u.key.rev # rec'.rev
      <4>1. delayed' \cup inbox' \cup runs \subseteq Tick
        BY <2>1, BeatsOnly, TakenFewer
      <4> QED
        BY <2>1, <3>1, <3>2, <3>3, <3>4, <4>1 DEF AllBehind, Tick, Key, Beat
    <3>6. rec'.next # 0 /\ rec'.next <= now'
      <4>1. DueOf(t, rec)
        BY <3>1 DEF Chained
      <4>2. rec.next # 0 /\ rec.next <= t.key.at
        BY <2>1, <4>1 DEF DueOf
      <4>3. rec.next \in Nat /\ t.key.at \in Int /\ now \in Nat
        BY <1>1, <3>1, RecordFacts DEF Beat, Tick, Key
      <4> QED
        BY <1>1, <2>1, <3>2, <3>3, <4>2, <4>3
    <3>7. (\A u \in delayed \cup inbox :
             u.key.rev <= rec.rev /\ (u.key.rev = rec.rev => u.id = rec.pending /\ DueOf(u, rec)))'
      BY <3>5
    <3>8. (\A u \in runs : u.key.rev <= rec.rev /\ (u.key.rev = rec.rev => AtWorkFor(u, rec)))'
      BY <3>1, <3>2, <3>3, <3>5, <3>6 DEF AtWorkFor, Beat
    <3>9. (\A u, v \in runs : u.key.rev = rec.rev /\ v.key.rev = rec.rev => u = v)'
      BY <3>3, <3>5
    <3>10. Chained(rec)'
      BY <3>7, <3>8, <3>9, Zenon DEF Chained
    <3>11. rec' # None
      BY <3>2, <3>3, NoRecordAssumption
    <3> QED
      BY <3>10, <3>11 DEF BeatChain
  <2> QED
    BY <2>3, <2>4
<1> QED
  BY <1>2, <1>3

\* A run that ends leaves nothing of the revision, so the next tick is the only one.
LEMMA BeatFinishChain ==
    ASSUME RInv, TicksInv, BeatChain, entity = "heartbeat", entity' = entity,
           NEW t \in runs, FinishHeartbeatRun(t)
    PROVE  BeatChain'
<1> SUFFICES ASSUME Clean'
             PROVE  BeatChain'
  BY DEF BeatChain
<1>1. PICK ran \in BOOLEAN, f \in Fault :
        /\ runs' = runs \ {t} /\ Suffer(f) /\ UNCHANGED <<now, inbox>>
        /\ f = "load" \/ ~Current(t) => UNCHANGED <<rec, delayed, sent>>
        /\ f # "load" /\ Current(t) =>
             \E key \in Key, next \in Nat :
                /\ IF ran THEN RegularKey(Finished(t, ran), key, next)
                   ELSE key = RetryKey(rec) /\ next = now + Coalesce
                /\ BeatPlanned(Finished(t, ran), Left(delayed, rec, f), key, next, f, f)
  BY BeatFinishOutcome
<1>2. Clean /\ f \in {"none", "load", "send"}
  BY <1>1, CleanSuffer DEF Suffer
<1>3. CASE f = "load" \/ ~Current(t)
  <2>1. UNCHANGED <<rec, delayed>> /\ runs' \subseteq runs
    BY <1>1, <1>3
  <2> QED
    BY <1>1, <1>2, <2>1, BeatChainKept
<1>4. CASE f # "load" /\ Current(t)
  <2> DEFINE r == Finished(t, ran)
             left == Left(delayed, rec, f)
  <2>1. PICK key \in Key, next \in Nat :
          /\ IF ran THEN RegularKey(r, key, next) ELSE key = RetryKey(rec) /\ next = now + Coalesce
          /\ BeatPlanned(r, left, key, next, f, f)
    BY <1>1, <1>4
  <2>2. rec # None /\ rec \in Beat /\ sent \in Nat /\ now \in Nat /\ t \in Tick
        /\ (rec.last # None => rec.last.at \in Nat)
    BY <1>4, BeatsOnly, RecordFacts DEF Current, RInv, RecordOK
  <2>3. /\ r \in Beat /\ r.rev = rec.rev
        /\ r.last = IF ran THEN [at |-> now, n |-> sent + 1] ELSE rec.last
    BY <2>2, FinishedIs
  <2>4. left \subseteq delayed
    BY LeftFewer
  <2> HIDE DEF r, left
  <2>5. Chained(rec) /\ t.key.rev = rec.rev
    BY <1>2, <1>4, <2>2 DEF BeatChain, Current
  <2>6. rec.pending = None
    BY <2>5 DEF Chained, AtWorkFor
  <2>7. left \cup inbox' \cup runs' \subseteq Tick
    BY <1>1, <2>4, BeatsOnly
  <2>8. AllBehind(left \cup inbox' \cup runs', r)
    <3> SUFFICES ASSUME NEW u \in left \cup inbox' \cup runs'
                 PROVE  u.key.rev < rec.rev
      BY <2>3 DEF AllBehind
    <3>1. u \in Tick /\ u.id \in Nat /\ u.key.rev \in Nat /\ rec.rev \in Nat
      BY <2>2, <2>7 DEF Tick, Key, Beat
    <3>2. CASE u \in left \cup inbox'
      <4>1. u \in delayed \cup inbox /\ u.id # rec.pending
        BY <1>1, <2>4, <2>6, <3>1, <3>2, NoRecordAssumption
      <4> QED
        BY <2>5, <3>1, <4>1 DEF Chained
    <3>3. CASE u \in runs'
      <4>1. u \in runs /\ u # t
        BY <1>1, <3>3
      <4> QED
        BY <2>5, <3>1, <4>1 DEF Chained
    <3> QED
      BY <3>2, <3>3
  <2>9. /\ key.rev = r.rev
        /\ key.kind # "plan" =>
              /\ next # 0 /\ next <= key.at
              /\ key.kind = "run" /\ r.last # None => key.at = r.last.at + r.interval
    <3>1. CASE ran
      <4>1. r.last # None => r.last.at \in Nat
        BY <2>2, <2>3, <3>1
      <4> QED
        BY <2>1, <2>3, <3>1, <4>1, RegularDue
    <3>2. CASE ~ran
      <4>1. key.rev = r.rev /\ key.kind = "retry" /\ key.at = now + Coalesce /\ next = now + Coalesce
        BY <2>1, <2>3, <3>2 DEF RetryKey
      <4>2. now + Coalesce # 0 /\ now + Coalesce <= now + Coalesce
        BY <2>2, HeartbeatAssumption
      <4> QED
        BY <4>1, <4>2
    <3> QED
      BY <3>1, <3>2
  <2> QED
    BY <1>2, <2>1, <2>3, <2>7, <2>8, <2>9, BeatChainPlanned
<1> QED
  BY <1>3, <1>4

\* The record that the configuration asks for is the one that is there, or
\* everything there is belongs to earlier revisions.
LEMMA UpsertedAhead ==
    ASSUME RInv, BeatChain, entity = "heartbeat", Clean, interval \in Nat \ {0}
    PROVE  LET b == Upserted(rec)
           IN  /\ b \in Beat /\ (b.last # None => b.last.at \in Nat)
               /\ \/ b.pending = None /\ AllBehind(delayed \cup inbox \cup runs, b)
                  \/ rec # None /\ b = rec /\ Chained(rec)
<1> DEFINE b == Upserted(rec)
<1>1. rec # None => rec \in Beat /\ (rec.last # None => rec.last.at \in Nat)
  BY BeatsOnly
<1>2. /\ b \in Beat
      /\ rec = None => b.pending = None /\ b.last = None
      /\ rec # None => /\ b.last = rec.last
                       /\ IF rec.interval = interval THEN b = rec
                          ELSE b.rev = rec.rev + 1 /\ b.pending = None
  BY <1>1, UpsertedIs
<1> SUFFICES /\ b \in Beat /\ (b.last # None => b.last.at \in Nat)
             /\ \/ b.pending = None /\ AllBehind(delayed \cup inbox \cup runs, b)
                \/ rec # None /\ b = rec /\ Chained(rec)
  OBVIOUS
<1> HIDE DEF b
<1>3. CASE rec = None
  <2>1. delayed \cup inbox \cup runs = {}
    BY <1>3 DEF BeatChain
  <2> QED
    BY <1>2, <1>3, <2>1 DEF AllBehind
<1>4. CASE rec # None /\ rec.interval = interval
  BY <1>1, <1>2, <1>4 DEF BeatChain
<1>5. CASE rec # None /\ rec.interval # interval
  <2>1. Chained(rec) /\ delayed \cup inbox \cup runs \subseteq Tick /\ rec.rev \in Nat
    BY <1>1, <1>5, BeatsOnly DEF BeatChain, Beat
  <2>2. \A t \in delayed \cup inbox \cup runs : t.key.rev <= rec.rev /\ t.key.rev \in Nat
    BY <2>1 DEF Chained, Tick, Key
  <2>3. AllBehind(delayed \cup inbox \cup runs, b)
    BY <1>2, <1>5, <2>1, <2>2 DEF AllBehind
  <2> QED
    BY <1>1, <1>2, <1>5, <2>3
<1> QED
  BY <1>3, <1>4, <1>5

\* A wake-up takes the place of the pending tick, and none is accepted while a
\* run is in progress.
LEMMA BeatRequestChain ==
    ASSUME RInv, TicksInv, BeatChain, entity = "heartbeat", entity' = entity,
           RequestHeartbeatNow \/ Configure
    PROVE  BeatChain'
<1> SUFFICES ASSUME Clean'
             PROVE  BeatChain'
  BY DEF BeatChain
<1>1. CASE RequestHeartbeatNow
  <2> DEFINE b == Upserted(rec)
  <2>1. /\ interval \in Nat \ {0} /\ (b.next = 0 \/ b.next - now > Coalesce)
        /\ UNCHANGED <<now, inbox, runs, interval>> /\ WakeKey(b) \in Key
        /\ \E f \in Fault \ {"load"} :
              /\ Suffer(f)
              /\ \/ UNCHANGED <<rec, delayed, sent>>
                 \/ /\ b.pending # None => Left(delayed, b, f) # delayed
                    /\ BeatPlanned(b, Left(delayed, b, f), WakeKey(b), now, f,
                                   IF f \in {"send", "answer"} THEN "save" ELSE f)
    BY <1>1, WakeOutcome
  <2>2. PICK f \in Fault \ {"load"} :
              /\ Suffer(f)
              /\ \/ UNCHANGED <<rec, delayed, sent>>
                 \/ /\ b.pending # None => Left(delayed, b, f) # delayed
                    /\ BeatPlanned(b, Left(delayed, b, f), WakeKey(b), now, f,
                                   IF f \in {"send", "answer"} THEN "save" ELSE f)
    BY <2>1, Zenon
  <2>3. Clean /\ f \in {"none", "send"}
    BY <2>2, CleanSuffer DEF Suffer, Fault
  <2>4. CASE UNCHANGED <<rec, delayed, sent>>
    BY <2>1, <2>3, <2>4, BeatChainKept
  <2>5. CASE f = "send" /\ BeatPlanned(b, Left(delayed, b, f), WakeKey(b), now, f, "save")
    <3>1. rec' = rec /\ delayed' = Left(delayed, b, f)
      BY <2>5 DEF BeatPlanned, Planned
    <3>2. delayed' \subseteq delayed
      BY <3>1, LeftFewer
    <3> QED
      BY <2>1, <2>3, <3>1, <3>2, BeatChainKept
  <2>6. CASE /\ f = "none" /\ (b.pending # None => Left(delayed, b, f) # delayed)
             /\ BeatPlanned(b, Left(delayed, b, f), WakeKey(b), now, f, f)
    <3> DEFINE left == Left(delayed, b, f)
               key == WakeKey(b)
    <3>1. /\ b \in Beat /\ (b.last # None => b.last.at \in Nat)
          /\ \/ b.pending = None /\ AllBehind(delayed \cup inbox \cup runs, b)
             \/ rec # None /\ b = rec /\ Chained(rec)
      BY <2>1, <2>3, UpsertedAhead
    <3>2. now \in Nat /\ now # 0
      BY DEF RInv, FrameOK
    <3>3. key.kind = "wake" /\ key.rev = b.rev /\ key.at = now
      BY DEF WakeKey
    <3>4. BeatPlanned(b, left, key, now, f, f)
      BY <2>6
    <3>5. left \subseteq delayed /\ (b.pending # None => left # delayed)
          /\ left = {t \in delayed : t.id # b.pending}
      BY <2>6, LeftFewer DEF Left
    <3>6. b.next = 0 \/ b.next - now > Coalesce
      BY <2>1
    <3> HIDE DEF b, left, key
    <3>7. delayed \cup inbox \cup runs \subseteq Tick
      BY BeatsOnly
    <3>8. AllBehind(left \cup inbox \cup runs, b)
      <4>1. CASE AllBehind(delayed \cup inbox \cup runs, b)
        BY <3>5, <4>1 DEF AllBehind
      <4>2. CASE rec # None /\ b = rec /\ Chained(rec)
        <5> SUFFICES ASSUME NEW u \in left \cup inbox \cup runs
                     PROVE  u.key.rev < rec.rev
          BY <4>2 DEF AllBehind
        <5>1. u \in Tick /\ u.id \in Nat /\ u.key.rev \in Nat /\ rec.rev \in Nat
          BY <3>1, <3>5, <3>7, <4>2 DEF Tick, Key, Beat
        <5>2. CASE u \in runs
          <6>1. ~(rec.next # 0 /\ rec.next <= now)
            <7>1. rec.next \in Nat /\ Coalesce \in Nat
              BY <3>1, <4>2, HeartbeatAssumption DEF Beat
            <7> QED
              BY <3>2, <3>6, <4>2, <7>1
          <6> QED
            BY <4>2, <5>1, <5>2, <6>1 DEF Chained, AtWorkFor
        <5>3. CASE u \in left \cup inbox
          <6>1. u \in delayed \cup inbox /\ u.id # rec.pending
            <7>1. CASE u \in left
              BY <3>5, <4>2, <7>1
            <7>2. CASE u \in inbox /\ rec.pending = None
              BY <5>1, <7>2, NoRecordAssumption
            <7>3. CASE u \in inbox /\ rec.pending # None
              <8>1. PICK v \in delayed : v.id = rec.pending
                BY <3>5, <4>2, <7>3
              <8>2. v # u
                BY <7>3, <8>1 DEF TicksInv
              <8> QED
                BY <7>3, <8>1, <8>2 DEF TicksInv
            <7> QED
              BY <5>3, <7>1, <7>2, <7>3
          <6> QED
            BY <4>2, <5>1, <6>1 DEF Chained
        <5> QED
          BY <5>2, <5>3
      <4> QED
        BY <3>1, <4>1, <4>2
    <3>9. /\ key.kind # "plan" =>
                /\ now # 0 /\ now <= key.at
                /\ key.kind = "run" /\ b.last # None => key.at = b.last.at + b.interval
      BY <3>2, <3>3
    <3>10. AllBehind(left \cup inbox' \cup runs', b) /\ left \cup inbox' \cup runs' \subseteq Tick
      BY <2>1, <3>5, <3>7, <3>8
    <3> QED
      BY <2>6, <3>1, <3>3, <3>4, <3>9, <3>10, BeatChainPlanned
  <2> QED
    BY <2>2, <2>3, <2>4, <2>5, <2>6
<1>2. CASE Configure
  <2>1. UNCHANGED <<now, delayed, inbox, rec, runs, trouble>>
    BY <1>2 DEF Configure
  <2> QED
    BY <2>1, BeatChainKept DEF Clean
<1> QED
  BY <1>1, <1>2

\* A connect that notices everything there is.
LEMMA BeatReconcileChain ==
    ASSUME RInv, TicksInv, BeatChain, entity = "heartbeat", Reconcile
    PROVE  BeatChain'
<1> SUFFICES ASSUME Clean'
             PROVE  BeatChain'
  BY DEF BeatChain
<1> DEFINE b == Upserted(rec)
<1>1. PICK f \in Fault \ {"load"} :
        /\ trouble' = trouble \cup ({f} \ {"none"}) \cup (IF Unnoticed THEN {"overlap"} ELSE {})
        /\ UNCHANGED <<now, inbox, runs, interval, entity>>
        /\ interval = 0 =>
             /\ delayed' = (IF rec = None THEN delayed ELSE Left(delayed, rec, f))
             /\ rec' = IF f = "save" THEN rec ELSE None
        /\ interval # 0 /\ b.pending # None =>
             /\ UNCHANGED <<sent, delayed>>
             /\ rec' = IF f = "save" THEN rec ELSE [b EXCEPT !.next = BeatDue(b, sent + 1).at]
        /\ interval # 0 /\ b.pending = None =>
             \E key \in Key, next \in Nat :
                RegularKey(b, key, next) /\ BeatPlanned(b, delayed, key, next, f, f)
  BY BeatReconcileOutcome
<1>2. Clean /\ f \in {"none", "send"} /\ ~Unnoticed
  BY <1>1 DEF Clean, Fault
<1>3. /\ runs = {} /\ inbox = {}
      /\ rec # None => \A t \in delayed : /\ t.key.kind \notin {"wake", "retry"} /\ rec.last # None
                                          /\ interval = 0 => t.id = rec.pending
  BY <1>2 DEF Unnoticed
<1>4. delayed \subseteq Tick /\ interval \in Nat
  BY BeatsOnly, RecordFacts
<1>5. CASE interval = 0
  <2>1. rec' = None /\ delayed' = {}
    BY <1>1, <1>2, <1>3, <1>5 DEF BeatChain, Left
  <2> QED
    BY <1>1, <1>3, <2>1 DEF BeatChain
<1>6. CASE interval # 0
  <2>1. /\ b \in Beat /\ (b.last # None => b.last.at \in Nat)
        /\ \/ b.pending = None /\ AllBehind(delayed \cup inbox \cup runs, b)
           \/ rec # None /\ b = rec /\ Chained(rec)
    BY <1>2, <1>4, <1>6, UpsertedAhead
  <2> HIDE DEF b
  <2>2. CASE b.pending # None
    <3> DEFINE kept == [b EXCEPT !.next = BeatDue(b, sent + 1).at]
    <3>0. kept \in Beat
      <4>1. BeatDue(b, sent + 1).at \in Nat
        <5>1. now \in Nat /\ b.interval \in Nat
          BY <2>1, RecordFacts DEF Beat
        <5> QED
          BY <2>1, <5>1 DEF BeatDue
      <4> QED
        BY <2>1, <4>1 DEF Beat
    <3>1. rec # None /\ b = rec /\ Chained(rec)
      BY <2>1, <2>2
    <3>2. /\ kept.pending = rec.pending /\ kept.rev = rec.rev /\ kept.last = rec.last
          /\ kept.interval = rec.interval /\ kept.next = BeatDue(rec, sent + 1).at
      BY <2>1, <3>1 DEF Beat
    <3>3. rec' = kept /\ delayed' = delayed
      BY <1>1, <1>2, <1>6, <2>2
    <3> HIDE DEF kept
    <3>4. (\A t \in delayed \cup inbox :
             t.key.rev <= rec.rev /\ (t.key.rev = rec.rev => t.id = rec.pending /\ DueOf(t, rec)))'
      <4> SUFFICES ASSUME NEW t \in delayed
                   PROVE  t.key.rev <= kept.rev
                          /\ (t.key.rev = kept.rev => t.id = kept.pending /\ DueOf(t, kept))
        BY <1>1, <1>3, <3>3 DEF DueOf
      <4>1. t.key.rev <= rec.rev /\ (t.key.rev = rec.rev => t.id = rec.pending /\ DueOf(t, rec))
        BY <3>1 DEF Chained
      <4>2. ASSUME t.key.rev = rec.rev, t.key.kind # "plan"
            PROVE  t.key.kind = "run" /\ rec.last # None /\ t.key.at = rec.last.at + rec.interval
        <5>1. t.key.kind \in {"run", "plan", "wake", "retry", "manual"}
          BY <1>4 DEF Tick, Key
        <5>2. t.key.kind = "run" /\ rec.last # None
          BY <1>3, <3>1, <4>2, <5>1 DEF TicksInv
        <5> QED
          BY <4>1, <4>2, <5>2 DEF DueOf
      <4>3. rec.last # None => kept.next = rec.last.at + rec.interval /\ kept.next \in Nat \ {0}
        <5>1. rec.interval \in Nat \ {0} /\ (rec.last # None => rec.last.at \in Nat)
          BY <2>1, <3>1 DEF Beat
        <5> QED
          BY <3>2, <5>1 DEF BeatDue
      <4>4. t.key.rev = rec.rev => DueOf(t, kept)
        BY <3>2, <4>2, <4>3 DEF DueOf
      <4> QED
        BY <3>2, <4>1, <4>4
    <3>5. Chained(rec)'
      <4>1. runs' = {}
        BY <1>1, <1>3
      <4>2. (\A u \in runs : u.key.rev <= rec.rev /\ (u.key.rev = rec.rev => AtWorkFor(u, rec)))'
        BY <4>1
      <4>3. (\A u, v \in runs : u.key.rev = rec.rev /\ v.key.rev = rec.rev => u = v)'
        BY <4>1
      <4> QED
        BY <3>4, <4>2, <4>3, Zenon DEF Chained
    <3>6. rec' # None
      BY <3>0, <3>3, NoRecordAssumption
    <3> QED
      BY <3>5, <3>6 DEF BeatChain
  <2>3. CASE b.pending = None
    <3>1. PICK key \in Key, next \in Nat : RegularKey(b, key, next) /\ BeatPlanned(b, delayed, key, next, f, f)
      BY <1>1, <1>6, <2>3
    <3>2. AllBehind(delayed \cup inbox \cup runs, b)
      <4>1. CASE rec # None /\ b = rec /\ Chained(rec)
        <5> SUFFICES ASSUME NEW u \in delayed
                     PROVE  u.key.rev < rec.rev
          BY <1>3, <4>1 DEF AllBehind
        <5>1. u.id \in Nat /\ u.key.rev \in Nat /\ rec.rev \in Nat
          BY <1>4, <2>1, <4>1 DEF Tick, Key, Beat
        <5>2. u.id # rec.pending
          BY <2>3, <4>1, <5>1, NoRecordAssumption
        <5> QED
          BY <4>1, <5>1, <5>2 DEF Chained
      <4> QED
        BY <2>1, <4>1
    <3>3. /\ key.rev = b.rev
          /\ key.kind # "plan" =>
                /\ next # 0 /\ next <= key.at
                /\ key.kind = "run" /\ b.last # None => key.at = b.last.at + b.interval
      BY <2>1, <3>1, RegularDue
    <3>4. delayed \cup inbox' \cup runs' \subseteq Tick /\ AllBehind(delayed \cup inbox' \cup runs', b)
      BY <1>1, <1>3, <1>4, <3>2
    <3> QED
      BY <1>2, <2>1, <3>1, <3>3, <3>4, BeatChainPlanned
  <2> QED
    BY <2>2, <2>3
<1> QED
  BY <1>5, <1>6

LEMMA NextBeatChain ==
    ASSUME RInv, TicksInv, BeatChain, [Next]_allVars
    PROVE  BeatChain'
<1>1. entity' = entity
  BY TroubleStays
<1> SUFFICES ASSUME entity = "heartbeat"
             PROVE  BeatChain'
  BY <1>1 DEF BeatChain
<1>2. CASE UNCHANGED allVars \/ Advance \/ Deliver \/ \E repeated \in SUBSET inbox : Crash(repeated)
  <2>1. /\ delayed' \cup inbox' \subseteq delayed \cup inbox /\ runs' \subseteq runs
        /\ now' \in {now, now + 1} /\ UNCHANGED <<rec, trouble>>
    BY <1>2 DEF allVars, vars, Advance, Deliver, Crash
  <2> QED
    BY <1>1, <2>1, BeatChainKept DEF Clean
<1>3. ASSUME NEW t \in inbox, Serve(t)
      PROVE  BeatChain'
  BY <1>1, <1>3, BeatTickChain DEF Serve
<1>4. ASSUME NEW t \in runs, Finish(t)
      PROVE  BeatChain'
  BY <1>1, <1>4, BeatFinishChain DEF Finish
<1>5. CASE Request
  BY <1>1, <1>5, BeatRequestChain DEF Request
<1>6. CASE Reconcile
  BY <1>6, BeatReconcileChain
<1> QED
  BY <1>2, <1>3, <1>4, <1>5, <1>6 DEF Next, Progress

-----------------------------------------------------------------------------
\* Ticks of the past, none of them lost, and one chain of them.
ChainInv == TicksInv /\ PendingUnworked /\ HealthInv /\ CronChain /\ BeatChain

\* The inductive invariant of the chain of ticks: what was sent is of the past,
\* what a healthy record waits for is on its way or in progress, and whatever else
\* is on its way belongs to an earlier revision.
THEOREM SpecChainInv == Spec => []ChainInv
<1>1. Init => ChainInv
  <2> SUFFICES ASSUME Init PROVE ChainInv
    OBVIOUS
  <2>1. delayed = {} /\ inbox = {} /\ runs = {} /\ rec = None
    BY DEF Init, TicksInit
  <2> QED
    BY <2>1 DEF ChainInv, TicksInv, PendingUnworked, HealthInv, CronChain, BeatChain, Owed
<1>2. RInv /\ EInv /\ ChainInv /\ [Next]_allVars => ChainInv'
  BY NextTicksInv, NextUnworked, NextHealth, NextCronChain, NextBeatChain DEF ChainInv
<1> QED
  BY <1>1, <1>2, SpecRInv, SpecEInv, PTL DEF Spec

\* An entity that is owed a run keeps a chain of ticks, and one only: what is on
\* its way for the record's revision is its pending tick, a run in progress leaves
\* none, and every key that is planned is new to the record.
THEOREM SpecOneChain == Spec => []OneChain
<1>1. RInv /\ ChainInv => OneChain
  <2> SUFFICES ASSUME RInv, ChainInv PROVE OneChain
    OBVIOUS
  <2>1. OwedHasTick
    BY DEF OwedHasTick, ChainInv, HealthInv
  <2>2. LiveIsPending
    <3> SUFFICES ASSUME Clean, NEW t \in OnTheWay, Owed, Current(t)
                 PROVE  t.id = rec.pending
      BY DEF LiveIsPending, Clean
    <3>1. t.key.rev = rec.rev /\ rec # None /\ t \in delayed \cup inbox
      BY DEF Current, OnTheWay
    <3>2. CASE entity = "cron"
      BY <3>1, <3>2 DEF ChainInv, CronChain
    <3>3. CASE entity = "heartbeat"
      BY <3>1, <3>3 DEF ChainInv, BeatChain, Chained
    <3> QED
      BY <3>2, <3>3 DEF RInv, FrameOK
  <2> QED
    BY <2>1, <2>2 DEF OneChain
<1> QED
  BY SpecRInv, SpecChainInv, <1>1, PTL
=============================================================================
