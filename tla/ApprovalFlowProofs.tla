------------------------- MODULE ApprovalFlowProofs -------------------------
(***************************************************************************)
(* Theorems about ApprovalFlow, for any requests, approvals, targets and   *)
(* clients.                                                                *)
(*                                                                         *)
(* The operations of the prompt store keep its indexes in agreement when   *)
(* no two approvals have the same message.  That they never do is what the *)
(* invariant adds: the message of a prompt, and of one that SendPrompt has *)
(* put aside to restore it, was sent by a request for that very approval.  *)
(*                                                                         *)
(* On it rest, in this order: a prompt shows one verdict (VInv), which is  *)
(* what the agent server holds (UInv); what is pending was not finalized   *)
(* and belongs to its approval (TypeInv); and nothing is timed out before  *)
(* it is due (DueInv).                                                     *)
(***************************************************************************)
EXTENDS ApprovalFlow, TLAPS

-----------------------------------------------------------------------------
\* The end that the server gave request r is t, or was before.
GivenBy(r, t) == EndOf[r] # None /\ EndOf[r] <= t

LEMMA GivenStays ==
    ASSUME NEW r \in Requests, NEW t \in Nat, NEW u \in Nat, t <= u, GivenBy(r, t)
    PROVE  GivenBy(r, u)
BY EndsAssumption DEF GivenBy

\* A prompt ends when its Pending does at the latest, or when the server has said.
LEMMA Expiries ==
    ASSUME NEW r \in Requests, now \in Nat
    PROVE  /\ PendingExpiry(r) \in Nat /\ PromptExpiry(r) \in Nat
           /\ PendingExpiry(r) <= now + TTL \/ EndOf[r] # None
           /\ (PromptExpiry(r) = now + TTL /\ EndOf[r] = None) \/ GivenBy(r, PromptExpiry(r))
BY EndsAssumption, NumbersAssumption DEF PendingExpiry, PromptExpiry, GivenBy

-----------------------------------------------------------------------------
(* The prompt store.  Each of its operations keeps the indexes and the     *)
(* prompts in agreement; registering and binding do so only for a message  *)
(* that no other approval has, which is for ApprovalFlow to see to.        *)

\* The message m, if it is one, is not that of another approval's prompt.
FreeFor(s, a, m) ==
    \A b \in Approvals : b # a /\ HasPrompt(s, b) /\ s.prompt[b].msg = m => m = None

\* dropPromptLocked removes the prompt of a and nothing else.
LEMMA DropPromptAgrees ==
    ASSUME NEW s \in Store, NEW a \in Approvals, IndexesAgree(s)
    PROVE  /\ DropPrompt(s, a) \in Store
           /\ IndexesAgree(DropPrompt(s, a))
           /\ DropPrompt(s, a).prompt = [s.prompt EXCEPT ![a] = None]
<1> DEFINE t == DropPrompt(s, a)
<1>1. /\ t.prompt = [s.prompt EXCEPT ![a] = None]
      /\ t.byMsg = UnlinkMsg(s, a)
      /\ t.byTarget = UnlinkTarget(s, a)
      /\ t.serial = s.serial
  BY DEF DropPrompt, Store
<1>2. UnlinkMsg(s, a) \in [Requests -> Approvals \cup {None}]
  BY DEF UnlinkMsg, Store
<1>3. UnlinkTarget(s, a) \in [Targets -> Approvals \cup {None}]
  BY DEF UnlinkTarget, Store
<1>4. t \in Store
  BY <1>2, <1>3 DEF DropPrompt, Store
<1>5. \A m \in Requests, b \in Approvals :
         t.byMsg[m] = b <=> HasPrompt(t, b) /\ t.prompt[b].msg = m
  BY <1>1, StoreAssumption DEF IndexesAgree, HasPrompt, UnlinkMsg, Store
<1>6. \A m \in Targets, b \in Approvals :
         t.byTarget[m] = b => HasPrompt(t, b) /\ t.prompt[b].target = m
  BY <1>1, StoreAssumption DEF IndexesAgree, HasPrompt, UnlinkTarget, Store
<1> QED
  BY <1>1, <1>4, <1>5, <1>6 DEF IndexesAgree

\* registerPromptLocked replaces the prompt of a, whatever it was.
LEMMA RegisterPromptAgrees ==
    ASSUME NEW s \in Store, NEW a \in Approvals, NEW reg \in Prompt,
           IndexesAgree(s), FreeFor(s, a, reg.msg)
    PROVE  /\ RegisterPrompt(s, a, reg) \in Store
           /\ IndexesAgree(RegisterPrompt(s, a, reg))
           /\ \A b \in Approvals \ {a} : RegisterPrompt(s, a, reg).prompt[b] = s.prompt[b]
           /\ RegisterPrompt(s, a, reg).prompt[a].msg = reg.msg
<1> DEFINE version == IF reg.version = 0 /\ HasPrompt(s, a)
                      THEN s.prompt[a].version ELSE reg.version
           new == [reg EXCEPT !.version = version, !.serial = s.serial + 1]
           t == RegisterPrompt(s, a, reg)
<1>1. version \in Nat
  BY DEF Store, Prompt, HasPrompt
<1> HIDE DEF version
<1>2. new \in Prompt /\ new.msg = reg.msg /\ new.target = reg.target
  <2>1. s.serial + 1 \in Nat
    BY DEF Store
  <2> QED
    BY <1>1, <2>1 DEF Prompt
<1> HIDE DEF new
<1>3. /\ t.prompt = [s.prompt EXCEPT ![a] = new]
      /\ t.byMsg = [m \in Requests |-> IF reg.msg = m THEN a ELSE UnlinkMsg(s, a)[m]]
      /\ t.byTarget = [m \in Targets |-> IF reg.target = m THEN a ELSE UnlinkTarget(s, a)[m]]
  BY DEF RegisterPrompt, new, version
<1>4. t \in Store
  BY <1>2 DEF RegisterPrompt, Store, UnlinkMsg, UnlinkTarget, new, version
<1>5. new # None /\ t.prompt[a] = new /\ \A b \in Approvals \ {a} : t.prompt[b] = s.prompt[b]
  BY <1>2, <1>3, NoPromptAssumption DEF Store
<1>6. \A m \in Requests, b \in Approvals :
         t.byMsg[m] = b <=> HasPrompt(t, b) /\ t.prompt[b].msg = m
  <2> SUFFICES ASSUME NEW m \in Requests, NEW b \in Approvals
               PROVE  t.byMsg[m] = b <=> HasPrompt(t, b) /\ t.prompt[b].msg = m
    OBVIOUS
  <2>1. CASE b = a
    BY <2>1, <1>2, <1>3, <1>5, StoreAssumption DEF IndexesAgree, HasPrompt, UnlinkMsg
  <2>2. CASE b # a
    BY <2>2, <1>2, <1>3, <1>5, StoreAssumption DEF IndexesAgree, HasPrompt, UnlinkMsg, FreeFor
  <2> QED
    BY <2>1, <2>2
<1>7. \A m \in Targets, b \in Approvals :
         t.byTarget[m] = b => HasPrompt(t, b) /\ t.prompt[b].target = m
  <2> SUFFICES ASSUME NEW m \in Targets, NEW b \in Approvals, t.byTarget[m] = b
               PROVE  HasPrompt(t, b) /\ t.prompt[b].target = m
    OBVIOUS
  <2>1. CASE b = a
    BY <2>1, <1>2, <1>3, <1>5, StoreAssumption DEF IndexesAgree, HasPrompt, UnlinkTarget
  <2>2. CASE b # a
    BY <2>2, <1>3, <1>5, StoreAssumption DEF IndexesAgree, HasPrompt, UnlinkTarget
  <2> QED
    BY <2>1, <2>2
<1> QED
  BY <1>2, <1>4, <1>5, <1>6, <1>7 DEF IndexesAgree

\* bindPromptTargetLocked gives the prompt of a its message.
LEMMA BindPromptAgrees ==
    ASSUME NEW s \in Store, NEW a \in Approvals, NEW m \in Requests,
           IndexesAgree(s), HasPrompt(s, a), FreeFor(s, a, m)
    PROVE  /\ BindPrompt(s, a, m) \in Store
           /\ IndexesAgree(BindPrompt(s, a, m))
           /\ \A b \in Approvals \ {a} : BindPrompt(s, a, m).prompt[b] = s.prompt[b]
           /\ BindPrompt(s, a, m).prompt[a].msg = m
<1> DEFINE old == s.prompt[a]
           new == [old EXCEPT !.msg = m, !.version = @ + 1]
           t == BindPrompt(s, a, m)
<1>1. old \in Prompt
  BY DEF Store, HasPrompt
<1>2. new \in Prompt /\ new.msg = m /\ new.target = old.target
  <2> HIDE DEF old
  <2>1. old.version + 1 \in Nat
    BY <1>1 DEF Prompt
  <2> QED
    BY <1>1, <2>1 DEF Prompt
<1>3. /\ t.prompt = [s.prompt EXCEPT ![a] = new]
      /\ t.byMsg = [n \in Requests |-> IF n = m THEN a ELSE UnlinkMsg(s, a)[n]]
      /\ t.byTarget = [n \in Targets |-> IF old.target = n THEN a ELSE s.byTarget[n]]
      /\ t.serial = s.serial
  BY DEF BindPrompt
<1>4. t = [prompt |-> t.prompt, byMsg |-> t.byMsg, byTarget |-> t.byTarget,
           serial |-> t.serial]
  BY DEF BindPrompt
<1> HIDE DEF new
<1>5. t \in Store
  <2> HIDE DEF t
  <2>1. t.prompt \in [Approvals -> Prompt \cup {None}]
    BY <1>2, <1>3 DEF Store
  <2>2. t.byMsg \in [Requests -> Approvals \cup {None}]
    BY <1>3 DEF Store, UnlinkMsg
  <2>3. t.byTarget \in [Targets -> Approvals \cup {None}]
    BY <1>3 DEF Store
  <2>4. t.serial \in Nat
    BY <1>3 DEF Store
  <2> QED
    BY <2>1, <2>2, <2>3, <2>4, <1>4 DEF Store
<1>6. new # None /\ t.prompt[a] = new /\ \A b \in Approvals \ {a} : t.prompt[b] = s.prompt[b]
  BY <1>2, <1>3, NoPromptAssumption DEF Store
<1>7. \A n \in Requests, b \in Approvals :
         t.byMsg[n] = b <=> HasPrompt(t, b) /\ t.prompt[b].msg = n
  <2> SUFFICES ASSUME NEW n \in Requests, NEW b \in Approvals
               PROVE  t.byMsg[n] = b <=> HasPrompt(t, b) /\ t.prompt[b].msg = n
    OBVIOUS
  <2>1. CASE b = a
    BY <2>1, <1>2, <1>3, <1>6, StoreAssumption DEF IndexesAgree, HasPrompt, UnlinkMsg
  <2>2. CASE b # a
    BY <2>2, <1>2, <1>3, <1>6, StoreAssumption DEF IndexesAgree, HasPrompt, UnlinkMsg, FreeFor
  <2> QED
    BY <2>1, <2>2
<1>8. \A n \in Targets, b \in Approvals :
         t.byTarget[n] = b => HasPrompt(t, b) /\ t.prompt[b].target = n
  <2> SUFFICES ASSUME NEW n \in Targets, NEW b \in Approvals, t.byTarget[n] = b
               PROVE  HasPrompt(t, b) /\ t.prompt[b].target = n
    OBVIOUS
  <2>1. CASE b = a
    BY <2>1, <1>2, <1>3, <1>6, StoreAssumption DEF IndexesAgree, HasPrompt
  <2>2. CASE b # a
    BY <2>2, <1>3, <1>6, StoreAssumption DEF IndexesAgree, HasPrompt
  <2> QED
    BY <2>1, <2>2
<1> QED
  BY <1>2, <1>5, <1>6, <1>7, <1>8 DEF IndexesAgree

-----------------------------------------------------------------------------
(* The flow.                                                               *)

\* The store is well formed, its indexes agree and messages are not shared.
Sound(s) ==
    /\ s \in Store
    /\ IndexesAgree(s)
    /\ \A a \in Approvals :
          HasPrompt(s, a) /\ s.prompt[a].msg # None => IdOf[s.prompt[a].msg] = a

Types == now \in Nat /\ before \in [Requests -> Prompt \cup {None}]

\* What may be restored belongs to the same approval.
OwnBefore ==
    \A r \in Requests :
        before[r] # None /\ before[r].msg # None => IdOf[before[r].msg] = IdOf[r]

\* A reaction that matched and the reaper's candidates are about approvals.
Subjects ==
    /\ rpc \in {"drop", "lookup", "expired", "deliver", "finish"} => rid \in Approvals
    /\ \A c \in reap : c.id \in Approvals
    /\ cut # NoCut => cut.id \in Approvals

IInv == Types /\ Sound(store) /\ OwnBefore /\ Subjects

-----------------------------------------------------------------------------
(* What the operations of the store make of a sound store.                 *)

LEMMA DropPromptSound ==
    ASSUME NEW s, Sound(s), NEW a \in Approvals
    PROVE  Sound(DropPrompt(s, a))
<1>1. s \in Store /\ IndexesAgree(s)
  BY DEF Sound
<1>2. /\ DropPrompt(s, a) \in Store /\ IndexesAgree(DropPrompt(s, a))
      /\ DropPrompt(s, a).prompt = [s.prompt EXCEPT ![a] = None]
  BY <1>1, DropPromptAgrees
<1>3. \A b \in Approvals : HasPrompt(DropPrompt(s, a), b) =>
         HasPrompt(s, b) /\ DropPrompt(s, a).prompt[b] = s.prompt[b]
  BY <1>1, <1>2 DEF HasPrompt, Store
<1> QED
  BY <1>2, <1>3 DEF Sound

LEMMA RegisterPromptSound ==
    ASSUME NEW s, Sound(s), NEW a \in Approvals, NEW reg \in Prompt,
           reg.msg # None => IdOf[reg.msg] = a
    PROVE  Sound(RegisterPrompt(s, a, reg))
<1> DEFINE t == RegisterPrompt(s, a, reg)
<1>1. s \in Store /\ IndexesAgree(s) /\ FreeFor(s, a, reg.msg)
  BY DEF Sound, FreeFor
<1>2. /\ t \in Store /\ IndexesAgree(t) /\ t.prompt[a].msg = reg.msg
      /\ \A b \in Approvals \ {a} : t.prompt[b] = s.prompt[b]
  BY <1>1, RegisterPromptAgrees
<1> HIDE DEF t
<1>3. \A b \in Approvals : HasPrompt(t, b) /\ t.prompt[b].msg # None
         => IdOf[t.prompt[b].msg] = b
  BY <1>2 DEF Sound, HasPrompt
<1> QED
  BY <1>2, <1>3 DEF Sound, t

LEMMA BindPromptSound ==
    ASSUME NEW s, Sound(s), NEW r \in Requests, IdOf[r] \in Approvals,
           HasPrompt(s, IdOf[r])
    PROVE  Sound(BindPrompt(s, IdOf[r], r))
<1> DEFINE a == IdOf[r]
           t == BindPrompt(s, a, r)
<1>1. s \in Store /\ IndexesAgree(s) /\ FreeFor(s, a, r)
  BY StoreAssumption DEF Sound, FreeFor
<1>2. /\ t \in Store /\ IndexesAgree(t) /\ t.prompt[a].msg = r
      /\ \A b \in Approvals \ {a} : t.prompt[b] = s.prompt[b]
  BY <1>1, BindPromptAgrees
<1> HIDE DEF t
<1>3. \A b \in Approvals : HasPrompt(t, b) /\ t.prompt[b].msg # None
         => IdOf[t.prompt[b].msg] = b
  BY <1>2 DEF Sound, HasPrompt
<1> QED
  BY <1>2, <1>3 DEF Sound, t

LEMMA RestorePromptSound ==
    ASSUME NEW s, Sound(s), NEW a \in Approvals, NEW b \in Prompt \cup {None},
           b # None /\ b.msg # None => IdOf[b.msg] = a
    PROVE  Sound(RestorePrompt(s, a, b))
<1>1. Sound(DropPrompt(s, a))
  BY DropPromptSound
<1>2. CASE b = None
  BY <1>1, <1>2 DEF RestorePrompt
<1>3. CASE b # None
  BY <1>1, <1>3, RegisterPromptSound DEF RestorePrompt
<1> QED
  BY <1>2, <1>3

\* Prompts that the scans find expired are dropped together.
LEMMA DropAllSound ==
    ASSUME Sound(store), NEW gone \in SUBSET Approvals
    PROVE  Sound(DropAll(gone))
<1> DEFINE t == DropAll(gone)
<1>1. /\ t.prompt = [a \in Approvals |-> IF a \in gone THEN None ELSE store.prompt[a]]
      /\ t.byMsg = [m \in Requests |->
                       IF store.byMsg[m] \in gone THEN None ELSE store.byMsg[m]]
      /\ t.byTarget = [m \in Targets |->
                       IF store.byTarget[m] \in gone THEN None ELSE store.byTarget[m]]
  BY DEF DropAll
<1>2. t \in Store
  BY DEF DropAll, Store, Sound
<1> HIDE DEF t
<1>3. \A a \in Approvals : HasPrompt(t, a) <=> a \notin gone /\ HasPrompt(store, a)
  BY <1>1 DEF HasPrompt
<1>4. \A a \in Approvals \ gone : t.prompt[a] = store.prompt[a]
  BY <1>1
<1>5. \A m \in Requests, a \in Approvals :
         t.byMsg[m] = a <=> HasPrompt(t, a) /\ t.prompt[a].msg = m
  <2> TAKE m \in Requests, a \in Approvals
  <2>1. store.byMsg[m] = a <=> HasPrompt(store, a) /\ store.prompt[a].msg = m
    BY DEF Sound, IndexesAgree
  <2>2. t.byMsg[m] = a <=> a \notin gone /\ store.byMsg[m] = a
    BY <1>1, StoreAssumption
  <2> QED
    BY <2>1, <2>2, <1>3, <1>4
<1>6. \A m \in Targets, a \in Approvals :
         t.byTarget[m] = a => HasPrompt(t, a) /\ t.prompt[a].target = m
  <2> TAKE m \in Targets, a \in Approvals
  <2>1. store.byTarget[m] = a => HasPrompt(store, a) /\ store.prompt[a].target = m
    BY DEF Sound, IndexesAgree
  <2>2. t.byTarget[m] = a => a \notin gone /\ store.byTarget[m] = a
    BY <1>1, StoreAssumption
  <2> QED
    BY <2>1, <2>2, <1>3, <1>4
<1>7. \A a \in Approvals : HasPrompt(t, a) /\ t.prompt[a].msg # None
         => IdOf[t.prompt[a].msg] = a
  BY <1>3, <1>4 DEF Sound
<1> QED
  BY <1>2, <1>5, <1>6, <1>7 DEF Sound, IndexesAgree, t

-----------------------------------------------------------------------------
(* The steps.                                                              *)

LEMMA InitIInv == Init => IInv
<1> SUFFICES ASSUME Init PROVE IInv
  OBVIOUS
<1>1. Types /\ OwnBefore /\ Subjects
  BY DEF Init, Types, OwnBefore, Subjects
<1>2. store = EmptyStore
  BY DEF Init
<1>3. EmptyStore \in Store
  BY DEF EmptyStore, Store
<1>4. \A a \in Approvals : ~HasPrompt(EmptyStore, a)
  BY DEF EmptyStore, HasPrompt
<1>5. IndexesAgree(EmptyStore)
  BY <1>4, StoreAssumption DEF IndexesAgree, EmptyStore
<1> QED
  BY <1>1, <1>2, <1>3, <1>4, <1>5 DEF IInv, Sound

\* The approval of a request or of a remote decision.
LEMMA IdForType == \A s \in Procs : IdFor(s) \in Approvals
BY MapsAssumption, NamesAssumption DEF Procs, IdFor

\* What the subjects of reactions and of the reaper are read from.
subjects == <<rpc, rid, reap, cut>>

\* A step that leaves the store and what the invariant says beside it alone.
LEMMA StoreKept ==
    ASSUME IInv, UNCHANGED <<now, store, before>>, Subjects' \/ UNCHANGED subjects
    PROVE  IInv'
BY DEF IInv, Types, OwnBefore, Subjects, subjects

\* A step that changes the store only.
LEMMA StoreChanged ==
    ASSUME IInv, Sound(store'), UNCHANGED <<now, before>>,
           Subjects' \/ UNCHANGED subjects
    PROVE  IInv'
BY DEF IInv, Types, OwnBefore, Subjects, subjects

\* Finalizing an approval, or not.
LEMMA FinalizeKeeps ==
    ASSUME IInv, NEW a \in Approvals, NEW d,
           Finalize(a, d) \/ UNCHANGED flowVars,
           UNCHANGED <<now, before>>, Subjects' \/ UNCHANGED subjects
    PROVE  IInv'
<1>1. Sound(store')
  BY DropPromptSound DEF IInv, Finalize, flowVars
<1> QED
  BY <1>1, StoreChanged

\* A request goes on from SendPrompt, and forgets the prompt it put aside.
LEMMA GoesOnKeeps ==
    ASSUME IInv, NEW r \in Requests, NEW to, GoesOn(r, to), Sound(store'),
           UNCHANGED <<now, subjects>>
    PROVE  IInv'
BY DEF IInv, Types, OwnBefore, Subjects, subjects, GoesOn

LEMMA RequestIInv ==
    ASSUME IInv, NEW r \in Requests,
           Register(r) \/ RequestStep(r) \/ WaitCancelled(r) \/ Abandon(r)
    PROVE  IInv'
<1> USE DEF procVars, promptVars, reactVars, reapVars, subjects
<1>a. IdOf[r] \in Approvals
  BY MapsAssumption
<1>1. CASE Register(r)
  BY <1>1, GoesOnKeeps DEF Register, IInv
<1>2. CASE PromptRegister(r)
  <2> DEFINE reg == [msg |-> None, target |-> TargetOf[r], version |-> 0,
                     expires |-> PromptExpiry(r), serial |-> 0]
  <2>1. reg \in Prompt
    <3>1. now \in Nat
      BY NumbersAssumption DEF IInv, Types
    <3> QED
      BY <3>1, MapsAssumption, Expiries DEF Prompt
  <2>2. Sound(store')
    BY <1>2, <2>1, <1>a, RegisterPromptSound DEF PromptRegister, IInv
  <2>3. before' = [before EXCEPT ![r] = store.prompt[IdOf[r]]]
    BY <1>2 DEF PromptRegister
  <2>4. store.prompt[IdOf[r]] \in Prompt \cup {None}
    BY <1>a DEF IInv, Sound, Store
  <2>5. Types' /\ OwnBefore'
    BY <1>2, <2>3, <2>4, <1>a
       DEF PromptRegister, IInv, Types, OwnBefore, Sound, HasPrompt
  <2>6. Subjects'
    BY <1>2 DEF PromptRegister, IInv, Subjects
  <2> QED
    BY <2>2, <2>5, <2>6 DEF IInv
<1>3. CASE PromptSkip(r)
  BY <1>3, StoreKept DEF PromptSkip, flowVars
<1>4. CASE PromptSend(r)
  BY <1>4, StoreKept DEF PromptSend, flowVars
<1>b. Sound(RestorePrompt(store, IdOf[r], before[r]))
  BY <1>a, RestorePromptSound DEF IInv, Types, OwnBefore
<1>5. CASE PromptSendFails(r)
  BY <1>5, <1>b, GoesOnKeeps DEF PromptSendFails
<1>6. CASE PromptBind(r)
  <2>1. CASE HasPrompt(store, IdOf[r])
    BY <1>6, <2>1, <1>a, BindPromptSound, StoreChanged DEF PromptBind, IInv
  <2>2. CASE ~HasPrompt(store, IdOf[r])
    BY <1>6, <2>2, <1>b, GoesOnKeeps DEF PromptBind
  <2> QED
    BY <2>1, <2>2
<1>7. CASE PromptSchedule(r)
  <2>1. Sound(store')
    BY <1>7, <1>a, DropPromptSound
       DEF PromptSchedule, FinishTimedOut, Finalize, flowVars, IInv
  <2> QED
    BY <1>7, <2>1, GoesOnKeeps DEF PromptSchedule
<1>8. CASE Get(r)
  BY <1>8, StoreKept DEF Get, flowVars
<1>9. CASE WaitUnknown(r)
  BY <1>9, StoreKept DEF WaitUnknown, flowVars
<1>10. CASE WaitBegin(r)
  BY <1>10, StoreKept DEF WaitBegin, flowVars
<1>11. CASE WaitTake(r)
  BY <1>11, StoreKept DEF WaitTake, flowVars
<1>12. CASE WaitTimer(r)
  BY <1>12, StoreKept DEF WaitTimer, flowVars
<1>13. CASE WaitTimedOut(r)
  BY <1>13, <1>a, FinalizeKeeps DEF WaitTimedOut, FinishTimedOut
<1>14. CASE WaitCancelled(r)
  BY <1>14, StoreKept DEF WaitCancelled, flowVars
<1>15. CASE Abandon(r)
  BY <1>15, StoreKept DEF Abandon, flowVars
<1> QED
  BY <1>1, <1>2, <1>3, <1>4, <1>5, <1>6, <1>7, <1>8, <1>9, <1>10, <1>11, <1>12,
     <1>13, <1>14, <1>15 DEF RequestStep

LEMMA ResolveIInv ==
    ASSUME IInv, NEW s \in Procs, ResolveStep(s)
    PROVE  IInv'
<1> USE DEF promptVars, reactVars, reapVars, subjects
<1>1. CASE ResolveLookup(s)
  BY <1>1, StoreKept DEF ResolveLookup, flowVars
<1>2. CASE ResolveExpired(s)
  BY <1>2, IdForType, FinalizeKeeps DEF ResolveExpired, FinishTimedOut
<1>3. CASE ResolvePut(s)
  BY <1>3, StoreKept DEF ResolvePut
<1>4. CASE ResolveClose(s)
  BY <1>4, StoreKept DEF ResolveClose
<1>5. CASE Finish(s)
  BY <1>5, IdForType, FinalizeKeeps DEF Finish
<1> QED
  BY <1>1, <1>2, <1>3, <1>4, <1>5 DEF ResolveStep

LEMMA RemoteIInv ==
    ASSUME IInv, NEW a \in Approvals,
           RemoteDecides(a) \/ RemoteResolved(a) \/ RemoteUnlisted(a)
    PROVE  IInv'
<1> USE DEF procVars, promptVars, reactVars, reapVars, subjects
<1>1. CASE RemoteDecides(a)
  BY <1>1, StoreKept DEF RemoteDecides, flowVars
<1>2. CASE RemoteResolved(a)
  BY <1>2, FinalizeKeeps DEF RemoteResolved
<1>3. CASE RemoteUnlisted(a)
  BY <1>3, StoreKept DEF RemoteUnlisted, flowVars
<1> QED
  BY <1>1, <1>2, <1>3

LEMMA ReactIInv ==
    ASSUME IInv,
           ReactStep \/ \E p \in Places \cup {None}, d \in Answers : React(p, d)
    PROVE  IInv'
<1> USE DEF procVars, promptVars, reapVars, subjects
<1>a. ReactEnds /\ UNCHANGED <<reap, cut>> => Subjects'
  BY DEF IInv, ReactEnds, Subjects
<1>1. ASSUME NEW p \in Places \cup {None}, NEW d \in Answers, React(p, d)
      PROVE  IInv'
  <2>1. Found(p) # None => Found(p) \in Approvals
    BY DEF Found, IInv, Sound, Store
  <2>2. Subjects'
    BY <1>1, <2>1 DEF React, ReactKnown, ReactMiss, IInv, Subjects
  <2> QED
    BY <1>1, <2>2, StoreKept DEF React, flowVars
<1>2. CASE ReactSettled
  <2>1. Subjects'
    BY <1>2, <1>a DEF ReactSettled, IInv, Subjects
  <2> QED
    BY <1>2, <2>1, StoreKept DEF ReactSettled, flowVars
<1>3. CASE ReactFallback
  <2>1. Stale(rnow) \subseteq Approvals /\ Fallback(rnow) \subseteq Approvals
    BY DEF Stale, Fallback, Live
  <2>2. Sound(store')
    BY <1>3, <2>1, DropAllSound DEF ReactFallback, IInv
  <2>3. Subjects'
    BY <1>3, <2>1, <1>a DEF ReactFallback, IInv, Subjects
  <2> QED
    BY <1>3, <2>2, <2>3, StoreChanged DEF ReactFallback
<1>4. CASE ReactDrop
  <2>1. Sound(store')
    BY <1>4, DropPromptSound DEF ReactDrop, IInv, Subjects
  <2> QED
    BY <1>4, <2>1, <1>a, StoreChanged DEF ReactDrop
<1>5. CASE ReactLookup
  <2>1. Subjects'
    BY <1>5, <1>a DEF ReactLookup, IInv, Subjects
  <2> QED
    BY <1>5, <2>1, StoreKept DEF ReactLookup, flowVars
<1>6. CASE ReactExpired
  BY <1>6, <1>a, FinalizeKeeps DEF ReactExpired, FinishTimedOut, IInv, Subjects
<1>7. CASE ReactPut
  <2>1. Subjects'
    BY <1>7, <1>a DEF ReactPut, IInv, Subjects
  <2> QED
    BY <1>7, <2>1, StoreKept DEF ReactPut, flowVars
<1>8. CASE ReactDeliver
  <2>1. Subjects'
    BY <1>8, <1>a DEF ReactDeliver, IInv, Subjects
  <2> QED
    BY <1>8, <2>1, StoreKept DEF ReactDeliver, flowVars
<1>9. CASE ReactFinish
  BY <1>9, <1>a, FinalizeKeeps DEF ReactFinish, IInv, Subjects
<1> QED
  BY <1>1, <1>2, <1>3, <1>4, <1>5, <1>6, <1>7, <1>8, <1>9 DEF ReactStep

LEMMA ReapIInv ==
    ASSUME IInv, ReapStep
    PROVE  IInv'
<1> USE DEF procVars, promptVars, reactVars, subjects
<1>1. CASE ReapScan
  <2>1. Sound(store')
    BY <1>1, DropAllSound DEF ReapScan, Orphans, IInv
  <2>2. Subjects'
    BY <1>1 DEF ReapScan, Candidates, IInv, Subjects
  <2> QED
    BY <1>1, <2>1, <2>2, StoreChanged DEF ReapScan
<1>2. ASSUME NEW c \in reap, ReapCheck(c)
      PROVE  IInv'
  <2>1. c.id \in Approvals /\ (cut' # NoCut => cut'.id = c.id)
    BY <1>2 DEF ReapCheck, IInv, Subjects
  <2>2. Subjects'
    BY <1>2, <2>1 DEF ReapCheck, IInv, Subjects
  <2> QED
    BY <1>2, <2>2, StoreKept DEF ReapCheck, flowVars
<1>3. CASE ReapFinish
  <2>1. cut.id \in Approvals
    BY <1>3 DEF ReapFinish, IInv, Subjects
  <2>2. Subjects'
    BY <1>3 DEF ReapFinish, IInv, Subjects
  <2> QED
    BY <1>3, <2>1, <2>2, FinalizeKeeps DEF ReapFinish, FinishTimedOut
<1> QED
  BY <1>1, <1>2, <1>3 DEF ReapStep

\* Every step preserves the invariant.
LEMMA NextIInv == IInv /\ [Next]_vars => IInv'
<1> SUFFICES ASSUME IInv, [Next]_vars PROVE IInv'
  OBVIOUS
<1>1. CASE Tick
  <2>1. now' \in Nat
    BY <1>1 DEF Tick, IInv, Types
  <2> QED
    BY <1>1, <2>1
       DEF Tick, IInv, Types, OwnBefore, Subjects, procVars, promptVars, reactVars, reapVars
<1>2. CASE UNCHANGED vars
  BY <1>2, StoreKept DEF vars, procVars, promptVars, reactVars, reapVars, subjects
<1> QED
  BY <1>1, <1>2, RequestIInv, ResolveIInv, RemoteIInv, ReactIInv, ReapIInv DEF Next

\* In every reachable state the store is well formed, its indexes agree, and
\* every message belongs to a request for the approval it leads to.
THEOREM SpecIInv == Spec => []IInv
<1>1. IInv /\ [Next]_vars => IInv'
  BY NextIInv
<1> QED
  BY InitIInv, <1>1, PTL DEF Spec

\* However prompts are replaced, restored, bound, dropped and expired, no
\* reaction is attributed to the wrong approval.
THEOREM SpecStoreIndexed == Spec => []StoreIndexed
<1>1. IInv => StoreIndexed
  BY DEF IInv, Sound, StoreIndexed
<1> QED
  BY SpecIInv, <1>1, PTL

-----------------------------------------------------------------------------
(***************************************************************************)
(* ApprovalFlow implements OneVerdict: a prompt message is edited to one   *)
(* verdict at most.                                                        *)
(*                                                                         *)
(* A message can be edited while a prompt registered in the store has it,  *)
(* and may come to be in the store again while a request holds the prompt  *)
(* it replaced, to restore it.  The invariant says that a message is in    *)
(* one of these places at most, that one which was edited is in none, and  *)
(* that one which was not bound yet is in none either.                     *)
(***************************************************************************)

\* The request may still bind its message.
UnboundPcs == {"new", "prompt", "send", "bind"}
Unbound(r) == pc[r] \in UnboundPcs

\* The prompt of message m is registered.
InStore(m) == \E a \in Approvals : HasPrompt(store, a) /\ store.prompt[a].msg = m

\* Request r may restore the prompt of message m.
Aside(m, r) == pc[r] \in {"send", "bind"} /\ before[r] # None /\ before[r].msg = m

Functions == pc = [s \in Procs |-> pc[s]] /\ edits = [m \in Requests |-> edits[m]]

InOnePlace ==
    \A m, r, q \in Requests :
        /\ ~(InStore(m) /\ Aside(m, r))
        /\ Aside(m, r) /\ Aside(m, q) => r = q

InNoPlace(m) == ~InStore(m) /\ \A r \in Requests : ~Aside(m, r)

ShownIsOver    == \A m \in Requests : edits[m] # {} => InNoPlace(m)
UnboundIsFresh == \A m \in Requests : Unbound(m) => edits[m] = {} /\ InNoPlace(m)

VInv == Functions /\ InOnePlace /\ ShownIsOver /\ UnboundIsFresh

\* A step that brings no prompt into anybody's hands.
Calm ==
    /\ pc' = [s \in Procs |-> pc'[s]]
    /\ \A r \in Requests :
          /\ Unbound(r)' => Unbound(r)
          /\ \A m \in Requests : Aside(m, r)' => Aside(m, r)

\* ... nor into the store.
StoreShrinks == \A m \in Requests : InStore(m)' => InStore(m)

LEMMA CalmStays == VInv /\ UNCHANGED <<pc, before>> => Calm
BY DEF Calm, VInv, Functions, Unbound, Aside

LEMMA CalmMove ==
    ASSUME VInv, UNCHANGED before, NEW s \in Procs, NEW c, c \notin UnboundPcs, Goes(s, c)
    PROVE  Calm
BY DEF Calm, VInv, Functions, Unbound, Aside, Goes, UnboundPcs, Procs

LEMMA CalmGoesOn ==
    ASSUME IInv, VInv, NEW r \in Requests, NEW to, GoesOn(r, to),
           to \cap {"send", "bind"} = {}, to \cap UnboundPcs = {} \/ Unbound(r)
    PROVE  Calm
BY DEF Calm, IInv, Types, VInv, Functions, Unbound, Aside, GoesOn, Goes, UnboundPcs, Procs

LEMMA StoreStays == UNCHANGED store => StoreShrinks
BY DEF StoreShrinks, InStore, HasPrompt

LEMMA DropShrinks ==
    ASSUME Sound(store), NEW a \in Approvals, store' = DropPrompt(store, a)
    PROVE  /\ store'.prompt = [store.prompt EXCEPT ![a] = None]
           /\ StoreShrinks
<1>1. store'.prompt = [store.prompt EXCEPT ![a] = None] /\ store \in Store
  BY DropPromptAgrees DEF Sound
<1> QED
  BY <1>1 DEF StoreShrinks, InStore, HasPrompt, Store

LEMMA DropAllShrinks ==
    ASSUME NEW gone, store' = DropAll(gone)
    PROVE  StoreShrinks
BY DEF StoreShrinks, InStore, HasPrompt, DropAll

\* Most steps: the places only lose messages and nothing is edited.
LEMMA QuietStep ==
    ASSUME VInv, Calm, StoreShrinks, UNCHANGED edits
    PROVE  VInv' /\ [Verdict!Next]_edits
<1>1. \A m \in Requests : InNoPlace(m) => InNoPlace(m)'
  BY DEF InNoPlace, Calm, StoreShrinks
<1> QED
  BY <1>1 DEF VInv, Functions, InOnePlace, ShownIsOver, UnboundIsFresh, Calm, StoreShrinks

\* A step that finalizes an approval: its prompt, if it has one, shows the
\* verdict and is in no place any more.
LEMMA FinalizeStep ==
    ASSUME IInv, VInv, Calm, NEW a \in Approvals, NEW d, Finalize(a, d)
    PROVE  VInv' /\ [Verdict!Next]_edits
<1> DEFINE p == store.prompt[a]
<1>1. StoreShrinks /\ store'.prompt = [store.prompt EXCEPT ![a] = None]
  BY DropShrinks DEF Finalize, IInv
<1>2. HasPrompt(store, a) => p.target \notin Requests
  BY StoreAssumption, NamesAssumption DEF IInv, Sound, Store, Prompt, HasPrompt
<1>3. ASSUME NEW m \in Requests, HasPrompt(store, a), p.msg = m, d \in Decisions
      PROVE  VInv' /\ [Verdict!Next]_edits
  <2>1. edits' = [edits EXCEPT ![m] = edits[m] \cup {d}]
    BY <1>2, <1>3 DEF Finalize, VInv, Functions
  <2>2. InStore(m)
    BY <1>3 DEF InStore
  <2>3. edits[m] = {} /\ ~Unbound(m) /\ \A r \in Requests : ~Aside(m, r)
    BY <2>2 DEF VInv, ShownIsOver, UnboundIsFresh, InOnePlace, InNoPlace
  <2>4. InNoPlace(m)'
    <3>1. \A b \in Approvals \ {a} : HasPrompt(store, b) => store.prompt[b].msg # m
      BY <1>3, StoreAssumption DEF IInv, Sound
    <3>2. ~InStore(m)'
      BY <1>1, <3>1 DEF InStore, HasPrompt, IInv, Sound, Store
    <3> QED
      BY <2>3, <3>2 DEF InNoPlace, Calm
  <2>5. \A n \in Requests : InNoPlace(n) => InNoPlace(n)'
    BY <1>1 DEF InNoPlace, Calm, StoreShrinks
  <2>6. \A n \in Requests : n # m => edits'[n] = edits[n]
    BY <2>1 DEF VInv, Functions
  <2>7. Functions'
    BY <2>1 DEF Calm, VInv, Functions
  <2>8. InOnePlace'
    BY <1>1 DEF Calm, StoreShrinks, VInv, InOnePlace
  <2>9. ShownIsOver'
    BY <2>4, <2>5, <2>6 DEF VInv, ShownIsOver
  <2>10. UnboundIsFresh'
    BY <2>3, <2>5, <2>6 DEF VInv, UnboundIsFresh, Calm
  <2>11. Verdict!Show(m, d)
    BY <2>1, <2>3 DEF Verdict!Show
  <2> QED
    BY <1>3, <2>7, <2>8, <2>9, <2>10, <2>11 DEF VInv, Verdict!Next
<1>4. CASE ~(HasPrompt(store, a) /\ p.msg \in Requests /\ d \in Decisions)
  <2>1. UNCHANGED edits
    BY <1>2, <1>4 DEF Finalize, VInv, Functions
  <2> QED
    BY <1>1, <2>1, QuietStep
<1> QED
  BY <1>3, <1>4

\* The prompt of a request is restored: it goes from one place to another.
LEMMA RestoreStep ==
    ASSUME IInv, VInv, NEW r \in Requests, NEW to, GoesOn(r, to), to \cap UnboundPcs = {},
           pc[r] \in {"send", "bind"},
           store' = RestorePrompt(store, IdOf[r], before[r]), UNCHANGED edits
    PROVE  VInv' /\ [Verdict!Next]_edits
<1> DEFINE a == IdOf[r]
<1>1. a \in Approvals /\ before[r] \in Prompt \cup {None}
  BY MapsAssumption DEF IInv, Types
<1>2. Calm
  BY CalmGoesOn DEF UnboundPcs
<1>3. \A m \in Requests : ~Aside(m, r)'
  BY DEF GoesOn, Goes, Aside, UnboundPcs, VInv, Functions, Procs
<1>4. CASE before[r] = None
  BY <1>1, <1>2, <1>4, DropShrinks, QuietStep DEF RestorePrompt, IInv
<1>5. CASE before[r] # None
  <2>1. Sound(DropPrompt(store, a))
    BY <1>1, DropPromptSound DEF IInv
  <2>2. FreeFor(DropPrompt(store, a), a, before[r].msg)
    BY <2>1, <1>5 DEF Sound, FreeFor, IInv, OwnBefore
  <2>3. /\ store'.prompt[a].msg = before[r].msg
        /\ \A b \in Approvals \ {a} : store'.prompt[b] = DropPrompt(store, a).prompt[b]
    BY <1>1, <1>5, <2>1, <2>2, RegisterPromptAgrees DEF RestorePrompt, Sound
  <2>4. \A b \in Approvals \ {a} : store'.prompt[b] = store.prompt[b]
    <3>1. /\ DropPrompt(store, a).prompt = [store.prompt EXCEPT ![a] = None]
          /\ store \in Store
      BY <1>1, DropPromptAgrees DEF IInv, Sound
    <3> QED
      BY <2>3, <3>1 DEF Store
  <2>5. \A m \in Requests : InStore(m)' => InStore(m) \/ Aside(m, r)
    BY <1>5, <2>3, <2>4 DEF InStore, HasPrompt, Aside
  <2>6. \A m \in Requests : InNoPlace(m) => InNoPlace(m)'
    BY <2>5, <1>2 DEF InNoPlace, Calm
  <2>7. InOnePlace'
    BY <2>5, <1>2, <1>3 DEF Calm, VInv, InOnePlace
  <2> QED
    BY <2>6, <2>7, <1>2 DEF Calm, VInv, Functions, ShownIsOver, UnboundIsFresh
<1> QED
  BY <1>4, <1>5

\* SendPrompt puts the prompt it replaces aside.
LEMMA RegisterStep ==
    ASSUME IInv, VInv, NEW r \in Requests, PromptRegister(r)
    PROVE  VInv' /\ [Verdict!Next]_edits
<1> DEFINE a == IdOf[r]
           reg == [msg |-> None, target |-> TargetOf[r], version |-> 0,
                   expires |-> PromptExpiry(r), serial |-> 0]
<1>1. a \in Approvals /\ r \in Procs
  BY MapsAssumption DEF Procs
<1>2. reg \in Prompt /\ reg.msg = None
  <2>1. now \in Nat
    BY NumbersAssumption DEF IInv, Types
  <2> QED
    BY <2>1, MapsAssumption, Expiries DEF Prompt
<1>3. /\ store'.prompt[a].msg = None
      /\ \A b \in Approvals \ {a} : store'.prompt[b] = store.prompt[b]
  BY <1>1, <1>2, RegisterPromptAgrees DEF PromptRegister, IInv, Sound, FreeFor
<1>4. /\ pc[r] = "prompt" /\ pc' = [pc EXCEPT ![r] = "send"]
      /\ before' = [before EXCEPT ![r] = store.prompt[a]]
      /\ UNCHANGED edits
  BY DEF PromptRegister, Goes
<1>5. \A m \in Requests : InStore(m)' =>
         \E b \in Approvals \ {a} : HasPrompt(store, b) /\ store.prompt[b].msg = m
  BY <1>3, StoreAssumption DEF InStore, HasPrompt
<1>6. \A m \in Requests : Aside(m, r)' => HasPrompt(store, a) /\ store.prompt[a].msg = m
  BY <1>1, <1>4 DEF Aside, HasPrompt, IInv, Types
<1>7. \A m, q \in Requests : q # r => (Aside(m, q)' => Aside(m, q))
  BY <1>4 DEF Aside, VInv, Functions, IInv, Types
<1>8. \A q \in Requests : Unbound(q)' => Unbound(q)
  BY <1>4 DEF Unbound, UnboundPcs, VInv, Functions
<1>9. \A m \in Requests : InStore(m)' => InStore(m)
  BY <1>5 DEF InStore
<1>10. \A m \in Requests : InNoPlace(m) => InNoPlace(m)'
  BY <1>1, <1>6, <1>7, <1>9 DEF InNoPlace, InStore
<1>11. InOnePlace'
  <2> SUFFICES ASSUME NEW m \in Requests, NEW u \in Requests, NEW q \in Requests
               PROVE  /\ ~(InStore(m)' /\ Aside(m, u)')
                      /\ Aside(m, u)' /\ Aside(m, q)' => u = q
    BY DEF InOnePlace
  <2>1. Aside(m, r)' => InStore(m)
    BY <1>1, <1>6 DEF InStore
  <2>2. ~(InStore(m)' /\ Aside(m, r)')
    BY <1>1, <1>5, <1>6, StoreAssumption DEF IInv, Sound
  <2> QED
    BY <2>1, <2>2, <1>7, <1>9 DEF VInv, InOnePlace
<1>12. Functions'
  BY <1>4 DEF VInv, Functions
<1> QED
  BY <1>4, <1>8, <1>10, <1>11, <1>12 DEF VInv, ShownIsOver, UnboundIsFresh

\* The message of a request comes to be in the store.
LEMMA BindStep ==
    ASSUME IInv, VInv, NEW r \in Requests, PromptBind(r), HasPrompt(store, IdOf[r])
    PROVE  VInv' /\ [Verdict!Next]_edits
<1> DEFINE a == IdOf[r]
<1>1. a \in Approvals /\ r \in Procs
  BY MapsAssumption DEF Procs
<1>2. /\ pc[r] = "bind" /\ Goes(r, "schedule") /\ UNCHANGED <<before, edits>>
      /\ store' = BindPrompt(store, a, r)
  BY DEF PromptBind
<1>3. /\ store'.prompt[a].msg = r
      /\ \A b \in Approvals \ {a} : store'.prompt[b] = store.prompt[b]
  BY <1>1, <1>2, BindPromptAgrees, StoreAssumption DEF IInv, Sound, FreeFor
<1>4. Calm
  BY <1>1, <1>2, CalmMove DEF UnboundPcs
<1>5. \A m \in Requests : InStore(m)' => InStore(m) \/ m = r
  BY <1>3 DEF InStore, HasPrompt
<1>6. InNoPlace(r) /\ edits[r] = {} /\ ~Unbound(r)'
  BY <1>1, <1>2 DEF VInv, UnboundIsFresh, Unbound, UnboundPcs, Goes, Functions
<1>7. \A m \in Requests : m # r /\ InNoPlace(m) => InNoPlace(m)'
  BY <1>4, <1>5 DEF InNoPlace, Calm
<1>8. InOnePlace'
  BY <1>4, <1>5, <1>6 DEF VInv, InOnePlace, InNoPlace, Calm
<1> QED
  BY <1>2, <1>4, <1>6, <1>7, <1>8 DEF VInv, Functions, ShownIsOver, UnboundIsFresh, Calm

-----------------------------------------------------------------------------
(* Every step.                                                             *)

LEMMA InitVInv == Init => VInv /\ Verdict!Init
<1> SUFFICES ASSUME Init PROVE VInv /\ Verdict!Init
  OBVIOUS
<1>1. \A m \in Requests : InNoPlace(m)
  BY DEF Init, InNoPlace, InStore, HasPrompt, EmptyStore, Aside
<1>2. Functions /\ \A m \in Requests : edits[m] = {}
  BY DEF Init, Functions
<1>3. InOnePlace
  BY <1>1 DEF InNoPlace, InOnePlace
<1> QED
  BY <1>1, <1>2, <1>3 DEF VInv, ShownIsOver, UnboundIsFresh, Verdict!Init, Init

\* Handlers that only move on, or that touch no prompt at all.
LEMMA MoveStep ==
    ASSUME VInv, NEW s \in Procs, NEW c, c \notin UnboundPcs, Goes(s, c),
           UNCHANGED <<before, store, edits>>
    PROVE  VInv' /\ [Verdict!Next]_edits
BY CalmMove, StoreStays, QuietStep

LEMMA StayStep ==
    ASSUME VInv, UNCHANGED <<pc, before, edits>>, StoreShrinks
    PROVE  VInv' /\ [Verdict!Next]_edits
BY CalmStays, QuietStep

LEMMA PromptVInv ==
    ASSUME IInv, VInv, NEW r \in Requests,
           \/ Register(r) \/ PromptRegister(r) \/ PromptSkip(r) \/ PromptSend(r)
           \/ PromptSendFails(r) \/ PromptBind(r) \/ PromptSchedule(r)
    PROVE  VInv' /\ [Verdict!Next]_edits
<1> USE DEF procVars, promptVars, flowVars
<1>a. r \in Procs /\ IdOf[r] \in Approvals
  BY MapsAssumption DEF Procs
<1>b. AfterPrompt \subseteq {"done", "get", "wait", "lookup"}
  BY ClientAssumption DEF AfterPrompt
<1>c. AfterPrompt \cap UnboundPcs = {}
  BY <1>b DEF UnboundPcs
<1>1. CASE Register(r)
  <2>1. PICK created \in BOOLEAN : GoesOn(r, AfterRegister(created))
    BY <1>1 DEF Register
  <2>2. AfterRegister(created) \subseteq {"prompt", "lookup", "done", "get"}
    BY ClientAssumption DEF AfterRegister
  <2>3. Unbound(r) /\ UNCHANGED <<store, edits>>
    BY <1>1 DEF Register, Unbound, UnboundPcs
  <2>4. Calm
    BY <2>1, <2>2, <2>3, CalmGoesOn
  <2> QED
    BY <2>3, <2>4, StoreStays, QuietStep
<1>2. CASE PromptRegister(r)
  BY <1>2, RegisterStep
<1>3. CASE PromptSkip(r)
  BY <1>3, <1>a, MoveStep DEF PromptSkip, UnboundPcs
<1>4. CASE PromptSend(r)
  <2>1. Calm
    BY <1>4, <1>a DEF PromptSend, Calm, VInv, Functions, Unbound, Aside, Goes, UnboundPcs
  <2> QED
    BY <1>4, <2>1, StoreStays, QuietStep DEF PromptSend
<1>5. CASE PromptSendFails(r)
  BY <1>5, <1>c, RestoreStep DEF PromptSendFails
<1>6. CASE PromptBind(r)
  <2>1. CASE HasPrompt(store, IdOf[r])
    BY <1>6, <2>1, BindStep
  <2>2. CASE ~HasPrompt(store, IdOf[r])
    BY <1>6, <2>2, <1>c, RestoreStep DEF PromptBind
  <2> QED
    BY <2>1, <2>2
<1>7. CASE PromptSchedule(r)
  <2>1. Calm
    BY <1>7, <1>b, <1>c, CalmGoesOn DEF PromptSchedule
  <2>2. CASE FinishTimedOut(IdOf[r])
    BY <1>a, <2>1, <2>2, FinalizeStep DEF FinishTimedOut
  <2>3. CASE UNCHANGED flowVars
    BY <2>1, <2>3, StoreStays, QuietStep
  <2> QED
    BY <1>7, <2>2, <2>3 DEF PromptSchedule
<1> QED
  BY <1>1, <1>2, <1>3, <1>4, <1>5, <1>6, <1>7

LEMMA WaitVInv ==
    ASSUME IInv, VInv, NEW r \in Requests,
           \/ Get(r) \/ WaitUnknown(r) \/ WaitBegin(r) \/ WaitTake(r) \/ WaitTimer(r)
           \/ WaitTimedOut(r) \/ WaitCancelled(r) \/ Abandon(r)
    PROVE  VInv' /\ [Verdict!Next]_edits
<1> USE DEF procVars, promptVars, flowVars, UnboundPcs
<1>a. r \in Procs /\ IdOf[r] \in Approvals
  BY MapsAssumption DEF Procs
<1>1. CASE Get(r)
  BY <1>1, <1>a, MoveStep DEF Get
<1>2. CASE WaitUnknown(r)
  BY <1>2, <1>a, MoveStep DEF WaitUnknown
<1>3. CASE WaitBegin(r)
  BY <1>3, <1>a, MoveStep DEF WaitBegin
<1>4. CASE WaitTake(r)
  BY <1>4, <1>a, MoveStep DEF WaitTake, Takes
<1>5. CASE WaitTimer(r)
  BY <1>5, <1>a, MoveStep DEF WaitTimer
<1>6. CASE WaitTimedOut(r)
  BY <1>6, <1>a, CalmMove, FinalizeStep DEF WaitTimedOut, FinishTimedOut
<1>7. CASE WaitCancelled(r)
  BY <1>7, <1>a, MoveStep DEF WaitCancelled
<1>8. CASE Abandon(r)
  BY <1>8, <1>a, MoveStep DEF Abandon
<1> QED
  BY <1>1, <1>2, <1>3, <1>4, <1>5, <1>6, <1>7, <1>8

LEMMA ResolveVInv ==
    ASSUME IInv, VInv, NEW s \in Procs, ResolveStep(s)
    PROVE  VInv' /\ [Verdict!Next]_edits
<1> USE DEF promptVars, flowVars
<1>a. \A ok \in BOOLEAN : AfterResolve(s, ok) \notin UnboundPcs
  BY DEF AfterResolve, BeginWait, UnboundPcs
<1>b. \A c \in {"expired", "put", "close", "done"} : c \notin UnboundPcs
  BY DEF UnboundPcs
<1>1. CASE ResolveLookup(s)
  BY <1>1, <1>a, <1>b, MoveStep DEF ResolveLookup
<1>2. CASE ResolveExpired(s)
  BY <1>2, <1>a, IdForType, CalmMove, FinalizeStep DEF ResolveExpired, FinishTimedOut
<1>3. CASE ResolvePut(s)
  BY <1>3, <1>a, <1>b, MoveStep DEF ResolvePut
<1>4. CASE ResolveClose(s)
  BY <1>4, <1>a, MoveStep DEF ResolveClose
<1>5. CASE Finish(s)
  BY <1>5, <1>b, IdForType, CalmMove, FinalizeStep DEF Finish
<1> QED
  BY <1>1, <1>2, <1>3, <1>4, <1>5 DEF ResolveStep

LEMMA RemoteVInv ==
    ASSUME IInv, VInv, NEW a \in Approvals,
           RemoteDecides(a) \/ RemoteResolved(a) \/ RemoteUnlisted(a)
    PROVE  VInv' /\ [Verdict!Next]_edits
<1> USE DEF procVars, promptVars, flowVars
<1>a. a \in Procs /\ "lookup" \notin UnboundPcs /\ "done" \notin UnboundPcs
  BY DEF Procs, UnboundPcs
<1>1. CASE RemoteDecides(a)
  BY <1>1, StoreStays, StayStep DEF RemoteDecides
<1>2. CASE RemoteResolved(a)
  <2>1. CASE Goes(a, "lookup") /\ UNCHANGED flowVars
    BY <1>2, <1>a, <2>1, MoveStep DEF RemoteResolved
  <2>2. CASE Goes(a, "done") /\ Finalize(a, "dropped")
    BY <1>2, <1>a, <2>2, CalmMove, FinalizeStep DEF RemoteResolved
  <2> QED
    BY <1>2, <2>1, <2>2 DEF RemoteResolved
<1>3. CASE RemoteUnlisted(a)
  BY <1>3, <1>a, MoveStep DEF RemoteUnlisted
<1> QED
  BY <1>1, <1>2, <1>3

LEMMA ReactVInv ==
    ASSUME IInv, VInv,
           ReactStep \/ \E p \in Places \cup {None}, d \in Answers : React(p, d)
    PROVE  VInv' /\ [Verdict!Next]_edits
<1> USE DEF procVars, promptVars, flowVars
<1>1. CASE ReactFallback
  <2>1. StoreShrinks
    BY <1>1, DropAllShrinks DEF ReactFallback
  <2> QED
    BY <1>1, <2>1, StayStep DEF ReactFallback
<1>2. CASE ReactDrop
  <2>1. StoreShrinks
    BY <1>2, DropShrinks DEF ReactDrop, IInv, Subjects
  <2> QED
    BY <1>2, <2>1, StayStep DEF ReactDrop
<1>3. CASE ReactExpired
  BY <1>3, CalmStays, FinalizeStep DEF ReactExpired, FinishTimedOut, IInv, Subjects
<1>4. CASE ReactFinish
  BY <1>4, CalmStays, FinalizeStep DEF ReactFinish, IInv, Subjects
<1>5. CASE UNCHANGED <<pc, before, store, edits>>
  BY <1>5, StoreStays, StayStep
<1> QED
  BY <1>1, <1>2, <1>3, <1>4, <1>5
     DEF ReactStep, React, ReactSettled, ReactLookup, ReactPut, ReactDeliver

LEMMA ReapVInv ==
    ASSUME IInv, VInv, ReapStep
    PROVE  VInv' /\ [Verdict!Next]_edits
<1> USE DEF procVars, promptVars, flowVars
<1>1. CASE ReapScan
  <2>1. StoreShrinks
    BY <1>1, DropAllShrinks DEF ReapScan
  <2> QED
    BY <1>1, <2>1, StayStep DEF ReapScan
<1>2. ASSUME NEW c \in reap, ReapCheck(c)
      PROVE  VInv' /\ [Verdict!Next]_edits
  BY <1>2, StoreStays, StayStep DEF ReapCheck
<1>3. CASE ReapFinish
  <2>1. cut.id \in Approvals /\ UNCHANGED <<pc, before>>
    BY <1>3 DEF ReapFinish, IInv, Subjects
  <2>2. CASE FinishTimedOut(cut.id)
    BY <2>1, <2>2, CalmStays, FinalizeStep DEF FinishTimedOut
  <2>3. CASE UNCHANGED flowVars
    BY <2>1, <2>3, StoreStays, StayStep
  <2> QED
    BY <1>3, <2>2, <2>3 DEF ReapFinish
<1> QED
  BY <1>1, <1>2, <1>3 DEF ReapStep

\* Every step keeps messages in one place at most and shows one verdict of
\* one message, or none.
LEMMA NextVInv == IInv /\ VInv /\ [Next]_vars => VInv' /\ [Verdict!Next]_edits
<1> SUFFICES ASSUME IInv, VInv, [Next]_vars PROVE VInv' /\ [Verdict!Next]_edits
  OBVIOUS
<1>1. CASE Tick \/ UNCHANGED vars
  <2>1. UNCHANGED <<pc, before, store, edits>>
    BY <1>1 DEF Tick, vars, procVars, promptVars
  <2> QED
    BY <2>1, StoreStays, StayStep
<1> QED
  BY <1>1, PromptVInv, WaitVInv, ResolveVInv, RemoteVInv, ReactVInv, ReapVInv
     DEF Next, RequestStep

\* In every reachable state a message is in one place at most, and in none
\* before it is bound and after it was edited.
THEOREM SpecVInv == Spec => []VInv
<1>1. IInv /\ VInv /\ [Next]_vars => VInv'
  BY NextVInv
<1> QED
  BY InitVInv, SpecIInv, <1>1, PTL DEF Spec

\* ApprovalFlow implements OneVerdict: however reactions, remote decisions,
\* timeouts and the reaper race, a prompt message is edited once.
THEOREM SpecPromptsShowOneVerdict == Spec => PromptsShowOneVerdict
<1>1. IInv /\ VInv /\ [Next]_vars => [Verdict!Next]_edits
  BY NextVInv
<1> QED
  BY InitVInv, SpecIInv, SpecVInv, <1>1, PTL
     DEF Spec, PromptsShowOneVerdict, Verdict!Spec

-----------------------------------------------------------------------------
(***************************************************************************)
(* What a prompt shows is what the agent server decided, when the decision *)
(* is the server's: UpstreamAgrees.  A decision is shown by the handler of *)
(* the server's event, by that of a reaction the server has taken, or by   *)
(* nobody: the requests of these bridges do not wait.  The invariant says  *)
(* that both hold the decision of the server, which it never changes.      *)
(***************************************************************************)

CallbackPcs == {"new", "prompt", "send", "bind", "schedule", "done"}

RequestsDoNotWait == ~Waits => \A r \in Requests : pc[r] \in CallbackPcs

EventsAgree ==
    /\ dec = [s \in Procs |-> dec[s]]
    /\ \A a \in Approvals : dec[a] \in Answers => dec[a] = upstream[a]

ReactionAgrees ==
    /\ rpc # "idle" => rdec \in Answers
    /\ (~Waits /\ rpc = "finish") => rdec = upstream[rid]

UInv ==
    /\ pc = [s \in Procs |-> pc[s]]
    /\ upstream = [a \in Approvals |-> upstream[a]]
    /\ RequestsDoNotWait /\ EventsAgree /\ ReactionAgrees /\ UpstreamAgrees

LEMMA InitUInv == Init => UInv
<1> SUFFICES ASSUME Init PROVE UInv
  OBVIOUS
<1>1. RequestsDoNotWait
  BY DEF Init, RequestsDoNotWait, CallbackPcs, Procs
<1>2. EventsAgree
  <2>1. \A s \in Procs : dec[s] = None
    BY DEF Init
  <2>2. \A a \in Approvals : a \in Procs
    BY DEF Procs
  <2>3. \A a \in Approvals : upstream[a] = "open"
    BY DEF Init
  <2> QED
    BY <2>1, <2>2, <2>3, NoDecisionAssumption DEF Init, EventsAgree, Decisions
<1>3. ReactionAgrees /\ UpstreamAgrees
  BY DEF Init, ReactionAgrees, UpstreamAgrees
<1> QED
  BY <1>1, <1>2, <1>3 DEF Init, UInv

\* A handler moves on; it may come to hold a decision of the server.
LEMMA HandlerMoves ==
    ASSUME UInv, NEW s \in Procs, NEW c, Goes(s, c),
           s \in Requests => (Waits \/ c \in CallbackPcs),
           \/ UNCHANGED dec
           \/ \E d : /\ dec' = [dec EXCEPT ![s] = d]
                    /\ (s \in Approvals /\ d \in Answers => d = upstream[s]),
           UNCHANGED <<upstream, rpc, rid, rdec>>, UpstreamAgrees'
    PROVE  UInv'
<1>1. pc' = [pc EXCEPT ![s] = c]
  BY DEF Goes
<1>2. RequestsDoNotWait'
  BY <1>1 DEF UInv, RequestsDoNotWait, Procs, Waits
<1>3. EventsAgree'
  <2>1. CASE UNCHANGED dec
    BY <2>1 DEF UInv, EventsAgree
  <2>2. ASSUME NEW d, dec' = [dec EXCEPT ![s] = d],
               s \in Approvals /\ d \in Answers => d = upstream[s]
        PROVE  EventsAgree'
    BY <2>2 DEF UInv, EventsAgree, Procs
  <2> QED
    BY <2>1, <2>2
<1>4. ReactionAgrees'
  BY DEF UInv, ReactionAgrees, Waits
<1> QED
  BY <1>1, <1>2, <1>3, <1>4 DEF UInv

\* A step of no handler but that of a reaction.
LEMMA HandlersStay ==
    ASSUME UInv, UNCHANGED <<pc, dec, upstream>>, ReactionAgrees', UpstreamAgrees'
    PROVE  UInv'
BY DEF UInv, RequestsDoNotWait, EventsAgree, Waits

\* Nothing is shown.
LEMMA ShowsNothing ==
    ASSUME UInv, UNCHANGED <<upstream, edits>>
    PROVE  UpstreamAgrees'
BY DEF UInv, UpstreamAgrees, Waits

\* An approval is finalized with the decision of the server, or a timeout.
LEMMA FinalizeAgrees ==
    ASSUME IInv, UInv, NEW a \in Approvals, NEW d, Finalize(a, d), UNCHANGED upstream,
           (~Waits /\ d \in Answers) => d = upstream[a]
    PROVE  UpstreamAgrees'
<1> SUFFICES ASSUME NEW m \in Requests, ~Waits
             PROVE  edits'[m] \cap Answers \subseteq {upstream[IdOf[m]]}
  BY DEF UpstreamAgrees, Waits
<1> DEFINE p == store.prompt[a]
<1>1. HasPrompt(store, a) => p.target # m
  BY StoreAssumption, NamesAssumption DEF IInv, Sound, Store, Prompt, HasPrompt
<1>2. HasPrompt(store, a) /\ p.msg = m => IdOf[m] = a
  BY StoreAssumption DEF IInv, Sound
<1>3. edits[m] \cap Answers \subseteq {upstream[IdOf[m]]}
  BY DEF UInv, UpstreamAgrees
<1>4. CASE HasPrompt(store, a) /\ p.msg = m /\ d \in Decisions
  <2>1. edits'[m] = edits[m] \cup {d}
    BY <1>4 DEF Finalize
  <2> QED
    BY <2>1, <1>2, <1>3, <1>4
<1>5. CASE ~(HasPrompt(store, a) /\ p.msg = m /\ d \in Decisions)
  <2>1. edits'[m] = edits[m]
    BY <1>1, <1>5 DEF Finalize
  <2> QED
    BY <2>1, <1>3
<1> QED
  BY <1>4, <1>5

LEMMA NotAnswers == "timeout" \notin Answers /\ "dropped" \notin Answers
BY DEF Answers

LEMMA RequestUInv ==
    ASSUME IInv, UInv, NEW r \in Requests,
           Register(r) \/ RequestStep(r) \/ WaitCancelled(r) \/ Abandon(r)
    PROVE  UInv'
<1> USE DEF procVars, promptVars, reactVars, flowVars
<1>a. r \in Procs /\ r \notin Approvals /\ IdOf[r] \in Approvals
  BY MapsAssumption, NamesAssumption DEF Procs
<1>b. ~Waits => pc[r] \in CallbackPcs
  BY DEF UInv, RequestsDoNotWait
<1>c. ~Waits => pc[r] \notin {"get", "wait", "waiting", "timeout"}
  BY <1>b DEF CallbackPcs
<1>d. ~Waits => AfterPrompt = {"done"}
  BY DEF Waits, AfterPrompt
<1>e. \A to : GoesOn(r, to) =>
         \E c \in to : \E d : Goes(r, c) /\ dec' = [dec EXCEPT ![r] = d]
  BY DEF GoesOn
<1>f. ASSUME NEW to, GoesOn(r, to), ~Waits => to \subseteq CallbackPcs,
             UNCHANGED <<upstream, rpc, rid, rdec>>, UpstreamAgrees'
      PROVE  UInv'
  BY <1>a, <1>e, <1>f, HandlerMoves
<1>1. CASE Register(r)
  <2>1. PICK created \in BOOLEAN : GoesOn(r, AfterRegister(created))
    BY <1>1 DEF Register
  <2>2. ~Waits => AfterRegister(created) \subseteq CallbackPcs
    BY DEF Waits, AfterRegister, CallbackPcs
  <2> QED
    BY <1>1, <1>f, <2>1, <2>2, ShowsNothing DEF Register
<1>2. CASE PromptRegister(r)
  BY <1>2, <1>a, HandlerMoves, ShowsNothing DEF PromptRegister, CallbackPcs
<1>3. CASE PromptSkip(r)
  BY <1>3, <1>a, HandlerMoves, ShowsNothing DEF PromptSkip, CallbackPcs
<1>4. CASE PromptSend(r)
  BY <1>4, <1>a, HandlerMoves, ShowsNothing DEF PromptSend, CallbackPcs
<1>5. CASE PromptSendFails(r)
  BY <1>5, <1>d, <1>f, ShowsNothing DEF PromptSendFails, CallbackPcs
<1>6. CASE PromptBind(r)
  <2>1. CASE HasPrompt(store, IdOf[r])
    BY <1>6, <2>1, <1>a, HandlerMoves, ShowsNothing DEF PromptBind, CallbackPcs
  <2>2. CASE ~HasPrompt(store, IdOf[r])
    BY <1>6, <2>2, <1>d, <1>f, ShowsNothing DEF PromptBind, CallbackPcs
  <2> QED
    BY <2>1, <2>2
<1>7. CASE PromptSchedule(r)
  <2>1. UNCHANGED upstream
    BY <1>7 DEF PromptSchedule
  <2>2. UpstreamAgrees'
    BY <1>7, <1>a, <2>1, FinalizeAgrees, ShowsNothing, NotAnswers
       DEF PromptSchedule, FinishTimedOut
  <2> QED
    BY <1>7, <1>d, <1>f, <2>2 DEF PromptSchedule, CallbackPcs
<1>8. CASE Get(r) \/ WaitUnknown(r) \/ WaitTimer(r) \/ WaitCancelled(r) \/ Abandon(r)
  <2>1. Waits
    BY <1>8, <1>c DEF Get, WaitUnknown, WaitTimer, WaitCancelled, Abandon
  <2>2. \E c, d : Goes(r, c) /\ dec' = [dec EXCEPT ![r] = d]
    BY <1>8 DEF Get, WaitUnknown, WaitTimer, WaitCancelled, Abandon
  <2>3. UNCHANGED <<upstream, rpc, rid, rdec, edits>>
    BY <1>8 DEF Get, WaitUnknown, WaitTimer, WaitCancelled, Abandon
  <2> QED
    BY <2>1, <2>2, <2>3, <1>a, HandlerMoves, ShowsNothing
<1>9. CASE WaitBegin(r) \/ WaitTake(r)
  <2>1. Waits
    BY <1>9, <1>c DEF WaitBegin, WaitTake
  <2>2. \E c, d : Goes(r, c) /\ dec' = [dec EXCEPT ![r] = d]
    BY <1>9 DEF WaitBegin, WaitTake, Takes
  <2>3. UNCHANGED <<upstream, rpc, rid, rdec, edits>>
    BY <1>9 DEF WaitBegin, WaitTake
  <2> QED
    BY <2>1, <2>2, <2>3, <1>a, HandlerMoves, ShowsNothing
<1>10. CASE WaitTimedOut(r)
  <2>1. Waits /\ UNCHANGED upstream
    BY <1>10, <1>c DEF WaitTimedOut
  <2>2. UpstreamAgrees'
    BY <1>10, <1>a, <2>1, FinalizeAgrees, NotAnswers DEF WaitTimedOut, FinishTimedOut
  <2> QED
    BY <1>10, <1>a, <2>1, <2>2, HandlerMoves DEF WaitTimedOut
<1> QED
  BY <1>1, <1>2, <1>3, <1>4, <1>5, <1>6, <1>7, <1>8, <1>9, <1>10 DEF RequestStep

LEMMA ResolveUInv ==
    ASSUME IInv, UInv, NEW s \in Procs, ResolveStep(s)
    PROVE  UInv'
<1> USE DEF promptVars, reactVars, flowVars
<1>a. IdFor(s) \in Approvals
  BY IdForType
<1>b. s \in Requests => Waits
  BY DEF ResolveStep, ResolveLookup, ResolveExpired, ResolvePut, ResolveClose, Finish,
         UInv, RequestsDoNotWait, CallbackPcs
<1>1. CASE ResolveLookup(s)
  BY <1>1, <1>b, HandlerMoves, ShowsNothing DEF ResolveLookup
<1>2. CASE ResolveExpired(s)
  <2>1. UpstreamAgrees'
    BY <1>2, <1>a, FinalizeAgrees, NotAnswers DEF ResolveExpired, FinishTimedOut
  <2> QED
    BY <1>2, <1>b, <2>1, HandlerMoves DEF ResolveExpired
<1>3. CASE ResolvePut(s)
  <2>1. \E c : Goes(s, c)
    BY <1>3 DEF ResolvePut
  <2> QED
    BY <1>3, <1>b, <2>1, HandlerMoves, ShowsNothing DEF ResolvePut
<1>4. CASE ResolveClose(s)
  BY <1>4, <1>b, HandlerMoves, ShowsNothing DEF ResolveClose
<1>5. CASE Finish(s)
  <2>1. ~Waits => s \in Approvals /\ IdFor(s) = s
    BY <1>b DEF Procs, IdFor
  <2>2. (~Waits /\ dec[s] \in Answers) => dec[s] = upstream[IdFor(s)]
    BY <2>1 DEF UInv, EventsAgree
  <2>3. UpstreamAgrees'
    BY <1>5, <1>a, <2>2, FinalizeAgrees DEF Finish
  <2> QED
    BY <1>5, <1>b, <2>3, HandlerMoves DEF Finish
<1> QED
  BY <1>1, <1>2, <1>3, <1>4, <1>5 DEF ResolveStep

\* The server decides what it had not decided yet.
LEMMA ServerDecides ==
    ASSUME UInv, NEW a \in Approvals, NEW d, upstream[a] = "open",
           upstream' = [upstream EXCEPT ![a] = d], UNCHANGED <<pc, dec, edits>>,
           ReactionAgrees'
    PROVE  UInv'
<1>1. "open" \notin Answers
  BY DEF Answers
<1>2. \A b \in Approvals : b # a => upstream'[b] = upstream[b]
  BY DEF UInv
<1>3. EventsAgree'
  <2>1. dec[a] \notin Answers
    BY <1>1 DEF UInv, EventsAgree
  <2> QED
    BY <1>2, <2>1 DEF UInv, EventsAgree
<1>4. UpstreamAgrees'
  <2>1. \A m \in Requests : ~Waits /\ IdOf[m] = a => edits[m] \cap Answers = {}
    BY <1>1 DEF UInv, UpstreamAgrees
  <2> QED
    BY <1>2, <2>1, MapsAssumption DEF UInv, UpstreamAgrees, Waits
<1> QED
  BY <1>3, <1>4 DEF UInv, RequestsDoNotWait, Waits

LEMMA RemoteUInv ==
    ASSUME IInv, UInv, NEW a \in Approvals,
           RemoteDecides(a) \/ RemoteResolved(a) \/ RemoteUnlisted(a)
    PROVE  UInv'
<1> USE DEF procVars, promptVars, reactVars, flowVars
<1>a. a \in Procs /\ a \notin Requests
  BY NamesAssumption DEF Procs
<1>1. CASE RemoteDecides(a)
  <2>1. PICK d : upstream' = [upstream EXCEPT ![a] = d]
    BY <1>1 DEF RemoteDecides
  <2>2. upstream[a] = "open" /\ UNCHANGED <<pc, dec, edits, rpc, rid, rdec>>
    BY <1>1 DEF RemoteDecides
  <2>3. ReactionAgrees'
    <3>1. (~Waits /\ rpc = "finish") => rdec = upstream[rid] /\ rdec \in Answers
      BY DEF UInv, ReactionAgrees
    <3>2. "open" \notin Answers
      BY DEF Answers
    <3> QED
      BY <2>1, <2>2, <3>1, <3>2 DEF UInv, ReactionAgrees, Waits, IInv, Subjects
  <2> QED
    BY <2>1, <2>2, <2>3, ServerDecides
<1>2. CASE RemoteResolved(a)
  <2>1. dec' = [dec EXCEPT ![a] = upstream[a]] /\ UNCHANGED <<upstream, rpc, rid, rdec>>
    BY <1>2 DEF RemoteResolved
  <2>2. UpstreamAgrees'
    BY <1>2, <2>1, FinalizeAgrees, ShowsNothing, NotAnswers DEF RemoteResolved
  <2>3. \E c : Goes(a, c)
    BY <1>2 DEF RemoteResolved
  <2> QED
    BY <1>a, <2>1, <2>2, <2>3, HandlerMoves
<1>3. CASE RemoteUnlisted(a)
  BY <1>3, <1>a, HandlerMoves, ShowsNothing, NotAnswers DEF RemoteUnlisted
<1> QED
  BY <1>1, <1>2, <1>3

LEMMA ReactUInv ==
    ASSUME IInv, UInv,
           ReactStep \/ \E p \in Places \cup {None}, d \in Answers : React(p, d)
    PROVE  UInv'
<1> USE DEF procVars, promptVars, flowVars
<1>a. ReactEnds => ReactionAgrees'
  BY DEF ReactEnds, ReactionAgrees, Waits
<1>1. CASE \E p \in Places \cup {None}, d \in Answers : React(p, d)
  <2>1. ReactionAgrees'
    BY <1>1 DEF React, ReactKnown, ReactMiss, ReactionAgrees, Waits
  <2> QED
    BY <1>1, <2>1, HandlersStay, ShowsNothing DEF React
<1>2. CASE ReactSettled
  <2>1. ReactionAgrees'
    BY <1>2, <1>a DEF ReactSettled, UInv, ReactionAgrees, Waits
  <2> QED
    BY <1>2, <2>1, HandlersStay, ShowsNothing DEF ReactSettled
<1>3. CASE ReactFallback
  <2>1. ReactionAgrees'
    BY <1>3, <1>a DEF ReactFallback, UInv, ReactionAgrees, Waits
  <2> QED
    BY <1>3, <2>1, HandlersStay, ShowsNothing DEF ReactFallback
<1>4. CASE ReactDrop
  BY <1>4, <1>a, HandlersStay, ShowsNothing DEF ReactDrop
<1>5. CASE ReactLookup
  <2>1. ReactionAgrees'
    BY <1>5, <1>a DEF ReactLookup, UInv, ReactionAgrees, Waits
  <2> QED
    BY <1>5, <2>1, HandlersStay, ShowsNothing DEF ReactLookup
<1>6. CASE ReactExpired
  <2>1. UpstreamAgrees'
    BY <1>6, FinalizeAgrees, NotAnswers DEF ReactExpired, FinishTimedOut, IInv, Subjects
  <2> QED
    BY <1>6, <1>a, <2>1, HandlersStay DEF ReactExpired
<1>7. CASE ReactPut
  <2>1. ReactionAgrees'
    BY <1>7, <1>a DEF ReactPut, UInv, ReactionAgrees, Waits
  <2> QED
    BY <1>7, <2>1, HandlersStay, ShowsNothing DEF ReactPut
<1>8. CASE ReactDeliver
  <2>1. rid \in Approvals /\ rdec \in Answers /\ UNCHANGED <<pc, dec, edits>>
    BY <1>8 DEF ReactDeliver, IInv, Subjects, UInv, ReactionAgrees
  <2>2. PICK took, ok \in BOOLEAN :
           /\ took => upstream[rid] = "open"
           /\ ok => took
           /\ upstream' = [upstream EXCEPT ![rid] = IF took THEN rdec ELSE @]
           /\ IF ok THEN rpc' = "finish" /\ UNCHANGED <<rid, rdec>> ELSE ReactEnds
    BY <1>8 DEF ReactDeliver
  <2>3. ReactionAgrees'
    BY <1>a, <2>1, <2>2 DEF ReactionAgrees, UInv, Waits
  <2>4. CASE took
    BY <2>1, <2>2, <2>3, <2>4, ServerDecides
  <2>5. CASE ~took
    <3>1. UNCHANGED upstream
      BY <2>1, <2>2, <2>5 DEF UInv
    <3> QED
      BY <2>1, <2>3, <3>1, HandlersStay, ShowsNothing
  <2> QED
    BY <2>4, <2>5
<1>9. CASE ReactFinish
  <2>1. (~Waits /\ rdec \in Answers) => rdec = upstream[rid]
    BY <1>9 DEF ReactFinish, UInv, ReactionAgrees
  <2>2. UpstreamAgrees'
    BY <1>9, <2>1, FinalizeAgrees DEF ReactFinish, IInv, Subjects
  <2> QED
    BY <1>9, <1>a, <2>2, HandlersStay DEF ReactFinish
<1> QED
  BY <1>1, <1>2, <1>3, <1>4, <1>5, <1>6, <1>7, <1>8, <1>9 DEF ReactStep

LEMMA ReapUInv ==
    ASSUME IInv, UInv, ReapStep
    PROVE  UInv'
<1> USE DEF procVars, promptVars, reactVars, flowVars
<1>1. UNCHANGED <<pc, dec, upstream, rpc, rid, rdec>>
  BY DEF ReapStep, ReapScan, ReapCheck, ReapFinish
<1>2. UNCHANGED edits \/ (cut # NoCut /\ FinishTimedOut(cut.id))
  BY DEF ReapStep, ReapScan, ReapCheck, ReapFinish
<1>3. ReactionAgrees'
  BY <1>1 DEF UInv, ReactionAgrees, Waits
<1>4. UpstreamAgrees'
  BY <1>1, <1>2, FinalizeAgrees, ShowsNothing, NotAnswers
     DEF FinishTimedOut, IInv, Subjects
<1> QED
  BY <1>1, <1>3, <1>4, HandlersStay

LEMMA NextUInv == (IInv /\ UInv /\ [Next]_vars) => UInv'
<1> SUFFICES ASSUME IInv, UInv, [Next]_vars PROVE UInv'
  OBVIOUS
<1>1. CASE Tick \/ UNCHANGED vars
  <2>1. UNCHANGED <<pc, dec, upstream, edits, rpc, rid, rdec>>
    BY <1>1 DEF Tick, vars, procVars, reactVars
  <2> QED
    BY <2>1, HandlersStay, ShowsNothing DEF UInv, ReactionAgrees, Waits
<1> QED
  BY <1>1, RequestUInv, ResolveUInv, RemoteUInv, ReactUInv, ReapUInv DEF Next

\* In every reachable state the handlers of the events of the server, and that
\* of a reaction it has taken, hold what the server decided.
THEOREM SpecUInv == Spec => []UInv
<1>1. IInv /\ UInv /\ [Next]_vars => UInv'
  BY NextUInv
<1> QED
  BY InitUInv, SpecIInv, <1>1, PTL DEF Spec

\* Whatever reactions, other clients and failing deliveries do, a prompt shows
\* no answer but the one that the agent server decided.
THEOREM SpecUpstreamAgrees == Spec => []UpstreamAgrees
<1>1. UInv => UpstreamAgrees
  BY DEF UInv
<1> QED
  BY SpecUInv, <1>1, PTL

-----------------------------------------------------------------------------
(***************************************************************************)
(* Types, TypeOK.  What is more than a type in it is about pending         *)
(* approvals: a Pending marked as done is for an approval that got a       *)
(* decision.  Resolve marks whatever Pending the ID has after the channel  *)
(* of the one it looked up has taken the decision, so the invariant says   *)
(* that both are Pendings of one approval, and that a request which is yet *)
(* to register has left no trace.                                          *)
(***************************************************************************)

FlowTypes ==
    /\ now \in 0..MaxTime
    /\ pending \in [Approvals -> Requests \cup {None}]
    /\ expires \in [Requests -> Nat]
    /\ ch \in [Requests -> Decisions \cup {None}]
    /\ done \in [Requests -> BOOLEAN]
    /\ settled \in [Places -> Nat]
    /\ upstream \in [Approvals -> Answers \cup {"open", "gone"}]
    /\ sent \subseteq Requests
    /\ edits \in [Requests -> SUBSET Decisions]
    /\ ended \in [Requests -> Decisions \cup {None, "dropped"}]
    /\ accepted \in [Requests -> SUBSET Decisions]

PendingOwn ==
    \A r \in Requests, a \in Approvals :
        pending[a] = r => IdOf[r] = a /\ ended[r] = None /\ (done[r] => Decided(a))

NewIsFresh ==
    \A r \in Requests :
        pc[r] = "new" => ended[r] = None /\ ~done[r] /\ pending[IdOf[r]] # r

FlowOK == FlowTypes /\ PendingOwn /\ NewIsFresh

\* The handler carries a decision.
DecidingPcs == {"lookup", "expired", "put", "close", "finish", "timeout"}

ProcTypes ==
    /\ pc = [s \in Procs |-> pc[s]]
    /\ \A r \in Requests : pc[r] \in RequestPcs
    /\ \A a \in Approvals : pc[a] \in RemotePcs
    /\ held \in [Procs -> Requests \cup {None}]
    /\ dec \in [Procs -> Decisions \cup {None}]
    /\ promptEnd \in [Requests -> Nat]

HoldsOwn ==
    \A s \in Procs :
        /\ pc[s] = "put" => held[s] \in Requests /\ IdOf[held[s]] = IdFor(s)
        /\ pc[s] \in DecidingPcs => dec[s] \in Decisions
        /\ pc[s] = "close" => Decided(IdFor(s))

ProcOK == ProcTypes /\ HoldsOwn

ReactOK ==
    /\ rpc \in ReactPcs /\ rplace \in Places \cup {None} /\ rnow \in 0..MaxTime
    /\ rid \in Approvals \cup {None} /\ rdec \in Answers \cup {None}
    /\ rheld \in Requests \cup {None} /\ reactions \in 0..MaxReactions

ReapOK == reap \subseteq Candidate /\ cut \in [id : Approvals \cup {None}, version : Nat]

TypeInv == FlowOK /\ ProcOK /\ ReactOK /\ ReapOK

LEMMA InitTypeInv == Init => TypeInv
<1> SUFFICES ASSUME Init PROVE TypeInv
  OBVIOUS
<1>1. FlowTypes
  BY NumbersAssumption DEF Init, FlowTypes, Answers, Decisions
<1>2. PendingOwn
  BY StoreAssumption DEF Init, PendingOwn
<1>3. NewIsFresh
  BY StoreAssumption, MapsAssumption DEF Init, NewIsFresh
<1>4. /\ \A r \in Requests : r \in Procs /\ pc[r] = "new"
      /\ \A a \in Approvals : a \in Procs /\ pc[a] = "idle"
  BY NamesAssumption DEF Init, Procs
<1>5. ProcTypes
  BY <1>4 DEF Init, ProcTypes, RequestPcs, RemotePcs
<1>6. HoldsOwn
  BY <1>4 DEF HoldsOwn, DecidingPcs, Procs
<1>7. ReactOK
  BY NumbersAssumption DEF Init, ReactOK, ReactPcs
<1>8. ReapOK
  BY DEF Init, ReapOK, NoCut
<1> QED
  BY <1>1, <1>2, <1>3, <1>5, <1>6, <1>7, <1>8 DEF TypeInv, FlowOK, ProcOK

\* No channel forgets that it took a decision, no request begins anew.
Onward ==
    /\ \A q \in Requests : accepted[q] \subseteq accepted'[q]
    /\ \A q \in Requests : pc'[q] = "new" => pc[q] = "new"

LEMMA DecidedStays == \A a \in Approvals : Onward /\ Decided(a) => Decided(a)'
BY DEF Onward, Decided

\* A step that registers and finalizes nothing.
LEMMA FlowStays ==
    ASSUME FlowOK, Onward, UNCHANGED <<pending, done, ended>>, FlowTypes'
    PROVE  FlowOK'
<1>1. PendingOwn'
  BY DecidedStays DEF FlowOK, PendingOwn
<1>2. NewIsFresh'
  BY DEF FlowOK, NewIsFresh, Onward
<1> QED
  BY <1>1, <1>2 DEF FlowOK

\* The variables of the flow but those that Finalize changes.
restVars == <<now, expires, ch, upstream, sent, accepted>>

LEMMA FlowUnchanged ==
    ASSUME FlowOK, Onward, UNCHANGED <<restVars, pending, done, settled, edits, ended>>
    PROVE  FlowOK'
<1>1. FlowTypes'
  BY DEF FlowOK, FlowTypes, restVars
<1> QED
  BY <1>1, FlowStays

LEMMA FlowFinalized ==
    ASSUME IInv, FlowOK, Onward, UNCHANGED restVars, NEW a \in Approvals,
           NEW d \in Decisions \cup {"dropped"}, Finalize(a, d)
    PROVE  FlowOK'
<1> DEFINE shows(m) == HasPrompt(store, a) /\ m \in {store.prompt[a].msg, store.prompt[a].target}
                       /\ d \in Decisions
<1>1. /\ pending' = [pending EXCEPT ![a] = None]
      /\ done' = [r \in Requests |-> done[r] \/ pending[a] = r]
      /\ ended' = [r \in Requests |-> IF pending[a] = r THEN d ELSE ended[r]]
      /\ edits' = [m \in Requests |-> IF shows(m) THEN edits[m] \cup {d} ELSE edits[m]]
      /\ settled' = [m \in Places |->
                        IF shows(m) THEN store.prompt[a].expires ELSE settled[m]]
  BY DEF Finalize
<1>2. HasPrompt(store, a) => store.prompt[a].expires \in Nat
  BY DEF IInv, Sound, Store, Prompt, HasPrompt
<1>3. pending' \in [Approvals -> Requests \cup {None}]
  BY <1>1 DEF FlowOK, FlowTypes
<1>4. done' \in [Requests -> BOOLEAN]
  BY <1>1
<1>5. ended' \in [Requests -> Decisions \cup {None, "dropped"}]
  BY <1>1 DEF FlowOK, FlowTypes
<1>6. edits' \in [Requests -> SUBSET Decisions]
  <2>1. \A m \in Requests : edits[m] \subseteq Decisions
    BY DEF FlowOK, FlowTypes
  <2>2. \A m \in Requests : shows(m) => d \in Decisions
    OBVIOUS
  <2> HIDE DEF shows
  <2>3. \A m \in Requests :
           (IF shows(m) THEN edits[m] \cup {d} ELSE edits[m]) \in SUBSET Decisions
    BY <2>1, <2>2
  <2> QED
    BY <1>1, <2>3
<1>7. settled' \in [Places -> Nat]
  <2>1. \A m \in Places : shows(m) => store.prompt[a].expires \in Nat
    BY <1>2
  <2> HIDE DEF shows
  <2> QED
    BY <1>1, <2>1 DEF FlowOK, FlowTypes
<1>8. FlowTypes'
  BY <1>3, <1>4, <1>5, <1>6, <1>7 DEF FlowOK, FlowTypes, restVars
<1>9. PendingOwn'
  <2> SUFFICES ASSUME NEW r \in Requests, NEW b \in Approvals, pending'[b] = r
               PROVE  IdOf[r] = b /\ ended'[r] = None /\ (done'[r] => Decided(b)')
    BY DEF PendingOwn
  <2>1. b # a /\ pending[b] = r
    BY <1>1, StoreAssumption DEF FlowOK, FlowTypes
  <2>2. IdOf[r] = b /\ ended[r] = None /\ (done[r] => Decided(b))
    BY <2>1 DEF FlowOK, PendingOwn
  <2>3. pending[a] # r
    BY <2>1, <2>2 DEF FlowOK, PendingOwn
  <2> QED
    BY <1>1, <2>2, <2>3, DecidedStays
<1>10. NewIsFresh'
  <2> SUFFICES ASSUME NEW r \in Requests, pc'[r] = "new"
               PROVE  ended'[r] = None /\ ~done'[r] /\ pending'[IdOf[r]] # r
    BY DEF NewIsFresh
  <2>1. ended[r] = None /\ ~done[r] /\ pending[IdOf[r]] # r
    BY DEF FlowOK, NewIsFresh, Onward
  <2>2. pending[a] # r
    BY <2>1 DEF FlowOK, PendingOwn
  <2>3. pending'[IdOf[r]] # r
    BY <1>1, <2>1, StoreAssumption, MapsAssumption DEF FlowOK, FlowTypes
  <2> QED
    BY <1>1, <2>1, <2>2, <2>3
<1> QED
  BY <1>8, <1>9, <1>10 DEF FlowOK

\* A handler moves on with what it holds.
LEMMA ProcMoves ==
    ASSUME ProcOK, Onward, NEW s \in Procs, NEW c, Goes(s, c),
           s \in Requests => c \in RequestPcs, s \in Approvals => c \in RemotePcs,
           NEW h \in Requests \cup {None}, held' = [held EXCEPT ![s] = h],
           NEW d \in Decisions \cup {None}, dec' = [dec EXCEPT ![s] = d],
           c = "put" => h \in Requests /\ IdOf[h] = IdFor(s),
           c \in DecidingPcs => d \in Decisions,
           c = "close" => Decided(IdFor(s))',
           promptEnd' \in [Requests -> Nat]
    PROVE  ProcOK'
<1>1. pc' = [pc EXCEPT ![s] = c]
  BY DEF Goes
<1>2. /\ pc'[s] = c /\ held'[s] = h /\ dec'[s] = d
      /\ \A q \in Procs \ {s} : /\ pc'[q] = pc[q]
                                /\ held'[q] = held[q] /\ dec'[q] = dec[q]
  BY <1>1 DEF ProcOK, ProcTypes
<1>3. ProcTypes'
  BY <1>1, <1>2 DEF ProcOK, ProcTypes, Procs
<1>4. HoldsOwn'
  <2> SUFFICES ASSUME NEW q \in Procs
               PROVE  /\ pc'[q] = "put" => held'[q] \in Requests /\ IdOf[held'[q]] = IdFor(q)
                      /\ pc'[q] \in DecidingPcs => dec'[q] \in Decisions
                      /\ pc'[q] = "close" => Decided(IdFor(q))'
    BY DEF HoldsOwn, IdFor
  <2>1. CASE q = s
    BY <1>2, <2>1
  <2>2. CASE q # s
    BY <1>2, <2>2, IdForType, DecidedStays DEF ProcOK, HoldsOwn
  <2> QED
    BY <2>1, <2>2
<1> QED
  BY <1>3, <1>4 DEF ProcOK

LEMMA ProcStays ==
    ASSUME ProcOK, Onward, UNCHANGED <<pc, held, dec, promptEnd>>
    PROVE  ProcOK'
BY IdForType, DecidedStays DEF ProcOK, ProcTypes, HoldsOwn

LEMMA OthersStay ==
    /\ ReactOK /\ UNCHANGED reactVars => ReactOK'
    /\ ReapOK /\ UNCHANGED reapVars => ReapOK'
BY DEF ReactOK, ReapOK, reactVars, reapVars

LEMMA OnwardMove ==
    ASSUME ProcOK, NEW s \in Procs, NEW c, Goes(s, c), c # "new", UNCHANGED accepted
    PROVE  Onward
BY DEF Onward, ProcOK, ProcTypes, Goes, Procs

LEMMA OnwardStay == UNCHANGED <<pc, accepted>> => Onward
BY DEF Onward

\* A request goes on from Register or from SendPrompt.
LEMMA GoesOnTypes ==
    ASSUME ProcOK, NEW r \in Requests, NEW to, GoesOn(r, to), UNCHANGED <<held, accepted>>,
           to \subseteq {"prompt", "done", "get", "wait", "lookup"}
    PROVE  Onward /\ ProcOK'
<1>a. r \in Procs /\ r \notin Approvals
  BY NamesAssumption DEF Procs
<1>1. PICK c \in to : /\ Goes(r, c)
                      /\ dec' = [dec EXCEPT ![r] = IF c = "lookup" THEN "allow" ELSE None]
  BY DEF GoesOn
<1>2. Onward
  BY <1>a, <1>1, OnwardMove
<1>3. held' = [held EXCEPT ![r] = held[r]] /\ held[r] \in Requests \cup {None}
  BY <1>a DEF ProcOK, ProcTypes
<1>4. promptEnd' \in [Requests -> Nat]
  BY DEF GoesOn, ProcOK, ProcTypes
<1>5. c \in RequestPcs /\ c # "put" /\ c # "close" /\ (c \in DecidingPcs => c = "lookup")
  BY <1>1 DEF RequestPcs, ResolvePcs, DecidingPcs
<1>6. "allow" \in Decisions
  BY DEF Decisions, Answers
<1> DEFINE d == IF c = "lookup" THEN "allow" ELSE None
<1>7. d \in Decisions \cup {None} /\ (c \in DecidingPcs => d \in Decisions)
  BY <1>5, <1>6
<1> QED
  BY <1>a, <1>1, <1>2, <1>3, <1>4, <1>5, <1>7, ProcMoves

LEMMA AfterTypes ==
    /\ AfterPrompt \subseteq {"prompt", "done", "get", "wait", "lookup"}
    /\ \A created \in BOOLEAN :
          AfterRegister(created) \subseteq {"prompt", "done", "get", "wait", "lookup"}
BY DEF AfterPrompt, AfterRegister

\* A request registers its approval, replacing one that has expired.
LEMMA RegisterTypes ==
    ASSUME TypeInv, NEW r \in Requests, Register(r)
    PROVE  FlowOK' /\ ProcOK'
<1> DEFINE a == IdOf[r]
<1>a. a \in Approvals /\ r \in Procs
  BY MapsAssumption DEF Procs
<1>1. PICK created \in BOOLEAN : GoesOn(r, AfterRegister(created))
  BY DEF Register
<1>2. Onward /\ ProcOK'
  BY <1>1, AfterTypes, GoesOnTypes DEF Register, TypeInv
<1>3. UNCHANGED <<now, ch, done, settled, upstream, sent, edits, ended, accepted>>
  BY DEF Register
<1>4. CASE UNCHANGED <<pending, expires>>
  BY <1>2, <1>3, <1>4, FlowUnchanged DEF TypeInv, restVars
<1>5. CASE /\ pending' = [pending EXCEPT ![a] = r]
           /\ expires' = [expires EXCEPT ![r] = PendingExpiry(r)]
  <2>1. PendingExpiry(r) \in Nat
    BY NumbersAssumption, Expiries DEF TypeInv, FlowOK, FlowTypes
  <2>2. FlowTypes'
    BY <1>3, <1>5, <2>1 DEF TypeInv, FlowOK, FlowTypes
  <2>3. ended[r] = None /\ ~done[r]
    BY DEF Register, TypeInv, FlowOK, NewIsFresh
  <2>4. pc'[r] # "new"
    BY <1>a, <1>1, AfterTypes DEF GoesOn, Goes, TypeInv, ProcOK, ProcTypes
  <2>5. PendingOwn'
    BY <1>2, <1>3, <1>5, <1>a, <2>3, DecidedStays
       DEF TypeInv, FlowOK, FlowTypes, PendingOwn
  <2>6. NewIsFresh'
    <3> SUFFICES ASSUME NEW q \in Requests, pc'[q] = "new"
                 PROVE  ended'[q] = None /\ ~done'[q] /\ pending'[IdOf[q]] # q
      BY DEF NewIsFresh
    <3>1. q # r /\ pc[q] = "new"
      BY <1>2, <2>4 DEF Onward
    <3> QED
      BY <1>3, <1>5, <3>1, MapsAssumption DEF TypeInv, FlowOK, FlowTypes, NewIsFresh
  <2> QED
    BY <1>2, <2>2, <2>5, <2>6 DEF FlowOK
<1> QED
  BY <1>2, <1>4, <1>5 DEF Register

LEMMA PromptTypes ==
    ASSUME IInv, TypeInv, NEW r \in Requests,
           \/ PromptRegister(r) \/ PromptSkip(r) \/ PromptSend(r)
           \/ PromptSendFails(r) \/ PromptBind(r) \/ PromptSchedule(r)
    PROVE  FlowOK' /\ ProcOK'
<1> USE DEF procVars, promptVars, flowVars, restVars, TypeInv
<1>a. r \in Procs /\ r \notin Approvals /\ IdOf[r] \in Approvals
  BY MapsAssumption, NamesAssumption DEF Procs
<1>b. /\ held[r] \in Requests \cup {None} /\ dec[r] \in Decisions \cup {None}
      /\ UNCHANGED held => held' = [held EXCEPT ![r] = held[r]]
      /\ UNCHANGED dec => dec' = [dec EXCEPT ![r] = dec[r]]
  BY <1>a DEF ProcOK, ProcTypes
<1>c. ASSUME NEW c \in {"send", "bind", "schedule", "done"}, Goes(r, c),
             UNCHANGED <<held, dec, accepted>>, promptEnd' \in [Requests -> Nat]
      PROVE  Onward /\ ProcOK'
  <2>1. Onward
    BY <1>a, <1>c, OnwardMove
  <2>2. c \in RequestPcs /\ c \notin DecidingPcs /\ c # "put" /\ c # "close"
    BY <1>c DEF RequestPcs, ResolvePcs, DecidingPcs
  <2> QED
    BY <1>a, <1>b, <1>c, <2>1, <2>2, ProcMoves
<1>d. promptEnd \in [Requests -> Nat]
  BY DEF ProcOK, ProcTypes
<1>1. CASE PromptRegister(r)
  <2>1. promptEnd' \in [Requests -> Nat]
    <3>1. PromptExpiry(r) \in Nat
      BY NumbersAssumption, Expiries DEF FlowOK, FlowTypes
    <3> QED
      BY <1>1, <1>d, <3>1 DEF PromptRegister
  <2>2. Onward /\ ProcOK'
    BY <1>1, <1>c, <2>1 DEF PromptRegister
  <2> QED
    BY <1>1, <2>2, FlowUnchanged DEF PromptRegister
<1>2. CASE PromptSkip(r)
  <2>1. Onward /\ ProcOK'
    BY <1>2, <1>c, <1>d DEF PromptSkip
  <2> QED
    BY <1>2, <2>1, FlowUnchanged DEF PromptSkip
<1>3. CASE PromptSend(r)
  <2>1. Onward /\ ProcOK'
    BY <1>3, <1>c, <1>d DEF PromptSend
  <2>2. FlowTypes'
    BY <1>3 DEF PromptSend, FlowOK, FlowTypes
  <2> QED
    BY <1>3, <2>1, <2>2, FlowStays DEF PromptSend
<1>4. CASE PromptSendFails(r)
  <2>1. Onward /\ ProcOK'
    BY <1>4, AfterTypes, GoesOnTypes DEF PromptSendFails
  <2> QED
    BY <1>4, <2>1, FlowUnchanged DEF PromptSendFails
<1>5. CASE PromptBind(r)
  <2>1. HasPrompt(store, IdOf[r]) => Onward /\ ProcOK'
    BY <1>5, <1>c, <1>d DEF PromptBind
  <2>2. ~HasPrompt(store, IdOf[r]) => Onward /\ ProcOK'
    BY <1>5, AfterTypes, GoesOnTypes DEF PromptBind
  <2> QED
    BY <1>5, <2>1, <2>2, FlowUnchanged DEF PromptBind
<1>6. CASE PromptSchedule(r)
  <2>1. Onward /\ ProcOK'
    BY <1>6, AfterTypes, GoesOnTypes DEF PromptSchedule
  <2>2. "timeout" \in Decisions
    BY DEF Decisions
  <2> QED
    BY <1>6, <1>a, <2>1, <2>2, FlowFinalized, FlowUnchanged DEF PromptSchedule, FinishTimedOut
<1> QED
  BY <1>1, <1>2, <1>3, <1>4, <1>5, <1>6

\* A handler that moves on and registers, finalizes and sends nothing.
LEMMA MoveTypes ==
    ASSUME TypeInv, NEW s \in Procs, NEW c, Goes(s, c), c # "new",
           s \in Requests => c \in RequestPcs, s \in Approvals => c \in RemotePcs,
           NEW h \in Requests \cup {None},
           held' = [held EXCEPT ![s] = h] \/ (h = held[s] /\ UNCHANGED held),
           NEW d \in Decisions \cup {None},
           dec' = [dec EXCEPT ![s] = d] \/ (d = dec[s] /\ UNCHANGED dec),
           c = "put" => h \in Requests /\ IdOf[h] = IdFor(s),
           c \in DecidingPcs => d \in Decisions, c # "close",
           UNCHANGED <<promptEnd, accepted>>
    PROVE  Onward /\ ProcOK'
<1>1. Onward
  BY OnwardMove DEF TypeInv
<1>2. held' = [held EXCEPT ![s] = h] /\ dec' = [dec EXCEPT ![s] = d]
  BY DEF TypeInv, ProcOK, ProcTypes
<1>3. promptEnd' \in [Requests -> Nat]
  BY DEF TypeInv, ProcOK, ProcTypes
<1> QED
  BY <1>1, <1>2, <1>3, ProcMoves DEF TypeInv

LEMMA WaitTypes ==
    ASSUME IInv, TypeInv, NEW r \in Requests,
           \/ Get(r) \/ WaitUnknown(r) \/ WaitBegin(r) \/ WaitTake(r) \/ WaitTimer(r)
           \/ WaitTimedOut(r) \/ WaitCancelled(r) \/ Abandon(r)
    PROVE  FlowOK' /\ ProcOK'
<1> USE DEF procVars, promptVars, flowVars, restVars
<1>a. r \in Procs /\ r \notin Approvals /\ IdOf[r] \in Approvals /\ FlowOK
  BY MapsAssumption, NamesAssumption DEF Procs, TypeInv
<1>b. held[r] \in Requests \cup {None} /\ dec[r] \in Decisions \cup {None}
  BY <1>a DEF TypeInv, ProcOK, ProcTypes
<1>c. "timeout" \in Decisions /\ "cancelled" \in Decisions
  BY DEF Decisions
<1>d. \A c \in {"get", "wait", "waiting", "timeout", "finish", "done"} :
         c \in RequestPcs /\ c # "new" /\ c # "put" /\ c # "close"
  BY DEF RequestPcs, ResolvePcs
<1>e. \A c \in {"get", "wait", "waiting", "done"} : c \notin DecidingPcs
  BY DEF DecidingPcs
<1>f. pending[IdOf[r]] \in Requests \cup {None}
  BY <1>a DEF FlowOK, FlowTypes
<1>1. CASE Get(r)
  <2>1. Onward /\ ProcOK'
    <3>1. CASE pending[IdOf[r]] = None
      BY <1>1, <3>1, <1>a, <1>b, <1>c, <1>d, <1>e, MoveTypes DEF Get
    <3>2. CASE pending[IdOf[r]] # None
      <4>1. Goes(r, "wait") /\ dec' = [dec EXCEPT ![r] = dec[r]]
            /\ UNCHANGED <<held, promptEnd, accepted>>
        BY <1>1, <3>2 DEF Get
      <4> QED
        BY <4>1, <1>a, <1>b, <1>d, <1>e, MoveTypes
    <3> QED
      BY <3>1, <3>2
  <2> QED
    BY <1>1, <1>a, <2>1, FlowUnchanged DEF Get
<1>2. CASE WaitUnknown(r)
  <2>1. Onward /\ ProcOK'
    BY <1>2, <1>a, <1>b, <1>c, <1>d, MoveTypes DEF WaitUnknown
  <2> QED
    BY <1>2, <1>a, <2>1, FlowUnchanged DEF WaitUnknown
<1>3. CASE WaitBegin(r)
  <2>1. Onward /\ ProcOK'
    <3>1. CASE Lapsed(expires[pending[IdOf[r]]])
      <4>1. /\ Goes(r, "timeout") /\ held' = [held EXCEPT ![r] = None]
            /\ dec' = [dec EXCEPT ![r] = "timeout"] /\ UNCHANGED <<promptEnd, accepted>>
        BY <1>3, <3>1 DEF WaitBegin, Holds
      <4> QED
        BY <4>1, <1>a, <1>c, <1>d, MoveTypes
    <3>2. CASE ~Lapsed(expires[pending[IdOf[r]]])
      <4>1. /\ Goes(r, "waiting") /\ held' = [held EXCEPT ![r] = pending[IdOf[r]]]
            /\ dec' = [dec EXCEPT ![r] = dec[r]] /\ UNCHANGED <<promptEnd, accepted>>
        BY <1>3, <3>2 DEF WaitBegin, Holds
      <4> QED
        BY <4>1, <1>a, <1>b, <1>d, <1>e, <1>f, MoveTypes
    <3> QED
      BY <3>1, <3>2
  <2> QED
    BY <1>3, <1>a, <2>1, FlowUnchanged DEF WaitBegin
<1>4. CASE WaitTake(r)
  <2>1. PICK p \in Requests \cup {None} : Takes(r, p)
    BY <1>4, <1>b, <1>f DEF WaitTake
  <2>2. /\ p # None /\ ch[p] # None /\ dec' = [dec EXCEPT ![r] = ch[p]]
        /\ ch' = [ch EXCEPT ![p] = None] /\ held' = [held EXCEPT ![r] = None]
        /\ Goes(r, "finish")
    BY <2>1 DEF Takes, Holds
  <2>3. ch[p] \in Decisions
    BY <1>a, <2>1, <2>2 DEF FlowOK, FlowTypes
  <2>4. UNCHANGED <<promptEnd, accepted, pending, done, ended, now, expires, settled,
                    upstream, sent, edits>>
    BY <1>4 DEF WaitTake
  <2>5. Onward /\ ProcOK'
    BY <2>2, <2>3, <2>4, <1>a, <1>d, MoveTypes
  <2>6. FlowTypes'
    BY <1>a, <2>2, <2>4 DEF FlowOK, FlowTypes
  <2> QED
    BY <1>a, <2>4, <2>5, <2>6, FlowStays
<1>5. CASE WaitTimer(r)
  <2>1. Onward /\ ProcOK'
    BY <1>5, <1>a, <1>c, <1>d, MoveTypes DEF WaitTimer, Holds
  <2> QED
    BY <1>5, <1>a, <2>1, FlowUnchanged DEF WaitTimer
<1>6. CASE WaitTimedOut(r)
  <2>1. dec[r] \in Decisions
    BY <1>6, <1>a DEF WaitTimedOut, TypeInv, ProcOK, HoldsOwn, DecidingPcs
  <2>2. Onward /\ ProcOK'
    BY <1>6, <1>a, <1>b, <1>d, <2>1, MoveTypes DEF WaitTimedOut
  <2> QED
    BY <1>6, <1>a, <1>c, <2>2, FlowFinalized DEF WaitTimedOut, FinishTimedOut
<1>7. CASE WaitCancelled(r)
  <2>1. Onward /\ ProcOK'
    BY <1>7, <1>a, <1>c, <1>d, MoveTypes DEF WaitCancelled, Holds
  <2> QED
    BY <1>7, <1>a, <2>1, FlowUnchanged DEF WaitCancelled
<1>8. CASE Abandon(r)
  <2>1. Onward /\ ProcOK'
    BY <1>8, <1>a, <1>b, <1>c, <1>d, MoveTypes DEF Abandon
  <2> QED
    BY <1>8, <1>a, <2>1, FlowUnchanged DEF Abandon
<1> QED
  BY <1>1, <1>2, <1>3, <1>4, <1>5, <1>6, <1>7, <1>8

LEMMA AfterResolveTypes ==
    ASSUME NEW s \in Procs, NEW ok \in BOOLEAN
    PROVE  LET c == AfterResolve(s, ok)
           IN  /\ s \in Requests => c \in RequestPcs
               /\ s \in Approvals => c \in RemotePcs
               /\ c # "new" /\ c # "put" /\ c # "close"
               /\ c \in DecidingPcs => ok
BY NamesAssumption
   DEF AfterResolve, BeginWait, RequestPcs, RemotePcs, ResolvePcs, DecidingPcs, Procs

LEMMA ResolveTypes ==
    ASSUME IInv, TypeInv, NEW s \in Procs, ResolveStep(s)
    PROVE  FlowOK' /\ ProcOK'
<1> USE DEF promptVars, flowVars, restVars
<1>a. IdFor(s) \in Approvals /\ FlowOK
  BY IdForType DEF TypeInv
<1>b. held[s] \in Requests \cup {None} /\ dec[s] \in Decisions \cup {None}
  BY DEF TypeInv, ProcOK, ProcTypes
<1>c. pc[s] \in DecidingPcs => dec[s] \in Decisions
  BY DEF TypeInv, ProcOK, HoldsOwn
<1>d. dec[s] \in Decisions
  BY <1>c DEF ResolveStep, ResolveLookup, ResolveExpired, ResolvePut, ResolveClose, Finish,
              DecidingPcs
<1>e. \A c \in {"expired", "put", "close", "finish", "done"} :
         c \in RequestPcs /\ c \in RemotePcs /\ c # "new"
  BY DEF RequestPcs, RemotePcs, ResolvePcs
<1>f. "timeout" \in Decisions
  BY DEF Decisions
<1>1. CASE ResolveLookup(s)
  <2> DEFINE p == pending[IdFor(s)]
  <2>1. /\ p \in Requests \cup {None}
        /\ p # None => IdOf[p] = IdFor(s)
    BY <1>a DEF FlowOK, FlowTypes, PendingOwn
  <2>2. held' = [held EXCEPT ![s] = p] /\ UNCHANGED <<dec, promptEnd, accepted>>
    BY <1>1 DEF ResolveLookup, Holds
  <2>3. UNCHANGED <<restVars, pending, done, settled, edits, ended>>
    BY <1>1 DEF ResolveLookup
  <2>4. CASE p = None
    <3>1. Goes(s, AfterResolve(s, FALSE))
      BY <1>1, <2>4 DEF ResolveLookup, Goes
    <3>2. Onward /\ ProcOK'
      BY <3>1, <2>1, <2>2, <1>d, AfterResolveTypes, MoveTypes
    <3> QED
      BY <1>a, <2>3, <3>2, FlowUnchanged
  <2>5. CASE p # None
    <3>1. PICK c \in {"expired", "put"} : Goes(s, c)
      BY <1>1, <2>5 DEF ResolveLookup
    <3>2. Onward /\ ProcOK'
      BY <3>1, <2>1, <2>2, <2>5, <1>d, <1>e, MoveTypes
    <3> QED
      BY <1>a, <2>3, <3>2, FlowUnchanged
  <2> QED
    BY <2>4, <2>5
<1>2. CASE ResolveExpired(s)
  <2>1. Goes(s, AfterResolve(s, FALSE)) /\ held' = [held EXCEPT ![s] = None]
        /\ UNCHANGED <<dec, promptEnd, accepted>>
    BY <1>2 DEF ResolveExpired, Holds
  <2>2. Onward /\ ProcOK'
    BY <2>1, <1>d, AfterResolveTypes, MoveTypes
  <2> QED
    BY <1>2, <1>a, <1>f, <2>2, FlowFinalized DEF ResolveExpired, FinishTimedOut
<1>3. CASE ResolvePut(s)
  <2> DEFINE p == held[s]
  <2>1. p \in Requests /\ IdOf[p] = IdFor(s)
    BY <1>3 DEF ResolvePut, TypeInv, ProcOK, HoldsOwn
  <2>2. held' = [held EXCEPT ![s] = None] /\ dec' = [dec EXCEPT ![s] = dec[s]]
        /\ UNCHANGED <<promptEnd, pending, done, ended, now, expires, settled,
                       upstream, sent, edits>>
    BY <1>3 DEF ResolvePut, Holds, TypeInv, ProcOK, ProcTypes
  <2>3. CASE ch[p] # None
    <3>1. Goes(s, AfterResolve(s, FALSE)) /\ UNCHANGED <<ch, accepted>>
      BY <1>3, <2>3 DEF ResolvePut
    <3>2. Onward /\ ProcOK'
      BY <3>1, <2>2, <1>d, AfterResolveTypes, MoveTypes
    <3> QED
      BY <1>a, <2>2, <3>1, <3>2, FlowUnchanged
  <2>4. CASE ch[p] = None
    <3>1. /\ ch' = [ch EXCEPT ![p] = dec[s]]
          /\ accepted' = [accepted EXCEPT ![p] = accepted[p] \cup {dec[s]}]
          /\ Goes(s, "close")
      BY <1>3, <2>4 DEF ResolvePut
    <3>2. accepted'[p] = accepted[p] \cup {dec[s]}
      BY <1>a, <2>1, <3>1 DEF FlowOK, FlowTypes
    <3>3. Decided(IdFor(s))'
      BY <2>1, <3>2 DEF Decided, IdFor
    <3>4. Onward
      <4>1. \A q \in Requests : accepted[q] \subseteq accepted'[q]
        BY <1>a, <3>1, <3>2 DEF FlowOK, FlowTypes
      <4>2. \A q \in Requests : pc'[q] = "new" => pc[q] = "new"
        BY <3>1 DEF Goes, TypeInv, ProcOK, ProcTypes, Procs
      <4> QED
        BY <4>1, <4>2 DEF Onward
    <3>5. ProcOK'
      <4>1. promptEnd' \in [Requests -> Nat] /\ ProcOK
        BY <2>2 DEF TypeInv, ProcOK, ProcTypes
      <4> QED
        BY <4>1, <2>2, <3>1, <3>3, <3>4, <1>d, <1>e, ProcMoves
    <3>6. FlowTypes'
      <4>1. ch' \in [Requests -> Decisions \cup {None}]
        BY <1>a, <1>d, <3>1 DEF FlowOK, FlowTypes
      <4>2. accepted' \in [Requests -> SUBSET Decisions]
        <5>1. accepted[p] \cup {dec[s]} \in SUBSET Decisions
          BY <1>a, <1>d, <2>1 DEF FlowOK, FlowTypes
        <5> HIDE DEF p
        <5> QED
          BY <1>a, <3>1, <5>1 DEF FlowOK, FlowTypes
      <4> QED
        BY <1>a, <2>2, <4>1, <4>2 DEF FlowOK, FlowTypes
    <3> QED
      BY <1>a, <2>2, <3>4, <3>5, <3>6, FlowStays
  <2> QED
    BY <2>3, <2>4
<1>4. CASE ResolveClose(s)
  <2>1. Goes(s, AfterResolve(s, TRUE)) /\ UNCHANGED <<held, dec, promptEnd, accepted>>
    BY <1>4 DEF ResolveClose
  <2>2. Onward /\ ProcOK'
    <3> DEFINE c == AfterResolve(s, TRUE)
    <3>1. /\ s \in Requests => c \in RequestPcs
          /\ s \in Approvals => c \in RemotePcs
          /\ c # "new" /\ c # "put" /\ c # "close"
      BY AfterResolveTypes
    <3>2. Goes(s, c)
      BY <2>1
    <3> HIDE DEF c
    <3> QED
      BY <2>1, <1>b, <1>d, <3>1, <3>2, MoveTypes
  <2>3. /\ done' = [r \in Requests |-> done[r] \/ pending[IdFor(s)] = r]
        /\ UNCHANGED <<restVars, pending, settled, edits, ended>>
    BY <1>4 DEF ResolveClose
  <2>4. FlowTypes'
    BY <1>a, <2>3 DEF FlowOK, FlowTypes
  <2>5. Decided(IdFor(s))
    BY <1>4 DEF ResolveClose, TypeInv, ProcOK, HoldsOwn
  <2>6. PendingOwn'
    <3> SUFFICES ASSUME NEW r \in Requests, NEW b \in Approvals, pending[b] = r
                 PROVE  IdOf[r] = b /\ ended[r] = None /\ (done'[r] => Decided(b)')
      BY <2>3 DEF PendingOwn
    <3>1. IdOf[r] = b /\ ended[r] = None /\ (done[r] => Decided(b))
      BY <1>a DEF FlowOK, PendingOwn
    <3>2. pending[IdFor(s)] = r => b = IdFor(s)
      BY <1>a, <3>1 DEF FlowOK, PendingOwn
    <3>3. done'[r] => Decided(b)
      BY <2>3, <2>5, <3>1, <3>2
    <3> QED
      BY <2>2, <3>1, <3>3, DecidedStays
  <2>7. NewIsFresh'
    <3> SUFFICES ASSUME NEW r \in Requests, pc'[r] = "new"
                 PROVE  ended[r] = None /\ ~done'[r] /\ pending[IdOf[r]] # r
      BY <2>3 DEF NewIsFresh
    <3>1. ended[r] = None /\ ~done[r] /\ pending[IdOf[r]] # r
      BY <1>a, <2>2 DEF FlowOK, NewIsFresh, Onward
    <3>2. pending[IdFor(s)] # r
      BY <1>a, <3>1 DEF FlowOK, PendingOwn
    <3> QED
      BY <2>3, <3>1, <3>2
  <2> QED
    BY <2>2, <2>4, <2>6, <2>7 DEF FlowOK
<1>5. CASE Finish(s)
  <2>1. Goes(s, "done") /\ UNCHANGED <<held, dec, promptEnd, accepted>>
    BY <1>5 DEF Finish
  <2>2. Onward /\ ProcOK'
    BY <2>1, <1>b, <1>d, <1>e, MoveTypes
  <2> QED
    BY <1>5, <1>a, <1>d, <2>2, FlowFinalized DEF Finish
<1> QED
  BY <1>1, <1>2, <1>3, <1>4, <1>5 DEF ResolveStep

LEMMA RemoteTypes ==
    ASSUME IInv, TypeInv, NEW a \in Approvals,
           RemoteDecides(a) \/ RemoteResolved(a) \/ RemoteUnlisted(a)
    PROVE  FlowOK' /\ ProcOK'
<1> USE DEF procVars, promptVars, flowVars, restVars
<1>a. a \in Procs /\ a \notin Requests /\ FlowOK
  BY NamesAssumption DEF Procs, TypeInv
<1>b. held[a] \in Requests \cup {None}
  BY <1>a DEF TypeInv, ProcOK, ProcTypes
<1>c. \A c \in {"lookup", "done"} : c \in RemotePcs /\ c # "new" /\ c # "put" /\ c # "close"
  BY DEF RemotePcs, ResolvePcs
<1>1. CASE RemoteDecides(a)
  <2>1. UNCHANGED <<pc, held, dec, promptEnd, accepted, pending, done, ended, now, expires,
                    ch, settled, sent, edits>>
    BY <1>1 DEF RemoteDecides
  <2>2. PICK d \in Answers \cup {"gone"} : upstream' = [upstream EXCEPT ![a] = d]
    BY <1>1 DEF RemoteDecides
  <2>3. FlowTypes'
    BY <1>a, <2>1, <2>2 DEF FlowOK, FlowTypes
  <2> QED
    BY <1>a, <2>1, <2>3, OnwardStay, FlowStays, ProcStays DEF TypeInv
<1>2. CASE RemoteResolved(a)
  <2>1. upstream[a] \in Decisions /\ dec' = [dec EXCEPT ![a] = upstream[a]]
        /\ UNCHANGED <<held, promptEnd, restVars>>
    BY <1>2 DEF RemoteResolved, Decisions
  <2>2. PICK c \in {"lookup", "done"} : Goes(a, c)
    BY <1>2 DEF RemoteResolved
  <2>3. Onward /\ ProcOK'
    BY <1>a, <1>b, <1>c, <2>1, <2>2, MoveTypes
  <2>4. UNCHANGED flowVars \/ Finalize(a, "dropped")
    BY <1>2 DEF RemoteResolved
  <2> QED
    BY <1>a, <2>1, <2>3, <2>4, FlowUnchanged, FlowFinalized
<1>3. CASE RemoteUnlisted(a)
  <2>1. "timeout" \in Decisions
    BY DEF Decisions
  <2>2. Onward /\ ProcOK'
    BY <1>3, <1>a, <1>b, <1>c, <2>1, MoveTypes DEF RemoteUnlisted
  <2> QED
    BY <1>3, <1>a, <2>2, FlowUnchanged DEF RemoteUnlisted
<1> QED
  BY <1>1, <1>2, <1>3

\* A reaction that moves on.
LEMMA ReactMoves ==
    ASSUME ReactOK, rpc' \in ReactPcs, rplace' \in {rplace, None}, rnow' \in {rnow, 0},
           rid' \in Approvals \cup {None}, rdec' \in {rdec, None},
           rheld' \in Requests \cup {None}, UNCHANGED reactions
    PROVE  ReactOK'
<1>1. 0 \in 0..MaxTime
  BY NumbersAssumption
<1> QED
  BY <1>1 DEF ReactOK

\* A step of the handler of a reaction that only moves on.
LEMMA ReactOnly ==
    ASSUME TypeInv, ReactOK',
           UNCHANGED <<restVars, pending, done, settled, edits, ended, procVars, reapVars>>
    PROVE  TypeInv'
<1>1. Onward /\ UNCHANGED <<pc, held, dec, promptEnd>>
  BY OnwardStay DEF procVars, promptVars, restVars
<1> QED
  BY <1>1, FlowUnchanged, ProcStays, OthersStay DEF TypeInv

\* One that finalizes the approval.
LEMMA ReactFinalizes ==
    ASSUME IInv, TypeInv, ReactOK', UNCHANGED <<restVars, procVars, reapVars>>,
           NEW d \in Decisions, Finalize(rid, d), rid \in Approvals
    PROVE  TypeInv'
<1>1. Onward /\ UNCHANGED <<pc, held, dec, promptEnd>>
  BY OnwardStay DEF procVars, promptVars, restVars
<1> QED
  BY <1>1, FlowFinalized, ProcStays, OthersStay DEF TypeInv

LEMMA ReactTypes ==
    ASSUME IInv, UInv, TypeInv,
           ReactStep \/ \E p \in Places \cup {None}, d \in Answers : React(p, d)
    PROVE  TypeInv'
<1> USE DEF flowVars, restVars
<1>a. ReactOK /\ FlowOK /\ ProcOK
  BY DEF TypeInv
<1>b. /\ rpc \in ReactPcs /\ rid \in Approvals \cup {None}
      /\ rheld \in Requests \cup {None}
  BY <1>a DEF ReactOK
<1>c. ReactEnds /\ UNCHANGED reactions => ReactOK'
  BY <1>a, ReactMoves DEF ReactEnds, ReactPcs
<1>d. \A c \in {"idle", "settled", "fallback", "drop", "lookup", "expired", "deliver",
                 "finish"} : c \in ReactPcs
  BY DEF ReactPcs
<1>1. ASSUME NEW p \in Places \cup {None}, NEW d \in Answers, React(p, d)
      PROVE  TypeInv'
  <2>1. reactions' \in 0..MaxReactions
    BY <1>1, <1>a, NumbersAssumption DEF React, ReactOK
  <2>2. rnow' \in 0..MaxTime /\ rdec' \in Answers /\ rheld' \in Requests \cup {None}
    BY <1>1, <1>a, <1>b DEF React, FlowOK, FlowTypes
  <2>3. Found(p) \in Approvals \cup {None}
    BY DEF Found, IInv, Sound, Store
  <2>4. /\ rpc' \in ReactPcs /\ rplace' \in Places \cup {None}
        /\ rid' \in Approvals \cup {None}
    BY <1>1, <1>a, <1>d, <2>3 DEF React, ReactKnown, ReactMiss, ReactOK
  <2>5. ReactOK'
    BY <2>1, <2>2, <2>4 DEF ReactOK
  <2> QED
    BY <1>1, <2>5, ReactOnly DEF React
<1>2. CASE ReactSettled
  <2>1. ReactOK'
    BY <1>2, <1>a, <1>b, <1>c, <1>d, ReactMoves DEF ReactSettled
  <2> QED
    BY <1>2, <2>1, ReactOnly DEF ReactSettled
<1>3. CASE ReactFallback
  <2>1. Fallback(rnow) \subseteq Approvals
    BY DEF Fallback, Live
  <2>2. ReactOK'
    BY <1>3, <1>a, <1>b, <1>c, <1>d, <2>1, ReactMoves DEF ReactFallback
  <2> QED
    BY <1>3, <2>2, ReactOnly DEF ReactFallback
<1>4. CASE ReactDrop
  BY <1>4, <1>c, ReactOnly DEF ReactDrop
<1>5. CASE ReactLookup
  <2>1. rid \in Approvals
    BY <1>5 DEF ReactLookup, IInv, Subjects
  <2>2. pending[rid] \in Requests \cup {None}
    BY <1>a, <2>1 DEF FlowOK, FlowTypes
  <2>3. ReactOK'
    BY <1>5, <1>a, <1>b, <1>c, <1>d, <2>2, ReactMoves DEF ReactLookup
  <2> QED
    BY <1>5, <2>3, ReactOnly DEF ReactLookup
<1>6. CASE ReactExpired
  <2>1. rid \in Approvals /\ "timeout" \in Decisions
    BY <1>6 DEF ReactExpired, IInv, Subjects, Decisions
  <2> QED
    BY <1>6, <1>c, <2>1, ReactFinalizes DEF ReactExpired, FinishTimedOut
<1>7. CASE ReactPut
  <2>1. rdec \in Answers /\ rdec \in Decisions
    BY <1>7 DEF ReactPut, UInv, ReactionAgrees, Decisions
  <2>2. ReactOK'
    BY <1>7, <1>a, <1>b, <1>c, <1>d, ReactMoves DEF ReactPut
  <2>3. UNCHANGED <<pc, held, dec, promptEnd, now, pending, expires, done, settled, upstream,
                    sent, edits, ended, reapVars>>
    BY <1>7 DEF ReactPut, procVars, promptVars
  <2>4. \/ UNCHANGED <<ch, accepted>>
        \/ /\ ch' = [ch EXCEPT ![rheld] = rdec]
           /\ accepted' = [accepted EXCEPT ![rheld] = @ \cup {rdec}]
    BY <1>7 DEF ReactPut
  <2>5. /\ ch' \in [Requests -> Decisions \cup {None}]
        /\ accepted' \in [Requests -> SUBSET Decisions]
        /\ \A q \in Requests : accepted[q] \subseteq accepted'[q]
    <3>1. /\ ch \in [Requests -> Decisions \cup {None}]
          /\ accepted \in [Requests -> SUBSET Decisions]
      BY <1>a DEF FlowOK, FlowTypes
    <3>2. \A q \in Requests : accepted[q] \cup {rdec} \in SUBSET Decisions
      BY <2>1, <3>1
    <3> QED
      BY <2>1, <2>4, <3>1, <3>2
  <2>6. Onward
    BY <2>3, <2>5 DEF Onward
  <2>7. FlowTypes'
    BY <1>a, <2>3, <2>5 DEF FlowOK, FlowTypes
  <2> QED
    BY <1>a, <2>2, <2>3, <2>6, <2>7, FlowStays, ProcStays, OthersStay DEF TypeInv
<1>8. CASE ReactDeliver
  <2>1. PICK took, ok \in BOOLEAN :
           /\ upstream' = [upstream EXCEPT ![rid] = IF took THEN rdec ELSE @]
           /\ IF ok THEN rpc' = "finish" /\ UNCHANGED <<rplace, rnow, rid, rdec, rheld>>
              ELSE ReactEnds
    BY <1>8 DEF ReactDeliver
  <2>2. rdec \in Answers /\ rid \in Approvals
    BY <1>8 DEF ReactDeliver, UInv, ReactionAgrees, IInv, Subjects
  <2>3. UNCHANGED <<pc, held, dec, promptEnd, now, pending, expires, ch, done, settled, sent,
                    edits, ended, accepted, reapVars, reactions>>
    BY <1>8 DEF ReactDeliver, procVars, promptVars
  <2>4. ReactOK'
    BY <1>a, <1>b, <1>c, <1>d, <2>1, <2>3, ReactMoves
  <2>5. FlowTypes'
    BY <1>a, <2>1, <2>2, <2>3 DEF FlowOK, FlowTypes
  <2> QED
    BY <1>a, <2>3, <2>4, <2>5, OnwardStay, FlowStays, ProcStays, OthersStay DEF TypeInv
<1>9. CASE ReactFinish
  <2>1. rid \in Approvals /\ rdec \in Decisions
    BY <1>9 DEF ReactFinish, IInv, Subjects, UInv, ReactionAgrees, Decisions
  <2> QED
    BY <1>9, <1>c, <2>1, ReactFinalizes DEF ReactFinish
<1> QED
  BY <1>1, <1>2, <1>3, <1>4, <1>5, <1>6, <1>7, <1>8, <1>9 DEF ReactStep

LEMMA ReapTypes ==
    ASSUME IInv, TypeInv, ReapStep
    PROVE  TypeInv'
<1> USE DEF flowVars, restVars
<1>a. FlowOK /\ ProcOK /\ ReactOK /\ ReapOK
  BY DEF TypeInv
<1>b. UNCHANGED <<pc, held, dec, promptEnd, accepted, reactVars>>
  BY DEF ReapStep, ReapScan, ReapCheck, ReapFinish, procVars, promptVars
<1>c. Onward /\ ProcOK' /\ ReactOK'
  BY <1>a, <1>b, OnwardStay, ProcStays, OthersStay
<1>d. \A a \in Approvals : HasPrompt(store, a) =>
         store.prompt[a].serial \in Nat /\ store.prompt[a].version \in Nat
  BY DEF IInv, Sound, Store, Prompt, HasPrompt
<1>1. CASE ReapScan
  <2>1. Candidates \subseteq Candidate
    <3> SUFFICES ASSUME NEW a \in Approvals, pending[a] # None
                 PROVE  [id |-> a, pending |-> pending[a],
                         prompt |-> IF PromptOver(a) THEN store.prompt[a].serial ELSE 0,
                         byPending |-> PendingOver(a), byPrompt |-> PromptOver(a)]
                        \in Candidate
      BY DEF Candidates
    <3>1. pending[a] \in Requests
      BY <1>a DEF FlowOK, FlowTypes
    <3>2. (IF PromptOver(a) THEN store.prompt[a].serial ELSE 0) \in Nat
      BY <1>d DEF PromptOver
    <3>3. PendingOver(a) \in BOOLEAN /\ PromptOver(a) \in BOOLEAN
      BY DEF PendingOver, PromptOver
    <3> QED
      BY <3>1, <3>2, <3>3 DEF Candidate
  <2>2. ReapOK'
    BY <1>1, <1>a, <2>1 DEF ReapScan, ReapOK
  <2> QED
    BY <1>1, <1>a, <1>c, <2>2, FlowUnchanged DEF ReapScan, TypeInv
<1>2. ASSUME NEW c \in reap, ReapCheck(c)
      PROVE  TypeInv'
  <2>1. c.id \in Approvals
    BY <1>a DEF ReapOK, Candidate
  <2>2. cut' \in [id : Approvals \cup {None}, version : Nat]
    BY <1>2, <1>d, <2>1 DEF ReapCheck, PromptStillDue, NoCut
  <2>3. ReapOK'
    BY <1>2, <1>a, <2>2 DEF ReapCheck, ReapOK
  <2> QED
    BY <1>2, <1>a, <1>c, <2>3, FlowUnchanged DEF ReapCheck, TypeInv
<1>3. CASE ReapFinish
  <2>1. cut.id \in Approvals /\ "timeout" \in Decisions
    BY <1>3 DEF ReapFinish, IInv, Subjects, Decisions
  <2>2. ReapOK'
    BY <1>3, <1>a DEF ReapFinish, ReapOK, NoCut
  <2>3. UNCHANGED flowVars \/ Finalize(cut.id, "timeout")
    BY <1>3 DEF ReapFinish, FinishTimedOut
  <2>4. UNCHANGED restVars
    BY <1>3 DEF ReapFinish
  <2> QED
    BY <1>a, <1>c, <2>1, <2>2, <2>3, <2>4, FlowUnchanged, FlowFinalized DEF TypeInv
<1> QED
  BY <1>1, <1>2, <1>3 DEF ReapStep

LEMMA NextTypeInv == (IInv /\ UInv /\ TypeInv /\ [Next]_vars) => TypeInv'
<1> SUFFICES ASSUME IInv, UInv, TypeInv, [Next]_vars PROVE TypeInv'
  OBVIOUS
<1>1. CASE Tick
  <2>1. UNCHANGED <<pc, held, dec, promptEnd, pending, expires, ch, done, settled, upstream,
                    sent, edits, ended, accepted, reactVars, reapVars>>
    BY <1>1 DEF Tick, procVars, promptVars
  <2>2. now' \in 0..MaxTime
    BY <1>1, NumbersAssumption DEF Tick, TypeInv, FlowOK, FlowTypes
  <2>3. FlowTypes'
    BY <2>1, <2>2 DEF TypeInv, FlowOK, FlowTypes
  <2> QED
    BY <2>1, <2>3, OnwardStay, FlowStays, ProcStays, OthersStay DEF TypeInv
<1>2. CASE UNCHANGED vars
  <2>1. UNCHANGED <<pc, held, dec, promptEnd, restVars, pending, done, settled, edits, ended,
                    reactVars, reapVars>>
    BY <1>2 DEF vars, procVars, promptVars, restVars
  <2> QED
    BY <2>1, OnwardStay, FlowUnchanged, ProcStays, OthersStay DEF TypeInv, restVars
<1>3. ASSUME NEW r \in Requests,
             Register(r) \/ RequestStep(r) \/ WaitCancelled(r) \/ Abandon(r)
      PROVE  TypeInv'
  <2>1. UNCHANGED <<reactVars, reapVars>>
    BY <1>3 DEF Register, RequestStep, PromptRegister, PromptSkip, PromptSend, PromptSendFails,
         PromptBind, PromptSchedule, Get, WaitUnknown, WaitBegin, WaitTake, WaitTimer,
         WaitTimedOut, WaitCancelled, Abandon
  <2>2. FlowOK' /\ ProcOK'
    BY <1>3, RegisterTypes, PromptTypes, WaitTypes DEF RequestStep
  <2> QED
    BY <2>1, <2>2, OthersStay DEF TypeInv
<1>4. ASSUME NEW s \in Procs, ResolveStep(s)
      PROVE  TypeInv'
  <2>1. UNCHANGED <<reactVars, reapVars>>
    BY <1>4 DEF ResolveStep, ResolveLookup, ResolveExpired, ResolvePut, ResolveClose, Finish
  <2> QED
    BY <1>4, <2>1, ResolveTypes, OthersStay DEF TypeInv
<1>5. ASSUME NEW a \in Approvals, RemoteDecides(a) \/ RemoteResolved(a) \/ RemoteUnlisted(a)
      PROVE  TypeInv'
  <2>1. UNCHANGED <<reactVars, reapVars>>
    BY <1>5 DEF RemoteDecides, RemoteResolved, RemoteUnlisted
  <2> QED
    BY <1>5, <2>1, RemoteTypes, OthersStay DEF TypeInv
<1> QED
  BY <1>1, <1>2, <1>3, <1>4, <1>5, ReactTypes, ReapTypes DEF Next

\* In every reachable state a Pending is registered under its own approval and
\* was not finalized, and a handler delivers to a Pending of its own approval.
THEOREM SpecTypeInv == Spec => []TypeInv
<1>1. IInv /\ UInv /\ TypeInv /\ [Next]_vars => TypeInv'
  BY NextTypeInv
<1> QED
  BY InitTypeInv, SpecIInv, SpecUInv, <1>1, PTL DEF Spec

\* Every variable keeps its type, a pending approval was not finalized, and
\* what the reaper leaves alone is for an approval that got a decision.
THEOREM SpecTypeOK == Spec => []TypeOK
<1>1. IInv /\ TypeInv => TypeOK
  BY DEF IInv, Types, Sound, TypeInv, FlowOK, FlowTypes, PendingOwn, ProcOK, ProcTypes,
         ReactOK, ReapOK, TypeOK
<1> QED
  BY SpecIInv, SpecTypeInv, <1>1, PTL

-----------------------------------------------------------------------------
(***************************************************************************)
(* Nothing is timed out before it is due: TimeoutIsDue.                    *)
(*                                                                         *)
(* Who times an approval out saw at some time that a Pending had expired,  *)
(* or that a prompt had.  The prompt was registered after a Pending of the *)
(* approval and lives as long, unless the server said when it ends: then   *)
(* it lives till then, however long the Pending does.  The invariant says  *)
(* so of each of them: a request registered for the approval is due.  When *)
(* its ID is used once only, that is the one whose Pending is timed out.   *)
(* A request that found no Pending, and ends with a timeout for that       *)
(* reason, finds none of its own later; other timeouts come from the       *)
(* server.                                                                 *)
(***************************************************************************)

\* At t the Pending of a request for a has expired, or its given end is past.
Due(a, t) ==
    \E q \in Requests : IdOf[q] = a /\ pc[q] # "new" /\ (expires[q] <= t \/ GivenBy(q, t))

Times == rnow <= now /\ \A r \in Requests : expires[r] <= now + TTL \/ EndOf[r] # None

PromptsDue ==
    /\ \A a \in Approvals : HasPrompt(store, a) => Due(a, store.prompt[a].expires)
    /\ \A r \in Requests :
          /\ before[r] # None => Due(IdOf[r], before[r].expires)
          /\ pc[r] \in {"send", "bind", "schedule"} =>
                expires[r] <= promptEnd[r] \/ GivenBy(r, promptEnd[r])

\* A request ends with a timeout that is due, or that ends nothing.
EndsDuly(r) ==
    Due(IdOf[r], now) \/ pending[IdOf[r]] # r \/ upstream[IdOf[r]] # "open"

RequestDue(r) ==
    /\ pc[r] = "waiting" =>
          held[r] \in Requests /\ IdOf[held[r]] = IdOf[r] /\ pc[held[r]] # "new"
    /\ pc[r] = "timeout" => Due(IdOf[r], now)
    /\ pc[r] \in {"lookup", "expired", "put", "close"} => dec[r] # "timeout"
    /\ (pc[r] = "finish" /\ dec[r] = "timeout") => EndsDuly(r)

HandlersDue ==
    \A s \in Procs :
        /\ pc[s] = "expired" => Due(IdFor(s), now)
        /\ s \in Requests => RequestDue(s)
        /\ (s \in Approvals /\ dec[s] = "timeout") => upstream[s] # "open"

AnswersDue == \A p \in Requests : ch[p] = "timeout" => upstream[IdOf[p]] # "open"

OthersDue ==
    /\ rpc = "expired" => Due(rid, now)
    /\ \A c \in reap : Due(c.id, now)
    /\ cut # NoCut => Due(cut.id, now)

DueInv == Times /\ PromptsDue /\ HandlersDue /\ AnswersDue /\ OthersDue

LEMMA InitDueInv == Init => DueInv
<1> SUFFICES ASSUME Init PROVE DueInv
  OBVIOUS
<1>1. Times /\ AnswersDue /\ OthersDue
  BY NumbersAssumption, NoDecisionAssumption
     DEF Init, Times, AnswersDue, OthersDue, Decisions
<1>2. /\ \A r \in Requests : r \in Procs /\ pc[r] = "new"
      /\ \A a \in Approvals : a \in Procs /\ pc[a] = "idle"
      /\ \A s \in Procs : dec[s] = None
  BY NamesAssumption DEF Init, Procs
<1>3. PromptsDue
  BY <1>2 DEF Init, PromptsDue, HasPrompt, EmptyStore
<1>4. HandlersDue
  BY <1>2, NoDecisionAssumption DEF HandlersDue, RequestDue, Decisions, Procs
<1> QED
  BY <1>1, <1>3, <1>4 DEF DueInv

\* What every step does: time does not go back, a registered request keeps the
\* expiry of its Pending and registers no other, and the server does not take
\* back that it has ended an approval.
Ahead ==
    /\ now <= now'
    /\ \A q \in Requests : pc[q] # "new" =>
          /\ pc'[q] # "new" /\ expires'[q] = expires[q]
          /\ pending[IdOf[q]] # q => pending'[IdOf[q]] # q
    /\ \A a \in Approvals : upstream[a] # "open" => upstream'[a] # "open"

DueNext(a, t) ==
    \E q \in Requests : IdOf[q] = a /\ pc'[q] # "new" /\ (expires'[q] <= t \/ GivenBy(q, t))

\* What is due stays due.
LEMMA DueStays ==
    ASSUME TypeInv, Ahead, NEW a, NEW t \in Nat, NEW u \in Nat, t <= u, Due(a, t)
    PROVE  DueNext(a, u)
<1>1. PICK q \in Requests :
         IdOf[q] = a /\ pc[q] # "new" /\ (expires[q] <= t \/ GivenBy(q, t))
  BY DEF Due
<1>2. expires[q] \in Nat
  BY DEF TypeInv, FlowOK, FlowTypes
<1>3. pc'[q] # "new" /\ expires'[q] = expires[q]
  BY <1>1 DEF Ahead
<1>4. expires'[q] <= u \/ GivenBy(q, u)
  BY <1>1, <1>2, <1>3, GivenStays
<1> QED
  BY <1>1, <1>3, <1>4 DEF DueNext

LEMMA DueStaysNow ==
    ASSUME TypeInv, Ahead, now' \in Nat, NEW a, Due(a, now)
    PROVE  DueNext(a, now')
<1>1. now \in Nat /\ now <= now'
  BY NumbersAssumption DEF TypeInv, FlowOK, FlowTypes, Ahead
<1> QED
  BY <1>1, DueStays

\* A Pending that was found, and has expired, makes its approval due.
LEMMA FoundIsDue ==
    ASSUME TypeInv, NEW a \in Approvals, NEW t \in Nat, pending[a] # None,
           t >= expires[pending[a]]
    PROVE  /\ Due(a, t)
           /\ pending[a] \in Requests /\ IdOf[pending[a]] = a /\ pc[pending[a]] # "new"
<1>1. pending[a] \in Requests
  BY DEF TypeInv, FlowOK, FlowTypes
<1>2. IdOf[pending[a]] = a /\ expires[pending[a]] \in Nat
  BY <1>1 DEF TypeInv, FlowOK, FlowTypes, PendingOwn
<1>3. pc[pending[a]] # "new"
  BY <1>1, <1>2 DEF TypeInv, FlowOK, NewIsFresh
<1> QED
  BY <1>1, <1>2, <1>3 DEF Due

LEMMA FoundIsOwn ==
    ASSUME TypeInv, NEW a \in Approvals, pending[a] # None
    PROVE  pending[a] \in Requests /\ IdOf[pending[a]] = a /\ pc[pending[a]] # "new"
<1>1. pending[a] \in Requests
  BY DEF TypeInv, FlowOK, FlowTypes
<1>2. IdOf[pending[a]] = a
  BY <1>1 DEF TypeInv, FlowOK, PendingOwn
<1> QED
  BY <1>1, <1>2 DEF TypeInv, FlowOK, NewIsFresh

-----------------------------------------------------------------------------
(* Every step is ahead.                                                    *)

PendingLess == UNCHANGED pending \/ \E a \in Approvals : pending' = [pending EXCEPT ![a] = None]

LEMMA AheadMove ==
    ASSUME TypeInv, NEW s \in Procs, NEW c, Goes(s, c), c # "new", PendingLess,
           UNCHANGED <<now, expires, upstream>>
    PROVE  Ahead
<1>1. now <= now'
  BY NumbersAssumption DEF TypeInv, FlowOK, FlowTypes
<1>2. ASSUME NEW q \in Requests, pc[q] # "new"
      PROVE  pc'[q] # "new" /\ (pending[IdOf[q]] # q => pending'[IdOf[q]] # q)
  <2>1. pc'[q] # "new"
    BY <1>2 DEF Goes, TypeInv, ProcOK, ProcTypes, Procs
  <2>2. pending[IdOf[q]] # q => pending'[IdOf[q]] # q
    BY StoreAssumption, MapsAssumption DEF PendingLess, TypeInv, FlowOK, FlowTypes
  <2> QED
    BY <2>1, <2>2
<1> QED
  BY <1>1, <1>2 DEF Ahead

LEMMA AheadStay ==
    ASSUME TypeInv, PendingLess, UNCHANGED <<pc, expires>>, now' \in Nat, now <= now',
           \A a \in Approvals : upstream[a] # "open" => upstream'[a] # "open"
    PROVE  Ahead
BY StoreAssumption, MapsAssumption DEF Ahead, PendingLess, TypeInv, FlowOK, FlowTypes

LEMMA FinalizeLess ==
    \A a \in Approvals : \A d : Finalize(a, d) \/ UNCHANGED flowVars => PendingLess
BY DEF Finalize, flowVars, PendingLess

LEMMA RequestAhead ==
    ASSUME TypeInv, NEW r \in Requests,
           Register(r) \/ RequestStep(r) \/ WaitCancelled(r) \/ Abandon(r)
    PROVE  Ahead
<1> USE DEF procVars, promptVars
<1>a. r \in Procs /\ IdOf[r] \in Approvals
  BY MapsAssumption DEF Procs
<1>b. \A to : (GoesOn(r, to) /\ to \subseteq {"prompt", "done", "get", "wait", "lookup"}) =>
         \E c \in {"prompt", "done", "get", "wait", "lookup"} : Goes(r, c)
  BY DEF GoesOn
<1>c. UNCHANGED flowVars => PendingLess
  BY DEF flowVars, PendingLess
<1>d. UNCHANGED pending => PendingLess
  BY DEF PendingLess
<1>1. CASE Register(r)
  <2>1. PICK created \in BOOLEAN : GoesOn(r, AfterRegister(created))
    BY <1>1 DEF Register
  <2>2. PICK c \in {"prompt", "done", "get", "wait", "lookup"} : Goes(r, c)
    BY <1>b, <2>1, AfterTypes
  <2>3. UNCHANGED <<now, upstream>> /\ pc[r] = "new"
    BY <1>1 DEF Register
  <2>4. now <= now'
    BY <2>3, NumbersAssumption DEF TypeInv, FlowOK, FlowTypes
  <2>5. \/ UNCHANGED <<pending, expires>>
        \/ /\ pending' = [pending EXCEPT ![IdOf[r]] = r]
           /\ expires' = [expires EXCEPT ![r] = PendingExpiry(r)]
    BY <1>1 DEF Register
  <2>6. ASSUME NEW q \in Requests, pc[q] # "new"
        PROVE  /\ pc'[q] # "new" /\ expires'[q] = expires[q]
               /\ pending[IdOf[q]] # q => pending'[IdOf[q]] # q
    <3>1. q # r
      BY <2>3, <2>6
    <3>2. pc'[q] # "new"
      BY <2>2, <2>6 DEF Goes, TypeInv, ProcOK, ProcTypes, Procs
    <3> QED
      BY <2>5, <3>1, <3>2, <1>a, MapsAssumption DEF TypeInv, FlowOK, FlowTypes
  <2> QED
    BY <2>3, <2>4, <2>6 DEF Ahead
<1>2. CASE PromptRegister(r) \/ PromptSkip(r) \/ PromptSend(r)
  <2>1. /\ \E c \in {"send", "done", "bind"} : Goes(r, c)
        /\ UNCHANGED <<now, expires, upstream, pending>>
    BY <1>2 DEF PromptRegister, PromptSkip, PromptSend, flowVars
  <2> QED
    BY <2>1, <1>a, <1>d, AheadMove
<1>3. CASE PromptSendFails(r) \/ PromptBind(r)
  <2>1. \/ GoesOn(r, AfterPrompt)
        \/ Goes(r, "schedule")
    BY <1>3 DEF PromptSendFails, PromptBind
  <2>2. \E c \in {"prompt", "done", "get", "wait", "lookup", "schedule"} : Goes(r, c)
    BY <2>1, <1>b, AfterTypes
  <2>3. UNCHANGED <<now, expires, upstream, pending>>
    BY <1>3 DEF PromptSendFails, PromptBind
  <2> QED
    BY <2>2, <2>3, <1>a, <1>d, AheadMove
<1>4. CASE PromptSchedule(r)
  <2>1. PendingLess /\ UNCHANGED <<now, expires, upstream>> /\ GoesOn(r, AfterPrompt)
    BY <1>4, <1>a, FinalizeLess DEF PromptSchedule, FinishTimedOut
  <2>2. \E c \in {"prompt", "done", "get", "wait", "lookup"} : Goes(r, c)
    BY <2>1, <1>b, AfterTypes
  <2> QED
    BY <2>1, <2>2, <1>a, AheadMove
<1>5. CASE \/ Get(r) \/ WaitUnknown(r) \/ WaitBegin(r) \/ WaitTake(r) \/ WaitTimer(r)
           \/ WaitCancelled(r) \/ Abandon(r)
  <2>1. UNCHANGED <<now, expires, upstream, pending>>
    BY <1>5 DEF Get, WaitUnknown, WaitBegin, WaitTake, WaitTimer, WaitCancelled, Abandon, flowVars
  <2>2. \E c \in {"done", "wait", "finish", "timeout", "waiting"} : Goes(r, c)
    BY <1>5 DEF Get, WaitUnknown, WaitBegin, WaitTake, Takes, WaitTimer, WaitCancelled, Abandon
  <2> QED
    BY <2>1, <2>2, <1>a, <1>d, AheadMove
<1>6. CASE WaitTimedOut(r)
  <2>1. PendingLess /\ Goes(r, "finish") /\ UNCHANGED <<now, expires, upstream>>
    BY <1>6, <1>a, FinalizeLess DEF WaitTimedOut, FinishTimedOut
  <2> QED
    BY <2>1, <1>a, AheadMove
<1> QED
  BY <1>1, <1>2, <1>3, <1>4, <1>5, <1>6 DEF RequestStep

LEMMA ResolveAhead ==
    ASSUME TypeInv, NEW s \in Procs, ResolveStep(s)
    PROVE  Ahead
<1>1. UNCHANGED <<now, expires, upstream>>
  BY DEF ResolveStep, ResolveLookup, ResolveExpired, ResolvePut, ResolveClose, Finish
<1>2. PendingLess
  BY IdForType, FinalizeLess
     DEF ResolveStep, ResolveLookup, ResolveExpired, ResolvePut, ResolveClose, Finish,
         FinishTimedOut, PendingLess
<1>3. \E c \in {"expired", "put", "close", "done", AfterResolve(s, TRUE),
               AfterResolve(s, FALSE)} : Goes(s, c)
  BY DEF ResolveStep, ResolveLookup, ResolveExpired, ResolvePut, ResolveClose, Finish
<1>4. AfterResolve(s, TRUE) # "new" /\ AfterResolve(s, FALSE) # "new"
  BY AfterResolveTypes
<1> QED
  BY <1>1, <1>2, <1>3, <1>4, AheadMove

LEMMA RemoteAhead ==
    ASSUME TypeInv, NEW a \in Approvals,
           RemoteDecides(a) \/ RemoteResolved(a) \/ RemoteUnlisted(a)
    PROVE  Ahead
<1>a. a \in Procs /\ now \in Nat /\ now <= now
  BY NumbersAssumption DEF Procs, TypeInv, FlowOK, FlowTypes
<1>1. CASE RemoteDecides(a)
  <2>1. UNCHANGED <<pc, now, expires, pending>>
    BY <1>1 DEF RemoteDecides, procVars, flowVars
  <2>2. \A b \in Approvals : upstream[b] # "open" => upstream'[b] # "open"
    BY <1>1 DEF RemoteDecides, TypeInv, FlowOK, FlowTypes
  <2> QED
    BY <1>a, <2>1, <2>2, AheadStay DEF PendingLess
<1>2. CASE RemoteResolved(a) \/ RemoteUnlisted(a)
  <2>1. UNCHANGED <<now, expires, upstream>>
    BY <1>2 DEF RemoteResolved, RemoteUnlisted
  <2>2. \E c \in {"lookup", "done"} : Goes(a, c)
    BY <1>2 DEF RemoteResolved, RemoteUnlisted
  <2>3. PendingLess
    BY <1>2, FinalizeLess DEF RemoteResolved, RemoteUnlisted, PendingLess, flowVars
  <2> QED
    BY <1>a, <2>1, <2>2, <2>3, AheadMove
<1> QED
  BY <1>1, <1>2

LEMMA ReactAhead ==
    ASSUME IInv, TypeInv,
           ReactStep \/ \E p \in Places \cup {None}, d \in Answers : React(p, d)
    PROVE  Ahead
<1>a. now \in Nat /\ now <= now
  BY NumbersAssumption DEF TypeInv, FlowOK, FlowTypes
<1>1. UNCHANGED <<pc, now, expires>>
  BY DEF ReactStep, React, ReactSettled, ReactFallback, ReactDrop, ReactLookup, ReactExpired,
         ReactPut, ReactDeliver, ReactFinish, procVars
<1>2. PendingLess
  BY FinalizeLess
     DEF ReactStep, React, ReactSettled, ReactFallback, ReactDrop, ReactLookup, ReactExpired,
         ReactPut, ReactDeliver, ReactFinish, FinishTimedOut, PendingLess, flowVars, IInv, Subjects
<1>3. UNCHANGED upstream \/ ReactDeliver
  BY DEF ReactStep, React, ReactSettled, ReactFallback, ReactDrop, ReactLookup, ReactExpired,
         ReactPut, ReactFinish
<1>4. \A a \in Approvals : upstream[a] # "open" => upstream'[a] # "open"
  <2>1. CASE ReactDeliver
    BY <2>1 DEF ReactDeliver, TypeInv, FlowOK, FlowTypes
  <2> QED
    BY <1>3, <2>1
<1> QED
  BY <1>a, <1>1, <1>2, <1>4, AheadStay

LEMMA ReapAhead ==
    ASSUME IInv, TypeInv, ReapStep
    PROVE  Ahead
<1>a. now \in Nat /\ now <= now
  BY NumbersAssumption DEF TypeInv, FlowOK, FlowTypes
<1>1. UNCHANGED <<pc, now, expires, upstream>>
  BY DEF ReapStep, ReapScan, ReapCheck, ReapFinish, procVars
<1>2. PendingLess
  BY FinalizeLess
     DEF ReapStep, ReapScan, ReapCheck, ReapFinish, FinishTimedOut, PendingLess, flowVars,
         IInv, Subjects
<1> QED
  BY <1>a, <1>1, <1>2, AheadStay

LEMMA TickAhead ==
    ASSUME TypeInv, Tick \/ UNCHANGED vars
    PROVE  Ahead /\ now' \in Nat
<1>1. UNCHANGED <<pc, expires, upstream, pending>>
  BY DEF Tick, vars, procVars
<1>2. now' \in Nat /\ now <= now'
  BY NumbersAssumption DEF Tick, vars, TypeInv, FlowOK, FlowTypes
<1> QED
  BY <1>1, <1>2, AheadStay DEF PendingLess

-----------------------------------------------------------------------------
(* The parts of the invariant, when a step disturbs them little.           *)

LEMMA TimesStay ==
    ASSUME TypeInv, Times, UNCHANGED <<now, expires>>, rnow' \in {rnow, 0, now}
    PROVE  Times'
BY NumbersAssumption DEF Times, TypeInv, FlowOK, FlowTypes, ReactOK

\* The store has no prompt that it did not have, with that expiry.
StoreOlder ==
    \A a \in Approvals : HasPrompt(store', a) =>
        HasPrompt(store, a) /\ store'.prompt[a].expires = store.prompt[a].expires

SendPcs == {"send", "bind", "schedule"}

\* Every prompt of the store ends when a request for its approval is due.
StoreDue ==
    \A a \in Approvals : HasPrompt(store', a) => DueNext(a, store'.prompt[a].expires)

LEMMA PromptIsDue ==
    ASSUME TypeInv, Ahead, NEW a, NEW t \in Nat, Due(a, t)
    PROVE  DueNext(a, t)
<1>1. t <= t
  OBVIOUS
<1> QED
  BY <1>1, DueStays

LEMMA OlderIsDue ==
    ASSUME IInv, TypeInv, PromptsDue, Ahead, StoreOlder
    PROVE  StoreDue
<1> SUFFICES ASSUME NEW a \in Approvals, HasPrompt(store', a)
             PROVE  DueNext(a, store'.prompt[a].expires)
  BY DEF StoreDue
<1>1. HasPrompt(store, a) /\ store'.prompt[a].expires = store.prompt[a].expires
  BY DEF StoreOlder
<1>2. store.prompt[a].expires \in Nat
  BY <1>1 DEF IInv, Sound, Store, Prompt, HasPrompt
<1>3. Due(a, store.prompt[a].expires)
  BY <1>1 DEF PromptsDue
<1> QED
  BY <1>1, <1>2, <1>3, PromptIsDue

LEMMA PromptsLess ==
    ASSUME IInv, TypeInv, PromptsDue, Ahead, StoreDue,
           \A r \in Requests :
              /\ before'[r] \in {before[r], None}
              /\ pc'[r] \in SendPcs => pc[r] \in SendPcs /\ promptEnd'[r] = promptEnd[r]
    PROVE  PromptsDue'
<1>1. ASSUME NEW r \in Requests, before'[r] # None
      PROVE  DueNext(IdOf[r], before'[r].expires)
  <2>1. before'[r] = before[r]
    BY <1>1
  <2>2. before[r].expires \in Nat /\ Due(IdOf[r], before[r].expires)
    BY <1>1, <2>1 DEF IInv, Types, Prompt, PromptsDue
  <2> QED
    BY <2>1, <2>2, PromptIsDue
<1>2. ASSUME NEW r \in Requests, pc'[r] \in SendPcs
      PROVE  expires'[r] <= promptEnd'[r] \/ GivenBy(r, promptEnd'[r])
  <2>1. pc[r] \in SendPcs /\ promptEnd'[r] = promptEnd[r]
    BY <1>2
  <2>2. expires'[r] = expires[r]
    BY <2>1 DEF Ahead, SendPcs
  <2> QED
    BY <2>1, <2>2 DEF PromptsDue, SendPcs
<1> QED
  BY <1>1, <1>2 DEF StoreDue, PromptsDue, Due, DueNext, GivenBy, HasPrompt, SendPcs

LEMMA OlderStays == UNCHANGED store => StoreOlder
BY DEF StoreOlder, HasPrompt

LEMMA OlderDropped ==
    ASSUME IInv, NEW a \in Approvals, store' = DropPrompt(store, a)
    PROVE  StoreOlder
<1>1. store'.prompt = [store.prompt EXCEPT ![a] = None] /\ store \in Store
  BY DropPromptAgrees DEF IInv, Sound
<1> QED
  BY <1>1 DEF StoreOlder, HasPrompt, Store

LEMMA OlderDroppedAll == \A gone : store' = DropAll(gone) => StoreOlder
BY DEF StoreOlder, HasPrompt, DropAll

LEMMA OlderFinalized ==
    ASSUME IInv, NEW a \in Approvals, NEW d, Finalize(a, d) \/ UNCHANGED flowVars
    PROVE  StoreOlder
BY OlderDropped, OlderStays DEF Finalize, flowVars

\* No request sends or has sent its prompt by this step.
LEMMA PromptsStay ==
    ASSUME IInv, TypeInv, PromptsDue, Ahead, StoreOlder, UNCHANGED <<before, promptEnd>>,
           \/ UNCHANGED pc
           \/ \E s \in Procs : \E c : Goes(s, c) /\ (c \in SendPcs => pc[s] \in SendPcs)
    PROVE  PromptsDue'
<1>1. \A r \in Requests : pc'[r] \in SendPcs => pc[r] \in SendPcs
  BY DEF Goes, TypeInv, ProcOK, ProcTypes, Procs
<1> QED
  BY <1>1, OlderIsDue, PromptsLess

LEMMA EndsDulyStays ==
    ASSUME TypeInv, Ahead, now' \in Nat, NEW r \in Requests, pc[r] # "new", EndsDuly(r)
    PROVE  \/ DueNext(IdOf[r], now') \/ pending'[IdOf[r]] # r
           \/ upstream'[IdOf[r]] # "open"
BY DueStaysNow, MapsAssumption DEF EndsDuly, Ahead

LEMMA HandlersDueStay ==
    ASSUME TypeInv, HandlersDue, Ahead, now' \in Nat, NEW s \in Procs,
           pc'[s] = pc[s], held'[s] = held[s], dec'[s] = dec[s]
    PROVE  /\ pc'[s] = "expired" => Due(IdFor(s), now)'
           /\ s \in Requests => RequestDue(s)'
           /\ (s \in Approvals /\ dec'[s] = "timeout") => upstream'[s] # "open"
<1>1. pc'[s] = "expired" => Due(IdFor(s), now)'
  <2>1. pc[s] = "expired" => DueNext(IdFor(s), now')
    BY DueStaysNow DEF HandlersDue
  <2> QED
    BY <2>1 DEF Due, DueNext, GivenBy, IdFor
<1>2. (s \in Approvals /\ dec'[s] = "timeout") => upstream'[s] # "open"
  BY DEF HandlersDue, Ahead
<1>3. ASSUME s \in Requests
      PROVE  RequestDue(s)'
  <2>1. RequestDue(s)
    BY <1>3 DEF HandlersDue
  <2>2. pc'[s] = "waiting" =>
           held'[s] \in Requests /\ IdOf[held'[s]] = IdOf[s] /\ pc'[held'[s]] # "new"
    BY <2>1 DEF RequestDue, Ahead
  <2>3. pc'[s] = "timeout" => DueNext(IdOf[s], now')
    BY <2>1, DueStaysNow DEF RequestDue
  <2>4. (pc'[s] = "finish" /\ dec'[s] = "timeout") =>
           \/ DueNext(IdOf[s], now') \/ pending'[IdOf[s]] # s
           \/ upstream'[IdOf[s]] # "open"
    BY <1>3, <2>1, EndsDulyStays DEF RequestDue
  <2> QED
    BY <2>1, <2>2, <2>3, <2>4 DEF RequestDue, EndsDuly, Due, DueNext, GivenBy
<1> QED
  BY <1>1, <1>2, <1>3

LEMMA HandlersDueMove ==
    ASSUME TypeInv, HandlersDue, Ahead, now' \in Nat, NEW s \in Procs, NEW c, Goes(s, c),
           NEW h, held' = [held EXCEPT ![s] = h], NEW d, dec' = [dec EXCEPT ![s] = d],
           c = "expired" => DueNext(IdFor(s), now'),
           s \in Requests =>
              /\ c = "waiting" => h \in Requests /\ IdOf[h] = IdOf[s] /\ pc[h] # "new"
              /\ c = "timeout" => DueNext(IdOf[s], now')
              /\ c \in {"lookup", "expired", "put", "close"} => d # "timeout"
              /\ (c = "finish" /\ d = "timeout") =>
                    \/ DueNext(IdOf[s], now') \/ pending'[IdOf[s]] # s
                    \/ upstream'[IdOf[s]] # "open",
           (s \in Approvals /\ d = "timeout") => upstream'[s] # "open"
    PROVE  HandlersDue'
<1>1. /\ pc'[s] = c /\ held'[s] = h /\ dec'[s] = d
      /\ \A q \in Procs \ {s} : /\ pc'[q] = pc[q]
                                /\ held'[q] = held[q] /\ dec'[q] = dec[q]
  BY DEF Goes, TypeInv, ProcOK, ProcTypes
<1>2. pc'[s] = "expired" => Due(IdFor(s), now)'
  BY <1>1 DEF Due, DueNext, GivenBy, IdFor
<1>3. ASSUME s \in Requests
      PROVE  RequestDue(s)'
  <2>1. pc'[s] = "waiting" =>
           held'[s] \in Requests /\ IdOf[held'[s]] = IdOf[s] /\ pc'[held'[s]] # "new"
    BY <1>1, <1>3 DEF Ahead
  <2> QED
    BY <1>1, <1>3, <2>1 DEF RequestDue, EndsDuly, Due, DueNext, GivenBy
<1>4. \A q \in Procs \ {s} :
         /\ pc'[q] = "expired" => Due(IdFor(q), now)'
         /\ q \in Requests => RequestDue(q)'
         /\ (q \in Approvals /\ dec'[q] = "timeout") => upstream'[q] # "open"
  BY <1>1, HandlersDueStay
<1>5. \A q \in Procs :
         /\ pc'[q] = "expired" => Due(IdFor(q), now)'
         /\ q \in Requests => RequestDue(q)'
         /\ (q \in Approvals /\ dec'[q] = "timeout") => upstream'[q] # "open"
  <2> TAKE q \in Procs
  <2>1. CASE q = s
    BY <2>1, <1>1, <1>2, <1>3
  <2>2. CASE q # s
    BY <2>2, <1>4
  <2> QED
    BY <2>1, <2>2
<1> QED
  BY <1>5 DEF HandlersDue, Due, IdFor

LEMMA HandlersDueRest ==
    ASSUME TypeInv, HandlersDue, Ahead, now' \in Nat, UNCHANGED <<pc, held, dec>>
    PROVE  HandlersDue'
BY HandlersDueStay DEF HandlersDue, Due, IdFor

LEMMA AnswersStay == AnswersDue /\ Ahead /\ UNCHANGED ch => AnswersDue'
BY MapsAssumption DEF AnswersDue, Ahead

LEMMA OthersDueStay ==
    ASSUME TypeInv, OthersDue, Ahead, now' \in Nat, UNCHANGED <<rpc, rid, reap, cut>>
    PROVE  OthersDue'
BY DueStaysNow DEF OthersDue, Due, DueNext, GivenBy

\* A request moves on, to nothing that may time an approval out.
LEMMA HandlersDuePlain ==
    ASSUME TypeInv, HandlersDue, Ahead, now' \in Nat, NEW r \in Requests,
           NEW c \in {"prompt", "send", "bind", "schedule", "get", "wait", "done"}, Goes(r, c),
           UNCHANGED dec \/ (\E d : dec' = [dec EXCEPT ![r] = d]),
           UNCHANGED held \/ (\E h : held' = [held EXCEPT ![r] = h])
    PROVE  HandlersDue'
<1>1. r \in Procs /\ r \notin Approvals
  BY NamesAssumption DEF Procs
<1>2. PICK d, h : dec' = [dec EXCEPT ![r] = d] /\ held' = [held EXCEPT ![r] = h]
  <2>1. dec = [dec EXCEPT ![r] = dec[r]] /\ held = [held EXCEPT ![r] = held[r]]
    BY DEF TypeInv, ProcOK, ProcTypes
  <2> QED
    BY <2>1
<1> QED
  BY <1>1, <1>2, HandlersDueMove

-----------------------------------------------------------------------------
(* The steps.                                                              *)

\* A request goes on, from Register or from SendPrompt.
LEMMA GoesOnDue ==
    ASSUME IInv, TypeInv, PromptsDue, HandlersDue, Ahead, StoreDue,
           NEW r \in Requests, NEW to, GoesOn(r, to), UNCHANGED <<now, held>>,
           to \subseteq {"prompt", "done", "get", "wait", "lookup"}
    PROVE  PromptsDue' /\ HandlersDue'
<1>a. r \in Procs /\ r \notin Approvals /\ now' \in Nat
  BY NamesAssumption, NumbersAssumption DEF Procs, TypeInv, FlowOK, FlowTypes
<1>1. PICK c \in to : /\ Goes(r, c)
                      /\ dec' = [dec EXCEPT ![r] = IF c = "lookup" THEN "allow" ELSE None]
  BY DEF GoesOn
<1>2. c \in {"prompt", "done", "get", "wait", "lookup"} /\ c \notin SendPcs
  BY DEF SendPcs
<1>3. PromptsDue'
  <2>1. /\ before' = [before EXCEPT ![r] = None]
        /\ promptEnd' = [promptEnd EXCEPT ![r] = 0]
    BY DEF GoesOn
  <2>2. \A q \in Requests : before'[q] \in {before[q], None}
    BY <2>1 DEF IInv, Types
  <2>3. \A q \in Requests : q # r => promptEnd'[q] = promptEnd[q]
    BY <2>1 DEF TypeInv, ProcOK, ProcTypes
  <2>4. \A q \in Requests : pc'[q] \in SendPcs => q # r /\ pc[q] \in SendPcs
    BY <1>1, <1>2 DEF Goes, TypeInv, ProcOK, ProcTypes, Procs
  <2> QED
    BY <2>2, <2>3, <2>4, PromptsLess
<1>4. HandlersDue'
  <2> DEFINE d == IF c = "lookup" THEN "allow" ELSE None
  <2>1. held' = [held EXCEPT ![r] = held[r]]
    BY DEF TypeInv, ProcOK, ProcTypes
  <2>2. d # "timeout"
    BY NoDecisionAssumption DEF Decisions
  <2>3. dec' = [dec EXCEPT ![r] = d]
    BY <1>1
  <2> HIDE DEF d
  <2> QED
    BY <1>a, <1>1, <1>2, <2>1, <2>2, <2>3, HandlersDueMove
<1> QED
  BY <1>3, <1>4

LEMMA RegisterDue ==
    ASSUME IInv, TypeInv, DueInv, NEW r \in Requests, Register(r)
    PROVE  DueInv'
<1>1. Ahead /\ UNCHANGED <<now, ch, rpc, rid, rnow, reap, cut, store, held>>
  BY RequestAhead DEF Register, reactVars, reapVars
<1>2. PromptsDue' /\ HandlersDue'
  <2>1. PICK created \in BOOLEAN : GoesOn(r, AfterRegister(created))
    BY DEF Register
  <2> QED
    BY <1>1, <2>1, AfterTypes, OlderStays, OlderIsDue, GoesOnDue DEF DueInv
<1>3. now' \in Nat /\ TTL \in Nat
  BY <1>1, NumbersAssumption DEF TypeInv, FlowOK, FlowTypes
<1>4. AnswersDue' /\ OthersDue'
  BY <1>1, <1>3, AnswersStay, OthersDueStay DEF DueInv
<1>5. Times'
  <2>1. UNCHANGED expires \/ expires' = [expires EXCEPT ![r] = PendingExpiry(r)]
    BY DEF Register
  <2>2. PendingExpiry(r) <= now + TTL \/ EndOf[r] # None
    BY <1>1, <1>3, Expiries
  <2> QED
    BY <1>1, <2>1, <2>2 DEF Times, DueInv, TypeInv, FlowOK, FlowTypes
<1> QED
  BY <1>2, <1>4, <1>5 DEF DueInv

\* SendPrompt registers a prompt that lives as long as the Pending, or until the server
\* said.
LEMMA PromptRegisterDue ==
    ASSUME IInv, TypeInv, DueInv, NEW r \in Requests, PromptRegister(r)
    PROVE  PromptsDue' /\ HandlersDue'
<1> DEFINE a == IdOf[r]
           reg == [msg |-> None, target |-> TargetOf[r], version |-> 0,
                   expires |-> PromptExpiry(r), serial |-> 0]
<1>a. /\ a \in Approvals /\ r \in Procs /\ r \notin Approvals
      /\ now' \in Nat /\ now \in Nat /\ TTL \in Nat /\ Ahead
  <2>1. Ahead
    BY RequestAhead DEF RequestStep
  <2>2. UNCHANGED now /\ now \in Nat /\ TTL \in Nat
    BY NumbersAssumption DEF PromptRegister, TypeInv, FlowOK, FlowTypes
  <2> QED
    BY <2>1, <2>2, MapsAssumption, NamesAssumption DEF Procs
<1>1. /\ pc[r] = "prompt" /\ Goes(r, "send") /\ UNCHANGED <<dec, held, expires>>
      /\ store' = RegisterPrompt(store, a, reg)
      /\ before' = [before EXCEPT ![r] = store.prompt[a]]
      /\ promptEnd' = [promptEnd EXCEPT ![r] = PromptExpiry(r)]
  BY DEF PromptRegister
<1>2. /\ pc'[r] = "send"
      /\ \A q \in Requests : q # r => pc'[q] = pc[q]
  BY <1>1, <1>a DEF Goes, TypeInv, ProcOK, ProcTypes, Procs
<1>3. reg \in Prompt /\ reg.msg = None
  BY MapsAssumption, <1>a, Expiries DEF Prompt
<1>4. /\ \A b \in Approvals \ {a} : store'.prompt[b] = store.prompt[b]
      /\ store'.prompt[a].expires = PromptExpiry(r)
  <2>1. \A b \in Approvals \ {a} : store'.prompt[b] = store.prompt[b]
    BY <1>a, <1>1, <1>3, RegisterPromptAgrees DEF IInv, Sound, FreeFor
  <2>2. store'.prompt[a].expires = PromptExpiry(r)
    <3> DEFINE version == IF reg.version = 0 /\ HasPrompt(store, a)
                          THEN store.prompt[a].version ELSE reg.version
               new == [reg EXCEPT !.version = version, !.serial = store.serial + 1]
    <3>1. store'.prompt = [store.prompt EXCEPT ![a] = new]
      BY <1>1 DEF RegisterPrompt
    <3>2. new.expires = PromptExpiry(r)
      OBVIOUS
    <3> HIDE DEF new
    <3> QED
      BY <1>a, <3>1, <3>2 DEF IInv, Sound, Store
  <2> QED
    BY <2>1, <2>2
<1>b. expires[r] <= PromptExpiry(r) \/ GivenBy(r, PromptExpiry(r))
  BY <1>a, Expiries DEF DueInv, Times
<1>5. DueNext(a, PromptExpiry(r))
  <2>1. (expires'[r] <= PromptExpiry(r) \/ GivenBy(r, PromptExpiry(r))) /\ pc'[r] # "new"
    BY <1>1, <1>2, <1>b
  <2> QED
    BY <2>1 DEF DueNext
<1>6. \A b \in Approvals : HasPrompt(store', b) => DueNext(b, store'.prompt[b].expires)
  <2> SUFFICES ASSUME NEW b \in Approvals, HasPrompt(store', b)
               PROVE  DueNext(b, store'.prompt[b].expires)
    OBVIOUS
  <2>1. CASE b = a
    BY <2>1, <1>4, <1>5
  <2>2. CASE b # a
    <3>1. HasPrompt(store, b) /\ store'.prompt[b] = store.prompt[b]
      BY <2>2, <1>4 DEF HasPrompt
    <3>2. store.prompt[b].expires \in Nat
      BY <3>1 DEF IInv, Sound, Store, Prompt, HasPrompt
    <3>3. Due(b, store.prompt[b].expires) /\ store.prompt[b].expires <= store.prompt[b].expires
      BY <3>1, <3>2 DEF DueInv, PromptsDue
    <3> QED
      BY <3>1, <3>2, <3>3, <1>a, DueStays
  <2> QED
    BY <2>1, <2>2
<1>7. \A q \in Requests : before'[q] # None => DueNext(IdOf[q], before'[q].expires)
  <2> SUFFICES ASSUME NEW q \in Requests, before'[q] # None
               PROVE  DueNext(IdOf[q], before'[q].expires)
    OBVIOUS
  <2>1. Due(IdOf[q], before'[q].expires) /\ before'[q].expires \in Nat
    <3>1. CASE q = r
      <4>1. before'[q] = store.prompt[a] /\ HasPrompt(store, a)
        BY <1>1, <3>1 DEF IInv, Types, HasPrompt
      <4> QED
        BY <4>1, <3>1, <1>a DEF DueInv, PromptsDue, IInv, Sound, Store, Prompt, HasPrompt
    <3>2. CASE q # r
      <4>1. before'[q] = before[q]
        BY <1>1, <3>2 DEF IInv, Types
      <4> QED
        BY <4>1 DEF DueInv, PromptsDue, IInv, Types, Prompt
    <3> QED
      BY <3>1, <3>2
  <2>2. before'[q].expires <= before'[q].expires
    BY <2>1
  <2> QED
    BY <2>1, <2>2, <1>a, DueStays
<1>8. \A q \in Requests :
         pc'[q] \in SendPcs => expires'[q] <= promptEnd'[q] \/ GivenBy(q, promptEnd'[q])
  <2> SUFFICES ASSUME NEW q \in Requests, pc'[q] \in SendPcs
               PROVE  expires'[q] <= promptEnd'[q] \/ GivenBy(q, promptEnd'[q])
    OBVIOUS
  <2>1. CASE q = r
    BY <2>1, <1>1, <1>b DEF TypeInv, ProcOK, ProcTypes
  <2>2. CASE q # r
    BY <2>2, <1>1, <1>2 DEF DueInv, PromptsDue, SendPcs, TypeInv, ProcOK, ProcTypes
  <2> QED
    BY <2>1, <2>2
<1>9. PromptsDue'
  BY <1>6, <1>7, <1>8 DEF PromptsDue, Due, DueNext, GivenBy, HasPrompt, SendPcs
<1>10. HandlersDue'
  BY <1>a, <1>1, HandlersDuePlain DEF DueInv
<1> QED
  BY <1>9, <1>10

\* The prompt that SendPrompt put aside comes back.
LEMMA RestoreDue ==
    ASSUME IInv, TypeInv, DueInv, Ahead, NEW r \in Requests, GoesOn(r, AfterPrompt),
           store' = RestorePrompt(store, IdOf[r], before[r]), UNCHANGED <<now, held>>
    PROVE  PromptsDue' /\ HandlersDue'
<1> DEFINE a == IdOf[r]
<1>a. a \in Approvals /\ before[r] \in Prompt \cup {None}
  BY MapsAssumption DEF IInv, Types
<1>1. CASE before[r] = None
  BY <1>1, <1>a, OlderDropped, OlderIsDue, AfterTypes, GoesOnDue DEF RestorePrompt, DueInv
<1>2. CASE before[r] # None
  <2> DEFINE s == DropPrompt(store, a)
             b0 == before[r]
  <2>1. /\ s \in Store /\ IndexesAgree(s) /\ Sound(s)
        /\ s.prompt = [store.prompt EXCEPT ![a] = None]
    BY <1>a, DropPromptAgrees, DropPromptSound DEF IInv, Sound
  <2>2. FreeFor(s, a, b0.msg)
    BY <2>1, <1>2 DEF Sound, FreeFor, IInv, OwnBefore
  <2> HIDE DEF s
  <2>3. store' = RegisterPrompt(s, a, b0)
    BY <1>2 DEF RestorePrompt, s
  <2>4. \A b \in Approvals \ {a} : store'.prompt[b] = store.prompt[b]
    <3>1. \A b \in Approvals \ {a} : store'.prompt[b] = s.prompt[b]
      <4>1. b0 \in Prompt
        BY <1>a, <1>2
      <4> HIDE DEF b0, a
      <4>2. \A b \in Approvals \ {a} : RegisterPrompt(s, a, b0).prompt[b] = s.prompt[b]
        BY <1>a, <2>1, <2>2, <4>1, RegisterPromptAgrees
      <4> QED
        BY <2>3, <4>2
    <3> QED
      BY <3>1, <2>1 DEF IInv, Sound, Store
  <2>5. store'.prompt[a].expires = b0.expires
    <3> DEFINE version == IF b0.version = 0 /\ HasPrompt(s, a)
                          THEN s.prompt[a].version ELSE b0.version
               new == [b0 EXCEPT !.version = version, !.serial = s.serial + 1]
    <3>1. store'.prompt = [s.prompt EXCEPT ![a] = new]
      BY <2>3 DEF RegisterPrompt
    <3>2. new.expires = b0.expires
      BY <1>a, <1>2 DEF Prompt
    <3> HIDE DEF new
    <3> QED
      BY <1>a, <2>1, <3>1, <3>2 DEF Store
  <2>6. \A b \in Approvals : HasPrompt(store', b) =>
            /\ Due(b, store'.prompt[b].expires)
            /\ store'.prompt[b].expires \in Nat
    <3> SUFFICES ASSUME NEW b \in Approvals, HasPrompt(store', b)
                 PROVE  /\ Due(b, store'.prompt[b].expires)
                        /\ store'.prompt[b].expires \in Nat
      OBVIOUS
    <3>1. CASE b = a
      BY <3>1, <1>a, <1>2, <2>5 DEF DueInv, PromptsDue, Prompt
    <3>2. CASE b # a
      BY <3>2, <2>4 DEF DueInv, PromptsDue, HasPrompt, IInv, Sound, Store, Prompt
    <3> QED
      BY <3>1, <3>2
  <2>7. \A b \in Approvals : HasPrompt(store', b) => DueNext(b, store'.prompt[b].expires)
    BY <2>6, PromptIsDue
  <2> QED
    BY <2>7, AfterTypes, GoesOnDue DEF StoreDue, DueInv
<1> QED
  BY <1>1, <1>2

\* The parts of the invariant that a request and a remote decision leave alone.
LEMMA RestDue ==
    ASSUME TypeInv, DueInv, Ahead, UNCHANGED <<now, expires, reactVars, reapVars>>
    PROVE  now' \in Nat /\ now \in Nat /\ Times' /\ OthersDue'
<1>1. now' \in Nat /\ now \in Nat
  BY NumbersAssumption DEF TypeInv, FlowOK, FlowTypes
<1>2. rnow' \in {rnow, 0, now} /\ UNCHANGED <<rpc, rid, reap, cut>>
  BY DEF reactVars, reapVars
<1> QED
  BY <1>1, <1>2, TimesStay, OthersDueStay DEF DueInv

LEMMA PromptDue ==
    ASSUME IInv, TypeInv, DueInv, NEW r \in Requests,
           \/ PromptRegister(r) \/ PromptSkip(r) \/ PromptSend(r)
           \/ PromptSendFails(r) \/ PromptBind(r) \/ PromptSchedule(r)
    PROVE  DueInv'
<1> USE DEF procVars, promptVars, flowVars
<1>a. r \in Procs /\ IdOf[r] \in Approvals
  BY MapsAssumption DEF Procs
<1>b. Ahead
  BY RequestAhead DEF RequestStep
<1>c. UNCHANGED <<now, expires, reactVars, reapVars, ch, held>>
  BY DEF PromptRegister, PromptSkip, PromptSend, PromptSendFails, PromptBind, PromptSchedule
<1>d. now' \in Nat /\ Times' /\ OthersDue' /\ AnswersDue'
  BY <1>b, <1>c, RestDue, AnswersStay DEF DueInv
<1>1. CASE PromptRegister(r)
  BY <1>1, <1>d, PromptRegisterDue DEF DueInv
<1>2. CASE PromptSkip(r) \/ PromptSend(r)
  <2>1. UNCHANGED <<store, before, promptEnd, dec>>
    BY <1>2 DEF PromptSkip, PromptSend
  <2>2. PICK c \in {"done", "bind"} : Goes(r, c) /\ (c \in SendPcs => pc[r] \in SendPcs)
    BY <1>2 DEF PromptSkip, PromptSend, SendPcs
  <2>3. PromptsDue'
    BY <1>a, <1>b, <2>1, <2>2, OlderStays, PromptsStay DEF DueInv
  <2>4. HandlersDue'
    BY <1>b, <1>c, <1>d, <2>1, <2>2, HandlersDuePlain DEF DueInv
  <2> QED
    BY <1>d, <2>3, <2>4 DEF DueInv
<1>3. CASE PromptSendFails(r)
  BY <1>3, <1>b, <1>c, <1>d, RestoreDue DEF PromptSendFails, DueInv
<1>4. CASE PromptBind(r)
  <2>1. CASE HasPrompt(store, IdOf[r])
    <3> DEFINE a == IdOf[r]
    <3>1. /\ pc[r] = "bind" /\ store' = BindPrompt(store, a, r) /\ Goes(r, "schedule")
          /\ UNCHANGED <<dec, before, promptEnd>>
      BY <1>4, <2>1 DEF PromptBind
    <3>2. StoreOlder
      <4> DEFINE p == store.prompt[a]
                 new == [p EXCEPT !.msg = r, !.version = p.version + 1]
      <4>1. store'.prompt = [store.prompt EXCEPT ![a] = new]
        BY <3>1 DEF BindPrompt
      <4>2. p \in Prompt
        BY <1>a, <2>1 DEF IInv, Sound, Store, HasPrompt
      <4>3. new.expires = p.expires
        BY <4>2 DEF Prompt
      <4>4. store.prompt \in [Approvals -> Prompt \cup {None}]
        BY DEF IInv, Sound, Store
      <4> HIDE DEF new
      <4> QED
        BY <1>a, <2>1, <4>1, <4>3, <4>4 DEF StoreOlder, HasPrompt
    <3>3. PromptsDue'
      BY <1>a, <1>b, <3>1, <3>2, PromptsStay DEF DueInv, SendPcs
    <3>4. HandlersDue'
      BY <1>b, <1>c, <1>d, <3>1, HandlersDuePlain DEF DueInv
    <3> QED
      BY <1>d, <3>3, <3>4 DEF DueInv
  <2>2. CASE ~HasPrompt(store, IdOf[r])
    BY <1>4, <2>2, <1>b, <1>c, <1>d, RestoreDue DEF PromptBind, DueInv
  <2> QED
    BY <2>1, <2>2
<1>5. CASE PromptSchedule(r)
  <2>1. StoreDue
    BY <1>5, <1>a, <1>b, OlderFinalized, OlderIsDue DEF PromptSchedule, FinishTimedOut, DueInv
  <2>2. GoesOn(r, AfterPrompt)
    BY <1>5 DEF PromptSchedule
  <2> QED
    BY <1>b, <1>c, <1>d, <2>1, <2>2, AfterTypes, GoesOnDue DEF DueInv
<1> QED
  BY <1>1, <1>2, <1>3, <1>4, <1>5

\* A handler that touches no prompt.
LEMMA PromptsMove ==
    ASSUME IInv, TypeInv, PromptsDue, Ahead, StoreOlder, UNCHANGED <<before, promptEnd>>,
           NEW s \in Procs, NEW c, c \notin SendPcs, Goes(s, c)
    PROVE  PromptsDue'
BY PromptsStay

LEMMA WaitDue ==
    ASSUME IInv, TypeInv, DueInv, NEW r \in Requests,
           \/ Get(r) \/ WaitUnknown(r) \/ WaitBegin(r) \/ WaitTake(r) \/ WaitTimer(r)
           \/ WaitTimedOut(r) \/ WaitCancelled(r) \/ Abandon(r)
    PROVE  DueInv'
<1> USE DEF procVars, promptVars, flowVars
<1>a. r \in Procs /\ r \notin Approvals /\ IdOf[r] \in Approvals /\ HandlersDue
  BY MapsAssumption, NamesAssumption DEF Procs, DueInv
<1>b. Ahead
  BY RequestAhead DEF RequestStep
<1>c. UNCHANGED <<now, expires, reactVars, reapVars, before, promptEnd, upstream>>
  BY DEF Get, WaitUnknown, WaitBegin, WaitTake, WaitTimer, WaitTimedOut, WaitCancelled, Abandon
<1>d. now' \in Nat /\ now \in Nat /\ now = now' /\ Times' /\ OthersDue'
  BY <1>b, <1>c, RestDue
<1>e. StoreOlder
  <2>1. UNCHANGED store \/ Finalize(IdOf[r], "timeout")
    BY DEF Get, WaitUnknown, WaitBegin, WaitTake, WaitTimer, WaitTimedOut, WaitCancelled,
           Abandon, FinishTimedOut
  <2> QED
    BY <1>a, <2>1, OlderStays, OlderFinalized
<1>f. PromptsDue'
  <2>1. PICK c : Goes(r, c) /\ c \in {"done", "wait", "finish", "timeout", "waiting"}
    BY DEF Get, WaitUnknown, WaitBegin, WaitTake, Takes, WaitTimer, WaitTimedOut,
           WaitCancelled, Abandon
  <2>2. c \notin SendPcs
    BY <2>1 DEF SendPcs
  <2> QED
    BY <1>a, <1>b, <1>c, <1>e, <2>1, <2>2, PromptsMove DEF DueInv
<1>g. UNCHANGED ch => AnswersDue'
  BY <1>b, AnswersStay DEF DueInv
<1>h. /\ held = [held EXCEPT ![r] = held[r]] /\ dec = [dec EXCEPT ![r] = dec[r]]
      /\ RequestDue(r)
  BY <1>a DEF TypeInv, ProcOK, ProcTypes, HandlersDue
<1>i. ASSUME NEW c \in {"timeout", "finish"}, Goes(r, c),
             NEW h, held' = [held EXCEPT ![r] = h], NEW d, dec' = [dec EXCEPT ![r] = d],
             d = "timeout" => \/ Due(IdOf[r], now)
                              \/ c = "finish" /\ (pending'[IdOf[r]] # r \/ upstream[IdOf[r]] # "open"),
             c = "timeout" => d = "timeout"
      PROVE  HandlersDue'
  <2>1. Due(IdOf[r], now) => DueNext(IdOf[r], now')
    BY <1>b, <1>d, DueStaysNow
  <2>2. c = "timeout" => DueNext(IdOf[r], now')
    BY <1>i, <2>1
  <2>3. (c = "finish" /\ d = "timeout") =>
           \/ DueNext(IdOf[r], now') \/ pending'[IdOf[r]] # r
           \/ upstream'[IdOf[r]] # "open"
    BY <1>c, <1>i, <2>1
  <2> QED
    BY <1>a, <1>b, <1>d, <1>i, <2>2, <2>3, HandlersDueMove
<1>j. ASSUME Goes(r, "waiting"), NEW d, dec' = [dec EXCEPT ![r] = d],
             NEW h \in Requests, held' = [held EXCEPT ![r] = h],
             IdOf[h] = IdOf[r], pc[h] # "new"
      PROVE  HandlersDue'
  <2>1. PICK c : c = "waiting"
    OBVIOUS
  <2>2. /\ Goes(r, c)
        /\ c # "expired" /\ c # "timeout" /\ c # "finish"
        /\ c \notin {"lookup", "expired", "put", "close"}
    BY <1>j, <2>1
  <2> QED
    BY <1>a, <1>b, <1>d, <1>j, <2>2, HandlersDueMove
<1>1. CASE Get(r) \/ Abandon(r)
  <2>1. PICK c \in {"done", "wait"} : Goes(r, c)
    BY <1>1 DEF Get, Abandon
  <2>2. UNCHANGED <<held, ch>> /\ \E d : dec' = [dec EXCEPT ![r] = d]
    BY <1>1 DEF Get, Abandon
  <2> QED
    BY <1>a, <1>b, <1>d, <1>f, <1>g, <2>1, <2>2, HandlersDuePlain DEF DueInv
<1>2. CASE WaitUnknown(r)
  <2>1. /\ pending[IdOf[r]] = None /\ Goes(r, "finish") /\ dec' = [dec EXCEPT ![r] = "timeout"]
        /\ UNCHANGED <<held, pending, ch>>
    BY <1>2 DEF WaitUnknown
  <2>2. pending'[IdOf[r]] # r
    BY <2>1, StoreAssumption
  <2>3. HandlersDue'
    BY <1>h, <1>i, <2>1, <2>2
  <2> QED
    BY <1>d, <1>f, <1>g, <2>1, <2>3 DEF DueInv
<1>3. CASE WaitBegin(r)
  <2> DEFINE p == pending[IdOf[r]]
  <2>1. p # None /\ UNCHANGED ch
    BY <1>3 DEF WaitBegin
  <2>2. CASE Lapsed(expires[p])
    <3>1. /\ Goes(r, "timeout") /\ held' = [held EXCEPT ![r] = None]
          /\ dec' = [dec EXCEPT ![r] = "timeout"]
      BY <1>3, <2>2 DEF WaitBegin, Holds
    <3>2. Due(IdOf[r], now)
      BY <1>a, <1>d, <2>1, <2>2, FoundIsDue DEF Lapsed
    <3>3. HandlersDue'
      BY <1>i, <3>1, <3>2
    <3> QED
      BY <1>d, <1>f, <1>g, <2>1, <3>3 DEF DueInv
  <2>3. CASE ~Lapsed(expires[p])
    <3>1. /\ Goes(r, "waiting") /\ held' = [held EXCEPT ![r] = p]
          /\ dec' = [dec EXCEPT ![r] = dec[r]]
      BY <1>3, <2>3 DEF WaitBegin, Holds
    <3>2. p \in Requests /\ IdOf[p] = IdOf[r] /\ pc[p] # "new"
      BY <1>a, <2>1, FoundIsOwn
    <3> HIDE DEF p
    <3> DEFINE d == dec[r]
    <3>4. dec' = [dec EXCEPT ![r] = d]
      BY <3>1
    <3> HIDE DEF d
    <3>3. HandlersDue'
      BY <1>j, <3>1, <3>2, <3>4
    <3> QED
      BY <1>d, <1>f, <1>g, <2>1, <3>3 DEF DueInv
  <2> QED
    BY <2>2, <2>3
<1>4. CASE WaitTake(r)
  <2>1. PICK p \in Requests : Takes(r, p) /\ IdOf[p] = IdOf[r]
    <3>1. CASE pc[r] = "wait" /\ Takes(r, pending[IdOf[r]])
      <4>1. pending[IdOf[r]] # None
        BY <3>1 DEF Takes
      <4> QED
        BY <1>a, <3>1, <4>1, FoundIsOwn
    <3>2. CASE pc[r] = "waiting" /\ Takes(r, held[r])
      <4>1. held[r] \in Requests /\ IdOf[held[r]] = IdOf[r]
        BY <1>h, <3>2 DEF RequestDue
      <4> QED
        BY <3>2, <4>1
    <3> QED
      BY <1>4, <3>1, <3>2 DEF WaitTake
  <2>2. /\ dec' = [dec EXCEPT ![r] = ch[p]] /\ ch' = [ch EXCEPT ![p] = None]
        /\ held' = [held EXCEPT ![r] = None] /\ Goes(r, "finish")
    BY <2>1 DEF Takes, Holds
  <2>3. ch[p] = "timeout" => upstream[IdOf[r]] # "open"
    BY <2>1 DEF DueInv, AnswersDue
  <2> DEFINE d == ch[p]
  <2>4. dec' = [dec EXCEPT ![r] = d] /\ (d = "timeout" => upstream[IdOf[r]] # "open")
    BY <2>2, <2>3
  <2> HIDE DEF d
  <2>5. HandlersDue'
    BY <1>i, <2>2, <2>4
  <2>6. AnswersDue'
    <3>1. \A q \in Requests : ch'[q] = "timeout" => ch[q] = "timeout"
      BY <2>2, NoDecisionAssumption DEF TypeInv, FlowOK, FlowTypes, Decisions
    <3> QED
      BY <1>c, <3>1 DEF DueInv, AnswersDue
  <2> QED
    BY <1>d, <1>f, <2>5, <2>6 DEF DueInv
<1>5. CASE WaitTimer(r)
  <2>1. /\ Goes(r, "timeout") /\ held' = [held EXCEPT ![r] = None]
        /\ dec' = [dec EXCEPT ![r] = "timeout"] /\ pc[r] = "waiting"
        /\ expires[held[r]] <= now /\ UNCHANGED ch
    BY <1>5, <1>d DEF WaitTimer, Holds, Lapsed
  <2>2. Due(IdOf[r], now)
    BY <1>h, <2>1 DEF RequestDue, Due
  <2>3. HandlersDue'
    BY <1>i, <2>1, <2>2
  <2> QED
    BY <1>d, <1>f, <1>g, <2>1, <2>3 DEF DueInv
<1>6. CASE WaitTimedOut(r)
  <2>1. /\ Goes(r, "finish") /\ UNCHANGED <<held, dec, ch>> /\ pc[r] = "timeout"
    BY <1>6 DEF WaitTimedOut
  <2>2. Due(IdOf[r], now)
    BY <1>h, <2>1 DEF RequestDue
  <2>3. HandlersDue'
    BY <1>h, <1>i, <2>1, <2>2
  <2> QED
    BY <1>d, <1>f, <1>g, <2>1, <2>3 DEF DueInv
<1>7. CASE WaitCancelled(r)
  <2>1. /\ Goes(r, IF Client = "ai" THEN "done" ELSE "finish")
        /\ held' = [held EXCEPT ![r] = None] /\ dec' = [dec EXCEPT ![r] = "cancelled"]
        /\ UNCHANGED ch
    BY <1>7 DEF WaitCancelled, Holds
  <2>2. HandlersDue'
    <3>1. CASE Goes(r, "done")
      BY <1>b, <1>d, <2>1, <3>1, <1>a, HandlersDuePlain
    <3>2. CASE Goes(r, "finish")
      BY <1>i, <2>1, <3>2
    <3> QED
      BY <2>1, <3>1, <3>2
  <2> QED
    BY <1>d, <1>f, <1>g, <2>1, <2>2 DEF DueInv
<1> QED
  BY <1>1, <1>2, <1>3, <1>4, <1>5, <1>6, <1>7

LEMMA ResolveDue ==
    ASSUME IInv, TypeInv, DueInv, NEW s \in Procs, ResolveStep(s)
    PROVE  DueInv'
<1> USE DEF promptVars, flowVars
<1>a. IdFor(s) \in Approvals /\ HandlersDue
  BY IdForType DEF DueInv
<1>b. Ahead
  BY ResolveAhead
<1>c. UNCHANGED <<now, expires, reactVars, reapVars, before, promptEnd, upstream, dec>>
  BY DEF ResolveStep, ResolveLookup, ResolveExpired, ResolvePut, ResolveClose, Finish
<1>d. now' \in Nat /\ now \in Nat /\ Times' /\ OthersDue'
  BY <1>b, <1>c, RestDue
<1>e. StoreOlder
  <2>1. UNCHANGED store \/ \E d : Finalize(IdFor(s), d)
    BY DEF ResolveStep, ResolveLookup, ResolveExpired, ResolvePut, ResolveClose, Finish,
           FinishTimedOut
  <2> QED
    BY <1>a, <2>1, OlderStays, OlderFinalized
<1>f. /\ AfterResolve(s, FALSE) \in {"get", "wait", "done"}
      /\ AfterResolve(s, TRUE) \in {"get", "wait", "finish", "done"}
  BY DEF AfterResolve, BeginWait
<1>g. UNCHANGED ch => AnswersDue'
  BY <1>b, AnswersStay DEF DueInv
<1>h. /\ s \in Requests => RequestDue(s)
      /\ (s \in Approvals /\ dec[s] = "timeout") => upstream[s] # "open"
      /\ pc[s] = "expired" => Due(IdFor(s), now)
  BY DEF DueInv, HandlersDue
<1>i. ASSUME NEW c \in {"expired", "put", "close", "finish", "done", "get", "wait"}, Goes(s, c),
             NEW h, held' = [held EXCEPT ![s] = h],
             c = "expired" => Due(IdFor(s), now),
             (s \in Requests /\ dec[s] = "timeout") => c \in {"done", "get", "wait"}
      PROVE  PromptsDue' /\ HandlersDue'
  <2>1. PromptsDue'
    <3>1. c \notin SendPcs
      BY <1>i DEF SendPcs
    <3> QED
      BY <1>b, <1>c, <1>e, <1>i, <3>1, PromptsMove DEF DueInv
  <2>2. c = "expired" => DueNext(IdFor(s), now')
    BY <1>a, <1>b, <1>d, <1>i, DueStaysNow
  <2> DEFINE d == dec[s]
  <2>3. dec' = [dec EXCEPT ![s] = d]
    BY <1>c DEF TypeInv, ProcOK, ProcTypes
  <2>4. (s \in Approvals /\ d = "timeout") => upstream'[s] # "open"
    BY <1>c, <1>h
  <2>5. /\ c # "waiting" /\ c # "timeout"
        /\ (s \in Requests /\ d = "timeout") =>
              c # "finish" /\ c \notin {"lookup", "expired", "put", "close"}
    BY <1>i
  <2> HIDE DEF d
  <2>6. HandlersDue'
    BY <1>a, <1>b, <1>d, <1>i, <2>2, <2>3, <2>4, <2>5, HandlersDueMove
  <2> QED
    BY <2>1, <2>6
<1>j. held = [held EXCEPT ![s] = held[s]]
  BY DEF TypeInv, ProcOK, ProcTypes
<1>k. (s \in Requests /\ pc[s] \in {"lookup", "expired", "put", "close"}) =>
         dec[s] # "timeout"
  BY <1>h DEF RequestDue
<1>1. CASE ResolveLookup(s)
  <2> DEFINE p == pending[IdFor(s)]
             c == IF p = None THEN AfterResolve(s, FALSE)
                  ELSE IF After(expires[p]) THEN "expired" ELSE "put"
  <2>1. pc[s] = "lookup" /\ Goes(s, c) /\ held' = [held EXCEPT ![s] = p] /\ UNCHANGED ch
    BY <1>1 DEF ResolveLookup, Holds
  <2>2. c \in {"expired", "put", "done", "get", "wait"}
    BY <1>f
  <2>3. c = "expired" => Due(IdFor(s), now)
    <3>1. CASE p = None
      BY <1>f, <3>1
    <3>2. CASE p # None
      <4>1. After(expires[p]) => now >= expires[p]
        <5>1. expires[p] \in Nat
          BY <1>a, <3>2, FoundIsOwn DEF TypeInv, FlowOK, FlowTypes
        <5> QED
          BY <1>d, <5>1 DEF After
      <4> QED
        BY <1>a, <1>d, <3>2, <4>1, FoundIsDue
    <3> QED
      BY <3>1, <3>2
  <2>4. ~(s \in Requests /\ dec[s] = "timeout")
    BY <1>k, <2>1
  <2> HIDE DEF p, c
  <2>5. PromptsDue' /\ HandlersDue'
    BY <1>i, <2>1, <2>2, <2>3, <2>4
  <2> QED
    BY <1>d, <1>g, <2>1, <2>5 DEF DueInv
<1>2. CASE ResolveExpired(s)
  <2> DEFINE c == AfterResolve(s, FALSE)
  <2>1. Goes(s, c) /\ held' = [held EXCEPT ![s] = None] /\ UNCHANGED ch
    BY <1>2 DEF ResolveExpired, Holds
  <2>2. c \in {"done", "get", "wait"}
    BY <1>f
  <2> HIDE DEF c
  <2>5. PromptsDue' /\ HandlersDue'
    BY <1>i, <2>1, <2>2
  <2> QED
    BY <1>d, <1>g, <2>1, <2>5 DEF DueInv
<1>3. CASE ResolvePut(s)
  <2>1. PICK c \in {"close", "done", "get", "wait"} :
             Goes(s, c) /\ held' = [held EXCEPT ![s] = None]
    BY <1>3, <1>f DEF ResolvePut, Holds
  <2>2. pc[s] = "put" /\ held[s] \in Requests /\ IdOf[held[s]] = IdFor(s)
    BY <1>3 DEF ResolvePut, TypeInv, ProcOK, HoldsOwn
  <2>3. PromptsDue' /\ HandlersDue'
    BY <1>i, <1>k, <2>1, <2>2
  <2>4. UNCHANGED ch \/ ch' = [ch EXCEPT ![held[s]] = dec[s]]
    BY <1>3 DEF ResolvePut
  <2>5. dec[s] = "timeout" => upstream[IdOf[held[s]]] # "open"
    BY <1>h, <1>k, <2>2 DEF Procs, IdFor
  <2>6. AnswersDue'
    <3>1. CASE UNCHANGED ch
      BY <1>g, <3>1
    <3>2. CASE ch' = [ch EXCEPT ![held[s]] = dec[s]]
      <4> SUFFICES ASSUME NEW q \in Requests, ch'[q] = "timeout"
                   PROVE  upstream'[IdOf[q]] # "open"
        BY DEF AnswersDue
      <4>1. CASE q = held[s]
        BY <1>c, <2>2, <2>5, <3>2, <4>1 DEF TypeInv, FlowOK, FlowTypes
      <4>2. CASE q # held[s]
        BY <1>c, <2>2, <3>2, <4>2 DEF TypeInv, FlowOK, FlowTypes, DueInv, AnswersDue
      <4> QED
        BY <4>1, <4>2
    <3> QED
      BY <2>4, <3>1, <3>2
  <2> QED
    BY <1>d, <2>3, <2>6 DEF DueInv
<1>4. CASE ResolveClose(s)
  <2> DEFINE c == AfterResolve(s, TRUE)
  <2>1. pc[s] = "close" /\ Goes(s, c) /\ UNCHANGED <<held, ch>>
    BY <1>4 DEF ResolveClose
  <2>2. c \in {"finish", "done", "get", "wait"}
    BY <1>f
  <2>3. ~(s \in Requests /\ dec[s] = "timeout")
    BY <1>k, <2>1
  <2> HIDE DEF c
  <2> DEFINE h == held[s]
  <2>4. held' = [held EXCEPT ![s] = h]
    BY <1>j, <2>1
  <2> HIDE DEF h
  <2>5. PromptsDue' /\ HandlersDue'
    BY <1>i, <2>1, <2>2, <2>3, <2>4
  <2> QED
    BY <1>d, <1>g, <2>1, <2>5 DEF DueInv
<1>5. CASE Finish(s)
  <2>1. Goes(s, "done") /\ UNCHANGED <<held, ch>>
    BY <1>5 DEF Finish
  <2> DEFINE h == held[s]
  <2>2. held' = [held EXCEPT ![s] = h]
    BY <1>j, <2>1
  <2> HIDE DEF h
  <2>5. PromptsDue' /\ HandlersDue'
    BY <1>i, <2>1, <2>2
  <2> QED
    BY <1>d, <1>g, <2>1, <2>5 DEF DueInv
<1> QED
  BY <1>1, <1>2, <1>3, <1>4, <1>5 DEF ResolveStep

LEMMA RemoteDue ==
    ASSUME IInv, TypeInv, DueInv, NEW a \in Approvals,
           RemoteDecides(a) \/ RemoteResolved(a) \/ RemoteUnlisted(a)
    PROVE  DueInv'
<1> USE DEF procVars, promptVars, flowVars
<1>a. a \in Procs /\ a \notin Requests /\ IdFor(a) = a /\ HandlersDue
  BY NamesAssumption DEF Procs, IdFor, DueInv
<1>b. Ahead
  BY RemoteAhead
<1>c. UNCHANGED <<now, expires, reactVars, reapVars, before, promptEnd, ch, held>>
  BY DEF RemoteDecides, RemoteResolved, RemoteUnlisted
<1>d. now' \in Nat /\ Times' /\ OthersDue' /\ AnswersDue'
  BY <1>b, <1>c, RestDue, AnswersStay DEF DueInv
<1>e. StoreOlder
  <2>1. UNCHANGED store \/ Finalize(a, "dropped")
    BY DEF RemoteDecides, RemoteResolved, RemoteUnlisted
  <2> QED
    BY <2>1, OlderStays, OlderFinalized
<1>1. CASE RemoteDecides(a)
  <2>1. UNCHANGED <<pc, dec>>
    BY <1>1 DEF RemoteDecides
  <2> QED
    BY <1>a, <1>b, <1>c, <1>d, <1>e, <2>1, HandlersDueRest, PromptsStay DEF DueInv
<1>2. CASE RemoteResolved(a) \/ RemoteUnlisted(a)
  <2>1. PICK c \in {"lookup", "done"}, d \in Answers \cup {"timeout"} :
          /\ Goes(a, c) /\ dec' = [dec EXCEPT ![a] = d]
          /\ d = "timeout" => upstream'[a] # "open"
    BY <1>2 DEF RemoteResolved, RemoteUnlisted, Answers
  <2> DEFINE h == held[a]
  <2>2. held' = [held EXCEPT ![a] = h]
    BY <1>c DEF TypeInv, ProcOK, ProcTypes
  <2> HIDE DEF h
  <2>3. HandlersDue'
    BY <1>a, <1>b, <1>d, <2>1, <2>2, HandlersDueMove
  <2>4. c \notin SendPcs
    BY DEF SendPcs
  <2>5. PromptsDue'
    BY <1>a, <1>b, <1>c, <1>e, <2>1, <2>4, PromptsMove DEF DueInv
  <2> QED
    BY <1>d, <2>3, <2>5 DEF DueInv
<1> QED
  BY <1>1, <1>2

LEMMA ReactDue ==
    ASSUME IInv, UInv, TypeInv, DueInv,
           ReactStep \/ \E p \in Places \cup {None}, d \in Answers : React(p, d)
    PROVE  DueInv'
<1> USE DEF procVars, promptVars, flowVars
<1>a. Ahead
  BY ReactAhead
<1>b. UNCHANGED <<now, expires, reap, cut, before, promptEnd, pc, held, dec>>
  BY DEF ReactStep, React, ReactSettled, ReactFallback, ReactDrop, ReactLookup, ReactExpired,
         ReactPut, ReactDeliver, ReactFinish, reapVars
<1>c. now \in Nat /\ now' \in Nat /\ now' = now
  BY <1>b, NumbersAssumption DEF TypeInv, FlowOK, FlowTypes
<1>1. Times'
  <2>1. rnow' \in {rnow, 0, now}
    BY DEF ReactStep, React, ReactSettled, ReactFallback, ReactDrop, ReactLookup, ReactExpired,
           ReactPut, ReactDeliver, ReactFinish, ReactEnds
  <2> QED
    BY <1>b, <2>1, TimesStay DEF DueInv
<1>2. StoreOlder
  <2>1. \/ UNCHANGED store \/ \E gone : store' = DropAll(gone)
        \/ rid \in Approvals /\ store' = DropPrompt(store, rid)
        \/ rid \in Approvals /\ \E d : Finalize(rid, d)
    BY DEF ReactStep, React, ReactSettled, ReactFallback, ReactDrop, ReactLookup, ReactExpired,
           ReactPut, ReactDeliver, ReactFinish, FinishTimedOut, IInv, Subjects
  <2> QED
    BY <2>1, OlderStays, OlderDropped, OlderDroppedAll, OlderFinalized
<1>3. PromptsDue' /\ HandlersDue'
  BY <1>a, <1>b, <1>c, <1>2, PromptsStay, HandlersDueRest DEF DueInv
<1>4. AnswersDue'
  <2>1. CASE ReactPut
    <3>1. rdec \in Answers
      BY <2>1 DEF ReactPut, UInv, ReactionAgrees
    <3>2. UNCHANGED upstream /\ (UNCHANGED ch \/ ch' = [ch EXCEPT ![rheld] = rdec])
      BY <2>1 DEF ReactPut
    <3> QED
      BY <3>1, <3>2 DEF Answers, AnswersDue, DueInv, TypeInv, FlowOK, FlowTypes
  <2>2. CASE ~ReactPut
    <3>1. UNCHANGED ch
      BY <2>2 DEF ReactStep, React, ReactSettled, ReactFallback, ReactDrop, ReactLookup,
                  ReactExpired, ReactDeliver, ReactFinish
    <3> QED
      BY <1>a, <3>1, AnswersStay DEF DueInv
  <2> QED
    BY <2>1, <2>2
<1>5. OthersDue'
  <2>1. rpc' = "expired" => DueNext(rid', now')
    <3>1. CASE ReactLookup
      <4> SUFFICES ASSUME rpc' = "expired" PROVE DueNext(rid', now')
        OBVIOUS
      <4> DEFINE p == pending[rid]
      <4>1. /\ rpc = "lookup" /\ p # None /\ rnow > expires[p] /\ rid' = rid
        BY <3>1 DEF ReactLookup, ReactEnds
      <4>2. rid \in Approvals
        BY <4>1 DEF IInv, Subjects
      <4>3. expires[p] \in Nat
        BY <4>1, <4>2, FoundIsOwn DEF TypeInv, FlowOK, FlowTypes
      <4>4. now >= expires[p]
        BY <1>c, <4>1, <4>3, NumbersAssumption DEF DueInv, Times, TypeInv, ReactOK
      <4>5. Due(rid, now)
        BY <1>c, <4>1, <4>2, <4>4, FoundIsDue
      <4> QED
        BY <1>a, <1>c, <4>1, <4>5, DueStaysNow
    <3>2. CASE ~ReactLookup
      <4>1. rpc' # "expired"
        BY <3>2 DEF ReactStep, React, ReactKnown, ReactMiss, ReactSettled, ReactFallback,
                    ReactDrop, ReactExpired, ReactPut, ReactDeliver, ReactFinish, ReactEnds
      <4> QED
        BY <4>1
    <3> QED
      BY <3>1, <3>2
  <2>2. /\ \A c \in reap : DueNext(c.id, now')
        /\ cut # NoCut => DueNext(cut.id, now')
    BY <1>a, <1>c, DueStaysNow DEF DueInv, OthersDue
  <2> QED
    BY <1>b, <2>1, <2>2 DEF OthersDue, Due, DueNext, GivenBy
<1> QED
  BY <1>1, <1>3, <1>4, <1>5 DEF DueInv

LEMMA ReapDue ==
    ASSUME IInv, TypeInv, DueInv, ReapStep
    PROVE  DueInv'
<1> USE DEF procVars, promptVars, flowVars
<1>a. Ahead
  BY ReapAhead
<1>b. UNCHANGED <<now, expires, rnow, rpc, rid, before, promptEnd, pc, held, dec, ch>>
  BY DEF ReapStep, ReapScan, ReapCheck, ReapFinish, reactVars
<1>c. now \in Nat /\ now' \in Nat /\ now' = now
  BY <1>b, NumbersAssumption DEF TypeInv, FlowOK, FlowTypes
<1>1. Times'
  BY <1>b, TimesStay DEF DueInv
<1>2. StoreOlder
  <2>1. \/ UNCHANGED store \/ \E gone : store' = DropAll(gone)
        \/ cut.id \in Approvals /\ \E d : Finalize(cut.id, d)
    BY DEF ReapStep, ReapScan, ReapCheck, ReapFinish, FinishTimedOut, IInv, Subjects
  <2> QED
    BY <2>1, OlderStays, OlderDroppedAll, OlderFinalized
<1>3. PromptsDue' /\ HandlersDue' /\ AnswersDue'
  BY <1>a, <1>b, <1>c, <1>2, PromptsStay, HandlersDueRest, AnswersStay DEF DueInv
<1>4. \A a \in Approvals : PendingOver(a) \/ PromptOver(a) => Due(a, now)
  <2> TAKE a \in Approvals
  <2>1. CASE PendingOver(a)
    <3>1. pending[a] # None /\ now > expires[pending[a]]
      BY <2>1 DEF PendingOver, After
    <3>2. expires[pending[a]] \in Nat
      BY <3>1, FoundIsOwn DEF TypeInv, FlowOK, FlowTypes
    <3>3. now >= expires[pending[a]]
      BY <1>c, <3>1, <3>2
    <3> QED
      BY <1>c, <3>1, <3>3, FoundIsDue
  <2>2. CASE PromptOver(a)
    <3>1. HasPrompt(store, a) /\ now > store.prompt[a].expires
      BY <2>2 DEF PromptOver, After
    <3>2. store.prompt[a].expires \in Nat
      BY <3>1 DEF IInv, Sound, Store, Prompt, HasPrompt
    <3> DEFINE end == store.prompt[a].expires
    <3>3. PICK q \in Requests : IdOf[q] = a /\ pc[q] # "new"
                                /\ (expires[q] <= end \/ GivenBy(q, end))
      BY <3>1 DEF DueInv, PromptsDue, Due
    <3>4. expires[q] \in Nat /\ end <= now
      BY <1>c, <3>1, <3>2 DEF TypeInv, FlowOK, FlowTypes
    <3>5. expires[q] <= now \/ GivenBy(q, now)
      BY <1>c, <3>2, <3>3, <3>4, GivenStays
    <3> QED
      BY <3>3, <3>5 DEF Due
  <2> QED
    BY <2>1, <2>2
<1>5. \A c \in reap' : Due(c.id, now)
  <2>1. CASE ReapScan
    <3>1. \A c \in Candidates : c.id \in Approvals /\ (PendingOver(c.id) \/ PromptOver(c.id))
      BY DEF Candidates
    <3>2. reap' = Candidates
      BY <2>1 DEF ReapScan
    <3> QED
      BY <1>4, <3>1, <3>2
  <2>2. CASE ~ReapScan
    <3>1. reap' \subseteq reap
      BY <2>2 DEF ReapStep, ReapCheck, ReapFinish
    <3> QED
      BY <3>1 DEF DueInv, OthersDue
  <2> QED
    BY <2>1, <2>2
<1>6. cut' # NoCut => Due(cut'.id, now)
  <2>1. CASE ReapScan \/ ReapFinish
    <3>1. cut' = cut \/ cut' = NoCut
      BY <2>1 DEF ReapScan, ReapFinish
    <3> QED
      BY <3>1 DEF DueInv, OthersDue
  <2>2. CASE \E c \in reap : ReapCheck(c)
    <3>1. PICK c \in reap : ReapCheck(c)
      BY <2>2
    <3>2. cut' = NoCut \/ \E v : cut' = [id |-> c.id, version |-> v]
      BY <3>1 DEF ReapCheck
    <3>3. cut' # NoCut => cut'.id = c.id
      BY <3>2
    <3> QED
      BY <3>1, <3>3 DEF DueInv, OthersDue
  <2> QED
    BY <2>1, <2>2 DEF ReapStep
<1>7. OthersDue'
  <2>1. rpc = "expired" => DueNext(rid, now')
    BY <1>a, <1>c, DueStaysNow DEF DueInv, OthersDue
  <2>2. \A c \in reap' : DueNext(c.id, now')
    BY <1>a, <1>c, <1>5, DueStaysNow
  <2>3. cut' # NoCut => DueNext(cut'.id, now')
    BY <1>a, <1>c, <1>6, DueStaysNow
  <2> QED
    BY <1>b, <2>1, <2>2, <2>3 DEF OthersDue, Due, DueNext, GivenBy, NoCut
<1> QED
  BY <1>1, <1>3, <1>7 DEF DueInv

LEMMA TickDue ==
    ASSUME IInv, TypeInv, DueInv, Tick \/ UNCHANGED vars
    PROVE  DueInv'
<1> USE DEF procVars, promptVars, flowVars, reactVars, reapVars
<1>a. Ahead /\ now' \in Nat
  BY TickAhead
<1>b. UNCHANGED <<pc, held, dec, before, promptEnd, store, ch, rpc, rid, rnow, reap, cut,
                  expires>>
  BY DEF Tick, vars
<1>1. Times'
  <2>1. now \in Nat /\ now <= now' /\ TTL \in Nat /\ rnow \in Nat
    BY <1>a, NumbersAssumption DEF Ahead, TypeInv, FlowOK, FlowTypes, ReactOK
  <2>2. expires \in [Requests -> Nat]
    BY DEF TypeInv, FlowOK, FlowTypes
  <2>3. rnow <= now /\ \A r \in Requests : expires[r] <= now + TTL \/ EndOf[r] # None
    BY DEF DueInv, Times
  <2>4. rnow' <= now'
    BY <1>a, <1>b, <2>1, <2>3
  <2>5. \A r \in Requests : expires'[r] <= now' + TTL \/ EndOf[r] # None
    BY <1>a, <1>b, <2>1, <2>2, <2>3
  <2> QED
    BY <2>4, <2>5 DEF Times
<1>2. PromptsDue' /\ HandlersDue' /\ AnswersDue' /\ OthersDue'
  BY <1>a, <1>b, OlderStays, PromptsStay, HandlersDueRest, AnswersStay, OthersDueStay
     DEF DueInv
<1> QED
  BY <1>1, <1>2 DEF DueInv

LEMMA NextDueInv == IInv /\ UInv /\ TypeInv /\ DueInv /\ [Next]_vars => DueInv'
<1> SUFFICES ASSUME IInv, UInv, TypeInv, DueInv, [Next]_vars
             PROVE  DueInv'
  OBVIOUS
<1>1. CASE Tick \/ UNCHANGED vars
  BY <1>1, TickDue
<1>2. ASSUME NEW r \in Requests,
             Register(r) \/ RequestStep(r) \/ WaitCancelled(r) \/ Abandon(r)
      PROVE  DueInv'
  BY <1>2, RegisterDue, PromptDue, WaitDue DEF RequestStep
<1>3. ASSUME NEW s \in Procs, ResolveStep(s)
      PROVE  DueInv'
  BY <1>3, ResolveDue
<1>4. ASSUME NEW a \in Approvals, RemoteDecides(a) \/ RemoteResolved(a) \/ RemoteUnlisted(a)
      PROVE  DueInv'
  BY <1>4, RemoteDue
<1>5. CASE ReactStep \/ \E p \in Places \cup {None}, d \in Answers : React(p, d)
  BY <1>5, ReactDue
<1>6. CASE ReapStep
  BY <1>6, ReapDue
<1> QED
  BY <1>1, <1>2, <1>3, <1>4, <1>5, <1>6 DEF Next

\* In every reachable state, whoever is about to time an approval out has seen that the
\* Pending of a request for it has expired, or that the end given by its server is past.
THEOREM SpecDueInv == Spec => []DueInv
<1>1. IInv /\ UInv /\ TypeInv /\ DueInv /\ [Next]_vars => DueInv'
  BY NextDueInv
<1> QED
  BY InitDueInv, SpecIInv, SpecUInv, SpecTypeInv, <1>1, PTL DEF Spec

-----------------------------------------------------------------------------
(* So a step that times a Pending out does so when it is due.              *)

\* With its ID used once, what is due is the Pending itself.
LEMMA AloneIsDue ==
    ASSUME TypeInv, NEW r \in Requests, Alone(r), Due(IdOf[r], now)
    PROVE  Overdue(r)
<1>1. PICK q \in Requests :
         IdOf[q] = IdOf[r] /\ pc[q] # "new" /\ (expires[q] <= now \/ GivenBy(q, now))
  BY DEF Due
<1>2. q = r
  BY <1>1 DEF Alone
<1>3. now \in Nat /\ expires[r] \in Nat
  BY NumbersAssumption DEF TypeInv, FlowOK, FlowTypes
<1> QED
  BY <1>1, <1>2, <1>3, EndsAssumption DEF Overdue, Lapsed, GivenBy

\* Who finalizes an approval ends the Pending that is registered for it.
LEMMA FinalizeEnds ==
    ASSUME TypeInv, NEW a \in Approvals, NEW d, Finalize(a, d), NEW r \in Requests,
           ended[r] = None, ended'[r] = "timeout"
    PROVE  d = "timeout" /\ pending[a] = r /\ IdOf[r] = a
<1>1. pending[a] = r /\ d = "timeout"
  BY NoDecisionAssumption DEF Finalize, Decisions
<1> QED
  BY <1>1 DEF TypeInv, FlowOK, PendingOwn

LEMMA StepIsDue ==
    ASSUME IInv, UInv, TypeInv, DueInv, [Next]_vars, NEW r \in Requests,
           Alone(r), ended[r] = None, ended'[r] = "timeout"
    PROVE  Overdue(r) \/ upstream[IdOf[r]] # "open"
<1> USE DEF flowVars
<1>a. ended' # ended
  BY NoDecisionAssumption DEF Decisions
<1>b. Due(IdOf[r], now) => Overdue(r)
  BY AloneIsDue
<1>1. ASSUME NEW q \in Requests, PromptSchedule(q)
      PROVE  Overdue(r)
  <2>1. /\ IdOf[q] \in Approvals /\ pc[q] = "schedule" /\ Lapsed(promptEnd[q])
        /\ Finalize(IdOf[q], "timeout")
    BY <1>1, <1>a, MapsAssumption DEF PromptSchedule, FinishTimedOut
  <2>2. q = r
    BY <2>1, FinalizeEnds DEF Alone
  <2>3. (expires[r] <= promptEnd[r] \/ GivenBy(r, promptEnd[r])) /\ promptEnd[r] <= now
    BY <2>1, <2>2, NumbersAssumption
       DEF DueInv, PromptsDue, Lapsed, TypeInv, FlowOK, FlowTypes, ProcOK, ProcTypes
  <2>4. expires[r] \in Nat /\ promptEnd[r] \in Nat /\ now \in Nat
    BY NumbersAssumption DEF TypeInv, FlowOK, FlowTypes, ProcOK, ProcTypes
  <2> QED
    BY <2>3, <2>4, EndsAssumption DEF Overdue, Lapsed, GivenBy
<1>2. ASSUME NEW q \in Requests, WaitTimedOut(q)
      PROVE  Overdue(r)
  <2>1. IdOf[q] \in Approvals /\ pc[q] = "timeout" /\ Finalize(IdOf[q], "timeout")
    BY <1>2, MapsAssumption DEF WaitTimedOut, FinishTimedOut
  <2>2. IdOf[r] = IdOf[q]
    BY <2>1, FinalizeEnds
  <2>3. Due(IdOf[q], now)
    BY <2>1 DEF DueInv, HandlersDue, RequestDue, Procs
  <2> QED
    BY <1>b, <2>2, <2>3
<1>3. ASSUME NEW s \in Procs, ResolveExpired(s)
      PROVE  Overdue(r)
  <2>1. IdFor(s) \in Approvals /\ pc[s] = "expired" /\ Finalize(IdFor(s), "timeout")
    BY <1>3, IdForType DEF ResolveExpired, FinishTimedOut
  <2>2. IdOf[r] = IdFor(s)
    BY <2>1, FinalizeEnds
  <2>3. Due(IdFor(s), now)
    BY <2>1 DEF DueInv, HandlersDue
  <2> QED
    BY <1>b, <2>2, <2>3
<1>4. ASSUME NEW s \in Procs, Finish(s)
      PROVE  Overdue(r) \/ upstream[IdOf[r]] # "open"
  <2>1. IdFor(s) \in Approvals /\ pc[s] = "finish" /\ Finalize(IdFor(s), dec[s])
    BY <1>4, IdForType DEF Finish
  <2>2. IdOf[r] = IdFor(s) /\ dec[s] = "timeout" /\ pending[IdFor(s)] = r
    BY <2>1, FinalizeEnds
  <2>3. CASE s \in Requests
    <3>1. s = r
      BY <2>1, <2>2, <2>3 DEF Alone, IdFor
    <3>2. EndsDuly(r)
      BY <2>1, <2>2, <2>3, <3>1 DEF DueInv, HandlersDue, RequestDue
    <3> QED
      BY <1>b, <2>2, <3>2 DEF EndsDuly
  <2>4. CASE s \in Approvals /\ s \notin Requests
    BY <2>2, <2>4 DEF DueInv, HandlersDue, IdFor
  <2> QED
    BY <2>3, <2>4 DEF Procs
<1>5. CASE ReactExpired
  <2>1. rid \in Approvals /\ Due(rid, now) /\ Finalize(rid, "timeout")
    BY <1>5 DEF ReactExpired, FinishTimedOut, IInv, Subjects, DueInv, OthersDue
  <2> QED
    BY <1>b, <2>1, FinalizeEnds
<1>6. CASE ReapFinish
  <2>1. cut.id \in Approvals /\ Due(cut.id, now) /\ Finalize(cut.id, "timeout")
    BY <1>6, <1>a DEF ReapFinish, FinishTimedOut, IInv, Subjects, DueInv, OthersDue
  <2> QED
    BY <1>b, <2>1, FinalizeEnds
<1>7. ASSUME NEW a \in Approvals, RemoteResolved(a)
      PROVE  FALSE
  <2>1. Finalize(a, "dropped")
    BY <1>7, <1>a DEF RemoteResolved
  <2> QED
    BY <2>1, FinalizeEnds
<1>8. CASE ReactFinish
  <2>1. rid \in Approvals /\ rdec \in Answers /\ Finalize(rid, rdec)
    BY <1>8 DEF ReactFinish, IInv, Subjects, UInv, ReactionAgrees
  <2> QED
    BY <2>1, FinalizeEnds DEF Answers
<1>9. ASSUME NEW q \in Requests
      PROVE  /\ Register(q) \/ WaitCancelled(q) \/ Abandon(q) => UNCHANGED ended
             /\ RequestStep(q) =>
                   PromptSchedule(q) \/ WaitTimedOut(q) \/ UNCHANGED ended
  BY DEF Register, WaitCancelled, Abandon, RequestStep, PromptRegister, PromptSkip, PromptSend,
         PromptSendFails, PromptBind, Get, WaitUnknown, WaitBegin, WaitTake, Takes, WaitTimer
<1>10. ASSUME NEW s \in Procs, ResolveStep(s)
       PROVE  ResolveExpired(s) \/ Finish(s) \/ UNCHANGED ended
  BY <1>10 DEF ResolveStep, ResolveLookup, ResolvePut, ResolveClose
<1>11. \A a \in Approvals : RemoteDecides(a) \/ RemoteUnlisted(a) => UNCHANGED ended
  BY DEF RemoteDecides, RemoteUnlisted
<1>12. \A p \in Places \cup {None}, d \in Answers : React(p, d) => UNCHANGED ended
  BY DEF React
<1>13. ReactStep => ReactExpired \/ ReactFinish \/ UNCHANGED ended
  BY DEF ReactStep, ReactSettled, ReactFallback, ReactDrop, ReactLookup, ReactPut, ReactDeliver
<1>14. ReapStep => ReapFinish \/ UNCHANGED ended
  BY DEF ReapStep, ReapScan, ReapCheck
<1>15. Tick \/ UNCHANGED vars => UNCHANGED ended
  BY DEF Tick, vars
<1> QED
  BY <1>a, <1>1, <1>2, <1>3, <1>4, <1>5, <1>6, <1>7, <1>8, <1>9, <1>10, <1>11, <1>12,
     <1>13, <1>14, <1>15 DEF Next

\* A Pending is only timed out once it has expired, the end its server gave is past, or
\* the server has decided it: however the timers of Wait, of the prompt and of the reaper race, unless the
\* approval ID is used again.
THEOREM SpecTimeoutIsDue == Spec => TimeoutIsDue
<1>1. IInv /\ UInv /\ TypeInv /\ DueInv /\ [Next]_vars =>
         [\A r \in Requests :
            Alone(r) /\ ended[r] = None /\ ended'[r] = "timeout" =>
               Overdue(r) \/ upstream[IdOf[r]] # "open"]_vars
  BY StepIsDue
<1> QED
  BY SpecIInv, SpecUInv, SpecTypeInv, SpecDueInv, <1>1, PTL DEF Spec, TimeoutIsDue
====
