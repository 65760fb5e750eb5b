-------------------------- MODULE ApprovalPrompts --------------------------
(***************************************************************************)
(* The prompt store of an ApprovalFlow (approval_flow.go, "Prompt store"): *)
(* which prompt each approval has, and by which messages a reaction finds  *)
(* it.  The operators are the methods that run with f.mu held.             *)
(*                                                                         *)
(* A request sends one prompt message at most, so the message carries the  *)
(* name of the request.                                                    *)
(***************************************************************************)
EXTENDS Naturals

CONSTANTS
    Approvals,  \* approval IDs
    Requests,   \* requests for an approval; also their prompt messages
    Targets,    \* messages that prompts reply to: reaction targets
    None

ASSUME StoreAssumption == None \notin Approvals \cup Requests \cup Targets

\* ApprovalPromptRegistration; serial stands for the address of the entry.
Prompt == [msg : Requests \cup {None}, target : Targets \cup {None},
           version : Nat, expires : Nat, serial : Nat]

ASSUME NoPromptAssumption == None \notin Prompt

Store == [prompt   : [Approvals -> Prompt \cup {None}],
          byMsg    : [Requests -> Approvals \cup {None}],
          byTarget : [Targets -> Approvals \cup {None}],
          serial   : Nat]

EmptyStore == [prompt   |-> [a \in Approvals |-> None],
               byMsg    |-> [m \in Requests |-> None],
               byTarget |-> [t \in Targets |-> None],
               serial   |-> 0]

HasPrompt(s, a) == s.prompt[a] # None

\* The indexes without what leads to the prompt of a.
UnlinkMsg(s, a) ==
    [m \in Requests |->
        IF HasPrompt(s, a) /\ s.prompt[a].msg = m THEN None ELSE s.byMsg[m]]
UnlinkTarget(s, a) ==
    [t \in Targets |->
        IF HasPrompt(s, a) /\ s.prompt[a].target = t THEN None ELSE s.byTarget[t]]

\* Mutant: the indexes of the dropped prompt stay.
DropPrompt_Linked(s, a) == [s EXCEPT !.prompt[a] = None]

\* dropPromptLocked.
DropPrompt(s, a) ==
    [s EXCEPT !.prompt[a] = None,
              !.byMsg = UnlinkMsg(s, a),
              !.byTarget = UnlinkTarget(s, a)]

\* registerPromptLocked: a first registration inherits the generation.
RegisterPrompt(s, a, reg) ==
    LET version == IF reg.version = 0 /\ HasPrompt(s, a)
                   THEN s.prompt[a].version ELSE reg.version
    IN  [prompt   |-> [s.prompt EXCEPT ![a] =
                          [reg EXCEPT !.version = version, !.serial = s.serial + 1]],
         byMsg    |-> [m \in Requests |->
                          IF reg.msg = m THEN a ELSE UnlinkMsg(s, a)[m]],
         byTarget |-> [t \in Targets |->
                          IF reg.target = t THEN a ELSE UnlinkTarget(s, a)[t]],
         serial   |-> s.serial + 1]

\* bindPromptTargetLocked, when a has a prompt: a new generation.
BindPrompt(s, a, m) ==
    LET p == s.prompt[a]
    IN  [prompt   |-> [s.prompt EXCEPT ![a] =
                          [p EXCEPT !.msg = m, !.version = p.version + 1]],
         byMsg    |-> [n \in Requests |-> IF n = m THEN a ELSE UnlinkMsg(s, a)[n]],
         byTarget |-> [t \in Targets |-> IF p.target = t THEN a ELSE s.byTarget[t]],
         serial   |-> s.serial]

\* The tail of SendPrompt when nothing was sent or nothing could be bound:
\* the prompt is dropped and the one before it comes back.
RestorePrompt(s, a, before) ==
    IF before = None THEN DropPrompt(s, a)
    ELSE RegisterPrompt(DropPrompt(s, a), a, before)

-----------------------------------------------------------------------------
\* Every message that leads to an approval leads to an open prompt of it,
\* and every bound prompt is found by its own message.
IndexesAgree(s) ==
    /\ \A m \in Requests, a \in Approvals :
          s.byMsg[m] = a <=> HasPrompt(s, a) /\ s.prompt[a].msg = m
    /\ \A t \in Targets, a \in Approvals :
          s.byTarget[t] = a => HasPrompt(s, a) /\ s.prompt[a].target = t
=============================================================================
