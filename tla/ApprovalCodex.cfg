SPECIFICATION FairSpec
CONSTANTS
    a1 = a1
    a2 = a2
    r1 = r1
    r2 = r2
    t1 = t1
    None = None
    Approvals = {a1}
    Requests = {r1}
    Targets = {t1}
    IdOf <- OneId
    TargetOf <- OneTurn
    Client = "codex"
    AutoApprove = TRUE
    MayFail = TRUE
    MayCancel = TRUE
    TTL = 1
    EndOf <- NoEnd
    MaxTime = 3
    MaxReactions = 2
\* Once every request is answered nothing is left to do.
CHECK_DEADLOCK FALSE
INVARIANTS
    TypeOK
PROPERTIES
    PromptsShowOneVerdict
    TimeoutIsDue
    RequestsSettled
