SPECIFICATION Spec
CONSTANTS
    a1 = a1
    a2 = a2
    r1 = r1
    r2 = r2
    t1 = t1
    None = None
    Approvals = {a1, a2}
    Requests = {r1, r2}
    Targets = {t1}
    IdOf <- TwoIds
    TargetOf <- OneTurn
    Client = "ai"
    AutoApprove = TRUE
    MayFail = FALSE
    MayCancel = TRUE
    TTL = 1
    EndOf <- NoEnd
    MaxTime = 2
    MaxReactions = 1
\* Once every request is answered nothing is left to do.
CHECK_DEADLOCK FALSE
INVARIANTS
    StoreIndexed
