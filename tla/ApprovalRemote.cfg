SPECIFICATION Spec
CONSTANTS
    a1 = a1
    a2 = a2
    r1 = r1
    r2 = r2
    t1 = t1
    None = None
    Approvals = {a1}
    Requests = {r1}
    Targets = {}
    IdOf <- OneId
    TargetOf <- NoReply
    Client = "callback"
    AutoApprove = FALSE
    MayFail = TRUE
    MayCancel = FALSE
    TTL = 1
    EndOf <- EndAt1
    MaxTime = 3
    MaxReactions = 1
\* Once every request is answered nothing is left to do.
CHECK_DEADLOCK FALSE
INVARIANTS
    UpstreamAgrees
PROPERTIES
    TimeoutIsDue
