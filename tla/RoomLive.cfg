SPECIFICATION FairSpec
CONSTANTS
    m1 = m1
    m2 = m2
    m3 = m3
    m4 = m4
    w1 = w1
    w2 = w2
    w3 = w3
    b1 = b1
    NoRun = NoRun
    Messages = {m1, m2, m3}
    Workers = {w1, w2}
    Beats = {b1}
    TextMessages = {m1}
    Internal = {}
    Modes = {"steer+backlog"}
    Cap = 1
    DropPolicy = "summarize"
    MayFail = TRUE
    MaxStops = 0
    MaxAttempts = 1
    ThreadOf <- MCThreadOf
\* A room whose messages are all handled has nothing left to do.
CHECK_DEADLOCK FALSE
INVARIANTS
    AcceptedNotLost
PROPERTIES
    DispatchedTurnsAreSerial
    RoomIsReleased
    EveryoneAnswered
