SPECIFICATION Spec
CONSTANTS
    m1 = m1
    m2 = m2
    m3 = m3
    m4 = m4
    w1 = w1
    w2 = w2
    w3 = w3
    b1 = b1
    NoRun = NoRun
    Messages = {m1, m2, m3}
    Workers = {w1, w2, w3}
    Beats = {b1}
    TextMessages = {m1, m2, m3}
    Internal = {m2}
    Modes = {"interrupt", "collect"}
    Cap = 2
    DropPolicy = "old"
    MayFail = FALSE
    MaxStops = 1
    MaxAttempts = 1
    ThreadOf <- MCThreadOf
SYMMETRY Symmetry
\* A room whose messages are all handled has nothing left to do.
CHECK_DEADLOCK FALSE
INVARIANTS
    TypeOK
    RoomHasOneRun
    AcceptedNotLost
    NoOvertaking
PROPERTIES
    StopIsFinal
