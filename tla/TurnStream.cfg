SPECIFICATION FairSpec
CONSTANTS
    Producer = producer
    IdleTimer = timer
    Starter = starter
    Watchdog = TRUE
    Actor = {producer, timer, starter}
    None = none
    MaxParts = 2
    MaxFaults = 1
INVARIANTS FinalisedOnce
PROPERTIES StreamKeepsOrder FinalFlushIsComplete TurnEnds
CHECK_DEADLOCK FALSE
