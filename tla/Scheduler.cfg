SPECIFICATION FairSpec
CONSTANTS
    None = None
    MaxTime = 3
    MaxOps = 3
    MaxFaults = 1
    Horizon = 1
    KeyLimit = 2
    Every = 2
    Intervals = {0, 2}
    Coalesce = 1
INVARIANTS TypeOK OneChain
PROPERTIES NeverEarly RecordedNotRepeated OneShotRuns
CHECK_DEADLOCK FALSE
