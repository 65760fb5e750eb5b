SPECIFICATION FairSpec
CONSTANTS
    k1 = k1
    Events = {1, 2, 3, 4}
    Repeated = {1}
    Keys = {k1}
    KeyOf <- OneSender
    MaxSize = 2
INVARIANTS HandledOnce
PROPERTIES NoOvertaking TextIsDispatched
\* When everything is dispatched nothing is left to do.
CHECK_DEADLOCK FALSE
