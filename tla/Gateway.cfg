SPECIFICATION FairSpec
CONSTANTS
    None = None
    Users = {u1}
    Own = {o1, o2}
    MaxEvents = 3
    Cap = 1
INVARIANTS TypeOK
PROPERTIES EventsInOrder LinkLossIsNoticed NobodyIsStuck
\* When the connection is gone nothing is left to do, and a Close may hang.
CHECK_DEADLOCK FALSE
