SPECIFICATION FairSpec
CONSTANTS
    t1 = t1
    t2 = t2
    t3 = t3
    t4 = t4
    p1 = p1
    k1 = k1
    k2 = k2
    None = None
    Turns = {t1, t2, t3, t4}
    Probes = {p1}
    Keys = {k1, k2}
    Gates = {g1, g2, g3, g4, g5, g6}
    KeyOf <- MCKeyOf
    Debounces = TRUE
\* Goroutines end.
CHECK_DEADLOCK FALSE
INVARIANTS
    TypeOK
    OneHolder
    GateIsEvicted
PROPERTIES
    CountedTurnEnds
