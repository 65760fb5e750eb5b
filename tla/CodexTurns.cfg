SPECIFICATION FairSpec
CONSTANTS
    r1 = r1
    None = None
    Calls = {1, 2, 3}
    Rooms = {r1}
    RoomOf <- OneRoom
\* When all messages are handled nothing is left to do.
CHECK_DEADLOCK FALSE
INVARIANTS CallsAreFailed
PROPERTIES TurnsAreSerial TurnsInOrder QueueIsKicked
