SPECIFICATION FairSpec
CONSTANTS
    r1 = r1
    None = None
    Calls = {1, 2}
    Rooms = {r1}
    RoomOf <- OneRoom
CHECK_DEADLOCK FALSE
PROPERTIES QueuedIsServed
