SPECIFICATION Spec
CONSTANTS
    Producer = {p1, p2}
    Timer = {}
    Exec = Exec
    Terminator = Terminator
    Nobody = Nobody
    MaxPush = 1
INVARIANT NothingLost
CHECK_DEADLOCK FALSE
