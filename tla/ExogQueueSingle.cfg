SPECIFICATION FairSpec
CONSTANTS
    Producer = {p1}
    Timer = {}
    Exec = Exec
    Terminator = Terminator
    Nobody = Nobody
    MaxPush = 3
INVARIANTS TypeOK TerminateWaits
PROPERTIES ImplementsChannel PushWakes
CHECK_DEADLOCK FALSE
