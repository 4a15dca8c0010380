SPECIFICATION FairSpec
CONSTANTS
    Producer = {p1}
    Timer = {t1}
    Exec = Exec
    Terminator = Terminator
    Nobody = Nobody
    MaxPush = 2
PROPERTY TerminateReturnsIfNotified
CHECK_DEADLOCK FALSE
