SPECIFICATION FairSpec
CONSTANTS
    Dummy = {}
    Real = {cam}
    State <- Lamp
    initial = "off"
    Internal <- LampTransition
    Exog = {}
    Exec = Exec
    Terminator = Terminator
    Nobody = Nobody
PROPERTIES NoticeKeepsDrained TerminateReturnsIfNotified
CHECK_DEADLOCK FALSE
