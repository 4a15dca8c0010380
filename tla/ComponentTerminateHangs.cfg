SPECIFICATION FairSpec
CONSTANTS
    Dummy = {cam}
    Real = {}
    State <- DepthCam
    initial = "off"
    Internal <- DepthCamTransition
    Exog <- DepthCamExogTransition
    Exec = Exec
    Terminator = Terminator
    Nobody = Nobody
PROPERTY TerminateReturnsIfNotified
CHECK_DEADLOCK FALSE
