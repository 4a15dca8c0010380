SPECIFICATION Spec
CONSTANTS
    Dummy = {cam}
    Real = {}
    State <- DepthCam
    initial = "off"
    Internal <- DepthCamTransition
    Exog <- DepthCamExogTransition
    Exec = Exec
    Terminator = Terminator
    Nobody = Nobody
INVARIANT TypeOK
PROPERTIES SwitchIsDeclared ReportIsRequested
CHECK_DEADLOCK FALSE
