SPECIFICATION FairSpec
CONSTANTS
    Action = {a1, a2}
    Outcome = {"FINAL", "FAILED"}
    MaxPlan = 1
PROPERTIES OutcomeObserved CancelStops
CHECK_DEADLOCK FALSE
