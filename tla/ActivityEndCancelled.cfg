SPECIFICATION Spec
CONSTANTS
    Action = {a1}
    Outcome = {"FINAL"}
    MaxPlan = 0
PROPERTY EndAcceptsEveryOutcome
CHECK_DEADLOCK FALSE
