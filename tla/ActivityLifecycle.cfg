SPECIFICATION Spec
CONSTANTS
    Action = {a1, a2}
    Outcome = {"FINAL", "FAILED"}
    MaxPlan = 2
INVARIANTS TypeOK NoFault NoStaleOutcome HistoryAgrees
PROPERTIES EffectsOnlyOnSuccess ImplementsProtocol
CHECK_DEADLOCK FALSE
