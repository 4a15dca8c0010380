SPECIFICATION FairSpec
CONSTANTS
    look = look
    door = door
    Action = {look}
    Condition = {door}
    MinDuration <- Shortest
    MaxDuration <- Longest
    Policies <- Alone
    Slack = 2
    MinWindow = 1
    Never = Never
    MaxTime = 2
    MaxPlans = 1
    MaxChanges = 1
    MaxShift = 1
INVARIANT TypeOK
INVARIANT WindowsInOrder
INVARIANT WakeupPending
INVARIANT ContextBehind
PROPERTY NeverEarly
PROPERTY DueExecuted
CHECK_DEADLOCK FALSE
