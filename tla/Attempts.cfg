SPECIFICATION AutomationSpec
CONSTANTS
    Callers = {c1, c2}
    Milestones = {1}
    DependsOn <- EarlierMilestones
    MaxAttempts = 2
    MaxEvents = 12
CHECK_DEADLOCK FALSE
INVARIANT OneAttemptStarts
