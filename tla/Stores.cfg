SPECIFICATION SceneSpec
CONSTANTS
    Pids = {e1, e2, e3}
    Paths = {f1, f2}
    Edits = {e1, e2, e3}
    MaxOpen = 2
    Callers = {c1}
    Milestones = {1, 2}
    DependsOn <- EarlierMilestones
    MaxAttempts = 2
    MaxEvents = 22
    Entries = {f1, f2}
    MaxProcesses = 2
    Requests = {e1, e2, e3}
    Images = {f1, f2}
    MaxHistory = 1
    MaxWorkers = 2
    Principals = {e1, e2, e3}
    Participants = {f1, f2}
    Updates = {c1}
    MaxSequence = 2
    MaxGeneration = 2
SYMMETRY StoreSymmetry
CHECK_DEADLOCK FALSE
INVARIANTS
    DataKept
    WorkIsProven
    LedgerLoads
    LaunchIsFenced
    PublicationIsAlone
    AnswersKept
    StagedIsAdoptable
    SlotFitsPhase
    DrainHolds
    GrantedOnce
PROPERTIES
    NothingLost
    FailedIsUndone
    CancelledIsNotPublished
