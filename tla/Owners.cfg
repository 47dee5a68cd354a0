SPECIFICATION Spec
CONSTANTS
    Goals = {g1, g2}
    Sessions = {s1}
    Observers = {}
    Calls = {}
    Tasks = {}
    LeaseTerms = {2}
    CallLease = 1
    StaleGrace = 1
    ProbeMin = 2
    EvidenceFresh = 0
    EarlyTolerance = 0
    ClaimMin = 2
    CollisionMin = 2
    CollisionMax = 5
    ExpediteLeads = {1}
    Interval = 2
    FirstDelays = {1}
    PrepareOccurrences = {"interval"}
    Outcomes = {"created", "create_failed"}
    RunModes = {"omitted"}
    MaxTime = 3
    MaxRevision = 2
    MaxGeneration = 1
    MaxSeq = 1
    MaxRows = 1
    MaxVersion = 3
CHECK_DEADLOCK FALSE
INVARIANTS OneScheduledOwner
