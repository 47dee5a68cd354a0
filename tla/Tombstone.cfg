SPECIFICATION ServiceSpec
CONSTANTS
    Goals = {g1}
    Sessions = {s1, s2}
    Observers = {s2}
    Calls = {}
    Tasks = {}
    LeaseTerms = {2}
    CallLease = 1
    StaleGrace = 1
    ProbeMin = 2
    EvidenceFresh = 0
    EarlyTolerance = 0
    ClaimMin = 2
    CollisionMin = 2
    CollisionMax = 5
    ExpediteLeads = {1}
    Interval = 2
    FirstDelays = {1}
    PrepareOccurrences = {}
    Outcomes = {"created", "cancelled"}
    RunModes = {"omitted"}
    MaxTime = 2
    MaxRevision = 2
    MaxGeneration = 2
    MaxSeq = 1
    MaxRows = 1
    MaxVersion = 3
    MayCrash = FALSE
CHECK_DEADLOCK FALSE
INVARIANTS TombstonesAreFinal
