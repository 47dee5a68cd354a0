SPECIFICATION SceneSpec
CONSTANTS
    Goals = {g1}
    Sessions = {s1, s2}
    Observers = {s2}
    Calls = {c1}
    Tasks = {}
    LeaseTerms = {2}
    CallLease = 1
    StaleGrace = 1
    ProbeMin = 2
    EvidenceFresh = 0
    EarlyTolerance = 0
    ClaimMin = 2
    CollisionMin = 2
    CollisionMax = 5
    ExpediteLeads = {1}
    Interval = 2
    FirstDelays = {1}
    PrepareOccurrences = {"interval"}
    Outcomes = {"created", "cancelled"}
    RunModes = {"omitted"}
    MaxTime = 3
    MaxRevision = 2
    MaxGeneration = 2
    MaxSeq = 1
    MaxRows = 1
    MaxVersion = 3
    MayCrash = TRUE
    ReopenTime = 2
CHECK_DEADLOCK FALSE
INVARIANTS FinishedIsCleanedUp EndedRequestsStop
