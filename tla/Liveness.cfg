SPECIFICATION SceneSpec
CONSTANTS
    Goals = {g1}
    Sessions = {s1}
    Observers = {s1}
    Calls = {c1}
    Tasks = {}
    LeaseTerms = {2}
    CallLease = 1
    StaleGrace = 1
    ProbeMin = 1
    EvidenceFresh = 0
    EarlyTolerance = 0
    ClaimMin = 1
    CollisionMin = 1
    CollisionMax = 2
    ExpediteLeads = {1}
    Interval = 2
    FirstDelays = {1}
    PrepareOccurrences = {"once", "interval"}
    Outcomes = {"created"}
    RunModes = {"omitted"}
    MaxTime = 4
    MaxRevision = 1
    MaxGeneration = 2
    MaxSeq = 1
    MaxRows = 3
    MaxVersion = 3
    Procs = {x1}
    MaxActive = 1
CHECK_DEADLOCK FALSE
PROPERTIES OrphansRecover GoneIsNoticed
