SPECIFICATION Spec
CONSTANTS
    Goals = {g1}
    Sessions = {s1, s2}
    Observers = {s2}
    Calls = {c1}
    Tasks = {}
    LeaseTerms = {2}
    CallLease = 2
    StaleGrace = 1
    ProbeMin = 1
    EvidenceFresh = 0
    EarlyTolerance = 1
    ClaimMin = 2
    CollisionMin = 1
    CollisionMax = 5
    ExpediteLeads = {1}
    Interval = 2
    FirstDelays = {1}
    PrepareOccurrences = {"once"}
    Outcomes = {"created"}
    RunModes = {"omitted"}
    MaxTime = 2
    MaxRevision = 2
    MaxGeneration = 2
    MaxSeq = 1
    MaxRows = 3
    MaxVersion = 2
CHECK_DEADLOCK FALSE
INVARIANTS ClaimedHasSuccessor
PROPERTIES TakeoverIsQuiet ImplementsAuthority
