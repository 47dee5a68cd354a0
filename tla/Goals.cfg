SPECIFICATION SceneSpec
CONSTANTS
    Goals = {g1}
    Sessions = {s1, s2}
    Observers = {s2}
    Calls = {c1}
    Tasks = {t1}
    LeaseTerms = {2}
    CallLease = 1
    StaleGrace = 1
    ProbeMin = 2
    EvidenceFresh = 0
    EarlyTolerance = 0
    ClaimMin = 2
    CollisionMin = 2
    CollisionMax = 5
    ExpediteLeads = {1}
    Interval = 2
    FirstDelays = {1}
    PrepareOccurrences = {"once", "interval"}
    Outcomes = {"created", "create_failed", "create_uncertain", "rescheduled", "reschedule_failed", "reschedule_uncertain", "consumed", "cancelled", "cancel_failed", "cancel_uncertain"}
    RunModes = {"omitted", "local"}
    MaxTime = 4
    MaxRevision = 3
    MaxGeneration = 2
    MaxSeq = 1
    MaxRows = 2
    MaxVersion = 3
    Scheduler = s1
    ReceiptTime = 3
    ReceiptRevision = 2
    WatchTime = 3
    WatchRevision = 2
CHECK_DEADLOCK FALSE
INVARIANTS TypeOK Fencing LeaseColumns RetimeIsBound SupersededCallsDrain CancelledIsQuiet
PROPERTIES TurnsAreQuiet TakeoverIsQuiet
