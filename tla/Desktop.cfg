SPECIFICATION SceneSpec
CONSTANTS
    Desktops = {x1, x2, x3, x4}
    NoDesktop = none
    AutoReconnect = TRUE
    MaxAutoRestarts = 2
    MaxChildren = 4
    MaxQueue = 3
    Procs = {x1, x2}
    MaxActive = 1
    Callers = {x1, x2}
    Launches = {x1, x2}
    MaxLinks = 3
    MaxFaults = 2
SYMMETRY SceneSymmetry
CHECK_DEADLOCK FALSE
INVARIANTS
    TunnelHasOneOwner
    ReleasedIsGone
    ServesItsLaunch
PROPERTIES
    StopHolds
    LockOutlivesChild
    NoChildLost
    VerifiedIsFinal
