SPECIFICATION SceneSpec
CONSTANTS
    Hosts = {h1, h2}
    Jobs = {t1, t2, w1, h1, h2}
    MaxShell = 2
    Tasks = {t1, t2}
    Launcher = h1
    LaunchedBy <- AskedOfOne
    MaxLives = 0
    Sessions = {s1, s2}
    Peers = {s1, s2}
    Calls = {c1}
    Work = {w1}
    Ttls = {2}
    Grace = 2
    Beat = 1
    MaxNow = 4
    MaxGen = 2
SYMMETRY TaskSymmetry
CHECK_DEADLOCK FALSE
INVARIANTS
    RunningIsReserved
    OneWriter
    RunningIsJournaled
PROPERTY ChangesAlone
