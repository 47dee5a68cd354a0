SPECIFICATION ControllerSpec
CONSTANTS
    AutoReconnect = TRUE
    MaxAutoRestarts = 2
    MaxChildren = 3
    MaxQueue = 3
CHECK_DEADLOCK FALSE
INVARIANTS OneTunnelClient
