SPECIFICATION TunnelSpec
CONSTANTS
    Desktops = {x1, x2, x3, x4}
    NoDesktop = none
CHECK_DEADLOCK FALSE
INVARIANTS OneOwner
