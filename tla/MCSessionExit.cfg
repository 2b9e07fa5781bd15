SPECIFICATION Spec
CONSTANTS
    Platforms <- Everywhere
    Overlap = FALSE
    Faults = {"crash"}
    TunnelStates = {}
    MaxConnects = 1
    MaxDisconnects = 1
    MaxWaits = 0
CHECK_DEADLOCK FALSE
PROPERTY DisconnectStops
