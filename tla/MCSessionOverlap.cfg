SPECIFICATION FairSpec
CONSTANTS
    Platforms <- Everywhere
    Overlap = TRUE
    Faults = {"adapter", "service", "tempdir", "config", "notready", "handshake", "crash", "unanswered", "slow", "stubborn", "kill", "release", "rm", "slowrm"}
    TunnelStates = {}
    MaxConnects = 2
    MaxDisconnects = 1
    MaxWaits = 0
CHECK_DEADLOCK FALSE
PROPERTIES CallsSettle
