SPECIFICATION FairSpec
CONSTANTS
    Platforms <- Everywhere
    Overlap = FALSE
    Faults = {"adapter", "service", "tempdir", "notready", "handshake", "crash", "unanswered", "slow", "stubborn", "kill", "release"}
    TunnelStates = {"CONNECTED"}
    MaxConnects = 2
    MaxDisconnects = 2
    MaxWaits = 1
CHECK_DEADLOCK FALSE
INVARIANTS TypeOK NoDirForgotten ManagementUsable
PROPERTIES DisconnectedMeansClean CallsSettle DirRemovedAfterExit
