SPECIFICATION FairSpec
CONSTANTS
    SingleCommands = {}
    EndCommands = {status}
    InitSequence <- ShortInit
    AutoReconnect = TRUE
    Reuse = FALSE
    Faults = {"error", "end", "timeout", "bare"}
    MaxFaults = 2
    MaxSockets = 3
PROPERTIES
    EveryCommandSettles
    EveryAttemptSettles
    EventuallyReady
