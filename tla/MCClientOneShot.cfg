SPECIFICATION FairSpec
CONSTANTS
    SingleCommands = {pid}
    EndCommands = {status}
    InitSequence <- ShortInit
    AutoReconnect = FALSE
    Reuse = FALSE
    Faults = {"error", "end", "timeout", "bare", "welcome"}
    MaxFaults = 2
    MaxSockets = 1
PROPERTIES
    EveryAttemptSettles
