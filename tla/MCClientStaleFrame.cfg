SPECIFICATION Spec
CONSTANTS
    SingleCommands = {}
    EndCommands = {status}
    InitSequence <- ShortInit
    AutoReconnect = TRUE
    Reuse = FALSE
    Faults = {"end"}
    MaxFaults = 1
    MaxSockets = 2
INVARIANT ResultIsOwnFrame
