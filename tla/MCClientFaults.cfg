SPECIFICATION Spec
CONSTANTS
    SingleCommands = {pid}
    EndCommands = {status}
    InitSequence <- ShortInit
    AutoReconnect = TRUE
    Reuse = FALSE
    Faults = {"error", "end", "timeout", "bare"}
    MaxFaults = 2
    MaxSockets = 3
INVARIANTS
    TypeOK
    OneLiveSocket
    PipelineMatchesQueue
    ResolvedByOwnReply
    WrittenAtMostOnce
    ReadyMeansInitialised
    ReconnectArmedWhenLost
    BackoffCountsFailures
PROPERTIES
    NoSocketAfterDisconnect
    ImplementsService
