SPECIFICATION FairSpec
CONSTANTS
    Roles <- EitherRole
    Kinds <- AllKinds
    Clients = {c1, c2}
    TornBlocks = FALSE
    MaxProcesses = 2
    MaxRequests = 2
    MaxLosses = 2
CHECK_DEADLOCK FALSE
INVARIANTS AnswersMatchRequests AnswersUsedOnce ClientConnectIsGenuine
PROPERTIES EveryRequestAnswered
