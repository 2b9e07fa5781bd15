SPECIFICATION FairSpec
CONSTANT MaxConnections = 3
INVARIANTS ClientsHaveSockets
PROPERTIES NoClientReadyAfterStop StopSettles
