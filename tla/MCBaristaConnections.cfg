SPECIFICATION Spec
CHECK_DEADLOCK FALSE
CONSTANTS
    EspressoClients = {e1, e2}
    DecafsClients = {d1, d2}
    NodeId <- SameNode
    BACKLOG = 2
    MaxFds = 3
    MaxCalls = 1
    MaxChunks = 1
INVARIANTS TypeOK OneRolePerConnection UpNodesConnected LiveNodesUp AnswersAwaited EndedOwedOnce
PROPERTY ConnectionsSettle
