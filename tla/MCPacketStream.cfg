SPECIFICATION Spec
CHECK_DEADLOCK FALSE
CONSTANTS
    c1 = c1
    c2 = c2
    Clients = {c1, c2}
    Calls <- MCCalls
    Results <- MCResults
    MSS = 52
    Capacities = {38, 120}
    MaxCalls = 2
    MaxChunks = 3
    MayFail = {2}
    Radix = 4
    Node = node
    Barista = barista
    None = None
INVARIANTS TypeOK HandledAsSent AnswersOwnCall ClientsTornOnlyByLength NoStandstill
