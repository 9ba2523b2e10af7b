CONSTANTS
    Node <- MCNode
    Request <- MCRequest
    Client <- MCClient
    Server <- MCServer
    Relayed <- MCRelayed
    NoRequest = NoRequest
    File = {"file"}
    Chunks = 3
    Trailing = {"file"}
    Killable = {1, 2}
    MaxCrash = 1
SPECIFICATION Spec
INVARIANTS TypeOK OwnAnswer OneAtATime
PROPERTIES ChunksInOrder ImplementsExchange SessionsEnd
CHECK_DEADLOCK FALSE
