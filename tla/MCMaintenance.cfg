CONSTANTS
    SuccListSize = 2
    NoPeer = NoPeer
    self = 4
    Stabilize = {s1, s2}
    CheckPredecessor = {c1}
    FirstPredecessors = {2, NoPeer}
    Others = {1, 3}
    MaxRequests = 1
    PredAndSuccLists <- MCPredAndSuccLists
    SelfAndSuccLists <- MCSelfAndSuccLists
SPECIFICATION Spec
INVARIANTS TypeOK FlagsHaveOwners
PROPERTIES PredecessorRectified AnswerCounts FlagsLowered NothingHangs
CHECK_DEADLOCK FALSE
