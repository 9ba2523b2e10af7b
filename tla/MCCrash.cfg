CONSTANTS
    SuccListSize = 2
    NoPeer = NoPeer
    Node = {1, 2, 3}
    GivenId <- Plain
    ObservedId <- Plain
    SettledRing <- Ring123
    Creators = {}
    JoinVia <- NoJoin
    StabilizeSlot = {3}
    MaxStabilize <- OneEach
    Checkers = {1, 2, 3}
    Killable = {1, 2, 3}
    MaxCrash = 1
    MaxLoss = 0
SPECIFICATION Spec
INVARIANT NoBlankTarget
PROPERTY Converges
CHECK_DEADLOCK FALSE
