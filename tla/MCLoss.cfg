CONSTANTS
    SuccListSize = 2
    NoPeer = NoPeer
    Node = {1, 2}
    GivenId <- Plain
    ObservedId <- Plain
    SettledRing <- Ring1
    Creators = {}
    JoinVia <- Join21
    StabilizeSlot = {3}
    MaxStabilize <- OneEach
    Checkers = {1}
    Killable = {1}
    MaxCrash = 1
    MaxLoss = 1
SPECIFICATION Spec
PROPERTIES JoinEnds Heals
CHECK_DEADLOCK FALSE
