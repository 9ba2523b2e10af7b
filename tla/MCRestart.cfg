CONSTANTS
    SuccListSize = 3
    NoPeer = NoPeer
    Node = {1, 2}
    GivenId <- Plain
    ObservedId <- Plain
    SettledRing <- Ring12
    Creators = {2}
    JoinVia <- NoJoin
    StabilizeSlot = {3, 4}
    MaxStabilize <- TwoAt2
    Checkers = {}
    Killable = {1, 2}
    MaxCrash = 1
    MaxLoss = 0
SPECIFICATION Spec
INVARIANTS TypeOK FlagHasOwner
PROPERTY FlagLowered
CHECK_DEADLOCK FALSE
