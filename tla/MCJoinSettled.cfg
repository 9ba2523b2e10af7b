CONSTANTS
    SuccListSize = 2
    NoPeer = NoPeer
    Node = {1, 2, 3}
    GivenId <- Plain
    ObservedId <- Plain
    SettledRing <- Ring13
    Creators = {}
    JoinVia <- Join23
    StabilizeSlot = {3}
    MaxStabilize <- OneEach
    Checkers = {}
    Killable = {}
    MaxCrash = 0
    MaxLoss = 0
SPECIFICATION Spec
INVARIANT RingIntact
PROPERTY Converges
CHECK_DEADLOCK FALSE
