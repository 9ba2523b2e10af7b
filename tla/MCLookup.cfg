CONSTANTS
    SuccListSize = 2
    NoPeer = NoPeer
    Node <- MCNode
    Key <- MCKey
SPECIFICATION Spec
INVARIANTS TypeOK LookupCorrect NoRelayCycle
PROPERTY LookupTerminates
CHECK_DEADLOCK FALSE
