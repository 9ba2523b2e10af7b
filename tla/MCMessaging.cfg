CONSTANT MaxRequests = 2
SPECIFICATION Spec
INVARIANTS TypeOK RunsWhatLives FutureReady
PROPERTIES SuccessKept JoinReleased
CHECK_DEADLOCK FALSE
