CONSTANT MaxRequests = 1
SPECIFICATION Spec
PROPERTY Dispatched
CHECK_DEADLOCK FALSE
