SPECIFICATION SocketFairSpec
CONSTANTS
    o1 = o1  o2 = o2  o3 = o3
    Operations = {o1, o2}
    MaxOperations = 1
    MaxEvents = 2
INVARIANTS SocketTypeOK NoStaleOperation
PROPERTY CancelledOperationsEnd
CHECK_DEADLOCK FALSE
