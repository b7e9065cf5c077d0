SPECIFICATION SocketSpec
CONSTANTS
    o1 = o1  o2 = o2  o3 = o3
    Operations = {o1}
    MaxOperations = 1
    MaxEvents = 1
PROPERTIES NoPayloadAfterComplete
CHECK_DEADLOCK FALSE
