SPECIFICATION Spec
CONSTANTS
    r1 = r1  r2 = r2  s1 = s1  s2 = s2  t1 = t1  t2 = t2
    None = None
    Replicas = {r1}
    Subscriptions = {s1}
    Traces = {t1}
    MaxSubscriptions = 1
    EventBufferSize = 3
    HeartbeatInterval = 1
    DeliveryTimeout = 2
    MaxTime = 1
    MaxNotifications = 1
INVARIANTS SeqInOrder
