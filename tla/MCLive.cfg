SPECIFICATION Spec
CONSTANTS
    r1 = r1  r2 = r2  s1 = s1  s2 = s2  t1 = t1  t2 = t2
    None = None
    Replicas = {r1}
    Subscriptions = {s1, s2}
    Traces = {t1}
    MaxSubscriptions = 1
    EventBufferSize = 2
    HeartbeatInterval = 1
    DeliveryTimeout = 1
    MaxTime = 1
    MaxNotifications = 2
INVARIANTS TypeOK ReleasedWhenOver InFlightCounted SeqDeliveredOnce AddedThenUpdated
SYMMETRY Symmetric
