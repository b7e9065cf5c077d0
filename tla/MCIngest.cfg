SPECIFICATION Spec
CONSTANTS
    m1 = m1  m2 = m2  m3 = m3
    c1 = c1  c2 = c2
    r1 = r1  r2 = r2
    Messages = {m1, m2}
    Commands = {c1}
    CommandOf <- RequeuedCommand
    Invalid = {}
    Notifies = {m1, m2}
    Replicas = {r1, r2}
    MaxDeliver = 2
    MaxAckPending = 2
    PullBatchSize = 2
    Concurrency = 2
    MaxCrashes = 1
SYMMETRY ReplicaSymmetry
INVARIANTS TypeOK WrittenAtMostOnce AckedIsDurable NotifiedOnceAfterCommit
PROPERTY ImplementsLedger
