SPECIFICATION FairSpec
CONSTANTS
    m1 = m1  m2 = m2  m3 = m3
    c1 = c1  c2 = c2
    r1 = r1  r2 = r2
    Messages = {m1, m2, m3}
    Commands = {c1, c2}
    CommandOf <- MixedCommands
    Invalid = {m3}
    Notifies = {m1, m2}
    Replicas = {r1}
    MaxDeliver = 2
    MaxAckPending = 2
    PullBatchSize = 2
    Concurrency = 2
    MaxCrashes = 1
PROPERTY EveryMessageSettles
