SPECIFICATION Spec
CONSTANTS
    s1 = s1  s2 = s2  h1 = h1
    Schedulers = {s1}
    Handlers = {}
    PendingFor = 2
    Cooldown = 3
    Prompt = TRUE
    MaxLate = 0
    MaxTime = 5
INVARIANTS FiringWasPending
