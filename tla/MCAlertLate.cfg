SPECIFICATION Spec
CONSTANTS
    s1 = s1  s2 = s2  h1 = h1
    Schedulers = {s1}
    Handlers = {}
    PendingFor = 2
    Cooldown = 2
    Prompt = FALSE
    MaxLate = 1
    MaxTime = 4
INVARIANTS NoFiringSoonAfterInactive
