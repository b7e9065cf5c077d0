SPECIFICATION Spec
CONSTANTS
    s1 = s1  s2 = s2  h1 = h1
    Schedulers = {s1, s2}
    Handlers = {}
    PendingFor = 0
    Cooldown = 2
    Prompt = TRUE
    MaxLate = 0
    MaxTime = 2
INVARIANTS CooldownHeld
