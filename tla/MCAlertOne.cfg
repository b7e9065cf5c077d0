SPECIFICATION Spec
CONSTANTS
    s1 = s1  s2 = s2  h1 = h1
    Schedulers = {s1}
    Handlers = {}
    PendingFor = 3
    Cooldown = 3
    Prompt = TRUE
    MaxLate = 1
    MaxTime = 7
INVARIANTS TypeOK IncidentHistory CooldownHeld NoFiringSoonAfterInactive
