SPECIFICATION Spec
CONSTANTS
    s1 = s1  s2 = s2  h1 = h1
    Schedulers = {s1, s2}
    Handlers = {h1}
    PendingFor = 0
    Cooldown = 2
    Prompt = FALSE
    MaxLate = 2
    MaxTime = 3
INVARIANT NotifiedFromHistory
