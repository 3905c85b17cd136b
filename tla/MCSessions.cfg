SPECIFICATION Spec
CONSTANTS
    q1 = q1
    q2 = q2
    laptop = laptop
    Requests = {q1, q2}
    Clients = {laptop}
    None = None
    AccessTtl = 1
    RefreshTtl = 2
    MaxNow = 1
    MaxSecrets = 2
    MaxSessions = 3
    MaxDrops = 1
SYMMETRY Alike
INVARIANTS
    IInv
    RefreshedOnce
    AnsweredKeysOpen
