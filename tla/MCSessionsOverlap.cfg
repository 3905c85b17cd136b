SPECIFICATION Spec
CONSTANTS
    q1 = q1
    q2 = q2
    laptop = laptop
    Requests = {q1, q2}
    Clients = {laptop}
    None = None
    AccessTtl = 1
    RefreshTtl = 2
    MaxNow = 0
    MaxSecrets = 2
    MaxSessions = 3
    MaxDrops = 0
SYMMETRY Alike
INVARIANT
    OldSessionsEnd
