SPECIFICATION Spec
CONSTANTS
    Accounts = {alice}
    Reader = alice
    r1 = r1
    r2 = r2
    Ids = {r1, r2}
    Groups = {g}
    Devices <- MCDevices
    None = None
    MaxPage = 1
    MaxClockSkew = 1
    Workers = {w1, w2}
    Envelopes <- MCEnvelopes
    MaxSeq = 4
INVARIANTS
    IInv
    NoLostUpdate
PROPERTIES
    RowsOnlyGetNewer
    ImplementsOpenLog
