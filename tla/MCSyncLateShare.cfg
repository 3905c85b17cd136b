SPECIFICATION Spec
CONSTANTS
    alice = alice
    bob = bob
    carol = carol
    r1 = r1
    r2 = r2
    g = g
    Accounts = {alice, bob, carol}
    Ids = {r1, r2}
    Groups = {g}
    Devices <- TwoDevices
    None = None
    Unasked = Unasked
    MaxPage = 1
    MaxClockSkew = 1
    Workers = {w1, w2}
    AccountOf <- OneEach
    Creator <- FirstMakesR1
    Filings <- R1InGroup
    Large = {}
    Offset <- InStep
    RawStamps = FALSE
    InitialShares <- AliceToCarol
    ShareRequests <- AliceToBob
    Removals = {}
    MaxNow = 0
    MaxStamp = 9
    MaxEdits = 2
    MaxLosses = 0
    MaxSeq = 20
INVARIANT
    NothingSkipped
