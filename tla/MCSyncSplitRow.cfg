SPECIFICATION Spec
CONSTANTS
    alice = alice
    bob = bob
    carol = carol
    r1 = r1
    r2 = r2
    g = g
    Accounts = {alice, bob}
    Ids = {r1, r2}
    Groups = {g}
    Devices <- TwoDevices
    None = None
    Unasked = Unasked
    MaxPage = 1
    MaxClockSkew = 1
    Workers = {w1, w2}
    AccountOf <- OneEach
    Creator <- FirstMakesAll
    Filings <- AllInGroup
    Large = {}
    Offset <- InStep
    RawStamps = FALSE
    InitialShares <- AliceToBob
    ShareRequests <- AliceToBob
    Removals <- AliceToBob
    MaxNow = 0
    MaxStamp = 9
    MaxEdits = 2
    MaxLosses = 0
    MaxSeq = 20
INVARIANT
    OneRowPerRecord
