SPECIFICATION Spec
CONSTANTS
    alice = alice
    bob = bob
    carol = carol
    r1 = r1
    r2 = r2
    g = g
    Accounts = {alice, bob, carol}
    Ids = {r1, r2}
    Groups = {g}
    Devices <- TwoDevices
    None = None
    Unasked = Unasked
    MaxPage = 1
    MaxClockSkew = 0
    Workers = {w1, w2}
    AccountOf <- OneEach
    Creator <- FirstMakesAll
    Filings <- BobTakesR1
    Large = {r2}
    Offset <- InStep
    RawStamps = FALSE
    InitialShares <- AliceToCarol
    ShareRequests <- TwoSharers
    Removals <- AliceToBoth
    MaxNow = 1
    MaxStamp = 9
    MaxEdits = 2
    MaxLosses = 1
    MaxSeq = 20
INVARIANTS
    IInv
    PullIInv
    OwnNothingSkipped
    VersionIInv
PROPERTIES
    CopiesAdvance
