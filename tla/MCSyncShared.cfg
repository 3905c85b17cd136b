SPECIFICATION FairSpec
CONSTANTS
    alice = alice
    bob = bob
    carol = carol
    r1 = r1
    r2 = r2
    g = g
    Accounts = {alice, bob}
    Ids = {r1}
    Groups = {g}
    Devices <- TwoDevices
    None = None
    Unasked = Unasked
    MaxPage = 1
    MaxClockSkew = 5
    Workers = {w1, w2}
    AccountOf <- OneEach
    Creator <- FirstMakesAll
    Filings <- R1InAndOut
    Large = {}
    Offset <- SecondRunsFast
    RawStamps = FALSE
    InitialShares <- AliceToBob
    ShareRequests <- AliceToBob
    Removals = {}
    MaxNow = 0
    MaxStamp = 9
    MaxEdits = 3
    MaxLosses = 1
    MaxSeq = 20
INVARIANTS
    NothingSkipped
    OneRowPerRecord
    OneVersionPerClock
    CleanMeansStored
    QuietMeansConverged
    PullIInv
    HomeIInv
PROPERTIES
    RowsAdvance
    EventuallyConverged
