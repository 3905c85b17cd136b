SPECIFICATION Spec
CONSTANTS
    ada = ada
    bob = bob
    friends = friends
    r = r
    People = {ada, bob}
    Accented = {}
    Devices <- OneEach
    PersonOf <- FirstIsAdas
    Groups = {friends}
    Founder <- AdasGroup
    Ids = {r}
    None = None
    Failed = Failed
    MaxClockSkew = 0
    MaxChosen <- AdaThrice
    MaxWraps = 1
    MaxStamp = 1
    MaxSeq = 1
INVARIANTS
    IInv
    DoorsOpen
    NewDeviceReads
CHECK_DEADLOCK FALSE
