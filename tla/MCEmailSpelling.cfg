SPECIFICATION Spec
CONSTANTS
    ada = ada
    bob = bob
    friends = friends
    r = r
    People = {ada}
    Accented = {ada}
    Devices <- OneEach
    PersonOf <- BothAdas
    Groups = {friends}
    Founder <- AdasGroup
    Ids = {r}
    None = None
    Failed = Failed
    MaxClockSkew = 0
    MaxChosen <- AdaThrice
    MaxWraps = 0
    MaxStamp = 1
    MaxSeq = 1
INVARIANT
    DoorsOpen
