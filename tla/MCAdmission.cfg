SPECIFICATION FairSpec
CONSTANTS
    c1 = c1
    c2 = c2
    Requests = {r1, r2}
    IPs = {"a", "d"}
    Allow = {{"a", "d"}}
    Deny = {{"d"}}
    MaxFails = 2
    FailWindow = 1
    BanFor = 1
    Creds = {c1}
    NoCred = NoCred
    Burst <- SmallBurst
    GlobalBurst = 2
    DailyCap <- None1
    GlobalCap = 0
    MaxConc <- SmallBurst
    MaxCost = 0
    DBFails = TRUE
INVARIANTS
    AdmissionTypeOK
    DeadTokenNotServed
    InflightExact
    CapRespected
PROPERTIES
    UsesLockout
    
    
