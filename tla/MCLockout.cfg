SPECIFICATION FairSpec
CONSTANTS
    Requests = {r1, r2, r3}
    IPs = {"a", "b"}
    MaxFails = 2
    FailWindow = 2
    BanFor = 2

    
PROPERTIES
    BanIsEarned
    BanIsTemporary
