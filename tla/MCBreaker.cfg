SPECIFICATION Spec
CONSTANTS
    Models = {m1, m2}
    CfgWindow = 4
    CfgMinReq = 2
    CfgErrNum = 1
    CfgErrDen = 2
    CfgCool = 2
INVARIANTS
    BreakerTypeOK
    
    ThresholdIsRemembered
    
PROPERTIES
    CooldownServed
    ImplementsCircuitBreaker
    Recovers
    DeadModelIsolated
