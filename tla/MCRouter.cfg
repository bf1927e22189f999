SPECIFICATION ObservedFairSpec
CONSTANTS
    m1 = m1
    m2 = m2
    Models = {m1, m2}
    CfgWindow = 1
    CfgMinReq = 1
    CfgErrNum = 1
    CfgErrDen = 2
    CfgCool = 1
    Requests = {r1, r2}
    RouteCfg <- ScannedRoutes
    ActiveRoute = "solid"
    SaverDefault = ""
    RouteNames = {"", "robin"}
    CounterMod = 3
INVARIANTS
    
    TryOrderIsConfigured
    PeekPredictsPick
    DecisionRespectsHealth
PROPERTIES
    NoStarvation
