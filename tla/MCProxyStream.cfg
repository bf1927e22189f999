SPECIFICATION Spec
CONSTANTS
    m1 = m1
    m2 = m2
    saver = "saver"
    Models = {m1, m2}
    CfgWindow = 2
    CfgMinReq = 2
    CfgErrNum = 1
    CfgErrDen = 2
    CfgCool = 1
    Requests = {r1}
    RouteCfg <- SolidOnly
    ActiveRoute = "solid"
    SaverDefault = ""
    RouteNames = {"", "solid"}
    CounterMod = 4
    Scopes = {{}}
    TokenRoutes = {""}
    Headers = {""}
    Savers = {"saver"}
    Unresolved = {}
    Alive = {}
    Departures = FALSE
INVARIANTS
    PreByteFailureFallsBack
