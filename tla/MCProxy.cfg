SPECIFICATION FairSpec
CONSTANTS
    m1 = m1
    m2 = m2
    saver = "saver"
    Models = {m1, m2}
    CfgWindow = 1
    CfgMinReq = 1
    CfgErrNum = 1
    CfgErrDen = 2
    CfgCool = 1
    Requests = {r1}
    RouteCfg <- AllRoutes
    ActiveRoute = "solid"
    SaverDefault = ""
    RouteNames = {"", "one", "robin", "saved", "absent", "strict", "solid"}
    CounterMod = 4
    Scopes = {{}, {m2}}
    TokenRoutes = {"", "strict"}
    Headers = {"", "one", "robin", "saved", "absent"}
    Savers = {"saver"}
    Unresolved = {}
    Alive = {}
    Departures = TRUE
INVARIANTS
    ProxyTypeOK
    RetryDiscipline
    AttemptsInScope
    TriedIsLoggedOnce

    
