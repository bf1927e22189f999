SPECIFICATION Spec
CONSTANTS
    Models = {m1}
    CfgWindow = 4
    CfgMinReq = 2
    CfgErrNum = 1
    CfgErrDen = 2
    CfgCool = 2
PROPERTIES
    HalfOpenSuccessClears
