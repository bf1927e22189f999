SPECIFICATION FairSpec
CONSTANTS
    Pids <- MCPids
    Ports = {t, u}
    DefaultPort = t
    None = None
    Absent = Absent
    Empty = Empty
    MaxEvents = 3
    MaxDisturbing = 1
CHECK_DEADLOCK FALSE
INVARIANTS
    PidFileNamesBinder
    
PROPERTIES
    RestartServes
