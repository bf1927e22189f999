SPECIFICATION ObservedSpec
CONSTANTS
    a = a
    b = b
    p1 = p1
    p2 = p2
    r1 = r1
    r2 = r2
    s1 = s1
    s2 = s2
    anyone = anyone
    changed = changed
    DefaultSettings = DefaultSettings
    Procs = {a, b}
    Providers = {p1, p2}
    Routes = {r1, r2}
    Savers = {s1, s2}
    Cidrs = {anyone}
    Settings = {DefaultSettings, changed}
    Typed <- MCTyped
    None = None
    Empty = Empty
    Garbled = Garbled
    Commands <- AllCommands
    MaxCommands = 2
    Seeds <- MCSeeds
SYMMETRY MCSymmetry
INVARIANTS
    ControlPlaneTypeOK
    DefaultsResolve
    

    
CHECK_DEADLOCK FALSE
