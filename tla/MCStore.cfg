SPECIFICATION Spec
CONSTANTS
    Admins = {a, b}
    Clients = {c}
    Ids = {i, j}
    Secrets = {s1, s2, s3}
    Scopes = {any}
    None = None
    Lifetimes <- Terms
    Never = Never
    Costs = {1}
    Unpriced = Unpriced
    DaySeconds = 2
    Instants <- Moments
    MaxActs = 4
SYMMETRY Symmetry
CHECK_DEADLOCK FALSE
INVARIANTS
    StoreTypeOK
    SpendMissesOnlyFirstSecond

    
