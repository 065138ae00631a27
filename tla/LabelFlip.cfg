SPECIFICATION Spec
CONSTANTS
    dev = dev
    prod = prod
    ghost = ghost
    policy = policy
    quota = quota
    NoClass = NoClass
    NoKind = NoKind
    Namespaces = {n1}
    Classes = {dev, prod}
    Items = {policy, quota}
    Kinds = {}
    ClassItems <- MCItemsOfClasses
    LabelMoves <- FlipMoves
    Resyncs = FALSE
    StateLag = FALSE
    InstanceLag = FALSE
    MaxEdits = 2
    MaxLives = 1
    MaxCreated = 2
    MaxFaults = 0
    MaxRestarts = 0
    MaxMishaps = 0
INVARIANTS
    SettledRecordsLabel
CHECK_DEADLOCK FALSE
