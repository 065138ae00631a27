SPECIFICATION FairSpec
CONSTANTS
    dev = dev
    prod = prod
    ghost = ghost
    policy = policy
    quota = quota
    NoClass = NoClass
    NoKind = NoKind
    Namespaces = {n1}
    Classes = {dev, prod}
    Items = {policy}
    Kinds = {}
    ClassItems <- MCOneItem
    LabelMoves <- AllMoves
    Resyncs = TRUE
    StateLag = TRUE
    InstanceLag = TRUE
    MaxEdits = 2
    MaxLives = 1
    MaxCreated = 2
    MaxFaults = 1
    MaxRestarts = 0
    MaxMishaps = 1
INVARIANTS
    CopiesSound
PROPERTIES
    SwitchOnlyToPending
    CommittedInstancesStay
    Converges
CHECK_DEADLOCK FALSE
