SPECIFICATION FairSpec
CONSTANTS
    dev = dev
    prod = prod
    ghost = ghost
    policy = policy
    quota = quota
    NoClass = NoClass
    NoKind = NoKind
    Namespaces = {n1}
    Classes = {dev, prod, ghost}
    Items = {policy, quota}
    Kinds = {}
    ClassItems <- MCItemsOfClasses
    LabelMoves <- GivingMoves
    Resyncs = FALSE
    StateLag = TRUE
    InstanceLag = TRUE
    MaxEdits = 2
    MaxLives = 1
    MaxCreated = 2
    MaxFaults = 1
    MaxRestarts = 1
    MaxMishaps = 1
INVARIANTS
    TypeOK
    SettledFollowsLabel
    UsedOnce
PROPERTIES
    CommitInstalls
    SwitchesSafely
    ImplementsClassSwitch
CHECK_DEADLOCK FALSE
