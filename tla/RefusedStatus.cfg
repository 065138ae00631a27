SPECIFICATION Spec
CONSTANTS
    policy = policy
    quota = quota
    n1 = n1
    config = config
    secret = secret
    NoClass = NoClass
    NoKind = NoKind
    Namespaces = {n1}
    Classes = {}
    Items = {policy}
    Kinds = {config, secret}
    Templates <- MCTemplates
    Parses <- MCParses
    ResourceOf <- MCResourceOf
    FirstTemplates <- MCFirst
    TemplateMoves <- KindMoves
    SystemNamespaces = {}
    OwnLag = FALSE
    Starts <- HastyOnly
    MaxItemLives = 1
    MaxVersions = 20
INVARIANTS
    SettledNoneLeft
CHECK_DEADLOCK FALSE
