SPECIFICATION FairSpec
CONSTANTS
    policy = policy
    quota = quota
    n1 = n1
    config = config
    secret = secret
    NoClass = NoClass
    NoKind = NoKind
    Namespaces = {n1}
    Classes = {}
    Items = {policy}
    Kinds = {config, secret}
    Templates <- MCTemplates
    Parses <- MCParses
    ResourceOf <- MCResourceOf
    FirstTemplates <- MCFirst
    TemplateMoves <- AllMoves
    SystemNamespaces = {}
    OwnLag = TRUE
    Starts <- MCStarts
    MaxItemLives = 1
    MaxVersions = 20
INVARIANTS
    TypeOK
    SettledApplied
    SettledNothingElse
    StatusHonest
PROPERTIES
    Converges
CHECK_DEADLOCK FALSE
