SPECIFICATION Spec
CONSTANTS
    dev = dev
    prod = prod
    policy = policy
    quota = quota
    n1 = n1
    config = config
    NoClass = NoClass
    NoKind = NoKind
    Namespaces = {n1}
    Classes = {dev, prod}
    Items = {policy, quota}
    Kinds = {config}
    Templates <- FourTemplates
    Parses <- FourTemplates
    ResourceOf <- FourResourceOf
    KeyOf <- FourResourceOf
    FirstTemplate <- MCFirstTemplate
    FirstItems <- SharedItem
    ItemsWanted <- MCOneWanted
    LabelOf <- LabelledProd
    SystemNamespaces = {}
    Controllers <- AllControllers
    Starts <- SharedItemEdited
    WebhooksEnabled = TRUE
    StateLag = TRUE
    InstanceLag = FALSE
    ItemLag = TRUE
    OwnLag = FALSE
    MaxLives = 1
    MaxTouched = 4
    MaxVersions = 4
INVARIANTS
    SettledAllTold
CHECK_DEADLOCK FALSE
