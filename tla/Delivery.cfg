SPECIFICATION Spec
CONSTANTS
    dev = dev
    prod = prod
    policy = policy
    quota = quota
    n1 = n1
    config = config
    NoClass = NoClass
    NoKind = NoKind
    Namespaces = {n1}
    Classes = {dev}
    Items = {policy}
    Kinds = {config}
    Templates <- MCTwoTemplates
    Parses <- MCTwoTemplates
    ResourceOf <- MCResourceOf
    KeyOf <- MCResourceOf
    FirstTemplate <- MCFirstTemplate
    FirstItems <- MCOneEach
    ItemsWanted <- MCOneWanted
    LabelOf <- MCLabelOf
    SystemNamespaces = {}
    Controllers <- AllControllers
    Starts <- DeliveryStarts
    WebhooksEnabled = TRUE
    StateLag = TRUE
    InstanceLag = TRUE
    ItemLag = TRUE
    OwnLag = FALSE
    MaxLives = 1
    MaxTouched = 4
    MaxVersions = 4
INVARIANTS
    SettledDelivers
    SettledHealed
    SettledUnmarked
CHECK_DEADLOCK FALSE
