SPECIFICATION Spec
CONSTANTS
    dev = dev
    prod = prod
    policy = policy
    quota = quota
    n1 = n1
    config = config
    NoClass = NoClass
    NoKind = NoKind
    Namespaces = {n1}
    Classes = {dev, prod}
    Items = {policy, quota}
    Kinds = {config}
    Templates <- MCTemplates
    Parses <- MCTemplates
    ResourceOf <- MCResourceOf
    KeyOf <- MCResourceOf
    FirstTemplate <- MCFirstTemplate
    FirstItems <- MCFirstItems
    ItemsWanted <- MCItemsWanted
    LabelOf <- MCLabelOf
    SystemNamespaces = {}
    Controllers = {"state", "class"}
    Starts <- RolloutStarts
    WebhooksEnabled = TRUE
    StateLag = TRUE
    InstanceLag = FALSE
    ItemLag = TRUE
    OwnLag = FALSE
    MaxLives = 1
    MaxTouched = 5
    MaxVersions = 5
INVARIANTS
    TypeOK
    SettledFollowsClass
    SettledReferenced
    ListingSound
PROPERTIES
    ReleasedBeforeGone
    ListsOnlyHeld
CHECK_DEADLOCK FALSE
