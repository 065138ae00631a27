SPECIFICATION FairSpec
CONSTANTS
    dev = dev
    prod = prod
    policy = policy
    quota = quota
    n1 = n1
    config = config
    NoClass = NoClass
    NoKind = NoKind
    Namespaces = {n1}
    Classes = {dev, prod}
    Items = {policy, quota}
    Kinds = {config}
    Templates <- MCTemplates
    Parses <- MCTemplates
    ResourceOf <- MCResourceOf
    KeyOf <- MCResourceOf
    FirstTemplate <- MCFirstTemplate
    FirstItems <- MCFirstItems
    ItemsWanted <- MCFewWanted
    LabelOf <- MCLabelOf
    SystemNamespaces = {}
    Controllers = {"state", "class"}
    Starts <- RolloutLiveStarts
    WebhooksEnabled = TRUE
    StateLag = TRUE
    InstanceLag = FALSE
    ItemLag = FALSE
    OwnLag = FALSE
    MaxLives = 1
    MaxTouched = 5
    MaxVersions = 5
PROPERTIES
    Converges
    DeletionEnds
CHECK_DEADLOCK FALSE
