SPECIFICATION FairSpec
CONSTANTS
    dev = dev
    prod = prod
    policy = policy
    quota = quota
    n1 = n1
    config = config
    NoClass = NoClass
    NoKind = NoKind
    Namespaces = {n1}
    Classes = {dev}
    Items = {policy}
    Kinds = {config}
    Templates <- MCTwoTemplates
    Parses <- MCTwoTemplates
    ResourceOf <- MCResourceOf
    KeyOf <- MCResourceOf
    FirstTemplate <- MCFirstTemplate
    FirstItems <- MCFirstItems
    ItemsWanted <- MCOneWanted
    LabelOf <- Unlabelled
    SystemNamespaces = {}
    Controllers = {"class"}
    Starts <- StuckStarts
    WebhooksEnabled = TRUE
    StateLag = TRUE
    InstanceLag = FALSE
    ItemLag = TRUE
    OwnLag = FALSE
    MaxLives = 1
    MaxTouched = 5
    MaxVersions = 5
PROPERTIES
    DeletionEnds
CHECK_DEADLOCK FALSE
