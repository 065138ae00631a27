SPECIFICATION Spec
CONSTANTS
    dev = dev
    prod = prod
    policy = policy
    quota = quota
    limits = limits
    NoClass = NoClass
    Namespaces = {}
    Classes = {dev, prod}
    Items = {policy, quota, limits}
    Templates <- MCTemplates
    Parses <- MCParses
    ResourceOf <- MCResourceOf
    KeyOf <- MCResourceOf
    WebhooksEnabled = TRUE
    MaxLives = 2
    MaxEdits = 6
INVARIANTS
    TypeOK
    ItemsExist
    NoTwoShareKey
CHECK_DEADLOCK FALSE
