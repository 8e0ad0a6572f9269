CONSTANTS
    Subject = "leaf"
    Middle = {"mid"}
    Anchor = {"ta1", "ta2"}
    Outsider = "out"
    Below <- Hierarchy
    Configured = {"ta1", "ta2"}
    Up = {"ta1"}
    Resolver = {"ta1", "ta2"}
    SubjectId <- Https
    KeysUrl <- Urls
    Lifetime = 2
    Leeway = 1
    MaxKey = 1
    MaxChanges = 2
    Horizon = 4
    LoginUri <- LoginUris
    OpId <- Ids
    Body <- Bodies
    Request <- Requests
    Stray <- Strays
    Param = {"grants", "name"}
    Item = {"a", "b"}
    Original <- Documents
    Policy <- Policies
    MaxCalls = 2
SPECIFICATION BothSpec
INVARIANTS
    KeysGenuine
    TrustLapses
    SentToOwnUri
    HintLeads
    SelectionArrives
    OrderIrrelevant
    DemandsStand
PROPERTY OneAnchorSuffices
ACTION_CONSTRAINT EarlyDiscovery
CHECK_DEADLOCK FALSE
