CONSTANTS
    Request = {r1, r2}
    Client = {"c1", "c2", "c3", "c4"}
    Registration <- AllRegistrations
    AuthRequest <- AllAuthRequests
    Form <- AllForms
    Assertion <- Assertions
    CodeTtl = 2
    AccessTtl = 1
    IdTtl = 1
    RefreshTtl = 2
    Horizon = 2
    MaxCodes = 1
    MaxTokens = 10
SPECIFICATION Spec
INVARIANTS
    AuthorityShrinks
    BindingKept
    NoFork
    PublicClientsProveCode
    UserinfoOnlyForLogin
    UsedUpOnlyByRedemption
CONSTRAINT OneScenario
SYMMETRY Symmetric
CHECK_DEADLOCK FALSE
