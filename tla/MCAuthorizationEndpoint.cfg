CONSTANTS
    Slot = {s1, s2}
    Client = {"c1", "c2", "c3"}
    Registration <- AllRegistrations
    AuthRequest <- AllRequests
    Ttl = {1}
    CallerManagedPairwise = TRUE
    HashCapable = TRUE
    EmitIss = TRUE
    Horizon = 2
    MaxIssued = 1
SPECIFICATION Spec
INVARIANTS
    IssuedUnderRegistration
    SafeRedirects
PROPERTY
    OnlyExpiredRemoved
CONSTRAINT OneScenario
CHECK_DEADLOCK FALSE
