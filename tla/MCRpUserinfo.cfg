CONSTANTS
    Issuer <- Https
    Doc <- Docs
    Key = {k1, k2}
    Header <- Headers
    U64Max = 3
    Ceiling = 2
    DefaultTtl = 1
    Hold = 1
    MaxDelay = 1
    Cap = 6
    Subject = {"alice", "bob"}
    Me = "alice"
    Setup <- Setups
    Leeway = 1
    Lifetime = {1}
    MaxJwtAge = 3
SPECIFICATION FairSpec
INVARIANTS
    WithdrawnKeyBounded
    RequestsStaySecure
    UserinfoIsUserinfo
    ReplayEnds
PROPERTY NewKeyPickedUp
CONSTRAINT QuietSession
CHECK_DEADLOCK FALSE
