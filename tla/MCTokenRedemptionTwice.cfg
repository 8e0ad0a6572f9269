CONSTANTS
    Request = {r1, r2}
    Token = {t1}
    NoToken = NoToken
    Lifetime = 2
    PurgeInterval = 1
    Horizon = 4
    MaxEpoch = 0
SPECIFICATION Spec
SYMMETRY Symmetric
INVARIANT ExactlyOnce
CHECK_DEADLOCK FALSE
