CONSTANTS
    Request = {r1, r2}
    Proof = {p1}
    NoProof = NoProof
    Target <- ResourceTargets
    MaxAge = 2
    Skew = 1
    RequireNonce = TRUE
    NonceLifetime = 3
    I64Limit = 20
    Iat <- AllIats
    Horizon = 5
SPECIFICATION Spec
INVARIANTS
    ReplayReach
    NonceBoundsAge
SYMMETRY Symmetric
CHECK_DEADLOCK FALSE
