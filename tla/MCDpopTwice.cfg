CONSTANTS
    Request = {r1, r2}
    Proof = {p1}
    NoProof = NoProof
    Target <- TokenTargets
    MaxAge = 2
    Skew = 1
    RequireNonce = FALSE
    NonceLifetime = 1
    I64Limit = 20
    Iat <- ClockIats
    Horizon = 5
SPECIFICATION Spec
INVARIANTS
    ProofUsedOnce
SYMMETRY Symmetric
CHECK_DEADLOCK FALSE
