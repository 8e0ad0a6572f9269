CONSTANTS
    Request = {r1, r2, r3}
    Token = {t1}
    NoToken = NoToken
    Lifetime = 2
    Horizon = 4
SPECIFICATION Spec
INVARIANTS
    OneGrantWhileLive
    RefusedOnlyAfterGrant
    MintedLeavesMarker
PROPERTY KeepsPromise
SYMMETRY Symmetric
CHECK_DEADLOCK FALSE
