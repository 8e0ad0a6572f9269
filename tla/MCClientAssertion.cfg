CONSTANTS
    Request = {r1, r2, r3}
    Assertion <- Assertions
    NoAssertion = NoAssertion
    TicksPerSec = 2
    Leeway = 1
    MaxAge = 1
    U64Max = 100
    Horizon = 10
SPECIFICATION Spec
INVARIANTS
    AssertionUsedOnce
    RefusedOnlyAfterUse
SYMMETRY Symmetric
CHECK_DEADLOCK FALSE
