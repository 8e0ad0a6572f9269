CONSTANTS
    Request = {r1, r2}
    Token = {t1, t2}
    NoToken = NoToken
    Lifetime = 2
    PurgeInterval = 1
    Horizon = 4
    MaxEpoch = 1
SPECIFICATION FairSpec
INVARIANTS
    TypeOK
    OneWinnerWhileLive
    RefusedOnlyAfterWin
PROPERTIES
    KeepsPromise
    SomeoneWins
CHECK_DEADLOCK FALSE
