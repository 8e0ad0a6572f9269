CONSTANTS
    Session = {1, 2, 3, 4, 5, 6}
    Foreign = Foreign
    None = None
    Op = {"full", "bare", "jarm", "weak"}
    Home <- Homes
    Profile <- Profiles
    Audience <- Audiences
    MaxAge = 0
    LoginLeeway = 0
    Ttl = 1
    Horizon = 1
    MaxCodes = 2
SPECIFICATION LoginSpec
INVARIANTS
    CodeStaysWithIssuer
    CodeStaysWithSession
    JarmIsAResponse
    LoginBelongsToSession
CONSTRAINT OneScenario
CHECK_DEADLOCK FALSE
