\* Every way to log in, two attempts at once, everything may be refused.
SPECIFICATION CalmSpec
CONSTANTS
    alice = alice  bob = bob
    Accounts = {alice, bob}
    NoAccount = NoAccount
    Kinds = {"mail", "signUp", "facebook"}
    MaxTaps = 3
    MaxPending = 2
    AuthMayFail = TRUE
    WritesMayFail = TRUE
INVARIANTS
    CachedWasRecorded
    CalmCachedIsSignedIn
    CalmScreensFitUser
PROPERTIES
    LoginsEnd
