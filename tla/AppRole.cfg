\* One thread with every request, one with logins and secret ids, and the tidy task.
CONSTANTS
    c1 = c1
    c2 = c2
    Client = {c1, c2}
    Admin = {c1}
    Role = {r1}
    RoleId = {i1, i2}
    SecretId = {s1}
    Uses = {0, 2}
    Ttls = {0}
    MaxKeys = 2
    MaxAccessors = 2
    MaxCalls = 5
    MaxTime = 1
    MaxLogins = 2
    None = None
    StorageFaults = TRUE
    Crashes = TRUE
SPECIFICATION FairSpec
CHECK_DEADLOCK FALSE
INVARIANTS TypeOK UsesRespected DestroyedStaysOut IndexFitsRole
PROPERTY TidyEnds
