\* One thread registers a secret id while the tidy task runs.
CONSTANTS
    c1 = c1
    Client = {c1}
    Admin = {c1}
    Role = {r1}
    RoleId = {i1, i2}
    SecretId = {s1}
    Uses = {0}
    Ttls = {0}
    MaxKeys = 2
    MaxAccessors = 2
    MaxCalls = 5
    MaxTime = 0
    MaxLogins = 2
    None = None
    StorageFaults = FALSE
    Crashes = FALSE
SPECIFICATION Spec
CHECK_DEADLOCK FALSE
PROPERTY TidyKeepsLive
