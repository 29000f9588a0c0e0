\* One client, the checkers of two managers, faults in requests, crashes.
CONSTANTS
    c1 = c1
    Client = {c1}
    TokenReq <- MCTokenReq
    MaxTokens = 3
    MaxSecrets = 0
    Reader = {}
    MaxTime = 2
    MaxManagers = 2
    Ttl = 1
    SecretTtl = 2
    None = None
    Faulty = {c1}
    Crashes = TRUE
SPECIFICATION Spec
\* The bounds on unseals and time let it stop.
CHECK_DEADLOCK FALSE
INVARIANTS TypeOK ParentLinked LeaseScheduled CheckerOnTime
PROPERTY RevokedTreeGone
