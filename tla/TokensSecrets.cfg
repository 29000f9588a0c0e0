\* One client that also reads leased secrets, one manager, no fault.
CONSTANTS
    c1 = c1
    Client = {c1}
    TokenReq <- MCTokenReq
    MaxTokens = 3
    MaxSecrets = 1
    Reader = {2}
    MaxTime = 2
    MaxManagers = 1
    Ttl = 1
    SecretTtl = 2
    None = None
    Faulty = {}
    Crashes = FALSE
SPECIFICATION FairSpec
\* The bounds on unseals and time let it stop.
CHECK_DEADLOCK FALSE
PROPERTY ExpiredTokensGo
