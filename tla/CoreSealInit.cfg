SPECIFICATION Spec
CONSTANTS
    ByteRange = 6
    Forged = {bad}
    NoConfig = NoConfig
    StorageFaults = FALSE
    Crashes = FALSE
INVARIANT InitKeepsMasterKey
