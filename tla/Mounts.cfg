\* One client, every fault and a crash at every step.
CONSTANTS
    c1 = c1
    Client = {c1}
    Path <- MCPath
    ProtectedPath <- MCProtected
    DefaultMounts <- MCDefaults
    MaxMounts = 4
    None = None
    NoTable = NoTable
    StorageFaults = TRUE
    Crashes = TRUE
SPECIFICATION Spec
INVARIANTS TypeOK RoutesSound AckedStored GoneStaysGone
