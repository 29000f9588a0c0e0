\* Two clients on a mount and a path below it, on either table: every call against
\* every other.
CONSTANTS
    c1 = c1
    c2 = c2
    Client = {c1, c2}
    Path <- MCPath
    ProtectedPath <- MCProtected
    DefaultMounts <- MCDefaults
    CorePath <- MCCorePath
    MaxMounts = 3
    None = None
    NoTable = NoTable
    StorageFaults = FALSE
    Crashes = FALSE
SPECIFICATION TablesSpec
INVARIANT MethodRoutesSound
SYMMETRY MCSymmetry
