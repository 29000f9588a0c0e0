\* The seal with faults and crashes; the parts under it in turn.
SPECIFICATION CoreSpec
CONSTANTS
    ByteRange = 6
    Forged = {bad}
    NoConfig = NoConfig
    StorageFaults = TRUE
    Crashes = TRUE
    Algs <- MCAlgs
    Chunks = {"k1", "k2"}
    Aads = {"a1"}
    MaxPieces = 2
    MaxKept = 2
    MaxOpened = 1
    StoreKeys <- MCStoreKeys
    StoreValues = {"v1", "v2"}
    View <- MCView
    Secrets <- MCSecrets
    Coefficients = {0, 202}
    Thresholds = {2, 3}
    Parts = {3, 254}
    Holders = {1, 2, 3, 254}
INVARIANTS
    TypeOK
    UnsealedMeansReady
    SealedHoldsNoDataKey
    OpenedByQuorum
    SharesFitConfig
    RegistrationsClean
    CipherHonest
    StoreFaithful
    SharesHonest
PROPERTY ImplementsContract
