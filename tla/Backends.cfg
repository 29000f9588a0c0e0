\* Every part in turn; two clients where calls interleave (Crls, Pki, Keys).
SPECIFICATION BackendsSpec
CONSTANTS
    Words = {"nam", "password", "policies", "crl", "0a-1f", "secret-id", "generate"}
    Serials = {"0a-1f", "ca"}
    SampleNames = {"nam", "n", "0a-1f"}
    AppBackends = {"userpass", "kv"}
    AppPaths <- MCAppPaths
    RulePaths <- MCRulePaths
    RulePerms <- MCRulePerms
    Requests <- MCRequests
    MaxRules = 3
    PolClients = {c0}
    CustomNames = {"dev", "ops"}
    PolTexts = {"t1", "t2"}
    AccountBodies <- MCBodies
    FieldValues <- MCFieldValues
    Passwords = {"p1", "p2"}
    Peers <- MCPeers
    TrustedEntries <- MCEntries
    EntryNames = {"web", "api"}
    CrlNames = {"x", "y"}
    CrlSerials = {{3}, {2, 4}}
    CertMounts = {"cert", "other"}
    CertMount = "cert"
    CrlClients = {c1, c2}
    Malformed = Malformed
    PkiClients = {c1, c2}
    PkiRoles = {"r"}
    RoleBodies <- MCRoleBodies
    PemBundles <- MCPemBundles
    IssueTtls = {0, 2}
    RootLives <- MCRootLives
    DefaultLife = 4
    MaxSerial = 2
    MaxClock = 2
    KeyNames = {"n1", "n2"}
    KeyClients = {c1, c2}
    KeyKinds <- MCKinds
    KeyImports <- MCImports
    KeyTexts <- MCTexts
    KeyAads = {"a1", "a2"}
    MaxKeyIds = 2
    MAX_LEASE_TTL = 4
    DEFAULT_LEASE_TTL = 2
    Durations = {0, 1, 3, 6}
    Increments = {0, 2}
    Huge = 99
    KV_DEFAULT_TTL = 1
    MaxNow = 8
SYMMETRY MCSymmetry
 
INVARIANTS
    RouteUnambiguous UnauthIsPublic  FrontSound
    AclOrderFree AllowedIsGranted CacheFollowsStore AccountsCoherent
    CrlCacheWhole LoginGrounded IssuedStands KeyResultsStand LeaseBounded
\* A handler's answer ends its request, and the bounds end the rest.
CHECK_DEADLOCK FALSE
