\* The lists in memory are lost with a restart.
CONSTANTS
    Peers <- MCPeers
    TrustedEntries <- MCEntries
    EntryNames = {"web", "api"}
    CrlNames = {"x", "y"}
    CrlSerials = {{}, {3}, {2, 4}}
    CertMounts = {"cert"}
    CertMount = "cert"
    CrlClients = {cc1}
    Malformed = Malformed
SPECIFICATION CertSpec
INVARIANT RevokedRefused
CHECK_DEADLOCK FALSE
