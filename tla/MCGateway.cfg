SPECIFICATION GatewayFairSpec
CONSTANTS
    r1 = r1
    r2 = r2
    m1 = m1
    m2 = m2
    b1 = b1
    b2 = b2
    h1 = h1
    h2 = h2
    mine = mine
    Requests = {r1}
    Ingests = {m1, m2}
    IngestUploads <- MCIngests
    Packages = {mine}
    ScopeOf <- MCScopeOf
    VersionNumbers = {"1.0.0"}
    Blobs = {b1, b2}
    ValidBlobs = {b1, b2}
    Hashes = {h1, h2}
    HashOf <- MCHashOf
    Uploads <- MCUploads
    Callers <- MCCallers
    BackendAges = {"current"}
    EncKeySet = TRUE
CHECK_DEADLOCK FALSE
INVARIANTS
    MirroredIsStored
    StoredIsAccounted
    RecordedIsDeliverable
PROPERTIES
    OnlyAdds
    EveryCallAnswered
    GatewayImplementsRegistry
