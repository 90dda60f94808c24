SPECIFICATION Spec
CONSTANTS
    r1 = r1
    r2 = r2
    r3 = r3
    b1 = b1
    b2 = b2
    bad = bad
    h1 = h1
    h2 = h2
    hBad = hBad
    mine = mine
    mine2 = mine2
    other = other
    Requests = {r1, r2}
    Packages = {mine, mine2, other}
    ScopeOf <- MCScopeOf
    VersionNumbers = {"1.0.0"}
    Blobs <- MCBlobs
    ValidBlobs = {b1, b2}
    Hashes = {h1, h2, hBad}
    HashOf <- MCHashOf
    Uploads <- TreeUploads
    Callers <- RulesCallers
    BackendAges = {"current", "older"}
    EncKeySet = FALSE
CHECK_DEADLOCK FALSE
SYMMETRY RequestSymmetry
INVARIANTS
    PublicIsWanted
    DeniedLearnsNothing
    JudgedTreeInstallable
