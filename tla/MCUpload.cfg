SPECIFICATION ParseSpec
CONSTANTS
    Bodies <- MCBodies
    MaxUploadSize = 3
CHECK_DEADLOCK FALSE
INVARIANTS
    ParseTypeOK
    ReplyIsDeserved
    ReceivedIsWhole
    HeldIsBounded
    ManifestIsUsable
