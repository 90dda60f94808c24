SPECIFICATION InspectionSpec
CONSTANTS
    Names <- MCNames
    LicenseNames <- MCLicenseNames
    Platforms = {"roblox", "uefn"}
    Inspector <- EntryInspectors
    Archives <- VerseArchives
    MaxFiles = 3
    MaxTotalSize = 5
    MaxFileSize = 4
    MaxLicense = 2
    MaxVerse = 3
    MaxModel = 5
    MinLuauSourceBytes = 2
    Sources <- MCSources
    HighWater = 1
    EpicRoots <- MCEpicRoots
    Lower <- MCLower
    MapScope <- MCMapScope
    VerseOf <- MCVerseOf
    ModelOf <- MCModelOf
CHECK_DEADLOCK FALSE
INVARIANTS
    VerseIsScanned
