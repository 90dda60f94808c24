SPECIFICATION Spec
CONSTANTS
    r1 = r1
    r2 = r2
    Requests = {r1, r2}
    Relations <- MCRelations
    UrlLife = 2
    PendingAge = 1
    StaleAge = 1
    DefaultAge = 4
    Horizon = 5
CHECK_DEADLOCK FALSE
SYMMETRY RequestSymmetry
INVARIANTS
    TypeOK
    PrivateIsPersonal
    DeniedLooksAbsent
    LinkIsLive
    PendingIsBrief
