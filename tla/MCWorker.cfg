SPECIFICATION WorkerFairSpec
CONSTANTS
    r1 = r1
    r2 = r2
    r3 = r3
    Requests = {r1, r2, r3}
    RouteOf <- MCRouteOf
CHECK_DEADLOCK FALSE
INVARIANTS
    WorkerTypeOK
    HandledOnce
    AnsweredBySetUp
PROPERTIES
    EveryRequestAnswered
