CONSTANTS
    r1 = r1
    r2 = r2
    r3 = r3
    NoRequest = NoRequest
    Requests = {r1, r2, r3}
    WithInput = {r3}
    Cap = 2
SPECIFICATION FairSpec
INVARIANTS TypeOK NoBlindRerun OneFaultHidden
PROPERTY ImplementsService
CHECK_DEADLOCK FALSE
