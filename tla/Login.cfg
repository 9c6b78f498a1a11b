CONSTANTS
    a1 = a1
    a2 = a2
    jump = jump
    target = target
    k1 = k1
    k2 = k2
    NoKey = NoKey
    Attempts = {a1, a2}
    Hosts = {jump, target}
    Keys = {k1, k2}
    Chains <- MCChains
    InitialKnown <- MCInitialKnown
    MaxTries = 2
    MaxLogins = 3
    MaxTyped = 3
SPECIFICATION MCSpec
SYMMETRY AttemptSymmetry
INVARIANTS
    TypeOK NothingTrustedSilently RecordedNeverJoined
    KeyboardTypeOK AnswersInOnePlace ReplayedInOrder AnswersStayWithHost
CHECK_DEADLOCK FALSE
