CONSTANTS
    MaxJobs = 3
    MaxAtOnce = 2
    MaxConns = 2
    Versions = {1, 2}
    Size <- MCSize
    None = None
    Names = {"a", "b", "b ", " "}
    Trim <- MCTrim
    NoName = NoName
    Login <- MCLogin
    MaxDepth = 3
    Trees <- MCTrees
SPECIFICATION MCSpec
INVARIANTS TargetSafe ModeKept RemoveExact CopyExact
PROPERTY DoneDelivers
CHECK_DEADLOCK FALSE
