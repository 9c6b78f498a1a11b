CONSTANTS
    t1 = t1
    t2 = t2
    NoText = NoText
    Texts = {t1, t2}
    Profiles <- MCProfiles
    Files <- MCFiles
    MaxCopies = 2
    MaxUpdates = 3
SPECIFICATION MCSpec
INVARIANT NlaNeverDropped
PROPERTIES CancelRespected NoBounce Converges FramesShown
CHECK_DEADLOCK FALSE
