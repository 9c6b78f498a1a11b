CONSTANTS
    s1 = s1
    c1 = c1
    c2 = c2
    c3 = c3
    Sessions = {s1}
    Callers = {c1, c2, c3}
    CommandCap = 2
    ExecCap = 1
    MaxOutput = 1
SPECIFICATION MCSpec
INVARIANTS TypeOK EventOrder FinalMeansGone CommandsInOrder AnswerOwed
PROPERTIES ImplementsLifecycle EveryCallReturns DisconnectEnds
