CONSTANTS
    a = a
    b = b
    w1 = w1
    w2 = w2
    f1 = f1
    Nil = Nil
    Payloads <- TwoPayloads
    Bad <- Malformed
    Topic <- ThreeMessages
    Workers <- TwoWorkers
    QueueSize = 1
    MaxTries = 2
    Files <- OneFile
    Contents <- FileContents
    Budgets <- Troubles
SPECIFICATION FairSpec
INVARIANTS VerdictBacked OutputOnce StuckOnlyIfCut NoSilentLoss ArchivedIsDone
PROPERTIES CatchesUp
CHECK_DEADLOCK FALSE
