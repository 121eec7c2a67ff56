CONSTANTS
    main = main
    reindex = reindex
    f = f
    g = g
    a = a
    b = b
    c = c
    Nil = Nil
    Start = 0
    Confirmations = 1
    BatchSize = 2
    Main = main
    Reindexers <- OneReindexer
    Forks <- TwoForks
    Txs <- ThreeTxs
    Body <- Bodies
    MaxReorg = 1
    MaxHeight = 3
    Budgets <- Troubles
SPECIFICATION FairSpec
INVARIANTS IndexIsCanonical CursorBacked MarkerBacked RepeatsHaveACause
PROPERTIES CatchesUp
CHECK_DEADLOCK FALSE
