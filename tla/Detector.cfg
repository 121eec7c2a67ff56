\* Three two-phase transactions, three resources and every strategy: three may
\* deadlock with one another, two of them in a cycle of their own without a
\* priority above 0 (resolveWaitDie aborts nobody there), t2 may give up waits
\* and begin others.  With MaxWaitTime and StaleAfter 0 a wait is short or
\* longer than either.  All transactions may come to their end.
CONSTANTS
    t1 = t1
    t2 = t2
    t3 = t3
    r1 = r1
    r2 = r2
    r3 = r3
    None = None
    Txs <- ThreeTxs
    Resources <- ThreeResources
    Takes <- OwnResource
    Wants <- OverlappingWants
    Impatient = {t2}
    Priority <- MixedPriority
    Strategies = {"waitDie", "timeout", "priority"}
    TwoPhase = TRUE
    MaxWaitTime = 0
    StaleAfter = 0
SPECIFICATION FairSpec
INVARIANTS GraphTrue NoMissedDeadlock VictimDeadlocked
PROPERTIES CyclesCleared StaleCleared
CHECK_DEADLOCK FALSE
