CONSTANTS
    t1 = t1
    t2 = t2
    t3 = t3
    t4 = t4
    Nodes <- FourNodes
SPECIFICATION FairSpec
INVARIANTS OnlyCycles EveryDeadlockReported
PROPERTIES Terminates
CHECK_DEADLOCK FALSE
