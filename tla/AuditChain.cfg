SPECIFICATION FairSpec
CONSTANTS
    Events = {e1, e2, e3, e4}
    Invalid = {e4}
    Exact = {e1}
    Workers = {w1, w2}
    Callers = {c1}
    Closer = Closer
    Buffer = 1
    None = None
    Budgets <- MCBudgets
INVARIANTS
    GapFree
    OrderKept
    Accounted
    OneHolder
PROPERTIES
    Settled
    InlineEnds
    CloseEnds
CHECK_DEADLOCK FALSE
