SPECIFICATION Spec
CONSTANTS
    Events = {e1, e2, e3}
    Invalid = {}
    Exact = {e1, e2, e3}
    Workers = {w1, w2}
    Callers = {c1}
    Closer = Closer
    Buffer = 2
    None = None
    Budgets <- QuietBudgets
INVARIANT CleanLogVerifies
CHECK_DEADLOCK FALSE
