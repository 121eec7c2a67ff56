CONSTANTS
    a = a
    b = b
    c = c
    None = None
    Users <- ThreeUsers
    Requests <- OneRequest
    MaxFaults <- NoFaults
    MaxAttempts = 3
    MaxPending = 1
SPECIFICATION Spec
INVARIANTS NotLeftPending
CHECK_DEADLOCK FALSE
