CONSTANTS
    a = a
    b = b
    c = c
    None = None
    Users <- ThreeUsers
    Requests <- SeveralRequests
    MaxAttempts = 2
    MaxFaults <- SeveralFaults
    MaxPending = 2
SPECIFICATION FairSpec
INVARIANTS FirstDecisionCounts VotesOnRecord ClosedWithDecision
PROPERTIES RefinesQuorum StatusFinal WorkflowEnds
CHECK_DEADLOCK FALSE
