SPECIFICATION Spec
CONSTANTS
    r1 = r1
    r2 = r2
    r3 = r3
    r4 = r4
    anomaly = anomaly
    manual = manual
    Calls <- MCCalls
    Types = {anomaly, manual}
    Type <- MCType
    None = None
    Stamp = Stamp
    MaxClock = 1
    MaxDeaths = 1
INVARIANTS
    ReturnedIsKept
    BeginsOnce
    OrderKept
CHECK_DEADLOCK FALSE
