CONSTANTS
    c1 = c1
    c2 = c2
    r1 = r1
    r2 = r2
    o1 = o1
    o2 = o2
    o3 = o3
    o4 = o4
    Clients <- TwoClients
    Resources <- OneResource
    OwnerIds <- FourOwners
    NoOwner = NoOwner
    Nil = Nil
    TTL = 1
    Extensions = {1}
    Interval = 1
    EnableFencing = TRUE
    RedisFaults = FALSE
    CounterFaults = FALSE
    MaxToken = 3
SPECIFICATION Spec
SYMMETRY Symmetry
PROPERTY TokensIncrease
