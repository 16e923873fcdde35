SPECIFICATION FairSpec
CONSTANTS
    s1 = s1
    w1 = w1
    w2 = w2
    k1 = k1
    k2 = k2
    k3 = k3
    Services = {s1}
    Workers = {w1, w2}
    Tokens = {k1, k2, k3}
    NoToken = NoToken
    MaxDirty = 3
    MaxFaults = 2
INVARIANTS LeaseExclusive AckCovered
PROPERTY EveryNotificationServed
CHECK_DEADLOCK FALSE
