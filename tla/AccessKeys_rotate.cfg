SPECIFICATION Spec
CONSTANTS
    k1 = k1
    p1 = p1
    m1 = m1
    s1 = s1
    c1 = c1
    c2 = c2
    i1 = i1
    i2 = i2
    None = None
    Keys = {k1}
    Policies = {p1}
    Models = {m1}
    Services = {s1}
    Owned <- OwnedS1
    Serves <- ServesOne
    Clients = {c1, c2}
    Idempotency = {i1, i2}
    Windows = {1}
    Limits <- LimitSecond
    MaxSecret = 5
    MaxVersion = 5
    MaxTime = 1
SYMMETRY SymClients
INVARIANT RotatedOnce
