CONSTANTS
    c1 = c1
    c2 = c2
    k1 = k1
    k2 = k2
    m1 = m1
    m2 = m2
    e1 = e1
    e2 = e2
    n1 = n1
    Keys = {k1, k2}
    Absent = Absent
    Clients = {c1, c2}
    Requests <- CreateAndUpdate
    Models = {m1, m2}
    Engines = {e1, e2}
    Names = {n1}
    MaxServices = 2
    MaxCalls = 2
SPECIFICATION Spec
PROPERTY ReplayShowsPhase
CHECK_DEADLOCK FALSE
