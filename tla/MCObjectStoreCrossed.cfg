SPECIFICATION Spec
CONSTANTS
    c1 = c1
    c2 = c2
    k1 = k1
    k2 = k2
    k3 = k3
    None = None
    Clients = {c1, c2}
    Keys = {k1, k2, k3}
    Proxies = {p1, p2}
    MaySet <- OwnKeys
    MaxCrashes = 0
INVARIANTS
    GetReturnsSet
