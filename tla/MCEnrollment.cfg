\* Two ceremonies of one account or of two, with one passkey allowed or two.
INIT MCInit
NEXT Next
CONSTANTS
    u1 = u1  u2 = u2  c1 = c1  c2 = c2  s1 = s1  s2 = s2
    w1 = w1  w2 = w2  rpA = rpA  rpB = rpB
    Users = {u1, u2}
    Credentials = {c1, c2}
    Sids = {s1, s2}
    Workers = {w1, w2}
    Rps = {rpA, rpB}
    MaxCap = 2
    Changes <- Families
    MaxRoots = 2
    MaxHandles = 3
SYMMETRY Alike
INVARIANTS TypeOK CapKept CarriesHandle
PROPERTIES ExternalOnlyFirst ImplementsSingleUse
\* Nothing moves once the bounds are spent.
CHECK_DEADLOCK FALSE
