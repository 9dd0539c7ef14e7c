\* Two overlapping requests of every kind, on one account with two passkeys.
INIT MCInit
NEXT Next
CONSTANTS
    u1 = u1  c1 = c1  c2 = c2  rpA = rpA  rpB = rpB
    w1 = w1  w2 = w2   NoRp = NoRp
    Users = {u1}
    Credentials = {c1, c2}
    Rps = {rpA, rpB}
    Workers = {w1, w2}
    Owner <- OneOwner
    RpOf <- SameRp
    Traffic <- Families
SYMMETRY AnyPasskey
INVARIANTS TypeOK SettingsFloors NoCircularWait
PROPERTIES FloorKept PasswordlessFloorKept
