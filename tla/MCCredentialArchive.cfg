\* Four console commands, over two accounts and two passkeys.
INIT MCInit
NEXT Next
CONSTANTS
    u1 = u1  u2 = u2  c1 = c1  c2 = c2  rpA = rpA  rpB = rpB
    Users = {u1, u2}
    Credentials = {c1, c2}
    Rps = {rpA, rpB}
    Changes <- Families
    MaxCount = 1
    MaxHandles = 2
    MaxCommands = 4
SYMMETRY Alike
INVARIANTS TypeOK CarriesHandle
PROPERTIES ArchiveIsComplete RestoredCanSignIn
\* Nothing moves once the bounds are spent.
CHECK_DEADLOCK FALSE
