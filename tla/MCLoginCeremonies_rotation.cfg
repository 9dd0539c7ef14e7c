\* A password changed while the second leg runs.
INIT RotationInit
NEXT Next
CONSTANTS
    u1 = u1  c1 = c1  b1 = b1  b2 = b2  rpA = rpA  rpB = rpB  w1 = w1  w2 = w2  NoRp = NoRp
    Users = {u1}
    Credentials = {c1}
    Browsers = {b1, b2}
    Knows = {b1}
    Workers = {w1}
    Rps = {rpA, rpB}
    Owner <- OneOwner
    RpOf <- SameRp
    Changes <- Rotation
    MaxCount = 1
    MaxRoots = 1
    MaxPassword = 1
    MAX_ATTEMPTS = 3
    PASSWORD_LIMIT = 2
    MaxFailed = 4
PROPERTY PasswordCurrentAtMint
\* No sign-in begins once the bound MaxRoots is spent.
CHECK_DEADLOCK FALSE
