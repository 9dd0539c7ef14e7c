\* Sign-ins of every kind, with retries and the one-time code: two of them that
\* race, or one while the account, its passkey, its password and the settings
\* change.
INIT LoginInit
NEXT Next
CONSTANTS
    u1 = u1  c1 = c1  b1 = b1  b2 = b2  rpA = rpA  rpB = rpB  w1 = w1  w2 = w2  NoRp = NoRp
    Users = {u1}
    Credentials = {c1}
    Browsers = {b1, b2}
    Knows = {b1}
    Workers = {w1, w2}
    Rps = {rpA, rpB}
    Owner <- OneOwner
    RpOf <- SameRp
    Changes <- Families
    MaxCount = 2
    MaxRoots = 2
    MaxPassword = 1
    MAX_ATTEMPTS = 3
    PASSWORD_LIMIT = 1
    MaxFailed = 4
SYMMETRY AnyWorker
INVARIANTS TypeOK SignInsEndOnce
PROPERTIES  PossessionIsNotEnough NothingStaleMints ImplementsSingleUse
\* No sign-in begins once the bound MaxRoots is spent.
CHECK_DEADLOCK FALSE
