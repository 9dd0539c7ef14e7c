\* Confirmed calls over two workers, of two sessions or on any releases of the
\* protecting app.
INIT GrantsInit
NEXT Next
CONSTANTS
    u1 = u1  c1 = c1  c2 = c2  s1 = s1  s2 = s2  s3 = s3  w1 = w1  w2 = w2  p1 = p1  p2 = p2
    Users = {u1}
    Credentials = {c1}
    Sids = {s1, s2}
    Workers = {w1, w2}
    Payloads = {p1, p2}
    Owner <- OneOwner
    UserOf <- OneUser
    Impersonated = {}
    Asked = {"pay"}
    Changes <- Families
    MaxGestures = 1
    MaxCalls = 2
    MaxEpochs = 1
    PASSWORD_LIMIT = 2
SYMMETRY Alike
INVARIANTS TypeOK ConsumerDecides
PROPERTY ImplementsSingleUse
\* Nothing moves once the bounds are spent.
CHECK_DEADLOCK FALSE
