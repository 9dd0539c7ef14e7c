\* Windows, uv_initialized and the throttle; somebody else acts in s3.
INIT SudoInit
NEXT Next
CONSTANTS
    u1 = u1  c1 = c1  c2 = c2  s1 = s1  s2 = s2  s3 = s3  w1 = w1  w2 = w2  p1 = p1  p2 = p2
    Users = {u1}
    Credentials = {c1}
    Sids = {s1, s2, s3}
    Workers = {w1, w2}
    Payloads = {p1}
    Owner <- OneOwner
    UserOf <- OneUser
    Impersonated = {s3}
    Asked = {"manage", "passkey_only"}
    Changes <- Accounts
    MaxGestures = 1
    MaxCalls = 1
    MaxEpochs = 1
    PASSWORD_LIMIT = 1
SYMMETRY Alike
INVARIANTS WindowIsEarned ThrottleHolds
PROPERTY UvFlipNeedsPassword
\* Nothing moves once the bounds are spent.
CHECK_DEADLOCK FALSE
