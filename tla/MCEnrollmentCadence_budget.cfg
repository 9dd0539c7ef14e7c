\* One grace login, two sessions deferring at once.
INIT BudgetInit
NEXT Next
CONSTANTS
    u1 = u1  u2 = u2  s1 = s1  s2 = s2  w1 = w1  w2 = w2
    Users = {u1, u2}
    Sids = {s1, s2}
    Workers = {w1, w2}
    GRACE = 1
    MaxShown = 0
    MaxLapses = 0
    MaxMoves = 0
SYMMETRY Alike
INVARIANT GraceBudgetKept
