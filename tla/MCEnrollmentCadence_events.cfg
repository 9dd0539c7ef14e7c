\* Prompts answered, deferred and reported from two sessions; a claim may lapse once.
INIT MCInit
NEXT Next
CONSTANTS
    u1 = u1  u2 = u2  s1 = s1  s2 = s2  w1 = w1  w2 = w2
    Users = {u1, u2}
    Sids = {s1, s2}
    Workers = {w1, w2}
    GRACE = 1
    MaxShown = 1
    MaxLapses = 1
    MaxMoves = 2
SYMMETRY Alike
INVARIANTS TypeOK NothingLost NothingTwice OnlyInFlightSlips
