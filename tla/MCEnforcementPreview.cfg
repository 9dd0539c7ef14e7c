\* Three overlapping scans of two policies, three recounts in all.
SPECIFICATION Spec
CONSTANTS
    pA = pA  pB = pB  j1 = j1  j2 = j2  j3 = j3
    Policies = {pA, pB}
    Jobs = {j1, j2, j3}
    MaxScans = 3
INVARIANTS TypeOK SettledIsNew
PROPERTIES ImplementsBoard CountArrives
