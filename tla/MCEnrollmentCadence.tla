------------------------ MODULE MCEnrollmentCadence ------------------------
(* Small instances of EnrollmentCadence for TLC. *)
EXTENDS EnrollmentCadence, TLC

CONSTANTS u1, u2, s1, s2, w1, w2

Alike == Permutations(Workers) \cup Permutations(Sids) \cup Permutations(Users)

\* Two sessions of one account that stays.
OneAccount(events) == \E u \in Users :
    Init /\ userOf = [s \in Sids |-> u] /\ accounts = {u} /\ asked = events /\ moves = 0

\* A session of each of two accounts that are deleted, created, renamed and merged.
TwoAccounts(events) ==
    /\ Init /\ accounts = Users /\ asked = events /\ moves = MaxMoves
    /\ \A s, t \in Sids : s # t => userOf[s] # userOf[t]

MCInit ==
    \/ OneAccount({"shown", "opt_out", "incapable"})
    \/ OneAccount({"shown", "defer", "incapable"})
    \/ TwoAccounts({"opt_out", "defer"})
    \/ TwoAccounts({"incapable"})
BudgetInit == OneAccount({"defer", "incapable"})
=============================================================================
