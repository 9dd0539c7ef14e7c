----------------------------- MODULE MCEnrollment -----------------------------
(* A small instance of Enrollment for TLC. *)
EXTENDS Enrollment, TLC

CONSTANTS u1, u2, c1, c2, s1, s2, w1, w2, rpA, rpB

\* What administrators change in one behaviour: the windows, rows and handle of
\* one account, the rows, handles and settings of two of which one at least came
\* from an external login, or the accounts themselves.
OneAccount  == {"rows", "handle", "window"}
TwoAccounts == {"rows", "handle", "settings"}
Lives       == {"rows", "handle", "user"}
Families    == {OneAccount, TwoAccounts, Lives}
MCInit ==
    /\ Init
    /\ moving = OneAccount => exists # Users
    /\ moving = TwoAccounts => /\ exists = Users /\ cap = 2 /\ account[s1] # account[s2]
                               /\ \E s \in Sids : window[s] = "external"

Alike == Permutations(Users) \cup Permutations(Sids) \cup Permutations(Workers)
         \cup Permutations(Credentials) \cup Permutations(Rps)
=============================================================================
