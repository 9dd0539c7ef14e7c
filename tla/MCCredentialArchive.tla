------------------------- MODULE MCCredentialArchive -------------------------
(* Small instances of CredentialArchive for TLC. *)
EXTENDS CredentialArchive, TLC

CONSTANTS u1, u2, c1, c2, rpA, rpB

\* What moves besides the console: the passkeys of two accounts, their handles,
\* the accounts, or what one passkey-only account depends on.
Families == {{"register", "use", "delete"}, {"register", "disable", "mode"},
             {"register", "delete", "handles"}, {"register", "users"},
             {"register", "users", "only", "rp"},
             {"register", "delete", "handles", "only", "mode"}}

MCInit ==
    /\ Init
    /\ "disable" \in moving \/ ways = {"password"}
    /\ made = IF "only" \in moving THEN MaxHandles - 1 ELSE 0

Alike == Permutations(Users) \cup Permutations(Credentials) \cup Permutations(Rps)
===============================================================================
