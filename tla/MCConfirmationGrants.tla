------------------------- MODULE MCConfirmationGrants -------------------------
(* Small instances of ConfirmationGrants for TLC. *)
EXTENDS ConfirmationGrants, TLC

CONSTANTS u1, c1, c2, s1, s2, s3, w1, w2, p1, p2

OneOwner == [c \in Credentials |-> u1]
OneUser  == [s \in Sids |-> u1]

\* One session is left and the workers' releases change; or two are signed in.
Deploys  == {"deploy", "expiry"}
Sessions == {"sign_out"}
Families == {Deploys, Sessions}
GrantsInit ==
    /\ Init
    /\ \E s \in Sids : over = IF moving = Deploys THEN {s} ELSE {}

\* Both sessions, and the one somebody else acts in, while everything but the
\* releases moves.
Accounts == {{"expiry", "sign_out", "credential", "passwords"}}
SudoInit == Init /\ over = {}

Alike == Permutations(Workers) \cup Permutations(Payloads) \cup Permutations(Sids \ Impersonated)
=============================================================================
