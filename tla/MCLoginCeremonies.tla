-------------------------- MODULE MCLoginCeremonies --------------------------
(* Small instances of LoginCeremonies for TLC. *)
EXTENDS LoginCeremonies, TLC

CONSTANTS u1, c1, b1, b2, rpA, rpB, w1, w2

OneOwner == [c \in Credentials |-> u1]
SameRp   == [c \in Credentials |-> rpA]

\* Two sign-ins from an authenticator that counts from zero, while only hard fail
\* may change; or one with a counter that has advanced, while the account and its
\* passkey change, or the settings that ask for a second factor, and either way
\* the password, the ways to sign in and the RP ID.
Quiet    == {"passkey_sign_count_hard_fail"}
Either   == {"password", "passkey_only", "disable_user_pass_login", "rp"}
Account  == Either \cup {"user", "credential"}
Settings == Either \cup {"enable_two_factor_auth"}
Families == {Quiet, Account, Settings}
LoginInit ==
    /\ Init
    /\ moving = Quiet => rp = rpA
    /\ moving # Quiet => ~ HardFail
    /\ roots = IF moving = Quiet THEN 0 ELSE 1
    /\ count = [c \in Credentials |-> IF moving = Quiet THEN 0 ELSE 1]

\* One sign-in with a password that is changed.
Rotation == {{"password"}}
RotationInit == Init /\ ~ HardFail /\ roots = 0 /\ count = [c \in Credentials |-> 0]

AnyWorker == Permutations(Workers)
=============================================================================
