----------------------------- MODULE MCLoginFloor -----------------------------
(* Small instances of LoginFloor for TLC. *)
EXTENDS LoginFloor, TLC

CONSTANTS u1, c1, c2, rpA, rpB, w1, w2

\* One account; its passkeys are made for the first RP ID.
OneOwner == [c \in Credentials |-> u1]
SameRp   == [c \in Credentials |-> rpA]

\* Two families of requests that overlap: everything that touches the account
\* or a settings document, and the endpoints while the RP ID changes.  In the
\* second System Settings stay: core two-factor on, password login on.
AccountOps == {"delete", "disable", "enable", "register", "set_passkey_only", "save_handle",
               "delete_handle", "delete_user", "save_settings", "save_system"}
RpOps      == {"delete", "register", "set_passkey_only", "save_settings", "remove_stale",
               "change_rp", "edit_site_config"}
Families   == {AccountOps, RpOps}
MCInit     == Init /\ (ops = RpOps => core = {"enable_two_factor_auth"})

AnyPasskey == Permutations(Workers) \cup Permutations(Credentials)
=============================================================================
