------------------------------ MODULE LoginFloor ------------------------------
(***************************************************************************)
(* The lockout interlock: every request that can take away a user's last   *)
(* way to sign in, or turn the passkey-only flag on, as InnoDB             *)
(* transactions that run concurrently.                                     *)
(*                                                                         *)
(* A request takes row locks in the order its code takes them (Locks),     *)
(* reads the rows it locks (seen), decides on what it read when the last   *)
(* lock is held and writes at its commit.  What it reads WITHOUT a lock -- *)
(* the Relying Party settings of lock_login_floor, the cached System       *)
(* Settings -- it reads when it begins and may be out of date when used.   *)
(***************************************************************************)
EXTENDS Naturals, Sequences

CONSTANTS
    Users,          \* accounts; a user also names its WebAuthn User Handle row
    Credentials,    \* credential ids; each names its (possible) row
    Rps, NoRp,      \* Relying Party ids; NoRp: none resolves, passkeys are off
    Owner, RpOf,    \* the account and the RP ID a credential is made for
    Workers,        \* concurrent requests, one database transaction each
    Traffic         \* sets of request kinds; those of one set meet in a behaviour

Modes == {"login_with_passkey", "passkey_as_second_factor"}
Switches == {"disable_user_pass_login", "enable_two_factor_auth"}
SiteRps == Rps \cup {NoRp}

\* Rows are named by what they store, so the four kinds must not overlap.
ASSUME RowsAssumption ==
    /\ NoRp \notin Rps
    /\ Owner \in [Credentials -> Users]
    /\ RpOf \in [Credentials -> Rps]
    /\ Users \cap Credentials = {}
    /\ (Users \cup Credentials) \cap (Modes \cup Switches \cup SiteRps) = {}
    /\ SiteRps \cap (Modes \cup Switches) = {}

VARIABLES
    stored,         \* credential rows that exist
    enabled,        \* those with enabled = 1
    passkeyOnly,    \* users whose handle row has passkey_only_login = 1
    modes,          \* the passkey login modes that are on
    rp,             \* the RP ID the settings resolve to
    core,           \* the System Settings switches that are on
    ops,            \* the kinds of request that meet, one set of Traffic
    req,            \* the request each worker serves
    step,           \* how many of its lock sets it holds
    seen            \* what its locking reads returned

tables == <<stored, enabled, passkeyOnly, modes, rp, core>>
vars == <<stored, enabled, passkeyOnly, modes, rp, core, ops, req, step, seen>>

-----------------------------------------------------------------------------
(* Rows, locks and reads.                                                  *)

\* The Passkey Settings Single holds the modes and the RP settings; the
\* System Settings Single holds the switches.
PasskeyRows == Modes \cup SiteRps
SystemRows == Switches

\* A census locks every index entry of the user, the gaps of absent rows too.
CredentialRows(u) == {c \in Credentials : Owner[c] = u}

Usable(u) == {c \in enabled : Owner[c] = u /\ RpOf[c] = rp}

\* lock_login_floor: the handle row, then the census of the credentials.
FloorLocks(u) == <<{u}, CredentialRows(u)>>

\* The endpoint toggle: the site's mode lock before any per-user lock.
\* Mutant: the handle row first, as a save of its form would take it.
ToggleLocksHandleFirst(u) == <<{u}, PasskeyRows, CredentialRows(u)>>
ToggleLocks(u) == <<PasskeyRows, {u}, CredentialRows(u)>>

\* The locks of a request in the order it takes them.  A Desk save first
\* locks the row it saves (Frappe's check for concurrent edits).
Locks(r) ==
    CASE r.op = "delete"           -> FloorLocks(Owner[r.cred])
      [] r.op = "disable"          -> <<{r.cred}, {Owner[r.cred]}, CredentialRows(Owner[r.cred])>>
      [] r.op = "enable"           -> <<{r.cred}>>
      [] r.op = "register"         -> FloorLocks(Owner[r.cred])
      [] r.op = "set_passkey_only" -> ToggleLocks(r.user)
      [] r.op = "save_handle"      -> IF r.to = 1
                                      THEN <<{r.user}, PasskeyRows, CredentialRows(r.user)>>
                                      ELSE <<{r.user}>>
      [] r.op = "delete_handle"    -> FloorLocks(r.user)
      [] r.op = "delete_user"      -> <<CredentialRows(r.user), {r.user}>>
      [] r.op = "save_settings"    -> <<PasskeyRows,
                                        IF r.modes = {} THEN Users ELSE {},
                                        IF "passkey_as_second_factor" \in r.modes
                                        THEN SystemRows ELSE {}>>
      [] r.op = "save_system"      -> <<SystemRows,
                                        IF \/ "disable_user_pass_login" \in r.core
                                           \/ "enable_two_factor_auth" \notin r.core
                                        THEN PasskeyRows ELSE {}>>
      [] r.op = "remove_stale"     -> <<PasskeyRows,
                                        {Owner[c] : c \in r.stale} \cup
                                        {d \in Credentials : \E c \in r.stale : Owner[c] = Owner[d]}>>
      [] r.op = "idle"             -> << >>

Idle == [op |-> "idle"]

Held(w) == UNION {Locks(req[w])[i] : i \in 1..step[w]}

\* What is set in the database; a locking read of the rows L returns what is
\* set in them, and the RP ID.
Facts == enabled \cup passkeyOnly \cup modes \cup core
Current(L) == L \cap (Facts \cup {rp})

\* lock_login_floor: the usable credentials of u by the locked census and by
\* the RP ID the request read before, without a lock.
\* Mutant: counts every enabled passkey, whatever RP ID it was made for.
CensusOfAnyRp(w, u) == {c \in seen[w] \cap Credentials : Owner[c] = u}
Census(w, u) == {c \in seen[w] \cap Credentials : Owner[c] = u /\ RpOf[c] = req[w].site}

\* The guard of both removals: the row is no usable credential, or another
\* survives, or the account still has a password to sign in with.
\* Mutant: looks at the account's flag only, not at the site's switch.
KeepsLoginMethodByFlag(w, c) ==
    \/ c \notin Census(w, Owner[c])
    \/ Census(w, Owner[c]) # {c}
    \/ Owner[c] \notin seen[w]
KeepsLoginMethod(w, c) ==
    \/ c \notin Census(w, Owner[c])
    \/ Census(w, Owner[c]) # {c}
    \/ /\ Owner[c] \notin seen[w]
       /\ "disable_user_pass_login" \notin req[w].core

-----------------------------------------------------------------------------
(* A request begins: its inputs, and what it reads without a lock.         *)

Begin(w, r) ==
    /\ req[w] = Idle
    /\ r.op \in ops
    /\ req' = [req EXCEPT ![w] = r]
    /\ UNCHANGED <<tables, ops, step, seen>>

\* delete_credential, or a Desk form delete: the row is there to be loaded.
BeginDelete(w) == \E c \in stored :
    Begin(w, [op |-> "delete", cred |-> c, site |-> rp, core |-> core])

\* A System Manager saves the credential form with enabled cleared, or set.
BeginDisable(w) == \E c \in enabled :
    Begin(w, [op |-> "disable", cred |-> c, site |-> rp, core |-> core])
BeginEnable(w) == \E c \in stored \ enabled : Begin(w, [op |-> "enable", cred |-> c])

\* verify_registration: a ceremony minted for the current RP, a mode on.
BeginRegister(w) == \E c \in Credentials \ stored :
    /\ modes # {}
    /\ RpOf[c] = rp
    /\ Begin(w, [op |-> "register", cred |-> c])

BeginSetPasskeyOnly(w) == \E u \in Users, to \in {0, 1} :
    Begin(w, [op |-> "set_passkey_only", user |-> u, to |-> to, site |-> rp])

\* A System Manager saves, or deletes, the WebAuthn User Handle form.
BeginSaveHandle(w) == \E u \in Users, to \in {0, 1} :
    Begin(w, [op |-> "save_handle", user |-> u, to |-> to, site |-> rp])
BeginDeleteHandle(w) == \E u \in Users : Begin(w, [op |-> "delete_handle", user |-> u])

BeginDeleteUser(w) == \E u \in Users : Begin(w, [op |-> "delete_user", user |-> u])

\* Some behaviours leave the RP settings alone.
BeginSaveSettings(w) == \E ms \in SUBSET Modes, site \in SiteRps :
    /\ site = rp \/ "change_rp" \in ops
    /\ Begin(w, [op |-> "save_settings", modes |-> ms, rp |-> site])

BeginSaveSystem(w) == \E cs \in SUBSET Switches :
    Begin(w, [op |-> "save_system", core |-> cs])

\* The caller's page named an RP ID; the stale rows come from a plain read.
BeginRemoveStale(w) == \E page \in Rps :
    Begin(w, [op |-> "remove_stale", page |-> page, site |-> rp, core |-> core,
              stale |-> {c \in stored : RpOf[c] # page}])

\* The next lock set is free: the worker locks it and reads it, current.
\* Mutant: plain reads, which wait for nobody.
AcquirePlain(w) ==
    LET next == Locks(req[w])[step[w] + 1]
    IN  /\ step[w] < Len(Locks(req[w]))
        /\ step' = [step EXCEPT ![w] = @ + 1]
        /\ seen' = [seen EXCEPT ![w] = @ \cup Current(next)]
        /\ UNCHANGED <<tables, ops, req>>
Acquire(w) ==
    LET next == Locks(req[w])[step[w] + 1]
    IN  /\ step[w] < Len(Locks(req[w]))
        /\ \A o \in Workers \ {w} : Held(o) \cap next = {}
        /\ step' = [step EXCEPT ![w] = @ + 1]
        /\ seen' = [seen EXCEPT ![w] = @ \cup Current(next)]
        /\ UNCHANGED <<tables, ops, req>>

-----------------------------------------------------------------------------
(* A request ends.                                                         *)

End(w) ==
    /\ req'  = [req EXCEPT ![w] = Idle]
    /\ step' = [step EXCEPT ![w] = 0]
    /\ seen' = [seen EXCEPT ![w] = {}]

\* Refused by a guard, a lock-wait timeout, a deadlock victim, a stale form
\* or a dead worker: the transaction leaves nothing behind.
Rollback(w) ==
    /\ req[w] # Idle
    /\ End(w)
    /\ UNCHANGED <<tables, ops>>

\* All locks are held and the code of `op` decides on what it has read.
Decides(w, op) ==
    /\ req[w].op = op
    /\ step[w] = Len(Locks(req[w]))
    /\ End(w)
    /\ UNCHANGED ops

Delete(w) ==
    /\ Decides(w, "delete")
    /\ KeepsLoginMethod(w, req[w].cred)
    /\ req[w].cred \in stored                 \* the locking existence re-read
    /\ stored' = stored \ {req[w].cred}
    /\ enabled' = enabled \ {req[w].cred}
    /\ UNCHANGED <<passkeyOnly, modes, rp, core>>

\* Only an actual 1 -> 0 flip is guarded.
Disable(w) ==
    /\ Decides(w, "disable")
    /\ req[w].cred \in stored
    /\ req[w].cred \in seen[w] => KeepsLoginMethod(w, req[w].cred)
    /\ enabled' = enabled \ {req[w].cred}
    /\ UNCHANGED <<stored, passkeyOnly, modes, rp, core>>

\* Mutant: writes the loaded form although the row is gone.
EnableLoaded(w) ==
    /\ Decides(w, "enable")
    /\ enabled' = enabled \cup {req[w].cred}
    /\ UNCHANGED <<stored, passkeyOnly, modes, rp, core>>
Enable(w) ==
    /\ Decides(w, "enable")
    /\ req[w].cred \in stored
    /\ enabled' = enabled \cup {req[w].cred}
    /\ UNCHANGED <<stored, passkeyOnly, modes, rp, core>>

\* The unique index on the credential id refuses a second insert.
Register(w) ==
    /\ Decides(w, "register")
    /\ req[w].cred \notin stored
    /\ stored' = stored \cup {req[w].cred}
    /\ enabled' = enabled \cup {req[w].cred}
    /\ UNCHANGED <<passkeyOnly, modes, rp, core>>

Flag(u, to) == passkeyOnly' = IF to = 1 THEN passkeyOnly \cup {u} ELSE passkeyOnly \ {u}

\* Turning the switch on takes a mode and two usable passkeys.
SetPasskeyOnly(w) ==
    /\ Decides(w, "set_passkey_only")
    /\ req[w].to = 1 =>
         /\ seen[w] \cap Modes # {}
         /\ \E c, d \in Census(w, req[w].user) : c # d
    /\ Flag(req[w].user, req[w].to)
    /\ UNCHANGED <<stored, enabled, modes, rp, core>>

\* Every other writer of the flag meets the floor of validate: one passkey.
\* Mutant: forgets the mode half of the floor.
SaveHandleAnyMode(w) ==
    /\ Decides(w, "save_handle")
    /\ (req[w].to = 1 /\ req[w].user \notin seen[w]) => Census(w, req[w].user) # {}
    /\ Flag(req[w].user, req[w].to)
    /\ UNCHANGED <<stored, enabled, modes, rp, core>>
SaveHandle(w) ==
    /\ Decides(w, "save_handle")
    /\ (req[w].to = 1 /\ req[w].user \notin seen[w]) =>
         /\ seen[w] \cap Modes # {}
         /\ Census(w, req[w].user) # {}
    /\ Flag(req[w].user, req[w].to)
    /\ UNCHANGED <<stored, enabled, modes, rp, core>>

DeleteHandle(w) ==
    /\ Decides(w, "delete_handle")
    /\ stored \cap CredentialRows(req[w].user) = {}
    /\ Flag(req[w].user, 0)
    /\ UNCHANGED <<stored, enabled, modes, rp, core>>

\* The User's on_trash cascade: raw deletes, no guard.
DeleteUser(w) ==
    /\ Decides(w, "delete_user")
    /\ stored' = stored \ CredentialRows(req[w].user)
    /\ enabled' = enabled \ CredentialRows(req[w].user)
    /\ Flag(req[w].user, 0)
    /\ UNCHANGED <<modes, rp, core>>

\* Passkey Settings: no mode off while a user is flagged, no mode on without
\* an RP ID, and the second factor needs core 2FA and a password leg.
SaveSettings(w) ==
    /\ Decides(w, "save_settings")
    /\ req[w].modes = {} => seen[w] \cap Users = {}
    /\ req[w].modes # {} => req[w].rp # NoRp
    /\ "passkey_as_second_factor" \in req[w].modes =>
         /\ "enable_two_factor_auth" \in seen[w]
         /\ \/ "login_with_passkey" \in req[w].modes
            \/ "disable_user_pass_login" \notin seen[w]
    /\ modes' = req[w].modes
    /\ rp' = req[w].rp
    /\ UNCHANGED <<stored, enabled, passkeyOnly, core>>

\* System Settings: guard_system_settings refuses only an actual flip.
\* Mutant: guards the two-factor floor only.
SaveSystemTwoFactorOnly(w) ==
    /\ Decides(w, "save_system")
    /\ \/ "enable_two_factor_auth" \in req[w].core
       \/ "enable_two_factor_auth" \notin seen[w]
       \/ "passkey_as_second_factor" \notin seen[w]
    /\ core' = req[w].core
    /\ UNCHANGED <<stored, enabled, passkeyOnly, modes, rp>>
SaveSystem(w) ==
    /\ Decides(w, "save_system")
    /\ \/ "disable_user_pass_login" \notin req[w].core
       \/ "disable_user_pass_login" \in seen[w]
       \/ "passkey_as_second_factor" \notin seen[w]
       \/ "login_with_passkey" \in seen[w]
    /\ \/ "enable_two_factor_auth" \in req[w].core
       \/ "enable_two_factor_auth" \notin seen[w]
       \/ "passkey_as_second_factor" \notin seen[w]
    /\ core' = req[w].core
    /\ UNCHANGED <<stored, enabled, passkeyOnly, modes, rp>>

\* Bulk removal deletes row by row in one transaction: the rows `gone` are
\* those neither clone-flagged nor already deleted, each behind the guard.
RemoveStale(w) ==
    /\ Decides(w, "remove_stale")
    /\ req[w].page \in seen[w]
    /\ \E gone \in SUBSET (req[w].stale \cap stored) :
         /\ \A c \in gone :
              \/ c \notin Census(w, Owner[c])
              \/ ~ (Census(w, Owner[c]) \subseteq gone)
              \/ /\ Owner[c] \notin seen[w]
                 /\ "disable_user_pass_login" \notin req[w].core
         /\ stored' = stored \ gone
         /\ enabled' = enabled \ gone
    /\ UNCHANGED <<passkeyOnly, modes, rp, core>>

\* host_name in site_config.json is edited: no transaction, no lock.
EditSiteConfig ==
    /\ "edit_site_config" \in ops
    /\ rp' \in SiteRps
    /\ UNCHANGED <<stored, enabled, passkeyOnly, modes, core, ops, req, step, seen>>

-----------------------------------------------------------------------------
\* A fresh installation: no passkeys, no mode, any RP ID and core switches.
Init ==
    /\ stored = {} /\ enabled = {} /\ passkeyOnly = {} /\ modes = {}
    /\ rp \in SiteRps
    /\ core \in SUBSET Switches
    /\ ops \in Traffic
    /\ req = [w \in Workers |-> Idle]
    /\ step = [w \in Workers |-> 0]
    /\ seen = [w \in Workers |-> {}]

Commit(w) ==
    \/ Delete(w) \/ Disable(w) \/ Enable(w) \/ Register(w)
    \/ SetPasskeyOnly(w) \/ SaveHandle(w) \/ DeleteHandle(w) \/ DeleteUser(w)
    \/ SaveSettings(w) \/ SaveSystem(w) \/ RemoveStale(w)

Start(w) ==
    \/ BeginDelete(w) \/ BeginDisable(w) \/ BeginEnable(w) \/ BeginRegister(w)
    \/ BeginSetPasskeyOnly(w) \/ BeginSaveHandle(w) \/ BeginDeleteHandle(w)
    \/ BeginDeleteUser(w) \/ BeginSaveSettings(w) \/ BeginSaveSystem(w)
    \/ BeginRemoveStale(w)

Next ==
    \/ \E w \in Workers : Start(w) \/ Acquire(w) \/ Commit(w) \/ Rollback(w)
    \/ EditSiteConfig

Spec == Init /\ [][Next]_vars

-----------------------------------------------------------------------------
(* What must hold.                                                         *)

RemovalRequests ==
    [op : {"delete", "disable"}, cred : Credentials, site : SiteRps, core : SUBSET Switches]
RowRequests == [op : {"enable", "register"}, cred : Credentials]
FlagRequests ==
    [op : {"set_passkey_only", "save_handle"}, user : Users, to : {0, 1}, site : SiteRps]
UserRequests == [op : {"delete_handle", "delete_user"}, user : Users]
SettingsRequests == [op : {"save_settings"}, modes : SUBSET Modes, rp : SiteRps]
SystemRequests == [op : {"save_system"}, core : SUBSET Switches]
StaleRequests ==
    [op : {"remove_stale"}, page : Rps, site : SiteRps, core : SUBSET Switches,
     stale : SUBSET Credentials]

Requests ==
    RemovalRequests \cup RowRequests \cup FlagRequests \cup UserRequests
    \cup SettingsRequests \cup SystemRequests \cup StaleRequests

\* Every variable keeps its type; only stored rows are enabled.
TypeOK ==
    /\ stored \subseteq Credentials
    /\ enabled \subseteq stored
    /\ passkeyOnly \subseteq Users
    /\ modes \subseteq Modes
    /\ rp \in SiteRps
    /\ core \subseteq Switches
    /\ req \in [Workers -> Requests \cup {Idle}]
    /\ step \in [Workers -> 0..3]
    /\ \A w \in Workers : step[w] <= Len(Locks(req[w]))
    /\ seen \in [Workers -> SUBSET (Users \cup Credentials \cup PasskeyRows \cup SystemRows)]

\* Mode floor (_enforce_passkey_only_login_guard and its mirror images): while
\* any account may only sign in with a passkey, a passkey login mode is on,
\* however settings saves and flag changes overlap.
ModeFloor == passkeyOnly # {} => modes # {}

\* Second-factor floors (_validate_second_factor_floor, guard_system_settings):
\* the passkey second factor is never on without core two-factor
\* authentication, nor as the only mode while password login is disabled.
SecondFactorFloor ==
    "passkey_as_second_factor" \in modes =>
        /\ "enable_two_factor_auth" \in core
        /\ "login_with_passkey" \notin modes => "disable_user_pass_login" \notin core

\* Neither save of a settings document, nor a flag that goes up meanwhile, ever
\* leaves a site whose policy no account can meet: both floors at once.
SettingsFloors == ModeFloor /\ SecondFactorFloor

\* Login floor (lock_login_floor): a passkey-only account has a usable passkey.
FloorHolds(u) == u \in passkeyOnly => Usable(u) # {}

\* No running request still works with an RP ID it read before a change.
RpSettled ==
    \A w \in Workers : req[w] \in RemovalRequests \cup FlagRequests \cup StaleRequests
                          => req[w].site = rp

\* No request, whatever it overlaps, takes the last usable passkey from a
\* passkey-only account or flags an account that has none: only a change of
\* the RP ID can, and requests that read the RP ID before such a change.
FloorKept ==
    [][RpSettled /\ rp' = rp => \A u \in Users : FloorHolds(u) => FloorHolds(u)']_vars

\* Password login is off for the site, for every running request too.
PasswordsOff ==
    /\ "disable_user_pass_login" \in core
    /\ \A w \in Workers : req[w] \in RemovalRequests \cup StaleRequests
                             => "disable_user_pass_login" \in req[w].core

\* While password login is off, overlapping removals leave every account with
\* a usable passkey one; deleting the account itself is the only exception.
PasswordlessFloorKept ==
    [][RpSettled /\ rp' = rp /\ PasswordsOff =>
         \A u \in Users : Usable(u) # {} =>
            \/ Usable(u)' # {}
            \/ \E w \in Workers : req[w].op = "delete_user" /\ req[w].user = u
                                   /\ req'[w] = Idle]_vars

\* o holds a row that w waits for.
WaitsFor(w, o) ==
    /\ step[w] < Len(Locks(req[w]))
    /\ Held(o) \cap Locks(req[w])[step[w] + 1] # {}

\* The requests that lock settings before handles before credentials.  A Desk
\* form locks the row it saves first and a System Settings save its own row.
InOrder == {"delete", "register", "set_passkey_only", "delete_handle", "save_settings",
            "remove_stale"}

\* Requests that take their locks in order never wait for each other in a
\* circle (the lock order of lock_login_floor and of the two mode guards).
NoCircularWait ==
    \A ws \in (SUBSET {w \in Workers : req[w].op \in InOrder}) \ {{}} :
        \E w \in ws : \A o \in ws \ {w} : ~ WaitsFor(w, o)
=============================================================================
