--------------------------- MODULE CredentialArchive ---------------------------
(***************************************************************************)
(* Uninstalling the app, which exports the two passkey tables to a file    *)
(* and drops them, and importing the file into a site that is live again.  *)
(*                                                                         *)
(* Both run from a console, in one transaction: plain reads see its        *)
(* snapshot and its own rows, locking reads and the unique indexes see     *)
(* what is committed.  An import that fails leaves the transaction open    *)
(* with the rows it wrote, until the operator rolls back, or tries again.  *)
(***************************************************************************)
EXTENDS Naturals, FiniteSets

CONSTANTS
    Users, Credentials, Rps,
    Changes,        \* sets of what else moves; one set in a behaviour
    MaxCount,       \* bound: signature counters
    MaxHandles,     \* bound: user handles made
    MaxCommands     \* bound: console commands begun

Handles == 1..MaxHandles

ASSUME ArchiveAssumption == {MaxCount, MaxHandles, MaxCommands} \subseteq Nat

VARIABLES
    installed,      \* the app is installed and its tables exist
    credentials,    \* the committed credential rows
    handles,        \* the committed user handle rows
    active,         \* enabled users
    mode, rp,       \* a passkey login mode is on; the site's RP ID
    ways,           \* core's ways to sign in that are on
    moving,         \* what else moves, one set of Changes
    made,           \* user handles made so far; one is never made twice
    file,           \* the latest export
    console,        \* the transaction of the console
    commands,       \* console commands begun so far
    touched,        \* history: credentials changed since the console's snapshot
    severed         \* history: passkeys whose account lost its handle meanwhile

tables == <<credentials, handles>>
settings == <<active, mode, rp, ways, moving>>
vars == <<installed, tables, settings, made, file, console, commands, touched, severed>>

NoFile == [credentials |-> {}, handles |-> {}]
Idle == [at |-> "idle"]

OfUser(u, rows) == {row \in rows : row.user = u}
UsableUnder(id, u, rows) == {row \in OfUser(u, rows) : row.enabled /\ row.rp = id}

\* The rows of both tables as the console's plain reads see them.
Seen(table) == console.seen[table] \cup console.wrote[table]

Command == commands < MaxCommands /\ commands' = commands + 1

\* What the console reads in a new transaction.
Snapshot == [credentials |-> credentials, handles |-> handles, active |-> active, rp |-> rp]

-----------------------------------------------------------------------------
(* Export and uninstall.                                                   *)

\* Every row of both tables, as it is; nothing when there is none.
\* Mutant: only what can sign in.
ExportableEnabled == [credentials |-> {row \in credentials : row.enabled}, handles |-> handles]
Exportable == [credentials |-> credentials, handles |-> handles]

ExportCredentials ==
    /\ Command /\ console = Idle /\ installed
    /\ Exportable # NoFile
    /\ file' = Exportable
    /\ UNCHANGED <<installed, tables, settings, made, console, touched, severed>>

\* before_uninstall: refused while somebody would have no way left to sign in.
BeforeUninstall ==
    /\ Command /\ console = Idle /\ installed
    /\ ways # {}
    /\ \A h \in handles : ~ h.only
    /\ file' = IF Exportable = NoFile THEN file ELSE Exportable
    /\ console' = [at |-> "uninstall"]
    /\ touched' = {}
    /\ UNCHANGED <<installed, tables, settings, made, severed>>

\* The framework drops the tables and the settings of the app; without them the
\* RP ID is what the site resolves to.
DropTables ==
    /\ console.at = "uninstall"
    /\ installed' = FALSE
    /\ credentials' = {} /\ handles' = {}
    /\ mode' = FALSE /\ rp' \in Rps
    /\ console' = Idle
    /\ UNCHANGED <<active, ways, moving, made, file, commands, touched, severed>>

Install ==
    /\ ~ installed
    /\ installed' = TRUE
    /\ UNCHANGED <<tables, settings, made, file, console, commands, touched, severed>>

-----------------------------------------------------------------------------
(* Import.                                                                 *)

\* A first import opens a transaction; one after a failure finds it open, with
\* its snapshot, its rows and its locks.
BeginImport(allow) ==
    LET open == IF console = Idle THEN [seen |-> Snapshot, wrote |-> NoFile, locked |-> FALSE] ELSE console
        empty == \A table \in DOMAIN open.wrote : open.seen[table] \cup open.wrote[table] = {}
    IN  /\ Command /\ console.at \in {"idle", "failed"} /\ installed /\ file # NoFile
        /\ console' = [at |-> IF allow \/ empty THEN "opened" ELSE "failed", allow |-> allow,
                       seen |-> open.seen, wrote |-> open.wrote, locked |-> open.locked,
                       todo |-> file, rejected |-> {}]
        /\ touched' = IF console = Idle THEN {} ELSE touched
        /\ UNCHANGED <<installed, tables, settings, made, file, severed>>

\* _refuse_passkey_only_without_login_mode: the settings rows are locked and
\* read, current, only for an account that becomes passkey-only.
BecomePasskeyOnly == {h \in file.handles : h.only /\ OfUser(h.user, Seen("handles")) = {}}

RefusePasskeyOnlyWithoutLoginMode ==
    /\ console.at = "opened"
    /\ console' = [console EXCEPT
         !.at = IF BecomePasskeyOnly # {} /\ ~ mode THEN "failed" ELSE "rows",
         !.locked = @ \/ BecomePasskeyOnly # {}]
    /\ UNCHANGED <<installed, tables, settings, made, file, commands, touched, severed>>

\* The handle of the export is not the one the account has, or it is another's.
\* Mutant: handles are not compared.
MismatchedNever(u) == u \notin Users
Mismatched(u) ==
    \E h \in OfUser(u, file.handles), g \in Seen("handles") :
        (g.user = u /\ g.handle # h.handle) \/ (g.user # u /\ g.handle = h.handle)

\* Why a row of u is rejected whatever it says.
Rejected(u) == u \notin console.seen.active \/ Mismatched(u)

\* _existing_row_matches: every field is the same.
\* Mutant: the same identifier will do.
MatchesById(row, found) == row.cred \in {r.cred : r \in found}
Matches(row, found) == row \in found

Done(table, row) == [console EXCEPT !.todo[table] = @ \ {row}]
Reject(table, row) == [Done(table, row) EXCEPT !.rejected = @ \cup {row}]
Insert(table, row) == [Done(table, row) EXCEPT !.wrote[table] = @ \cup {row}]
Fail == [console EXCEPT !.at = "failed"]

RestoreCredential == \E row \in console.todo.credentials :
    LET found == {r \in Seen("credentials") : r.cred = row.cred}
        handleless == OfUser(row.user, file.handles \cup Seen("handles")) = {}
        \* the unique index on credential_id_sha256, over what is committed
        taken == \E r \in credentials : r.cred = row.cred
    IN  console' =
          CASE Rejected(row.user) \/ handleless -> Reject("credentials", row)
            [] ~ (Rejected(row.user) \/ handleless) /\ found # {} ->
                 IF Matches(row, found) THEN Done("credentials", row) ELSE Reject("credentials", row)
            [] OTHER -> IF taken THEN Fail ELSE Insert("credentials", row)

\* _enforce_credential_floor of a handle that is inserted passkey-only: the
\* modes and the passkeys are locked and read, current; the RP ID is not.
\* Mutant: what the import refused up front is enough.
KeepsFloorAsRefused(row) == console.locked \/ ~ row.only
KeepsFloor(row) ==
    row.only => mode /\ UsableUnder(console.seen.rp, row.user,
                                    credentials \cup console.wrote.credentials) # {}

\* The unique indexes of WebAuthn User Handle, over what is committed.
\* Mutant: only the handle is unique.
TakenByHandle(row) == \E h \in handles : h.handle = row.handle
Taken(row) == \E h \in handles : h.user = row.user \/ h.handle = row.handle

RestoreHandle == \E row \in console.todo.handles :
    LET found == OfUser(row.user, Seen("handles"))
    IN  /\ console.todo.credentials = {}
        /\ console' =
             CASE Rejected(row.user) -> Reject("handles", row)
               [] ~ Rejected(row.user) /\ found # {} ->
                    IF row \in found THEN Done("handles", row) ELSE Reject("handles", row)
               [] OTHER -> IF Taken(row) \/ ~ KeepsFloor(row) THEN Fail ELSE Insert("handles", row)

RestoreRow ==
    /\ console.at = "rows"
    /\ RestoreCredential \/ RestoreHandle
    /\ UNCHANGED <<installed, tables, settings, made, file, commands, touched, severed>>

CommitImport ==
    /\ console.at = "rows" /\ console.todo = NoFile
    /\ credentials' = credentials \cup console.wrote.credentials
    /\ handles' = handles \cup console.wrote.handles
    /\ console' = Idle
    /\ UNCHANGED <<installed, settings, made, file, commands, touched, severed>>

\* The operator rolls back or leaves, or the process dies.
Rollback ==
    /\ console # Idle
    /\ console' = Idle
    /\ UNCHANGED <<installed, tables, settings, made, file, commands, touched, severed>>

-----------------------------------------------------------------------------
(* The live site: each request is one transaction, which waits for the rows *)
(* the console has written or locked.                                      *)

Importing == console.at \in {"opened", "rows", "failed"}
Waits(u) == Importing /\ \E table \in DOMAIN console.wrote : OfUser(u, console.wrote[table]) # {}
SettingsLocked == Importing /\ console.locked

Touch(c) == touched' = IF console = Idle THEN touched ELSE touched \cup {c}
Live(what) == what \in moving /\ installed

Register(u, c) ==
    LET new == OfUser(u, handles) = {}
        uid == IF new THEN made + 1 ELSE (CHOOSE h \in OfUser(u, handles) : TRUE).handle
    IN  /\ Live("register") /\ mode /\ u \in active /\ ~ Waits(u)
        /\ \A row \in credentials : row.cred # c
        /\ Importing => \A row \in console.wrote.credentials : row.cred # c
        /\ new => made < MaxHandles
        /\ made' = IF new THEN made + 1 ELSE made
        /\ handles' = IF new THEN handles \cup {[user |-> u, handle |-> uid, only |-> FALSE]} ELSE handles
        /\ credentials' = credentials \cup
             {[cred |-> c, user |-> u, enabled |-> TRUE, rp |-> rp, uid |-> uid, count |-> 0]}
        /\ Touch(c)
        /\ UNCHANGED <<installed, settings, file, console, commands, severed>>

\* _guard_last_login_method (see LoginFloor).
LastWayIn(row) ==
    /\ UsableUnder(rp, row.user, credentials) = {row}
    /\ "password" \notin ways \/ \E h \in OfUser(row.user, handles) : h.only

\* A passkey signs in, is deleted, disabled or enabled.
ChangeCredential == \E row \in credentials :
    /\ ~ Waits(row.user)
    /\ \/ /\ Live("use") /\ row.enabled /\ row.count < MaxCount
          /\ credentials' = (credentials \ {row}) \cup {[row EXCEPT !.count = @ + 1]}
       \/ /\ Live("delete") /\ ~ LastWayIn(row)
          /\ credentials' = credentials \ {row}
       \/ /\ Live("disable") /\ (row.enabled => ~ LastWayIn(row))
          /\ credentials' = (credentials \ {row}) \cup {[row EXCEPT !.enabled = ~ @]}
    /\ Touch(row.cred)
    /\ UNCHANGED <<installed, handles, settings, made, file, console, commands, severed>>

SetPasskeyOnly == \E h \in handles :
    /\ Live("only") /\ ~ Waits(h.user) /\ ~ SettingsLocked
    /\ ~ h.only => mode /\ UsableUnder(rp, h.user, credentials) # {}
    /\ handles' = (handles \ {h}) \cup {[h EXCEPT !.only = ~ @]}
    /\ UNCHANGED <<installed, credentials, settings, made, file, console, commands, touched, severed>>

\* The account's rows go with it; a handle alone goes while it has no passkey.
Forget(u) ==
    /\ ~ Waits(u)
    /\ handles' = handles \ OfUser(u, handles)
    /\ touched' = IF console = Idle THEN touched
                  ELSE touched \cup {row.cred : row \in OfUser(u, credentials)}
    /\ severed' = IF Importing THEN severed \cup {row.cred : row \in OfUser(u, file.credentials)}
                  ELSE severed

TrashHandle(u) ==
    /\ Live("handles") /\ OfUser(u, handles) # {} /\ OfUser(u, credentials) = {}
    /\ Forget(u)
    /\ UNCHANGED <<installed, credentials, settings, made, file, console, commands>>

DeleteUser(u) ==
    /\ Live("users")
    /\ Forget(u)
    /\ credentials' = credentials \ OfUser(u, credentials)
    /\ active' = active \ {u}
    /\ UNCHANGED <<installed, mode, rp, ways, moving, made, file, console, commands>>

\* Disabled, enabled, or made anew under a name that was free.
ToggleUser(u) ==
    /\ "users" \in moving
    /\ active' = (active \ {u}) \cup ({u} \ active)
    /\ UNCHANGED <<installed, tables, mode, rp, ways, moving, made, file, console, commands,
                   touched, severed>>

\* A save of Passkey Settings; the last mode stays on for passkey-only accounts.
SaveSettings ==
    /\ installed /\ ~ SettingsLocked
    /\ \/ /\ "mode" \in moving /\ (mode => \A h \in handles : ~ h.only)
          /\ mode' = ~ mode /\ UNCHANGED rp
       \/ /\ "rp" \in moving
          /\ rp' \in Rps \ {rp} /\ UNCHANGED mode
    /\ UNCHANGED <<installed, tables, active, ways, moving, made, file, console, commands,
                   touched, severed>>

Init ==
    /\ installed = TRUE /\ credentials = {} /\ handles = {}
    /\ active = Users /\ mode = TRUE /\ rp \in Rps
    /\ ways \in SUBSET {"password", "alternate"} /\ moving \in Changes
    /\ made \in 0..MaxHandles /\ file = NoFile /\ console = Idle /\ commands = 0
    /\ touched = {} /\ severed = {}

Console ==
    \/ ExportCredentials \/ BeforeUninstall \/ DropTables
    \/ \E allow \in BOOLEAN : BeginImport(allow)
    \/ RefusePasskeyOnlyWithoutLoginMode \/ RestoreRow \/ CommitImport \/ Rollback

Site ==
    \/ Install \/ ChangeCredential \/ SetPasskeyOnly \/ SaveSettings
    \/ \E u \in Users : TrashHandle(u) \/ DeleteUser(u) \/ ToggleUser(u)
    \/ \E u \in Users, c \in Credentials : Register(u, c)

Next == Console \/ Site

Spec == Init /\ [][Next]_vars

-----------------------------------------------------------------------------
(* Properties.                                                             *)

CredentialRow == [cred : Credentials, user : Users, enabled : BOOLEAN, rp : Rps, uid : Handles,
                  count : 0..MaxCount]
HandleRow == [user : Users, handle : Handles, only : BOOLEAN]
Rows == [credentials : SUBSET CredentialRow, handles : SUBSET HandleRow]
Snapshots == [credentials : SUBSET CredentialRow, handles : SUBSET HandleRow,
              active : SUBSET Users, rp : Rps]
Imports == [at : {"opened", "rows", "failed"}, allow : BOOLEAN, seen : Snapshots, wrote : Rows,
            locked : BOOLEAN, todo : Rows, rejected : SUBSET (CredentialRow \cup HandleRow)]

\* Every variable has its shape, and the unique indexes hold in both tables.
TypeOK ==
    /\ credentials \subseteq CredentialRow /\ handles \subseteq HandleRow
    /\ \A a, b \in credentials : a.cred = b.cred => a = b
    /\ \A a, b \in handles : a.user = b.user \/ a.handle = b.handle => a = b
    /\ installed \in BOOLEAN /\ mode \in BOOLEAN /\ rp \in Rps
    /\ active \subseteq Users /\ ways \subseteq {"password", "alternate"} /\ moving \in Changes
    /\ made \in 0..MaxHandles /\ commands \in 0..MaxCommands
    /\ file \in Rows /\ touched \subseteq Credentials /\ severed \subseteq Credentials
    /\ console \in Imports \cup [at : {"idle", "uninstall"}]

\* Whatever is exported, dropped, registered and imported: a passkey carries the
\* handle of its account, so that a sign-in finds it (has_matching_user_handle).
\* Only an import that overlaps the deletion of the account or of its handle
\* may bring back a passkey without one.
CarriesHandle ==
    \A row \in credentials :
        \/ \E h \in handles : h.user = row.user /\ h.handle = row.uid
        \/ row.cred \in severed

Drops == installed /\ ~ installed'

\* docs/install.md, "an uninstall is a reversible move": what is dropped is in
\* the file, and what a committed import does not report as rejected is on the
\* site exactly as exported, but for what was changed under it; into empty
\* tables it rejects nothing but rows of accounts that are disabled or gone and
\* passkeys that had been exported without a handle (see CarriesHandle).
ArchiveIsComplete ==
    [][/\ Drops => \A row \in credentials : row \in file.credentials \/ row.cred \in touched
       /\ CommitImport =>
            /\ \A row \in file.credentials \ console.rejected :
                 row \in credentials' \/ row.cred \in touched
            /\ ~ console.allow =>
                 \A row \in console.rejected :
                   row.user \in console.seen.active =>
                     row \in file.credentials /\ row.cred \in severed]_vars

\* _enforce_credential_floor: an account that an import makes passkey-only has a
\* login mode that is on and a passkey that is usable, under the RP ID the
\* import found when it began.
RestoredCanSignIn ==
    [][CommitImport => \A h \in handles' \ handles : h.only =>
         mode /\ UsableUnder(console.seen.rp, h.user, credentials') # {}]_vars
===============================================================================
