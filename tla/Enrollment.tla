------------------------------ MODULE Enrollment ------------------------------
(***************************************************************************)
(* Registering a passkey: two requests of one session that meet in a       *)
(* single-use ceremony, against other ceremonies of the same user, other   *)
(* accounts that present the same credential, and administrators who       *)
(* change the settings, the rows and the user handle, or delete, rename    *)
(* and merge the accounts meanwhile.  An account is its name.              *)
(*                                                                         *)
(* verify_registration reads the settings and takes its snapshot when it   *)
(* starts; it decides on rows it reads under the lock of the User row,     *)
(* which it keeps until it commits.                                        *)
(***************************************************************************)
EXTENDS Naturals, FiniteSets, Sequences

CONSTANTS
    Users, Credentials, Sids, Workers, Rps,
    MaxCap,         \* bound: passkey_max_per_user
    Changes,        \* sets of what else moves; one set in a behaviour
    MaxRoots,       \* bound: ceremonies begun
    MaxHandles      \* bound: user handles made

Flows   == {"explicit", "conditional_create"}
Classes == {"password", "passkey", "reauth", "external"}
FullSudo == Classes \ {"external"}
Knobs   == {"login_with_passkey", "passkey_as_second_factor", "external_bootstrap"}
Roots   == 1..MaxRoots
Handles == 1..MaxHandles

ASSUME EnrollmentAssumption ==
    {MaxCap, MaxRoots, MaxHandles} \subseteq Nat

VARIABLES
    exists,     \* the names of the User rows
    account,    \* the name each session is signed in as
    rows,       \* the credential rows
    handle,     \* the user handle of each account, 0 while it has none
    handles,    \* handles made so far; a handle is never made twice
    window,     \* the sudo window of each session
    on, rp,     \* the settings that are on; the site's RP ID
    cap,        \* passkey_max_per_user
    moving,     \* what else moves, one set of Changes
    records,    \* Redis: the live ceremonies by id
    roots,      \* ceremonies begun so far
    req,        \* the request each worker serves
    severed,    \* history: ceremonies whose account lost its handle meanwhile
    registered  \* history: the registrations so far, and what each was for

names == <<exists, account>>
settings == <<on, rp, cap, moving>>
history == <<severed, registered>>
vars == <<names, rows, handle, handles, window, settings, records, roots, req, history>>

Gone == [type |-> "gone"]
Idle == [op |-> "idle"]
None == "none"

RowsOf(u, table) == {row \in table : row.user = u}
\* has_usable_credential: enabled and for the RP ID.
UsableOf(u, id, table) == {row \in RowsOf(u, table) : row.enabled /\ row.rp = id}

\* _is_external_bootstrap_allowed.
BootstrapAllowed(knobs, usable) ==
    {"login_with_passkey", "external_bootstrap"} \subseteq knobs /\ usable = {}

\* _require_any_login_mode.
AnyMode(knobs) == knobs \cap {"login_with_passkey", "passkey_as_second_factor"} # {}

\* _require_sudo_for_registration.
\* Mutant: an explicit registration needs no window.
AuthorizedExplicit(s, flow) == flow = "explicit" \/ window[s] = "password"
Authorized(s, flow) ==
    CASE flow = "conditional_create" -> window[s] = "password"
      [] window[s] = "external" -> BootstrapAllowed(on, UsableOf(account[s], rp, rows))
      [] OTHER -> window[s] \in FullSudo

\* _get_or_create_handle, under the lock of the User row, which must be there.
\* Mutant: a user that is gone locks nothing and gets a handle all the same.
NeedsHandle(u) == handle[u] = 0
HandleOf(u) == IF NeedsHandle(u) THEN handles + 1 ELSE handle[u]
GetOrCreateHandleUnlocked(u) ==
    /\ NeedsHandle(u) => handles < MaxHandles
    /\ handle' = [handle EXCEPT ![u] = HandleOf(u)]
    /\ handles' = IF NeedsHandle(u) THEN handles + 1 ELSE handles
GetOrCreateHandle(u) ==
    /\ u \in exists
    /\ NeedsHandle(u) => handles < MaxHandles
    /\ handle' = [handle EXCEPT ![u] = HandleOf(u)]
    /\ handles' = IF NeedsHandle(u) THEN handles + 1 ELSE handles

-----------------------------------------------------------------------------
\* begin_registration.  uid is what the authenticator will store.
BeginRegistration(s, flow) ==
    LET u == account[s]
    IN  /\ roots < MaxRoots
        /\ AnyMode(on) /\ Authorized(s, flow)
        /\ Cardinality(RowsOf(u, rows)) < cap
        /\ GetOrCreateHandle(u)
        /\ roots' = roots + 1
        /\ records' = [records EXCEPT ![roots + 1] =
             [type |-> "register", root |-> roots + 1, sid |-> s, authorization |-> window[s],
              rp |-> rp, uid |-> HandleOf(u)]]
        /\ UNCHANGED <<names, rows, window, settings, req, history>>

\* verify_registration up to the lock: whoever sends the id burns it.
\* Mutant: the ceremony is read, not consumed.
ConsumeRead(id) == records' = records
Consume(id) == records' = [records EXCEPT ![id] = Gone]

StartVerify(w) == \E id \in Roots, s \in Sids, c \in Credentials :
    LET r == records[id]
    IN  /\ req[w] = Idle /\ r # Gone /\ window[s] # "signed_out"
        /\ Consume(id)
        /\ req' = IF r.sid = s /\ AnyMode(on)
                  THEN [req EXCEPT ![w] = [op |-> "verify", user |-> account[s], rec |-> r, cred |-> c,
                                           on |-> on, rp |-> rp]]
                  ELSE req
        /\ UNCHANGED <<names, rows, handle, handles, window, settings, roots, history>>

\* _user_credentials for update: the rows as they are, not the snapshot's.
Census(w) == RowsOf(req[w].user, rows)

\* _enforce_max_per_user, once more.
\* Mutant: begin_registration has checked that.
UnderCapAtBegin(w) == req[w].rec.root \in Roots
UnderCap(w) == Cardinality(Census(w)) < cap

\* An external login's ceremony may only create the first usable credential,
\* however many of them were begun while there was none.
\* Mutant: trusts the verdict of begin_registration.
StillAuthorizedSinceBegin(w) == req[w].rec.authorization \in Classes
StillAuthorized(w) ==
    req[w].rec.authorization = "external" =>
        BootstrapAllowed(req[w].on, UsableOf(req[w].user, req[w].rec.rp, Census(w)))

\* A ceremony of u, or the row it led to, as the authorisation it carries.
Terms == [user : Users, authorization : Classes, rp : Rps, uid : Handles]
Carries(r, u) ==
    [id |-> r.root,
     terms |-> [user |-> u, authorization |-> r.authorization, rp |-> r.rp, uid |-> r.uid]]

\* The unique index on credential_id_sha256, of all accounts.
\* Mutant: a credential is looked for among the account's own.
UnregisteredByOwner(w) == \A row \in Census(w) : row.cred # req[w].cred
Unregistered(w) == \A row \in rows : row.cred # req[w].cred

End(w) == req' = [req EXCEPT ![w] = Idle]

\* _insert_verified_credential, under the User lock; refusals roll back.
InsertVerifiedCredential(w) ==
    LET r == req[w].rec
        u == req[w].user
    IN  /\ req[w].op = "verify"
        /\ req[w].rp = r.rp
        /\ StillAuthorized(w)
        /\ UnderCap(w)
        /\ Unregistered(w)
        /\ GetOrCreateHandle(u)
        /\ LET row == [cred |-> req[w].cred, user |-> u, enabled |-> TRUE, rp |-> r.rp,
                       uid |-> r.uid, root |-> r.root, authorization |-> r.authorization]
           IN  rows' = rows \cup {row} /\ registered' = Append(registered, Carries(row, row.user))
        /\ End(w)
        /\ UNCHANGED <<names, window, settings, records, roots, severed>>

\* The ceremonies of u that are stored or in a worker's hands.
Underway(u) ==
    {id \in Roots : records[id] # Gone /\ account[records[id].sid] = u}
    \cup {req[w].rec.root : w \in {w \in Workers : req[w].op = "verify" /\ req[w].user = u}}

\* Deleting a handle row by hand: on_trash locks it and then looks for
\* credentials; registrations wait for that lock.
\* Mutant: disabled credentials do not count.
MayTrashDisabled(u) == \A row \in RowsOf(u, rows) : ~ row.enabled
MayTrash(u) == RowsOf(u, rows) = {}

TrashHandle(u) ==
    /\ "handle" \in moving /\ handle[u] # 0
    /\ MayTrash(u)
    /\ handle' = [handle EXCEPT ![u] = 0]
    /\ severed' = severed \cup Underway(u)
    /\ UNCHANGED <<names, rows, handles, window, settings, records, roots, req, registered>>

\* Refused, timed out, or the worker died.
Abandon(w) ==
    /\ req[w] # Idle
    /\ End(w)
    /\ UNCHANGED <<names, rows, handle, handles, window, settings, records, roots, history>>

-----------------------------------------------------------------------------
(* Accounts that go, change their name, or become one.                     *)

\* cascade_delete_user_artifacts, before core deletes the User row.
DeleteUser(u) ==
    /\ "user" \in moving /\ u \in exists
    /\ exists' = exists \ {u}
    /\ rows' = rows \ RowsOf(u, rows)
    /\ handle' = [handle EXCEPT ![u] = 0]
    /\ severed' = severed \cup Underway(u)
    /\ UNCHANGED <<account, handles, window, settings, records, roots, req, registered>>

\* Core re-points the links of the old name.
Repoint(old, new) ==
    /\ exists' = (exists \ {old}) \cup {new}
    /\ rows' = {[row EXCEPT !.user = IF @ = old THEN new ELSE @] : row \in rows}
    /\ handle' = [u \in Users |-> CASE u = old -> 0
                                    [] u = new /\ handle[old] # 0 -> handle[old]
                                    [] OTHER -> handle[u]]
    /\ severed' = severed \cup Underway(old)

RenameUser(old, new) ==
    /\ "user" \in moving /\ old \in exists /\ new \notin exists
    /\ Repoint(old, new)
    /\ UNCHANGED <<account, handles, window, settings, records, roots, req, registered>>

\* refuse_enrolled_user_merge counts the handle rows, and locks none.
BeginMerge(w) == \E old, new \in exists :
    /\ "user" \in moving /\ req[w] = Idle /\ old # new
    /\ handle[old] = 0 \/ handle[new] = 0
    /\ req' = [req EXCEPT ![w] = [op |-> "merge", old |-> old, new |-> new]]
    /\ UNCHANGED <<names, rows, handle, handles, window, settings, records, roots, history>>

\* The handle of the old name must not meet another: its user is unique.
\* Mutant: the count has seen to that.
MayMergeAsCounted(old, new) == {old, new} \subseteq exists
MayMerge(old, new) == {old, new} \subseteq exists /\ (handle[old] = 0 \/ handle[new] = 0)

MergeUsers(w) ==
    LET old == req[w].old
        new == req[w].new
    IN  /\ req[w].op = "merge"
        /\ MayMerge(old, new)
        /\ Repoint(old, new)
        /\ End(w)
        /\ UNCHANGED <<account, handles, window, settings, records, roots, registered>>

-----------------------------------------------------------------------------
(* Everything else that moves.                                             *)

\* A sudo window opens, runs out, is replaced, or goes with its session.
ChangeWindow(s) == \E class \in Classes \cup {None, "signed_out"} :
    /\ "window" \in moving
    /\ window[s] # "signed_out" /\ class # window[s]
    /\ window' = [window EXCEPT ![s] = class]
    /\ UNCHANGED <<names, rows, handle, handles, settings, records, roots, req, history>>

Expire(id) ==
    /\ records[id] # Gone
    /\ records' = [records EXCEPT ![id] = Gone]
    /\ UNCHANGED <<names, rows, handle, handles, window, settings, roots, req, history>>

\* A credential is deleted, disabled or enabled (see LoginFloor).
ChangeRow == \E row \in rows :
    /\ "rows" \in moving
    /\ rows' \in {rows \ {row}, (rows \ {row}) \cup {[row EXCEPT !.enabled = ~ @]}}
    /\ UNCHANGED <<names, handle, handles, window, settings, records, roots, req, history>>

ChangeSettings ==
    /\ "settings" \in moving
    /\ \/ \E k \in Knobs : on' = (on \ {k}) \cup ({k} \ on) /\ UNCHANGED rp
       \/ rp' \in Rps \ {rp} /\ UNCHANGED on
    /\ UNCHANGED <<names, rows, handle, handles, window, cap, moving, records, roots, req, history>>

Init ==
    /\ exists \in {Users} \cup {{u} : u \in Users}
    /\ account \in [Sids -> exists]
    /\ cap \in 1..MaxCap /\ moving \in Changes /\ severed = {} /\ registered = <<>>
    /\ rows = {} /\ handle = [u \in Users |-> 0] /\ handles = 0
    /\ window \in [Sids -> {"password", "external"}]
    /\ on = Knobs /\ rp \in Rps
    /\ records = [id \in Roots |-> Gone] /\ roots = 0
    /\ req = [w \in Workers |-> Idle]

Serve(w) ==
    \/ StartVerify(w) \/ InsertVerifiedCredential(w) \/ Abandon(w)
    \/ BeginMerge(w) \/ MergeUsers(w)

Next ==
    \/ \E s \in Sids : ChangeWindow(s) \/ \E flow \in Flows : BeginRegistration(s, flow)
    \/ \E w \in Workers : Serve(w)
    \/ \E id \in Roots : Expire(id)
    \/ \E u \in Users : TrashHandle(u) \/ DeleteUser(u) \/ \E new \in Users : RenameUser(u, new)
    \/ ChangeRow \/ ChangeSettings

Spec == Init /\ [][Next]_vars

-----------------------------------------------------------------------------
(* Properties.                                                             *)

RowType == [cred : Credentials, user : Users, enabled : BOOLEAN, rp : Rps, uid : Handles,
            root : Roots, authorization : Classes]
RecordType == [type : {"register"}, root : Roots, sid : Sids, authorization : Classes,
               rp : Rps, uid : Handles]
RequestType ==
    {Idle} \cup [op : {"merge"}, old : Users, new : Users]
    \cup [op : {"verify"}, user : Users, rec : RecordType, cred : Credentials,
          on : SUBSET Knobs, rp : Rps]

\* Every variable has its shape; a ceremony is stored under its own root; and a
\* credential is in one row of one account, whichever accounts offer it at once
\* or are merged (_insert_verified_credential).
TypeOK ==
    /\ exists \subseteq Users /\ account \in [Sids -> Users]
    /\ rows \subseteq RowType
    /\ \A a, b \in rows : a # b => a.cred # b.cred
    /\ handle \in [Users -> 0..MaxHandles] /\ handles \in 0..MaxHandles
    /\ window \in [Sids -> Classes \cup {None, "signed_out"}]
    /\ on \subseteq Knobs /\ rp \in Rps /\ cap \in 1..MaxCap /\ moving \in Changes
    /\ roots \in 0..MaxRoots /\ severed \subseteq Roots /\ registered \in Seq([id : Roots, terms : Terms])
    /\ records \in [Roots -> RecordType \cup {Gone}]
    /\ \A id \in Roots : records[id] # Gone => records[id].root = id
    /\ req \in [Workers -> RequestType]
    /\ \A w \in Workers : req[w].op = "verify" => req[w].user = account[req[w].rec.sid]

\* However many ceremonies a user finishes at once, and whoever is merged into
\* the account, it ends with no more rows than passkey_max_per_user
\* (_enforce_max_per_user on the locked rows, refuse_enrolled_user_merge).
CapKept == \A u \in Users : Cardinality(RowsOf(u, rows)) <= cap

\* A ceremony leaves at most one row (state.consume_ceremony).
OneRowPerCeremony == \A a, b \in rows : a # b => a.root # b.root

\* What an external login enrolls is the first usable credential of the
\* account, even when several such ceremonies run at once.
ExternalOnlyFirst ==
    [][\A row \in rows' \ rows :
         row.authorization = "external" /\ row.root \notin {r.root : r \in rows}
           => UsableOf(row.user, row.rp, rows) = {}]_vars

\* Whatever is registered, deleted, renamed or merged at once: rows and handles
\* belong to accounts that exist, and a passkey carries the handle of its
\* account -- a sign-in finds no account otherwise (_lock_discoverable_credential,
\* has_matching_user_handle).  Only a passkey whose ceremony was under way when
\* its account lost the handle, or the name, may not: the record names no handle.
CarriesHandle ==
    /\ \A u \in Users : handle[u] # 0 => u \in exists
    /\ \A row \in rows :
         /\ row.user \in exists /\ handle[row.user] # 0
         /\ row.uid = handle[row.user] \/ row.root \in severed

-----------------------------------------------------------------------------
(* What it implements.                                                     *)

Stored == {id \in Roots : records[id] # Gone}
Verifying == {w \in Workers : req[w].op = "verify"}
Pending ==
    {Carries(records[id], account[records[id].sid]) : id \in Stored}
    \cup {Carries(req[w].rec, req[w].user) : w \in Verifying}

Single == INSTANCE SingleUse
    WITH Terms <- Terms, begun <- roots, pending <- Pending, used <- registered

\* A ceremony registers one passkey at most, even after that is deleted again,
\* and the one it was begun for: of the account that began it, under the window,
\* the RP ID and the handle it began with, whichever worker, session or other
\* account presents it (state.consume_ceremony, verify_registration).
ImplementsSingleUse == Single!Spec
=============================================================================
