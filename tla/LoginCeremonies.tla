---------------------------- MODULE LoginCeremonies ----------------------------
(***************************************************************************)
(* Signing in: the passwordless passkey login with its password step-up    *)
(* (UV setup), the passkey as second factor with its retries, the fallback *)
(* to core's one-time code, and the veto on password logins.               *)
(*                                                                         *)
(* The two legs of a sign-in meet in a Redis record that only one request  *)
(* can consume and that may expire at any moment.  A request first works   *)
(* on Redis and takes its database snapshot, then waits for the locks of   *)
(* User and Credential and decides on the locked rows; what it reads       *)
(* without a lock (the RP ID, the password hash) is as old as its snapshot.*)
(***************************************************************************)
EXTENDS Naturals, Sequences, FiniteSets

CONSTANTS
    Users, Credentials, Browsers, Workers,
    Rps, NoRp,          \* Relying Party ids; NoRp: none resolves
    Owner, RpOf,        \* the account and the RP ID of a credential
    Knows,              \* browsers whose user knows the passwords
    Changes,            \* sets of what administrators change; one set in a behaviour
    MaxCount,           \* bound: signature counters
    MaxRoots,           \* bound: sign-ins begun
    MaxPassword,        \* bound: password changes
    MAX_ATTEMPTS,       \* state.SECOND_FACTOR_MAX_ATTEMPTS
    PASSWORD_LIMIT,     \* state.PASSWORD_FAILURE_LIMIT
    MaxFailed           \* core's allow_consecutive_login_attempts

Knobs == {"login_with_passkey", "passkey_as_second_factor",
          "passkey_sign_count_hard_fail", "otp_fallback", "enable_two_factor_auth",
          "disable_user_pass_login"}
Counts == 0..MaxCount
Roots == 1..MaxRoots
SiteRps == Rps \cup {NoRp}

ASSUME CeremonyAssumption ==
    /\ NoRp \notin Rps
    /\ Owner \in [Credentials -> Users] /\ RpOf \in [Credentials -> Rps]
    /\ Knows \subseteq Browsers
    /\ {MaxCount, MaxRoots, MaxPassword, MaxFailed} \subseteq Nat
    /\ {MAX_ATTEMPTS, PASSWORD_LIMIT} \subseteq Nat \ {0}

VARIABLES
    active,         \* enabled users
    password,       \* the version of each user's password hash
    passkeyOnly,    \* users bound by passkey_only_login = 1 on their handle row
                    \* (on Administrator's it binds nobody)
    enabled,        \* enabled credential rows
    count,          \* sign_count of each credential
    flagged,        \* credentials flagged for a sign-count regression
    uv,             \* credentials with uv_initialized = 1
    moving,         \* what administrators change, one set of Changes
    on,             \* the settings that are on
    rp,             \* the RP ID the settings resolve to
    records,        \* Redis: the live ceremony, UV-setup and OTP records by id
    claims,         \* Redis: password attempts claimed
    failed,         \* core's consecutive login failures
    req,            \* the verifying request each worker serves
    roots,          \* sign-ins begun so far; each names the records it leads to
    tries,          \* failed second-factor verifications per sign-in
    sessions        \* the sessions minted, in order

accounts == <<active, password, passkeyOnly, enabled>>
advanced == <<count, flagged, uv>>
settings == <<moving, on, rp>>
redis == <<records, claims, failed>>
history == <<roots, tries, sessions>>
vars == <<accounts, advanced, settings, redis, req, history>>

Gone == [type |-> "gone"]
Idle == [op |-> "idle"]

\* Ids are random: a new record never replaces a live one.  Clients may
\* present any id, so an id that is free again tells them nothing new.
Ids == 1..(MaxRoots + 1)
Fresh == CHOOSE id \in Ids : records[id] = Gone
Store(record) == records' = [records EXCEPT ![Fresh] = record]

Usable(u) == {c \in enabled : Owner[c] = u /\ RpOf[c] = rp}
SecondFactorDue(u) == "passkey_as_second_factor" \in on /\ Usable(u) # {}

Mint(s) == sessions' = Append(sessions, s)

\* A sign-in begins: it is the next root.
BeginRoot == roots < MaxRoots /\ roots' = roots + 1

-----------------------------------------------------------------------------
(* The first legs.                                                         *)

\* begin_login: a discoverable ceremony bound to the browser's binder cookie.
BeginLogin(b) ==
    /\ BeginRoot
    /\ "login_with_passkey" \in on /\ rp # NoRp
    /\ Store([type |-> "login", root |-> roots + 1, binder |-> b, rp |-> rp])
    /\ UNCHANGED <<accounts, advanced, settings, claims, failed, req, tries, sessions>>

PasswordSession(b, u) ==
    [root |-> roots + 1, by |-> "password", user |-> u, browser |-> b, began |-> b]

\* get_password_login_restrictions, which on_login_veto reads first: a login
\* without a passkey is refused, or allowed with an issued one-time code only.
PasskeyOnly(u) == u \in passkeyOnly /\ Usable(u) # {}
PasswordLoginAllowed(u) == ~ SecondFactorDue(u) /\ ~ PasskeyOnly(u)

\* login_with_password: the password was right; an enrolled user goes on with
\* a passkey, another is asked core's one-time code or is signed in.
LoginWithPassword(b, u) ==
    /\ BeginRoot
    /\ "passkey_as_second_factor" \in on /\ "disable_user_pass_login" \notin on
    /\ b \in Knows /\ u \in active /\ failed[u] < MaxFailed
    /\ failed' = [failed EXCEPT ![u] = 0]
    /\ \/ /\ Usable(u) # {} /\ rp # NoRp
          /\ Store([type |-> "second_factor", root |-> roots + 1, binder |-> b, rp |-> rp,
                    user |-> u, version |-> password[u], allow |-> Usable(u), attempts |-> 0,
                    fallback |-> {"enable_two_factor_auth", "otp_fallback"} \subseteq on])
          /\ UNCHANGED sessions
       \/ /\ Usable(u) = {}
          /\ IF "enable_two_factor_auth" \in on \/ ~ PasswordLoginAllowed(u)
             THEN UNCHANGED sessions ELSE Mint(PasswordSession(b, u))
          /\ UNCHANGED records
    /\ UNCHANGED <<accounts, advanced, settings, claims, req, tries>>

\* Core's own password login, with core's own one-time code when it is on.
CorePasswordLogin(b, u) ==
    /\ BeginRoot
    /\ "disable_user_pass_login" \notin on
    /\ b \in Knows /\ u \in active /\ failed[u] < MaxFailed
    /\ failed' = [failed EXCEPT ![u] = 0]
    /\ IF PasswordLoginAllowed(u) THEN Mint(PasswordSession(b, u)) ELSE UNCHANGED sessions
    /\ UNCHANGED <<accounts, advanced, settings, records, claims, req, tries>>

-----------------------------------------------------------------------------
(* The verifying requests: Redis first.                                    *)

\* What a request sees in its snapshot.
Snapshot(w, op, id, b) ==
    [op |-> op, id |-> id, rec |-> records[id], browser |-> b, rp |-> rp,
     password |-> password, twoFactor |-> "enable_two_factor_auth" \in on]

Serve(w, r) == req[w] = Idle /\ req' = [req EXCEPT ![w] = r]
Consume(id) == records' = [records EXCEPT ![id] = Gone]

\* Mutant: any browser may finish the login.
CanLoginAnywhere(r, b) == r.type = "login" /\ "login_with_passkey" \in on
CanLogin(r, b) ==
    r.type = "login" /\ r.binder = b /\ "login_with_passkey" \in on
CanSecondFactor(r, b) ==
    /\ r.type = "second_factor" /\ r.binder = b
    /\ "passkey_as_second_factor" \in on
    /\ r.rp = rp
    /\ failed[r.user] < MaxFailed

\* verify_login and verify_second_factor consume the ceremony they are sent
\* before they look at it, so a misfit burns it.
ConsumeCeremony(w) == \E id \in Ids, b \in Browsers, op \in {"verify_login", "verify_second_factor"} :
    /\ records[id].type \in {"login", "second_factor"}
    /\ Consume(id)
    /\ IF \/ op = "verify_login" /\ CanLogin(records[id], b)
          \/ op = "verify_second_factor" /\ CanSecondFactor(records[id], b)
       THEN Serve(w, Snapshot(w, op, id, b))
       ELSE req[w] = Idle /\ UNCHANGED req
    /\ UNCHANGED <<accounts, advanced, settings, claims, failed, history>>

\* complete_uv_setup only reads its record: a wrong password may be retried.
ReadUvSetup(w) == \E id \in Ids, b \in Browsers :
    /\ records[id].type = "uv_setup" /\ records[id].binder = b
    /\ "login_with_passkey" \in on
    /\ failed[records[id].user] < MaxFailed
    /\ Serve(w, Snapshot(w, "uv_setup", id, b))
    /\ UNCHANGED <<accounts, advanced, settings, redis, history>>

\* The attempt is claimed before the password is checked.
CheckPassword(w) ==
    LET u == req[w].rec.user
        tooMany == claims[u] >= PASSWORD_LIMIT
        claimed == [claims EXCEPT ![u] = IF tooMany THEN @ ELSE @ + 1]
    IN  /\ req[w].op = "uv_setup"
        /\ \/ /\ ~ tooMany /\ req[w].browser \in Knows
              /\ claims' = [claims EXCEPT ![u] = 0]
              /\ req' = [req EXCEPT ![w].op = "uv_known"]
              /\ UNCHANGED failed
           \/ /\ claims' = claimed
              /\ req' = [req EXCEPT ![w] = Idle]
              /\ failed' = IF tooMany THEN failed
                           ELSE [failed EXCEPT ![u] = IF @ < MaxFailed THEN @ + 1 ELSE @]
        /\ UNCHANGED <<accounts, advanced, settings, records, history>>

\* Of several completions with the right password one wins the record.
\* Mutant: does not look at what it consumed.
ConsumeUvSetupBlind(w) ==
    /\ req[w].op = "uv_known"
    /\ Consume(req[w].id)
    /\ req' = [req EXCEPT ![w].op = "uv_won"]
    /\ UNCHANGED <<accounts, advanced, settings, claims, failed, history>>
ConsumeUvSetup(w) ==
    /\ req[w].op = "uv_known"
    /\ Consume(req[w].id)
    /\ req' = IF records[req[w].id] = req[w].rec
              THEN [req EXCEPT ![w].op = "uv_won"] ELSE [req EXCEPT ![w] = Idle]
    /\ UNCHANGED <<accounts, advanced, settings, claims, failed, history>>

\* fallback_to_otp hands the password leg to core's one-time code and leaves a
\* marker for the login hook; the live setting counts, not only the record's.
FallbackToOtp(b) == \E id \in Ids :
    LET r == records[id]
    IN  /\ "passkey_as_second_factor" \in on
        /\ r.type \in {"login", "second_factor"}
        /\ records' = [records EXCEPT ![id] =
             IF r.type = "second_factor" /\ r.binder = b /\ r.fallback /\ "otp_fallback" \in on
             THEN [type |-> "otp", root |-> r.root, binder |-> r.binder,
                   user |-> r.user, version |-> r.version]
             ELSE Gone]
        /\ UNCHANGED <<accounts, advanced, settings, claims, failed, req, history>>

\* Core's login route with a one-time code: core checks the password it kept
\* and, while two-factor is on, the code; the hook then reads what restricts the
\* account, and the marker, which any browser may present.
ReadOtpMarker(w) == \E id \in Ids, b \in Browsers :
    /\ records[id].type = "otp"
    /\ records[id].user \in active /\ records[id].version = password[records[id].user]
    /\ "disable_user_pass_login" \notin on /\ SecondFactorDue(records[id].user)
    /\ LET op == IF PasskeyOnly(records[id].user) THEN "otp_vetoed" ELSE "otp"
       IN  Serve(w, Snapshot(w, op, id, b))
    /\ UNCHANGED <<accounts, advanced, settings, redis, history>>

-----------------------------------------------------------------------------
(* The verifying requests: the decision under the row locks.               *)

\* classify_sign_count against the stored counter.
Replay(c, n) == n = count[c] /\ n # 0
Regression(c, n) == n < count[c]
HardFail == "passkey_sign_count_hard_fail" \in on
CountAccepted(c, n) == ~ Replay(c, n) /\ (Regression(c, n) => ~ HardFail)

\* advance_credential: counters only go up, an accepted regression is flagged.
Advance(c, n) ==
    /\ count' = [count EXCEPT ![c] = IF n > @ THEN n ELSE @]
    /\ flagged' = IF Regression(c, n) THEN flagged \cup {c} ELSE flagged

\* require_current_rp: by the snapshot, the RP ID is still the ceremony's.
\* Mutant: any RP ID will do.
RpIsSet(w) == req[w].rp # NoRp
RpIsCurrent(w) == req[w].rp = req[w].rec.rp

\* passwordless_uv_outcome.
\* Mutant: user verification alone signs in.
UvOutcomeVerified(verified, c) == IF verified THEN "session" ELSE "reject"
UvOutcome(verified, c) ==
    IF ~ verified THEN "reject" ELSE IF c \in uv THEN "session" ELSE "uv_setup"

\* lock_enabled_user, lock_credential: the locked rows, as they are now.
\* Mutant: locks the credential only.
CredentialEnabled(c) == c \in enabled
LockedAndEnabled(c) == Owner[c] \in active /\ c \in enabled

End(w) == req' = [req EXCEPT ![w] = Idle]
TrackFailure(u) == failed' = [failed EXCEPT ![u] = IF @ < MaxFailed THEN @ + 1 ELSE @]
TrackSuccess(u) == failed' = [failed EXCEPT ![u] = 0]

PasskeySession(w, by, c, n) ==
    [root |-> req[w].rec.root, by |-> by, user |-> Owner[c], browser |-> req[w].browser,
     began |-> req[w].rec.binder, cred |-> c, count |-> n]

\* An assertion: the credential that signed it, its counter, its UV bit, and
\* whether signature, challenge and origin verify.  A refused one feeds core's
\* lockout.
FailLogin(w) == \E c \in Credentials, n \in Counts, good, verified \in BOOLEAN :
    /\ req[w].op = "verify_login"
    /\ LockedAndEnabled(c) /\ failed[Owner[c]] < MaxFailed
    /\ \/ RpOf[c] # req[w].rec.rp
       \/ ~ good \/ ~ CountAccepted(c, n) \/ UvOutcome(verified, c) = "reject"
    /\ TrackFailure(Owner[c])
    /\ End(w)
    /\ UNCHANGED <<accounts, advanced, settings, records, claims, history>>

\* verify_login with a good assertion: a session, or the step-up while
\* uv_initialized = 0.  A new RP ID undoes the database, not Redis.
PassLogin(w) == \E c \in Credentials, n \in Counts :
    /\ req[w].op = "verify_login"
    /\ LockedAndEnabled(c) /\ failed[Owner[c]] < MaxFailed
    /\ RpOf[c] = req[w].rec.rp
    /\ CountAccepted(c, n)
    /\ TrackSuccess(Owner[c])
    /\ \/ /\ UvOutcome(TRUE, c) = "uv_setup"
          /\ Store([type |-> "uv_setup", root |-> req[w].rec.root, binder |-> req[w].rec.binder,
                    rp |-> req[w].rec.rp, user |-> Owner[c], cred |-> c, count |-> n])
          /\ UNCHANGED <<advanced, sessions>>
       \/ /\ UvOutcome(TRUE, c) = "session"
          /\ IF RpIsCurrent(w)
             THEN Advance(c, n) /\ Mint(PasskeySession(w, "login", c, n))
             ELSE UNCHANGED <<count, flagged, sessions>>
          /\ UNCHANGED <<uv, records>>
    /\ End(w)
    /\ UNCHANGED <<accounts, settings, claims, roots, tries>>

\* complete_uv_setup: the counter of the recorded assertion is judged again,
\* against the row as it is now.
\* Mutant: trusts the verdict of verify_login.
PassUvSetupOnce(w) ==
    LET c == req[w].rec.cred
        n == req[w].rec.count
    IN  /\ req[w].op = "uv_won"
        /\ LockedAndEnabled(c)
        /\ RpIsCurrent(w) /\ RpOf[c] = req[w].rec.rp
        /\ Advance(c, n)
        /\ uv' = uv \cup {c}
        /\ Mint(PasskeySession(w, "uv_setup", c, n))
        /\ End(w)
        /\ UNCHANGED <<accounts, settings, redis, roots, tries>>
PassUvSetup(w) ==
    LET c == req[w].rec.cred
        n == req[w].rec.count
    IN  /\ req[w].op = "uv_won"
        /\ LockedAndEnabled(c)
        /\ RpIsCurrent(w) /\ RpOf[c] = req[w].rec.rp
        /\ CountAccepted(c, n)
        /\ Advance(c, n)
        /\ uv' = uv \cup {c}
        /\ Mint(PasskeySession(w, "uv_setup", c, n))
        /\ End(w)
        /\ UNCHANGED <<accounts, settings, redis, roots, tries>>

\* lock_allowed_credential and the engine refuse; _rearm_second_factor stores
\* a fresh record with one attempt more, up to the cap.
\* Mutants: compares before it counts; does not count.
RearmLate(record) ==
    IF record.attempts >= MAX_ATTEMPTS THEN UNCHANGED records
    ELSE Store([record EXCEPT !.attempts = @ + 1])
RearmUncounted(record) ==
    IF record.attempts + 1 >= MAX_ATTEMPTS THEN UNCHANGED records ELSE Store(record)
Rearm(record) ==
    IF record.attempts + 1 >= MAX_ATTEMPTS THEN UNCHANGED records
    ELSE Store([record EXCEPT !.attempts = @ + 1])

FailSecondFactor(w) == \E c \in Credentials, n \in Counts, good \in BOOLEAN :
    /\ req[w].op = "verify_second_factor"
    /\ \/ c \notin req[w].rec.allow \/ ~ LockedAndEnabled(c) \/ RpOf[c] # req[w].rec.rp
       \/ ~ good \/ ~ CountAccepted(c, n)
    /\ TrackFailure(req[w].rec.user)
    /\ Rearm(req[w].rec)
    /\ tries' = [tries EXCEPT ![req[w].rec.root] = @ + 1]
    /\ End(w)
    /\ UNCHANGED <<accounts, advanced, settings, claims, roots, sessions>>

\* _reauthenticate_before_mint, on the request's snapshot: the password hash
\* is still the one of the first leg.
\* Mutant: does not compare the hashes.
ReauthenticatesEnabled(w) == req[w].rec.user \in active
Reauthenticates(w) ==
    /\ req[w].rec.user \in active
    /\ req[w].rec.version = req[w].password[req[w].rec.user]

PassSecondFactor(w) == \E c \in Credentials, n \in Counts, verified \in BOOLEAN :
    /\ req[w].op = "verify_second_factor"
    /\ c \in req[w].rec.allow /\ LockedAndEnabled(c) /\ RpOf[c] = req[w].rec.rp
    /\ CountAccepted(c, n)
    /\ TrackSuccess(req[w].rec.user)
    /\ IF Reauthenticates(w)
       THEN /\ Advance(c, n)
            /\ uv' = IF verified THEN uv \cup {c} ELSE uv
            /\ Mint(PasskeySession(w, "second_factor", c, n))
       ELSE UNCHANGED <<advanced, sessions>>
    /\ End(w)
    /\ UNCHANGED <<accounts, settings, records, claims, roots, tries>>

\* _consume_allowed_otp_fallback: two-factor must still be on, then whoever
\* removes the marker signs in, unless the account was passkey-only as well when
\* the hook read its restrictions.
\* Mutant: trusts the marker it read.
MarkerTakenAsRead(w) == req[w].twoFactor
MarkerTaken(w) == req[w].twoFactor /\ records[req[w].id] = req[w].rec

PassOtp(w) ==
    LET m == req[w].rec
    IN  /\ req[w].op \in {"otp", "otp_vetoed"}
        /\ MarkerTaken(w)
        /\ Consume(req[w].id)
        /\ IF req[w].op = "otp"
           THEN Mint([root |-> m.root, by |-> "otp", user |-> m.user, browser |-> req[w].browser,
                      began |-> m.binder])
           ELSE UNCHANGED sessions
        /\ End(w)
        /\ UNCHANGED <<accounts, advanced, settings, claims, failed, roots, tries>>

\* A request is refused before it counts, times out on a lock, or its worker
\* dies: what it consumed is gone, the database is as before.
Abandon(w) ==
    /\ req[w] # Idle
    /\ End(w)
    /\ UNCHANGED <<accounts, advanced, settings, redis, history>>

-----------------------------------------------------------------------------
(* Everything else that moves.                                             *)

\* The TTL or an eviction takes a record.
Expire(id) ==
    /\ records[id] # Gone
    /\ Consume(id)
    /\ UNCHANGED <<accounts, advanced, settings, claims, failed, req, history>>

\* Throttle and lockout run out.
ForgetFailures(u) ==
    /\ claims[u] # 0 \/ failed[u] # 0
    /\ claims' = [claims EXCEPT ![u] = 0]
    /\ failed' = [failed EXCEPT ![u] = 0]
    /\ UNCHANGED <<accounts, advanced, settings, records, req, history>>

ChangePassword(u) ==
    /\ "password" \in moving /\ password[u] < MaxPassword
    /\ password' = [password EXCEPT ![u] = @ + 1]
    /\ UNCHANGED <<active, passkeyOnly, enabled, advanced, settings, redis, req, history>>

ToggleUser(u) ==
    /\ "user" \in moving
    /\ active' = (active \ {u}) \cup ({u} \ active)
    /\ UNCHANGED <<password, passkeyOnly, enabled, advanced, settings, redis, req, history>>

\* A credential is disabled or deleted, or enabled again (see LoginFloor).
ToggleCredential(c) ==
    /\ "credential" \in moving
    /\ enabled' = (enabled \ {c}) \cup ({c} \ enabled)
    /\ UNCHANGED <<active, password, passkeyOnly, advanced, settings, redis, req, history>>

TogglePasskeyOnly(u) ==
    /\ "passkey_only" \in moving
    /\ passkeyOnly' = (passkeyOnly \ {u}) \cup ({u} \ passkeyOnly)
    /\ UNCHANGED <<active, password, enabled, advanced, settings, redis, req, history>>

ToggleKnob(k) ==
    /\ k \in moving
    /\ on' = (on \ {k}) \cup ({k} \ on)
    /\ UNCHANGED <<accounts, advanced, moving, rp, redis, req, history>>

ChangeRp ==
    /\ "rp" \in moving
    /\ rp' \in SiteRps
    /\ UNCHANGED <<accounts, advanced, moving, on, redis, req, history>>

\* Of a bound an instance may begin with a part spent.
Init ==
    /\ moving \in Changes
    /\ active = Users /\ enabled = Credentials /\ passkeyOnly \in {{}, Users}
    /\ password = [u \in Users |-> 0]
    /\ count \in [Credentials -> Counts] /\ flagged = {}
    /\ uv \in SUBSET Credentials
    /\ on \in {Knobs \ {"disable_user_pass_login", k, f} :
                k \in {"login_with_passkey", "passkey_as_second_factor", "disable_user_pass_login"},
                f \in {"passkey_sign_count_hard_fail", "disable_user_pass_login"}}
    /\ rp \in Rps
    /\ records = [id \in Ids |-> Gone]
    /\ claims = [u \in Users |-> 0] /\ failed = [u \in Users |-> 0]
    /\ req = [w \in Workers |-> Idle]
    /\ roots \in 0..MaxRoots /\ tries = [r \in Roots |-> 0] /\ sessions = << >>

FirstLeg == \E b \in Browsers :
    \/ BeginLogin(b) \/ FallbackToOtp(b)
    \/ \E u \in Users : LoginWithPassword(b, u) \/ CorePasswordLogin(b, u)

RedisStep(w) ==
    \/ ConsumeCeremony(w) \/ ReadUvSetup(w) \/ CheckPassword(w) \/ ConsumeUvSetup(w)
    \/ ReadOtpMarker(w)

Decide(w) ==
    \/ FailLogin(w) \/ PassLogin(w) \/ PassUvSetup(w)
    \/ FailSecondFactor(w) \/ PassSecondFactor(w) \/ PassOtp(w)

Change ==
    \/ \E id \in Ids : Expire(id)
    \/ \E u \in Users :
         ForgetFailures(u) \/ ChangePassword(u) \/ ToggleUser(u) \/ TogglePasskeyOnly(u)
    \/ \E c \in Credentials : ToggleCredential(c)
    \/ \E k \in Knobs : ToggleKnob(k)
    \/ ChangeRp

Next ==
    \/ FirstLeg
    \/ \E w \in Workers : RedisStep(w) \/ Decide(w) \/ Abandon(w)
    \/ Change

Spec == Init /\ [][Next]_vars

-----------------------------------------------------------------------------
(* What must hold.                                                         *)

SessionRecords ==
    [root : Roots, by : {"password", "otp"}, user : Users, browser : Browsers,
     began : Browsers]
    \cup
    [root : Roots, by : {"login", "uv_setup", "second_factor"}, user : Users,
     browser : Browsers, began : Browsers, cred : Credentials, count : Counts]

LoginRecords == [type : {"login"}, root : Roots, binder : Browsers, rp : Rps]
SecondFactorRecords ==
    [type : {"second_factor"}, root : Roots, binder : Browsers, rp : Rps, user : Users,
     version : 0..MaxPassword, allow : SUBSET Credentials, attempts : 0..(MAX_ATTEMPTS - 1),
     fallback : BOOLEAN]
UvSetupRecords ==
    [type : {"uv_setup"}, root : Roots, binder : Browsers, rp : Rps, user : Users,
     cred : Credentials, count : Counts]
OtpRecords ==
    [type : {"otp"}, root : Roots, binder : Browsers, user : Users, version : 0..MaxPassword]
Records == LoginRecords \cup SecondFactorRecords \cup UvSetupRecords \cup OtpRecords

Serving(ops, rs) ==
    [op : ops, id : Ids, rec : rs, browser : Browsers, rp : SiteRps,
     password : [Users -> 0..MaxPassword], twoFactor : BOOLEAN]
Requests ==
    Serving({"verify_login"}, LoginRecords)
    \cup Serving({"verify_second_factor"}, SecondFactorRecords)
    \cup Serving({"uv_setup", "uv_known", "uv_won"}, UvSetupRecords)
    \cup Serving({"otp", "otp_vetoed"}, OtpRecords)

\* Every variable keeps its type; a request holds a record of its own kind.
TypeOK ==
    /\ active \subseteq Users /\ passkeyOnly \subseteq Users
    /\ password \in [Users -> 0..MaxPassword]
    /\ enabled \subseteq Credentials /\ flagged \subseteq Credentials /\ uv \subseteq Credentials
    /\ count \in [Credentials -> Counts]
    /\ moving \in Changes /\ on \subseteq Knobs /\ rp \in SiteRps
    /\ records \in [Ids -> Records \cup {Gone}]
    /\ claims \in [Users -> 0..PASSWORD_LIMIT] /\ failed \in [Users -> 0..MaxFailed]
    /\ req \in [Workers -> Requests \cup {Idle}]
    /\ roots \in 0..MaxRoots /\ tries \in [Roots -> Nat]
    /\ sessions \in Seq(SessionRecords)

\* What one sign-in can lead to, whatever requests race for its records.
\* Ceremonies, UV setups and OTP markers are single-use: one session at most;
\* binder_matches: in the browser that began it, through the step-up and every
\* re-armed attempt; and one right password buys at most
\* SECOND_FACTOR_MAX_ATTEMPTS passkey attempts.
OneSession ==
    \A i, j \in DOMAIN sessions : i # j => sessions[i].root # sessions[j].root
EndsWhereItBegan ==
    \A i \in DOMAIN sessions :
        "cred" \in DOMAIN sessions[i] => sessions[i].browser = sessions[i].began
AttemptsCapped == \A r \in Roots : tries[r] <= MAX_ATTEMPTS

SignInsEndOnce == OneSession /\ EndsWhereItBegan /\ AttemptsCapped

NewSession == sessions'[Len(sessions')]
Minted == sessions' # sessions

\* advance_credential: a session's counter is above those of all earlier sessions
\* of its credential, unless the authenticator counts nothing; a regression is
\* flagged, and passes only where hard fail is off when it is judged.
SignCountsRise ==
    [][Minted /\ "cred" \in DOMAIN NewSession =>
         \A i \in DOMAIN sessions :
           LET s == sessions[i]
               t == NewSession
           IN  "cred" \in DOMAIN s /\ s.cred = t.cred =>
                 \/ t.count > s.count
                 \/ s.count = 0 /\ t.count = 0
                 \/ ~ HardFail /\ t.cred \in flagged']_vars

\* uv_initialized is set, and a credential without it signs in, only together
\* with the password: a browser that does not know it needs an initialised one.
PossessionIsNotEnough ==
    [][/\ Minted => \/ NewSession.began \in Knows
                    \/ "cred" \in DOMAIN NewSession /\ NewSession.cred \in uv
       /\ uv' # uv => Minted /\ NewSession.browser \in Knows]_vars

\* The request that mints the new session.
Minting(w) == Minted /\ req[w] # Idle /\ req'[w] = Idle

\* What changed between the legs of a sign-in mints nothing: a disabled user or
\* passkey by the locked rows (lock_enabled_user, lock_credential), another RP
\* ID or password by what the second leg finds in its snapshot.
NothingStaleMints ==
    [][\A w \in Workers : Minting(w) =>
         /\ "cred" \in DOMAIN NewSession =>
              /\ NewSession.user \in active /\ NewSession.cred \in enabled
              /\ RpOf[NewSession.cred] = req[w].rp
         /\ NewSession.by \in {"second_factor", "otp"} =>
              req[w].password[NewSession.user] = req[w].rec.version]_vars

\* docs/security.md, "Password rotation is checked at the session boundary": the
\* hash of the first leg is the current one when the second leg mints.  It does
\* not hold: _password_version reads without a lock, so a change committed
\* after the request's first read is not seen.
PasswordCurrentAtMint ==
    [][\A w \in Workers : Minting(w) /\ NewSession.by = "second_factor" =>
         password[NewSession.user] = req[w].rec.version]_vars

-----------------------------------------------------------------------------
(* What it implements.                                                     *)

\* The records there are, and the requests that have consumed theirs; a request
\* that has only read one may still find it taken.
Stored == {id \in Ids : records[id] # Gone}
Holding == {w \in Workers : req[w].op \in {"verify_login", "verify_second_factor", "uv_won"}}

\* A record as the sign-in it carries, and the browser that began it; a session
\* by a passkey is of the browser it ends in.  A one-time-code marker is bound to
\* no browser: of its session only the single use is claimed.
Carries(r) == [id |-> r.root, terms |-> r.binder]
Ends(s) == [id |-> s.root, terms |-> IF "cred" \in DOMAIN s THEN s.browser ELSE s.began]
Pending == {Carries(records[id]) : id \in Stored} \cup {Carries(req[w].rec) : w \in Holding}
Used == [i \in DOMAIN sessions |-> Ends(sessions[i])]

Single == INSTANCE SingleUse
    WITH Terms <- Browsers, begun <- roots, pending <- Pending, used <- Used

\* One sign-in, one session, by way of whatever ceremonies, re-armed states, UV
\* setups and one-time-code markers (consume_ceremony, consume_uv_setup,
\* consume_otp_fallback); and by a passkey, in the browser that began it
\* (binder_matches).
ImplementsSingleUse == Single!Spec
=============================================================================
