# Verification of Passkeys for Frappe

TLA+ specifications of this app's server, of its console commands and of its login page, the TLC
instances that model-check them, and theorems about them that TLAPS proves for every value of their constants.

Passkeys adds WebAuthn to a Frappe site: sign-in with a passkey, a passkey as the second factor
after the password, confirmation of dangerous actions, enrollment with an enforcement policy,
and the administration of all of it. Nothing of it runs alone. Requests are served by several
worker processes, each request is one InnoDB transaction (REPEATABLE READ), and what must survive
between the two requests of a ceremony lives in Redis, where it may expire or be evicted at any
moment. The specifications are about what that setting makes hard: overlapping requests,
snapshots that are older than the rows they are compared with, records that two requests race
for, and settings that change half way.

## Inventory

Paths are relative to `passkeys/`.

| Component | State it keeps | Operations | Interacts with | What is hard | What makes it correct |
|---|---|---|---|---|---|
| Login floor: `lock_login_floor`, `_guard_last_credential`, `_guard_last_login_method`, `set_passkey_only_login`, settings `validate`, `guard_system_settings`, `remove_stale_passkeys` | WebAuthn Credential and User Handle rows, Passkey Settings, System Settings | delete, disable, enable, register, flag, save, bulk removal | every writer of one input of the floor | row locks in a global order, stale snapshots, guards that each read what the other writes | a passkey-only account keeps a usable passkey; a flag implies a mode; second factor implies core two-factor; no circular wait |
| Ceremony store, `state.py` | Redis keys: ceremonies, UV setups, OTP markers, grants, windows, counters, claims | store, consume (GETDEL), count, claim (SET NX) | all ceremonies | duplicates, expiry, eviction | single use |
| Sign-in, `passkey.py`, `ceremony.py`, `auth_hooks.py` | ceremony records, sign counts, `uv_initialized`, sessions | begin and verify login, UV setup, second factor, fallback to OTP, final veto | core's LoginManager and two-factor | two legs, races for a record, changes between the legs, retries | one session per sign-in, counts rise, possession alone is not enough, changed inputs fail closed |
| Sudo windows and grants, `session.py`, `confirm.py` | windows and grants in Redis, action policies | seed, re-authenticate, confirm, consume | protected endpoints of other apps | replay, workers on different releases, a throttle that must count first | one gesture, one action, as shown; the consumer's policy decides |
| Registration, `api/registration.py` | ceremony, handle row, credential rows | begin, verify | settings, login floor | several ceremonies at once, unique index, handle deleted meanwhile | cap, one row per ceremony, external login only for the first passkey |
| Credential list, `api/credentials.py` | labels | list, rename | - | nothing concurrent | - |
| Cadence and enforcement, `boot.py`, `passkey.record_*`, `notifications.py`, `enforcement_admin.py` | per-user Defaults rows, Redis claims | nudge, defer, incapable, reset, exempt | desk boot, administrators | read-modify-write from several tabs | nothing lost, one defer per session, budget |
| Enforcement preview, `boot.refresh_enforcement_preview`, `passkey_settings.js` | a Redis hash, a queue of background jobs | queue, begin scan, publish, poll | settings form | out-of-order jobs, eviction, a full queue | no older count replaces a newer one; a queued recount reaches the form |
| Policy, `policy.py` | none | RP ID, origins, sign counts, UV outcome | everything above | staleness, boundaries | - |
| Stale passkeys, `rp_admin.py` | none | summary, impact, removal | login floor | RP ID changes under it | the floor |
| User life cycle, `passkey.py:30-58`, `boot.py:193-208` | rows of a user | delete, rename, merge | core's User | ordering against requests in flight | rows and handles belong to accounts that exist, nothing is left but by what is in flight |
| Export, uninstall and import, `install.py` | a signed file, the two tables | export, refuse, drop, restore | handles, credentials, a live site | one long transaction, an old snapshot, a run that fails and is tried again | nothing dropped that is not in the file, nothing restored but what was exported, no passkey without its handle |
| Posture, `posture.py` | none | report | both settings documents, core's login methods | five documents saved one by one, accounts that have no password, reads that fail | the verdict names every way around a passkey; who can sign in still can, or is one of the accounts the docs warn of |
| WebAuthn engine, `engine.py` | none | adapters over py_webauthn | - | - | - |
| Login page, `passkey_login.bundle.js`, `passkey_common.bundle.js` | ceremony, status line, WebAuthn call, shared re-begin | click, autofill, page restore, verify, re-arm, step-up | sign-in endpoints, the browser | promises that settle in any order, aborted calls | one call at a time, gestures on fresh ceremonies, progress ends |
| Rest of the browser client, `public/js` | page state | confirmation replay, second-factor dialog, management | endpoints | double submission | - |
| Well-known documents, AAGUID table, shims, errors, hooks, patches | none | lookup | - | - | - |

## Modules

| Module | Models | Composed with |
|---|---|---|
| `LoginFloor` | the rows, settings and locks behind "nobody is locked out" | `LoginFloorProofs` extends it |
| `SingleUse` | abstract: what the records in Redis promise together | implemented by `LoginCeremonies`, `ConfirmationGrants` and `Enrollment` |
| `LoginCeremonies` | sign-in from the first leg to the session | `LoginCeremoniesProofs` extends it |
| `ConfirmationGrants` | sudo windows, confirmation, grants, throttle | `ConfirmationGrantsProofs` extends it |
| `Enrollment` | registration of a passkey; accounts deleted, renamed and merged under it | `EnrollmentProofs` extends it |
| `EnrollmentCadence` | prompts, defers, advisories; the rows of accounts that come and go | `EnrollmentCadenceProofs` extends it |
| `PreviewBoard` | abstract: what the preview promises | implemented by `EnforcementPreview` |
| `EnforcementPreview` | queue, jobs, Redis hash, form | `BrowserProofs` extends it |
| `CredentialArchive` | export, uninstall and import from a console, against a live site | `CredentialArchiveProofs` extends it |
| `SitePosture` | who can sign in how, under all settings together, and what the panel says of it | `SitePostureProofs` extends it |
| `LoginPage` | the script of the login page | `BrowserProofs` extends it |
| `MC...` | constants, families of instances and symmetry for TLC | one per module above |

The modules meet at rows and records. What one module models in full is an unconstrained change
in the others: a credential is enabled and disabled freely in `LoginCeremonies`
(`ToggleCredential`), under guards in `LoginFloor`; a settings save is one step in
`LoginCeremonies` and `Enrollment`, a request with locks in `LoginFloor`, one guarded step in
`SitePosture`. The unconstrained change allows more, so what holds there holds with the guarded
one.

### How the code becomes state and actions

* **A request** is a record in `req[w]`, one per worker `w`. An endpoint is split where another
  request can come between: at each locking read, and where a Redis call has been made and the
  database has not. Everything after the last lock is one action, because nothing it reads can
  change before the commit.
* **Locks** (`LoginFloor`): `Locks(r)` is the sequence of row sets that a request locks, in the
  order of the code. `Acquire` takes the next set when nobody else holds a row of it and reads
  it. A transaction keeps its locks to the end. Forms saved from Desk lock the saved row first
  (`frappe.Document.check_if_latest`), endpoints lock settings first.
* **Plain reads** are taken from the snapshot: the RP ID and the System Settings that a floor
  request reads without a lock are fixed in its record when it begins; the password hash and RP
  ID of a sign-in are fixed when `ConsumeCeremony` (or its counterpart) takes the snapshot.
* **Redis records** are functions from ids to records or `Gone`. Consuming removes; `Expire`
  removes at any moment.
* **Refusals** change nothing or end the request (`Rollback`, `Abandon`, `Fail...`); whatever had
  been done to Redis by then stays done.
* **Cryptography** is an outcome: an assertion is good or not, and carries the counter and UV bit
  that TLC chooses. Challenges and ids are fresh.
* **Merging and renaming** are framework operations around the app's hooks: core re-points the
  links to the User (`Repoint`), the hooks move or refuse what is not a link. A merge is two steps,
  the count of `refuse_enrolled_user_merge`, which locks nothing, and the rename itself.
* **A console command** (`CredentialArchive`) is one transaction that works row by row: its plain
  reads see `console.seen`, its locking reads and the unique indexes see what is committed. When an
  exception leaves it, its rows stay until it is tried again or rolled back.
* **The login page** is one thread. A step of `LoginPage` is a task: an event, or a settled
  promise with the reaction registered on it. The answer to `begin_login` has a reaction for each
  caller that shares it; they follow one step each (`React`), before anything else (`Free`). The
  script's functions are functions from `page` to `page`; an aborted `get()` rejects after the task
  that aborted it (`Task`). Its formulas are called `PageInit`, `PageNext`, ... because one module of
  proofs extends it along with `EnforcementPreview`.
* **Authorisations** (`SingleUse`) abstract from the legs of a protocol: what was begun is pending,
  wherever the records, tokens and requests that carry it are, until it is used once, for what it
  was begun for, or lost. A sign-in maps to one for its browser (by way of the one-time code the
  browser is the one it began in, wherever it ends), a gesture of confirmation to one for
  its session, action and payload, a registration to one for its account, class of window, RP ID
  and handle.
* **Instances by family.** Where everything changing at once is too much for TLC, one variable that
  no action changes (`ops`, `moving`, `asked`) says what moves in a behaviour, and the MC module
  lists the families. Each family is a run of its own inside one check, and the specification, which
  the proofs use, allows any set.
* **History variables** (`sessions`, `done`, `proofs`, `guesses`, `spent`, `mailed`, `severed`, `registered`,
  `touched`, `auto`, `overtaken`, ...) record what properties speak about and are read by no guard
  but the bounds.

Operators marked "Mutant" in a comment are not part of a specification. Each is a variant of the
definition that follows it, with a plausible mistake; substituted for it, the property it is
paired with in `PROJECT.json` fails. They show that the properties depend on the code.

## What TLC checks

State counts are for the instances below; each run takes one to two and a half minutes with two
TLC workers. Workers (and, where the constants treat them alike, credentials, sessions, accounts,
payloads or RP IDs) are symmetry sets, in runs without liveness properties only.

| Run | Instance | States | Shows |
|---|---|---|---|
| `floor` | 1 user, 2 passkeys, 2 workers; every request on the account and the settings, or the endpoints while the RP ID changes | 1.0 M | `FloorKept`, `PasswordlessFloorKept`: overlapping deletes, disables, flags, saves and deletions never take the last way in. `SettingsFloors`: two settings documents that validate against each other. `NoCircularWait`: endpoints follow one lock order |
| `login` | 1 passkey, 2 browsers of which one's user knows the password, 2 workers; 2 sign-ins racing, or 1 with 3 attempts while password, ways to sign in and RP ID change, with either user and credential or the second-factor setting | 1.3 M | `SignInsEndOnce`: one session, by a passkey only in the browser that began, after a bounded number of attempts. `SignCountsRise`, `PossessionIsNotEnough`, and `NothingStaleMints`: what was changed or disabled in between mints nothing. `ImplementsSingleUse`: a sign-in is a single-use authorisation of its browser, over both legs and retries; the one-time code's marker is bound to no browser (`auth_hooks.py:119-149`), and of it only the single use is claimed |
| `login_rotation` | 1 worker, 1 password change | - | violated: see Findings |
| `grants` | 2 payloads, 2 workers; two sessions, or one with workers on any releases | 1.7 M | `ImplementsSingleUse`: a gesture is a single-use authorisation of what was shown, from ceremony over grant to action. `ConsumerDecides`: the release that acts has the last word on policy |
| `sudo` | 2 sessions and an impersonated one, sign-out, expiry, throttle of 1 | 1.7 M | `WindowIsEarned`, `ThrottleHolds`, `UvFlipNeedsPassword` |
| `enroll` | 2 sessions of one account or two, 2 ceremonies, cap 1 or 2; windows, rows, handles, settings (of two accounts, one with an external window) or the accounts change | 795 k | `CapKept`, `ExternalOnlyFirst`. `ImplementsSingleUse`: a ceremony registers once, for the account and on the terms it began with, even if the row is deleted in between. `CarriesHandle`: a passkey names the handle by which a sign-in finds its account, but for those of a ceremony that was under way when the account lost it |
| `cadence` | 2 sessions, 2 workers, one grace login, a claim that may lapse once, accounts that move | 1.5 M | `NothingLost`, `NothingTwice`; `OnlyInFlightSlips`: budgets are exceeded, and rows of missing accounts left, by no more than what is in flight |
| `cadence_budget` | the same, defers and reports only | - | violated: see Findings |
| `preview` | 2 policies, 3 jobs, 3 recounts, eviction, a full queue | 88 k | `SettledIsNew`; `EnforcementPreview` implements `PreviewBoard`; `CountArrives`, in the hash: that the form polls ten times only (`passkey_settings.js:202`) is not modelled |
| `import` | 2 accounts, 2 passkeys, 4 console commands, six families of changes meanwhile | 1.3 M | `ArchiveIsComplete`, `CarriesHandle`, `RestoredCanSignIn` |
| `posture` | Administrator and a user with a password, LDAP or both, which come and go; two hosts, seven addresses | 111 k | `VerdictIsHonest`, with any reads failing and after any edit of `host_name`; `SavedSettingsWork`, of saves; `NobodyStranded`, but for the accounts named under Findings |
| `page` | 4 ceremonies, 4 deeds of the user | 80 k | `Orderly`: one WebAuthn call at a time, the one the script can abort, and one automatic re-begin per deed. `GestureIsFresh`. `ProgressEnds` |

`LoginFloor`, `LoginCeremonies`, `ConfirmationGrants`, `Enrollment`, `EnrollmentCadence`,
`EnforcementPreview` and `CredentialArchive` have a type invariant, checked in one run each. Where
it says more than the sets (a claims counter that never passes its limit, a lock held by exactly
the request that has read under it, unique indexes), a comment says so.

**Bounds.** Two workers are enough for every race between two requests, and every race the code
guards against is one of two requests (the guards name them: overlapping removals, a save against
a flag, two completions of one setup). Two passkeys are the smallest number with "another one
survives"; two RP IDs the smallest with a stale one; two ceremonies against a cap of one the
smallest that could exceed it; two accounts the smallest that can be merged; two sessions the
smallest where a grant or a window could leak from one into the other; four console commands an
export that is imported, an uninstall that exports the result, and an import of that; four deeds on the login
page a failure, its retry, and another attempt while the retry is under way. `MaxRoots`, `MaxGestures`,
`MaxCalls`, `MaxHandles`, `MaxPassword`, `MaxCount`, `MaxEpochs`, `MaxShown`, `MaxLapses`,
`MaxMoves`, `MaxScans`, `MaxCommands`, `MaxBegins` and `MaxDeeds` are named in the CONSTANTS of
their modules and only stop counters. Runs that set `CHECK_DEADLOCK FALSE` stop when those bounds
are spent; the others are checked for deadlock.

**Fairness.** Two specifications state it. In `EnforcementPreview` some worker of the queue takes
what is queued (weak fairness of *some* `StartScan`, since which worker does is the queue's choice)
and a worker that runs a job runs it to the end: both are what rq promises of a queue with a worker.
A killed worker, a lost hash and a save that finds the queue full are not excluded; they flip
`fault`, and `CountArrives` excuses exactly the recounts they hit. In `LoginPage` every request is
answered or fails, a modal WebAuthn dialog ends by its timeout, and the reactions to a settled
promise run (`React`), all of which the browser guarantees; the user owes nothing. For the rest, that a request ends follows from the database (a lock-wait timeout
or the deadlock detector ends a wait) and not from this code, so it would show nothing about it;
`NoCircularWait` is the part that the code is responsible for.

### Findings

* `login_rotation`: `docs/security.md:122-124` says that a password change during a
  password-to-passkey ceremony fails closed. `_password_version` (`passkey.py:527`) is a plain
  read, in a transaction whose snapshot an earlier read of the request (`read_rp_settings` through
  `require_current_rp`) has already set. A change committed in between is not seen.
  `NothingStaleMints`, which does hold, has the guarantee the code gives: the hash of leg one is
  the one leg two's snapshot found.
* `cadence_budget`: `docs/configuration.md:68` describes the grace budget as how many sign-ins
  may be deferred before the prompt blocks. `record_enforcement` decides before it takes the lock
  and does not look again, so sessions that read the last grace login together all spend it.
  `OnlyInFlightSlips` bounds the excess by the requests in flight.

Noticed, and left out of the properties by a named exception:

* `passkey_login.bundle.js:346-350`: an autofill attempt whose ceremony had expired is re-armed
  without touching the status line, which goes on saying "Verifying" although nothing is under way;
  the handler has claimed the outcome, so `finishVerify` does not correct it. Line 286 says that an
  outcome "must not leave 'Verifying...' up", `tests/js/passkey_login_verify.test.js:9-11` that the
  finalizer downgrades what is "still stuck mid-progress". `ProgressEnds` holds but for this
  (`silent`); without the exception TLC finds it in a few steps.
* The same file, lines 138-149: when two failures share one re-begin (the user tried again, from the
  keyboard, while the first verification was slow), autofill is started twice. The rejection of the
  first call then clears `conditionalAbort`, which is the second call's: the next click cannot abort
  it and the calls overlap, which line 117 and line 202 mean to prevent. `Orderly` holds where no
  second attempt is made during the first (`overtaken`).
* The same file, line 376: an expired password step-up asks for "failed" from "idle", which
  `LOGIN_TRANSITIONS` does not allow, so the dialog closes and nothing is shown.
* Nothing locks the RP ID (`site_config.json` cannot be locked), so a removal that read it before a
  change takes as stale a passkey that the change makes count: `docs/security.md:385-391` states this
  residual risk and its recovery. `FloorKept` and `PasswordlessFloorKept` speak of the steps in which
  no running request works with an RP ID read before a change (`RpSettled`).
* `webauthn_user_handle.json:24` calls the handle "immutable forever", and a handle deleted between
  the two registration requests is made anew by the second, while the authenticator keeps the first:
  `CarriesHandle` excepts these (`severed`).
* An account need not have a password: it may sign in by social login, LDAP or an email link alone.
  The second factor comes after the account's own password (`login_with_password`,
  `passkey.py:320`), so a save that turns passwordless sign-in off and leaves the second factor on
  locks such an account out once it has a passkey, and so does its first passkey on a site with the
  second factor alone. The docs say so (`docs/configuration.md:187`, `docs/security.md:400-403`), and
  `posture.py:144-148` warns of it; nothing refuses it. `NobodyStranded` excepts exactly these
  accounts (`NeedsPassword`).
* Three steps look at the site and not at the account, and can take the last way of one that core
  leaves none (`NotGuarded`): the last passkey mode is turned off (`passkey_settings.py:129-148` guards
  passkey-only accounts and nobody else); core's password switch is, for an account without a
  passkey (`guard_system_settings` guards the second factor only); or an account without a password
  removes its last passkey while the site has passwords on. `_guard_last_login_method` means to refuse
  a removal "when the owner would then have no login method", and takes the site's switch for the
  account's password (`webauthn_credential.py:110-123`).
* An import restores passkeys whose handle it has found on the site, and the handle may be deleted
  from Desk before the import commits. The next export has these passkeys without a handle, and an
  import into empty tables rejects them (`install.py:357`), for an account that is there and enabled.
  `ArchiveIsComplete` excepts them (`severed`).
* What is registered after the export of an uninstall and before its tables are dropped is in no
  file (`install.py:85`). `ArchiveIsComplete` excepts what was touched meanwhile.
* On a site that has the passkey as second factor, accounts without a passkey sign in with the
  password, and the panel does not count that as a way around a passkey: `VerdictIsHonest` speaks of
  the accounts meant to use one. It names the one-time-code fallback also where password login is
  off and nobody can get to it, which is on the safe side.

## What TLAPS proves

Every invariant, every safety property of the actions and every refinement that the passing runs
check is a theorem. Each invariant `IInv` below was checked by
TLC on the instance of its run before it was proved, and each theorem is proved for any constants
that meet the assumption of its module: things of different kinds have different names, every
credential has an owner and an RP ID, bounds are numbers, and, where requests are counted, workers
are finitely many. What has to be added to the properties to make them inductive is said in each case.

`LoginFloorProofs` (for all users, credentials, RP IDs and workers):

| Theorem | Statement |
|---|---|
| `TypeCorrect` | `Spec => []TypeOK` |
| `SettingsFloorsHold` | `Spec => []SettingsFloors`, the conjunction of `ModeFloor` and `SecondFactorFloor` |
| `LoginFloorKept` | `Spec => FloorKept` |
| `PasswordlessFloor` | `Spec => PasswordlessFloorKept` |
| `LockOrderIsDeadlockFree` | `Spec => []NoCircularWait` |

None of the floors is inductive: whether a guard may commit depends on what the request has read,
and a floor says nothing about that. The invariant is

    IInv == TypeOK /\ MutualExclusion /\ SeenIsCurrent /\ ModeFloor /\ SecondFactorFloor

`MutualExclusion`: no row is held by two workers. `SeenIsCurrent`: what a worker has read of the
rows it holds is what is set in them now. The argument has three parts. Each commit writes only
rows that its request holds (`HeldAtDecision`), so by mutual exclusion it changes nothing that
another worker has read (`HeldFrame`, `CommitFrame`, `LockingStep`), which keeps `SeenIsCurrent`.
With it, the census that a guard counts is the set of usable passkeys (`CensusIsUsable`), so a
guard that lets a removal pass leaves another passkey (`GuardedRemoval`, `GuardedBulkRemoval`).
The action properties follow from the invariant by cases over the commits (`FloorCommit`).
`NoCircularWait` holds for any number of workers: one that has its handle waits for that account's
credentials only, and nobody holds one of these without the handle (`HandleWithCredential`); where
there is no such worker, only the one past the site's mode lock holds anything (`SiteLockFirst`). The only
assumption on the constants is that every credential has an owner and an RP ID and that `NoRp` is
not an RP ID.

`BrowserProofs`, the preview (for all policies, jobs and numbers of scans):

| Theorem | Statement |
|---|---|
| `TypeCorrect` | `Spec => []TypeOK` |
| `FormWaitsForNew` | `Spec => []SettledIsNew` |
| `BoardImplemented` | `Spec => ImplementsBoard`, a refinement of `PreviewBoard` |

Its invariant adds to the shapes that the hash, each running job and the form carry only scan
numbers that their epoch has handed out (`HashNumbered`, `JobsNumbered`, `FormNumbered`); with
them a job whose epoch is current and whose number is not lower publishes a count that the board
may show, and a job of an earlier epoch publishes nothing.

`BrowserProofs`, the login page (for any number of ceremonies and deeds of the user):

| Theorem | Statement |
|---|---|
| `GesturesFresh` | `PageSpec => GestureIsFresh` |
| `PageOrderly` | `PageSpec => []Orderly` |
| `ProgressPursued` | `PageSpec => []ProgressIsReal`, the safety half of `ProgressEnds` |

The first needs `Newest`: the ceremony of the page is the newest one, it is marked spent if anything
of it was sent to be verified, and reactions are due only to a ceremony that is fresh. A relation
`Asks` says what each function of the script may ask for ("a modal call only on a ceremony that needs
no re-begin"); it is transitive, so a task inherits it from the functions it is made of. For the
second, the parts of an attempt are a call, a verification, the uv-setup dialog, a re-begin and the
reactions due. While the user waits for one attempt (`Calm`) they exclude each other (`OneAttempt`),
an open call is the one the script holds (`Holds`), only clicks join a re-begin
under way (`Sharing`), and an automatic one stands alone and is counted on its ceremony (`Counted`).
None of the four is inductive without the others. `ProgressIsReal` says that the status line is in progress
only while something that can decide the attempt is under way, but for the exception of `ProgressEnds`
(`silent`). Its invariant `Pursuit` says what that is in each case, and needs that the script never
aborts a dialog it counts as busy (`Sound`); `Pursues` collects what each function of the script keeps.
With it, what `ProgressEnds` leaves to TLC is that dialogs and requests end.

`EnrollmentProofs` (for all accounts, credentials, sessions, workers, RP IDs, caps and families):

| Theorem | Statement |
|---|---|
| `TypeCorrect` | `Spec => []TypeOK`, which has a credential in one row only, whoever presents it |
| `CapAlwaysKept` | `Spec => []CapKept` |
| `OneRow` | `Spec => []OneRowPerCeremony` |
| `HandleCarried` | `Spec => []CarriesHandle` |
| `ExternalIsFirst` | `Spec => ExternalOnlyFirst` |
| `EnrollmentsAreSingleUse` | `Spec => ImplementsSingleUse`, a refinement of `SingleUse` |

The invariant is

    IInv == TypeOK /\ OfTwo /\ OnePlace /\ Promised /\ CarriesHandle /\ IsFiniteSet(rows) /\ CapKept

`OnePlace`: a ceremony is in one place at a time, stored in Redis, in the hands of one worker, or as
one row. That is what single use comes to once requests run side by side: `OneRowPerCeremony`, that
no two rows come from one ceremony, follows from it, and so does the refinement. There the rows say
too little, since a row can be deleted and its ceremony used again; so `registered` keeps what each
insertion was for, and a step that consumes a record for the worker that presents it leaves what is
pending as it was, one that inserts a row takes it out (`InsertIsUse`), and one that refuses, expires
or abandons it loses it. `Promised`: a ceremony that is stored or being verified names the handle its
account has, or is marked as severed from it. A row is inserted from such a record, which keeps
`CarriesHandle`; renames and merges keep it because handle and rows move together
(`RepointStep`). `CapKept` needs it in turn. An insertion counts the rows it has locked, but a merge
counts nothing: it goes through because the unique index refuses it where both accounts have a
handle, and an account without a handle has, by `CarriesHandle`, no rows (`NoHandle`), so a merge
adds none (`MovedCount`). `OfTwo` says that the two accounts of a merge differ. No assumption is made but
those on the bounds in `Enrollment`; that `rows` is finite is part of the invariant because
cardinalities say nothing of infinite sets.

`ConfirmationGrantsProofs` (for all accounts, sessions, workers, payloads, releases and bounds):

| Theorem | Statement |
|---|---|
| `TypeCorrect` | `Spec => []TypeOK` |
| `GestureSpentOnce` | `Spec => []OneGestureOneAction` |
| `GestureAsConfirmed` | `Spec => []ActsAsConfirmed` |
| `PolicyOfConsumer` | `Spec => []ConsumerDecides` |
| `WindowsEarned` | `Spec => []WindowIsEarned` |
| `ThrottleNeverPassed` | `Spec => []ThrottleHolds` |
| `UvAfterPassword` | `Spec => UvFlipNeedsPassword` |
| `GrantsAreSingleUse` | `Spec => ImplementsSingleUse`, a refinement of `SingleUse` |

    IInv == TypeOK /\ OnePlace /\ AsBegun /\ Claimed /\ ConsumerDecides /\ WindowIsEarned

`OnePlace`: a gesture is in one place, stored in Redis (as a ceremony or as a grant), in the hands of
one worker, or in one action. `AsBegun`: whoever names a gesture names the session, action and
payload it was begun with, so what is done with it is what was shown. `Claimed`: wrong guesses made
since the last reset and attempts still under way together are no more than the counter, which is
why counting before checking is enough (`state.claim_password_attempt`). The refinement rests on the
first two: every step begins, uses or loses one authorisation, or leaves what it maps to alone, as
when a ceremony turns into a grant. `OneGestureOneAction` and `ActsAsConfirmed` say the same of the
records themselves.

`LoginCeremoniesProofs` (for all users, passkeys, browsers, workers, RP IDs and bounds):

| Theorem | Statement |
|---|---|
| `TypeCorrect` | `Spec => []TypeOK` |
| `OneSessionPerSignIn` | `Spec => []SignInsEndOnce` |
| `CountsRise` | `Spec => SignCountsRise` |
| `PossessionNeverEnough` | `Spec => PossessionIsNotEnough` |
| `StaleNeverMints` | `Spec => NothingStaleMints` |
| `SignInsAreSingleUse` | `Spec => ImplementsSingleUse`, a refinement of `SingleUse` |

    IInv == TypeOK /\ Known /\ OnePlace /\ EndsWhereItBegan /\ Counted /\ Counters

`OnePlace` again, with one more difficulty: a UV setup is read, its password checked, and consumed
only then, so two workers may be about to win it; only those that have consumed their record count
as holding it (`Holding`). `Counted`: a re-armed second factor carries the attempts its sign-in
has had. `Known`: a record that a password opened is bound to a browser whose user knows it, and
what a request has vetted before it waits for locks stays vetted. `Counters`: the row's counter is
at least that of every session of the passkey, which makes one locked comparison enough for all of
them. New records find an id because every live one has a sign-in or attempt of its own
(`FreshIsFree`, a pigeonhole argument). `OnePlace` and `EndsWhereItBegan` are what the refinement
needs: a sign-in is pending while one place has it, so what takes it out of that place for good
uses or loses it, and a step that hands it on changes nothing that is visible to `SingleUse`.

`EnrollmentCadenceProofs` (for all accounts, sessions, workers, grace budgets and bounds):

| Theorem | Statement |
|---|---|
| `TypeCorrect` | `Spec => []TypeOK` |
| `NothingIsLost` | `Spec => []NothingLost` |
| `NothingIsTwice` | `Spec => []NothingTwice` |
| `OnlyUnderwaySlips` | `Spec => []OnlyInFlightSlips` |

    IInv == TypeOK /\ Held /\ NothingLost /\ DefersClaimed /\ OneAdvisoryPerWindow
            /\ BudgetSlips /\ LeftBehind

`Held`: a request that has the lock of the User row has read the state row as it is, which is what a
read-modify-write needs. `DefersClaimed`: the defers a session has spent and those past their claim
are covered by claims that live or have lapsed. `BudgetSlips` and `LeftBehind` count: a grace row and
the defers that are judged but not written stay together below the budget plus one per worker, and
the same for rows of a name that is gone. A commit moves one from "under way" to "written", so the
sums stay, where `OnlyInFlightSlips`, which has only the rows, would not be inductive.

`CredentialArchiveProofs` (for all accounts, passkeys, RP IDs and numbers of commands):

| Theorem | Statement |
|---|---|
| `TypeCorrect` | `Spec => []TypeOK` |
| `HandleCarried` | `Spec => []CarriesHandle` |
| `NothingLostUnreported` | `Spec => ArchiveIsComplete` |
| `FloorImported` | `Spec => RestoredCanSignIn` |

    IInv == /\ TypeOK /\ CarriesHandle /\ Numbered /\ FileSound /\ FileComplete
            /\ Importing => ImportOK

`ImportOK` is what a console transaction may rely on between two of its rows: it works on rows of the
file (`FromFile`), nothing committed collides with what it wrote (`Unique`, the indexes), its snapshot
is out of date only where `touched` or `severed` say so (`SeenKept`), what it is through with is on
the site, among its own rows, or rejected (`Restored`), and the mode and passkeys it found for a
passkey-only account are under its locks (`FloorKept`, `LockTaken`). The proof corrected the
property: `ArchiveIsComplete` used to say that an import into empty tables rejects nothing of an
enabled account. The step for a passkey whose handle is not in the file could not be proved, and TLC
found why once a fourth console command was allowed; see Findings.

`SitePostureProofs` (for all hosts, addresses, login methods, and accounts with any of core's ways):

| Theorem | Statement |
|---|---|
| `PanelIsHonest` | `Spec => []VerdictIsHonest` |
| `SavesWork` | `Spec => SavedSettingsWork` |
| `NobodyIsStranded` | `Spec => NobodyStranded` |

The invariant is the types, `SecondHasAFirst` and `FlagHasAMode`. The first of these says that a second
factor stands on passwordless sign-in or on passwords: two documents keep it, each under a guard
that reads the other. With it, an account that has a passkey that counts can sign in while a mode is
on, unless it lacks the password that the passkey comes second to. `FlagHasAMode` says that no account is
passkey-only while no mode is on, so that turning the last mode off leaves core's ways open.
For an account without a passkey that counts, `PasskeyLost` says at which step it can have lost it.
`NobodyStranded` is then three cases of the state a step leads to, whatever the step was; `VerdictIsHonest`
is cases over the ways to sign in.

**Only model-checked:** the liveness properties (`CountArrives`, `ProgressEnds`); they and `ENABLED`
are out of the prover's reach. No module uses a recursive operator.

## Not modelled

* Verification of attestations and assertions, CBOR and JSON, translation, layout and wording.
* The syntax of origins and hosts (a host is a sequence of labels in `SitePosture`); rate limits by
  IP (`@rate_limit`), which are core's.
* Dates and role rules of enforcement: the verdict is an input where they decide it.
* The cached settings document: settings are read as committed, except where the code's snapshot
  matters.
* A rename onto a free name that a request in flight has left a state row for: the framework then
  has two DefaultValue rows of one key, and which one is read is not decided by this code.
* The signature of an export, and the versions of its format: a file is what was exported.
* Panel rows that only advise (custom apps, cookies, adoption counts), the credential list, labels.
* In the browser: the second-factor dialog, the replay of a confirmed call, the management pages,
  capability detection and the slow-connection text of the status line.

## Plan

In place: all modules above, and proofs of all of them. What would add most next: the confirmation
replay of `passkey_common.bundle.js:782-940`, composed with `ConfirmationGrants`, as a chain of
calls, each confirmed once, with answers lost on the way; and the second-factor dialog.
