------------------------------ MODULE SitePosture ------------------------------
(***************************************************************************)
(* What the site as a whole lets an account do to sign in, and what the    *)
(* posture panel of Passkey Settings says of it.  Five places decide: the  *)
(* site's address, Passkey Settings, System Settings, the other login      *)
(* methods of core, and the account: its passkeys, and which of core's     *)
(* ways it has at all.  Each is saved on its own, under guards that read   *)
(* the others (LoginFloor has their locks; a save is one step here).       *)
(*                                                                         *)
(* A host is the sequence of its labels from the top level down, so that a *)
(* host is in the scope of an RP ID that is a prefix of it.                *)
(***************************************************************************)
EXTENDS Sequences, SequencesExt, FiniteSets

CONSTANTS
    Hosts,          \* hosts of the site, of origins and of RP IDs
    None,           \* no host_name, no passkey_rp_id, no RP ID
    Users,
    Administrator,
    Providers,      \* core's other login methods: social login, LDAP, ...
    Means,          \* for each user, the sets of core's ways the account may have
    Addresses       \* the RP IDs with their origins that an admin may save

CoreMethods == Providers \cup {"password"}
RpFields == [rpId : Hosts \cup {None}, origins : SUBSET Hosts, app : BOOLEAN]

ASSUME PostureAssumption ==
    /\ None \notin Hosts /\ Administrator \in Users /\ Addresses \subseteq RpFields
    /\ "password" \notin Providers
    /\ Means \in [Users -> SUBSET SUBSET CoreMethods]

VARIABLES
    host,           \* host_name of the site's configuration
    settings,       \* Passkey Settings: modes, RP ID, origins
    core,           \* System Settings that are on
    providers,      \* the other login methods that are on
    keys,           \* the RP IDs of the enabled passkeys of each user
    only,           \* users with passkey_only_login
    means           \* core's ways of each user: a password of his own, or what
                    \* social login, LDAP or an email link know him by

accounts == <<keys, only, means>>
vars == <<host, settings, core, providers, accounts>>

Knobs == {"login_with_passkey", "passkey_as_second_factor", "otp_fallback"}
Switches == {"disable_user_pass_login", "enable_two_factor_auth"}
Settings == [on : SUBSET Knobs, rpId : Hosts \cup {None}, origins : SUBSET Hosts, app : BOOLEAN]
Blank == [rpId |-> None, origins |-> {}, app |-> FALSE]
Form(a, on) == [on |-> on, rpId |-> a.rpId, origins |-> a.origins, app |-> a.app]

First(s) == "login_with_passkey" \in s.on
Second(s) == "passkey_as_second_factor" \in s.on
AnyMode(s) == First(s) \/ Second(s)
Passwords == "disable_user_pass_login" \notin core

-----------------------------------------------------------------------------
(* The RP ID and the origins (policy.py).                                  *)

InRpScope(h, rp) == IsPrefix(rp, h)

ResolveRpId(s) == IF s.rpId # None THEN s.rpId ELSE host

\* The site's own origin when it is in scope, and the listed ones.
SiteOrigin(rp) == {h \in {host} \ {None} : InRpScope(h, rp)}
ResolveOrigins(s, rp) == SiteOrigin(rp) \cup s.origins
ValidWebOrigins(s, rp) == {o \in ResolveOrigins(s, rp) : InRpScope(o, rp)}

\* The RP ID in force: none while no origin is left that could use it.
SiteRpId(s) ==
    LET rp == ResolveRpId(s)
    IN  IF rp # None /\ (s.app \/ ValidWebOrigins(s, rp) # {}) THEN rp ELSE None

\* get_rp_scope_problem: "off" while a mode is on and no RP ID is in force.
Covered(s) == SiteRpId(s) # None

Usable(u) == keys[u] \cap ({SiteRpId(settings)} \ {None})
Enrolled(u) == Usable(u) # {}

-----------------------------------------------------------------------------
(* Signing in (auth_hooks.py, passkey.py).                                 *)

\* on_login_veto: what a login without the app's passkey leg is refused for.
\* Mutant: Administrator is exempt from both.
RestrictedButAdministrator(u) ==
    /\ u # Administrator /\ Enrolled(u)
    /\ Second(settings) \/ u \in only
Restricted(u) ==
    \/ Second(settings) /\ Enrolled(u)
    \/ u # Administrator /\ u \in only /\ Enrolled(u)

\* The ways of core that u has and the site leaves on: a password login
\* authenticates the account's own password.
CoreWays(u) == {m \in means[u] : m \in providers \/ (m = "password" /\ Passwords)}
HasPassword(u) == "password" \in means[u] /\ Passwords

\* Core's one-time code in place of the passkey; core asks no code of
\* Administrator.
OtpInsteadOfPasskey(u) ==
    /\ Second(settings) /\ Enrolled(u) /\ HasPassword(u)
    /\ "otp_fallback" \in settings.on /\ "enable_two_factor_auth" \in core
    /\ u # Administrator /\ u \notin only

\* The stock ways to sign in that are open to u without a passkey.
StockWays(u) ==
    {m \in CoreWays(u) : ~ Restricted(u)}
    \cup {p \in {"otp_fallback"} : OtpInsteadOfPasskey(u)}

\* Passwordless, or a passkey after the password.
PasskeyWays(u) == Enrolled(u) /\ (First(settings) \/ (Second(settings) /\ HasPassword(u)))

CanSignIn(u) == StockWays(u) # {} \/ PasskeyWays(u)

-----------------------------------------------------------------------------
(* The panel (posture.py).                                                 *)

\* build_posture: what it reads of core, where some reads may fail; a failed
\* read counts as if the setting were not there.
Facts(failed) ==
    [passwords |-> Passwords \/ "system" \in failed,
     providers |-> providers \ failed,
     degraded  |-> failed # {}]

\* classify_posture: the rows that say a passkey can be bypassed.
\* Mutant: other methods count only in place of the password.
AlternateIsBypassInstead(facts) == First(settings) /\ ~ Second(settings) /\ ~ facts.passwords
AlternateIsBypass(facts) == First(settings) /\ ~ Second(settings)
AlternateLabels(facts) == {p \in facts.providers : AlternateIsBypass(facts)}
PasswordLabels(facts) ==
    {p \in {"password"} : First(settings) /\ ~ Second(settings) /\ facts.passwords}
    \cup {p \in {"otp_fallback"} : Second(settings) /\ "otp_fallback" \in settings.on}
AdministratorLabel(facts) ==
    {p \in {"administrator"} : Second(settings) /\ facts.passwords /\ ~ Enrolled(Administrator)}
BypassLabels(facts) ==
    AlternateLabels(facts) \cup PasswordLabels(facts) \cup AdministratorLabel(facts)

\* While passkeys are in force the bypasses decide.
ToneInForce(facts) == IF BypassLabels(facts) # {} \/ facts.degraded THEN "high" ELSE "good"
Tone(facts) ==
    CASE ~ AnyMode(settings) -> IF facts.degraded THEN "high" ELSE "info"
      [] AnyMode(settings) /\ ~ Covered(settings) -> "high"
      [] OTHER -> ToneInForce(facts)

-----------------------------------------------------------------------------
(* The saves.                                                              *)

\* _validate_enablement: an RP ID resolves, and every web origin is inside it.
\* Mutant: the origins are checked for their form only.
OriginsValidByForm(s, rp) == ResolveOrigins(s, rp) # {}
OriginsValid(s, rp) ==
    /\ ResolveOrigins(s, rp) # {}
    /\ \A o \in ResolveOrigins(s, rp) : InRpScope(o, rp)

ValidateEnablement(s) ==
    LET rp == ResolveRpId(s)
    IN  rp # None /\ OriginsValid(s, rp)
ValidateInactiveOrigins(s) ==
    LET rp == ResolveRpId(s)
    IN  s.origins # {} /\ rp # None => OriginsValid(s, rp)

\* Mutant: core two-factor is all that the second factor stands on.
SecondFactorFloorTwoFactorOnly(s) == Second(s) => "enable_two_factor_auth" \in core
SecondFactorFloor(s) ==
    Second(s) => (First(s) \/ Passwords) /\ "enable_two_factor_auth" \in core

SavePasskeySettings == \E s \in {Form(a, on) : a \in Addresses, on \in SUBSET Knobs} :
    /\ AnyMode(s) \/ only = {}
    /\ IF AnyMode(s) THEN ValidateEnablement(s) ELSE ValidateInactiveOrigins(s)
    /\ SecondFactorFloor(s)
    /\ settings' = s
    /\ UNCHANGED <<host, core, providers, accounts>>

\* guard_system_settings: only a flip is refused.
\* Mutant: the second factor has core's passwords in any case.
GuardPasswordLoginNever(c) == c \subseteq Switches
GuardPasswordLogin(c) ==
    Passwords /\ "disable_user_pass_login" \in c => ~ Second(settings) \/ First(settings)
GuardTwoFactor(c) ==
    "enable_two_factor_auth" \in core \ c => ~ Second(settings)

\* Core itself asks for another login method before passwords go.
SaveSystemSettings == \E c \in SUBSET Switches :
    /\ GuardPasswordLogin(c) /\ GuardTwoFactor(c)
    /\ "disable_user_pass_login" \in c => providers # {}
    /\ core' = c
    /\ UNCHANGED <<host, settings, providers, accounts>>

ToggleProvider(p) ==
    /\ providers' = (providers \ {p}) \cup ({p} \ providers)
    /\ UNCHANGED <<host, settings, core, accounts>>

\* The operator edits site_config.json: nothing validates it.
EditHostName ==
    /\ host' \in Hosts \cup {None}
    /\ UNCHANGED <<settings, core, providers, accounts>>

-----------------------------------------------------------------------------
(* The accounts.                                                           *)

Register(u) ==
    /\ AnyMode(settings) /\ Covered(settings)
    /\ keys' = [keys EXCEPT ![u] = @ \cup {SiteRpId(settings)}]
    /\ UNCHANGED <<host, settings, core, providers, only, means>>

\* _guard_last_login_method: a passkey that is usable is not the last way in.
\* Mutant: it is only for passkey-only accounts.
LastWayInFlagged(u, rp) == Usable(u) = {rp} /\ u \in only
LastWayIn(u, rp) == Usable(u) = {rp} /\ (u \in only \/ ~ Passwords)

RemovePasskey(u) == \E rp \in keys[u] :
    /\ ~ LastWayIn(u, rp)
    /\ keys' = [keys EXCEPT ![u] = @ \ {rp}]
    /\ UNCHANGED <<host, settings, core, providers, only, means>>

SetPasskeyOnly(u) ==
    /\ u \notin only => AnyMode(settings) /\ Enrolled(u)
    /\ only' = (only \ {u}) \cup ({u} \ only)
    /\ UNCHANGED <<host, settings, core, providers, keys, means>>

\* The account is given a password or loses it, or is linked to a provider.
ChangeMeans(u) == \E m \in Means[u] :
    /\ means' = [means EXCEPT ![u] = m]
    /\ UNCHANGED <<host, settings, core, providers, keys, only>>

\* The app as installed on a site with its address and some login methods.
Init ==
    /\ host \in Hosts \cup {None}
    /\ settings = Form(Blank, {})
    /\ core = {} /\ providers \in SUBSET Providers
    /\ keys = [u \in Users |-> {}] /\ only = {}
    /\ means \in [Users -> SUBSET CoreMethods] /\ \A u \in Users : means[u] \in Means[u]

Account(u) == Register(u) \/ RemovePasskey(u) \/ SetPasskeyOnly(u) \/ ChangeMeans(u)

Next ==
    \/ SavePasskeySettings \/ SaveSystemSettings \/ EditHostName
    \/ \E p \in Providers : ToggleProvider(p)
    \/ \E u \in Users : Account(u)

Spec == Init /\ [][Next]_vars

-----------------------------------------------------------------------------
(* Properties.                                                             *)

\* posture.py, "can a user meant to use a passkey still sign in without one?":
\* the verdict names every stock way that is open to an enrolled account, to
\* everybody where a passkey is only a first factor, and the password of
\* Administrator; and where it says that there is none, whichever of its reads
\* failed, there is none, and passkeys are in force.
MeantToUsePasskey(u) == Enrolled(u) \/ ~ Second(settings)
Bypasses ==
    (UNION {StockWays(u) : u \in {v \in Users : MeantToUsePasskey(v)}})
    \cup {p \in {"administrator"} : Second(settings) /\ "password" \in StockWays(Administrator)}
VerdictIsHonest ==
    /\ AnyMode(settings) /\ Covered(settings) => Bypasses \subseteq BypassLabels(Facts({}))
    /\ \A failed \in SUBSET (Providers \cup {"system"}) :
           Tone(Facts(failed)) = "good" => Bypasses = {} /\ Covered(settings)

\* What a save with a login mode on has validated is in force at once: the
\* site's own RP ID resolves, with a web origin, and passkeys made for it count.
\* A later edit of host_name, which nothing validates, may take that away: it is
\* VerdictIsHonest that must notice.
SavedSettingsWork ==
    [][settings' # settings /\ AnyMode(settings') =>
         ValidWebOrigins(settings', ResolveRpId(settings')) # {}]_vars

\* What the docs warn of (docs/configuration.md:187, docs/security.md:400-403): an
\* account is enrolled where the passkey only comes second, and has no password
\* of its own for it to come second to.
NeedsPassword(u) ==
    Second(settings) /\ ~ First(settings) /\ Enrolled(u) /\ "password" \notin means[u]

\* What no guard looks at, for an account that core leaves no way: the last
\* passkey mode is turned off; passwords are, for an account without a passkey
\* or on a site with no mode on, which is core's own affair; or the last passkey
\* is removed where passwords are on, since the guard takes the site's switch for
\* a password of the account.
NotGuarded(u) ==
    /\ CoreWays(u)' = {}
    /\ \/ ~ AnyMode(settings')
       \/ core' # core /\ ~ Enrolled(u)
       \/ keys' # keys /\ Passwords

\* Whatever settings and passkeys change, short of the RP ID and of what core
\* knows of the account: who could sign in, still can, with the guards of five
\* documents that each look at some of the others, but for the cases named above.
NobodyStranded ==
    [][UNCHANGED <<host, providers, means>> /\ SiteRpId(settings') = SiteRpId(settings) =>
         \A u \in Users :
             CanSignIn(u) => CanSignIn(u)' \/ NeedsPassword(u)' \/ NotGuarded(u)]_vars
===============================================================================
