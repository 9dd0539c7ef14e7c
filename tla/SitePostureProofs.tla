--------------------------- MODULE SitePostureProofs ---------------------------
(* Proofs about SitePosture, for any hosts, addresses and other login methods,  *)
(* and any accounts with any of core's ways to sign in.                        *)
EXTENDS SitePosture, TLAPS

Typed ==
    /\ host \in Hosts \cup {None} /\ settings \in Settings
    /\ core \subseteq Switches /\ providers \subseteq Providers
    /\ keys \in [Users -> SUBSET Hosts] /\ only \subseteq Users
    /\ means \in [Users -> SUBSET CoreMethods]

\* Two documents saved apart, each under a guard that reads the other: a second
\* factor never stands on nothing.
SecondHasAFirst == Second(settings) => First(settings) \/ Passwords

\* Likewise settings and accounts: the flag stands while a passkey mode is on.
FlagHasAMode == only # {} => AnyMode(settings)

IInv == Typed /\ SecondHasAFirst /\ FlagHasAMode

-----------------------------------------------------------------------------
(* The RP ID.                                                              *)

LEMMA RpIdType ==
  ASSUME Typed, Covered(settings)
  PROVE  SiteRpId(settings) \in Hosts
BY DEF Typed, Covered, SiteRpId, ResolveRpId, Settings

LEMMA SavedForm ==
  ASSUME NEW a \in Addresses, NEW on \in SUBSET Knobs
  PROVE  Form(a, on) \in Settings
BY PostureAssumption DEF Form, RpFields, Settings

-----------------------------------------------------------------------------
(* The invariant.                                                          *)

LEMMA IInvInit == Init => IInv
<1>. SUFFICES ASSUME Init PROVE IInv
  OBVIOUS
<1>1. Form(Blank, {}) \in Settings
  BY DEF Form, Blank, Settings
<1>2. settings.on = {} /\ only = {}
  BY DEF Init, Form
<1>3. Typed
  BY <1>1 DEF Init, Typed
<1>. QED
  BY <1>2, <1>3 DEF IInv, SecondHasAFirst, FlagHasAMode, Second

LEMMA IInvStep == IInv /\ [Next]_vars => IInv'
<1>. SUFFICES ASSUME IInv, [Next]_vars PROVE IInv'
  OBVIOUS
<1>. USE DEF accounts
<1>0. Typed /\ SecondHasAFirst /\ FlagHasAMode
  BY DEF IInv
<1>1. CASE SavePasskeySettings
  <2>1. PICK a \in Addresses, on \in SUBSET Knobs :
          /\ settings' = Form(a, on) /\ SecondFactorFloor(Form(a, on))
          /\ AnyMode(Form(a, on)) \/ only = {}
          /\ UNCHANGED <<host, core, providers, accounts>>
    BY <1>1 DEF SavePasskeySettings
  <2>2. Typed'
    BY <1>0, <2>1, SavedForm DEF Typed
  <2>3. SecondHasAFirst'
    BY <2>1 DEF SecondHasAFirst, SecondFactorFloor, Second, First, Passwords
  <2>4. FlagHasAMode'
    BY <2>1 DEF FlagHasAMode, AnyMode, Second, First
  <2>. QED
    BY <2>2, <2>3, <2>4 DEF IInv
<1>2. CASE SaveSystemSettings
  <2>1. PICK c \in SUBSET Switches :
          GuardPasswordLogin(c) /\ core' = c /\ UNCHANGED <<host, settings, providers, accounts>>
    BY <1>2 DEF SaveSystemSettings
  <2>2. Typed'
    BY <1>0, <2>1 DEF Typed
  <2>3. SecondHasAFirst'
    BY <1>0, <2>1 DEF SecondHasAFirst, GuardPasswordLogin, Second, First, Passwords
  <2>4. FlagHasAMode'
    BY <1>0, <2>1 DEF FlagHasAMode, AnyMode, Second, First
  <2>. QED
    BY <2>2, <2>3, <2>4 DEF IInv
<1>3. ASSUME UNCHANGED <<settings, core>>, Typed', only' # {} => AnyMode(settings) PROVE IInv'
  BY <1>0, <1>3 DEF IInv, SecondHasAFirst, FlagHasAMode, AnyMode, Second, First, Passwords
<1>4. CASE EditHostName
  BY <1>0, <1>3, <1>4 DEF EditHostName, Typed, FlagHasAMode
<1>5. ASSUME NEW p \in Providers, ToggleProvider(p) PROVE IInv'
  BY <1>0, <1>3, <1>5 DEF ToggleProvider, Typed, FlagHasAMode
<1>6. ASSUME NEW u \in Users, Register(u) PROVE IInv'
  <2>1. SiteRpId(settings) \in Hosts
    BY <1>0, <1>6, RpIdType DEF Register
  <2>. QED
    BY <1>0, <1>3, <1>6, <2>1 DEF Register, Typed, FlagHasAMode
<1>7. ASSUME NEW u \in Users, RemovePasskey(u) PROVE IInv'
  BY <1>0, <1>3, <1>7 DEF RemovePasskey, Typed, FlagHasAMode
<1>8. ASSUME NEW u \in Users, SetPasskeyOnly(u) PROVE IInv'
  <2>1. Typed'
    BY <1>0, <1>8 DEF SetPasskeyOnly, Typed
  <2>2. only' # {} => AnyMode(settings)
    BY <1>0, <1>8 DEF SetPasskeyOnly, FlagHasAMode
  <2>. QED
    BY <1>3, <1>8, <2>1, <2>2 DEF SetPasskeyOnly
<1>9. ASSUME NEW u \in Users, ChangeMeans(u) PROVE IInv'
  <2>1. PICK m \in Means[u] : means' = [means EXCEPT ![u] = m]
                              /\ UNCHANGED <<host, settings, core, providers, keys, only>>
    BY <1>9 DEF ChangeMeans
  <2>2. m \in SUBSET CoreMethods
    BY PostureAssumption
  <2>3. Typed'
    BY <1>0, <2>1, <2>2 DEF Typed
  <2>. QED
    BY <1>0, <1>3, <2>1, <2>3 DEF FlagHasAMode
<1>10. CASE UNCHANGED vars
  BY <1>0, <1>3, <1>10 DEF vars, Typed, FlagHasAMode
<1>. QED
  BY <1>1, <1>2, <1>4, <1>5, <1>6, <1>7, <1>8, <1>9, <1>10 DEF Next, Account

LEMMA IInvHolds == Spec => []IInv
BY IInvInit, IInvStep, PTL DEF Spec

-----------------------------------------------------------------------------
(* Signing in.                                                             *)

\* What each of an account's ways to sign in stands on: the one-time code is
\* for an account that could use its passkey.
LEMMA Ways ==
  ASSUME NEW u
  PROVE  /\ \A w \in StockWays(u) :
              \/ w \in CoreWays(u) /\ ~ Restricted(u)
              \/ w = "otp_fallback" /\ OtpInsteadOfPasskey(u)
         /\ CanSignIn(u) <=> \/ ~ Restricted(u) /\ CoreWays(u) # {}
                            \/ PasskeyWays(u)
<1>1. OtpInsteadOfPasskey(u) => PasskeyWays(u)
  BY DEF OtpInsteadOfPasskey, PasskeyWays
<1>. QED
  BY <1>1 DEF StockWays, CanSignIn

LEMMA WaysNext ==
  ASSUME NEW u
  PROVE  CanSignIn(u)' <=> \/ ~ Restricted(u)' /\ CoreWays(u)' # {}
                           \/ PasskeyWays(u)'
<1>1. OtpInsteadOfPasskey(u)' => PasskeyWays(u)'
  BY DEF OtpInsteadOfPasskey, PasskeyWays
<1>. QED
  BY <1>1 DEF StockWays, CanSignIn

\* While the RP ID stays only a removal takes the last passkey that counts, and
\* it is refused where the site has no passwords.
LEMMA PasskeyLost ==
  ASSUME Typed, Next, SiteRpId(settings)' = SiteRpId(settings),
         NEW u \in Users, Enrolled(u), ~ Enrolled(u)'
  PROVE  keys' # keys /\ Passwords
<1>0. keys' # keys
  BY DEF Enrolled, Usable
<1>1. CASE \E v \in Users : Register(v)
  <2>1. PICK v \in Users : keys' = [keys EXCEPT ![v] = @ \cup {SiteRpId(settings)}]
    BY <1>1 DEF Register
  <2>2. keys[u] \subseteq keys'[u]
    BY <2>1 DEF Typed
  <2>. QED
    BY <2>2 DEF Enrolled, Usable
<1>2. CASE \E v \in Users : RemovePasskey(v)
  <2>1. PICK v \in Users : \E rp : ~ LastWayIn(v, rp) /\ keys' = [keys EXCEPT ![v] = @ \ {rp}]
    BY <1>2 DEF RemovePasskey
  <2>2. PICK rp : ~ LastWayIn(v, rp) /\ keys' = [keys EXCEPT ![v] = @ \ {rp}]
    BY <2>1
  <2>3. (u # v => keys'[u] = keys[u]) /\ \A id \in keys[u] : id \in keys'[u] \/ id = rp
    BY <2>2 DEF Typed
  <2>4. u = v /\ Usable(u) = {rp}
    BY <2>3 DEF Enrolled, Usable
  <2>. QED
    BY <1>0, <2>2, <2>4 DEF LastWayIn
<1>. QED
  BY <1>0, <1>1, <1>2 DEF Next, Account, accounts, SavePasskeySettings, SaveSystemSettings,
     EditHostName, ToggleProvider, SetPasskeyOnly, ChangeMeans

-----------------------------------------------------------------------------
(* Results.                                                                *)

\* The panel of the site's settings names every way around a passkey that the
\* login accepts, and says that there is none only where there is none, and
\* passkeys are in force, whatever it could not read (classify_posture,
\* on_login_veto).
THEOREM PanelIsHonest == Spec => []VerdictIsHonest
<1>1. ASSUME Typed, AnyMode(settings), NEW w \in Bypasses PROVE w \in BypassLabels(Facts({}))
  <2>. USE DEF BypassLabels
  <2>1. (Facts({}).passwords <=> Passwords) /\ Facts({}).providers = providers
    BY DEF Facts
  <2>2. ASSUME NEW u \in Users, MeantToUsePasskey(u), w \in StockWays(u)
        PROVE  w \in BypassLabels(Facts({}))
    <3>1. CASE Second(settings)
      <4>1. Enrolled(u) /\ Restricted(u)
        BY <2>2, <3>1 DEF MeantToUsePasskey, Restricted
      <4>2. w = "otp_fallback" /\ "otp_fallback" \in settings.on
        BY <2>2, <4>1, Ways DEF OtpInsteadOfPasskey
      <4>. QED
        BY <3>1, <4>2 DEF PasswordLabels
    <3>2. CASE ~ Second(settings)
      <4>1. First(settings)
        BY <1>1, <3>2 DEF AnyMode
      <4>2. w \in providers \/ (w = "password" /\ Passwords)
        BY <2>2, <3>2, Ways DEF OtpInsteadOfPasskey, CoreWays
      <4>. QED
        BY <2>1, <3>2, <4>1, <4>2 DEF AlternateLabels, PasswordLabels, AlternateIsBypass
    <3>. QED
      BY <3>1, <3>2
  <2>3. ASSUME w = "administrator", Second(settings), "password" \in StockWays(Administrator)
        PROVE  w \in BypassLabels(Facts({}))
    <3>1. "password" \in CoreWays(Administrator) /\ ~ Restricted(Administrator)
      BY <2>3, Ways
    <3>2. Passwords
      BY <1>1, <3>1, PostureAssumption DEF Typed, CoreWays
    <3>3. ~ Enrolled(Administrator)
      BY <2>3, <3>1 DEF Restricted
    <3>4. w \in {p \in {"administrator"} : Second(settings) /\ Facts({}).passwords
                                            /\ ~ Enrolled(Administrator)}
      BY <2>1, <2>3, <3>2, <3>3
    <3>. QED
      BY <3>4, Zenon DEF AdministratorLabel
  <2>. QED
    BY <1>1, <2>2, <2>3 DEF Bypasses
<1>2. ASSUME Typed, NEW failed \in SUBSET (Providers \cup {"system"}), Tone(Facts(failed)) = "good"
      PROVE  Bypasses = {} /\ Covered(settings)
  <2>1. /\ AnyMode(settings) /\ Covered(settings)
        /\ BypassLabels(Facts(failed)) = {} /\ ~ Facts(failed).degraded
    BY <1>2 DEF Tone, ToneInForce
  <2>2. failed = {}
    BY <2>1 DEF Facts
  <2>. QED
    BY <1>1, <1>2, <2>1, <2>2
<1>3. IInv => VerdictIsHonest
  BY <1>1, <1>2 DEF VerdictIsHonest, IInv
<1>. QED
  BY <1>3, IInvHolds, PTL

\* A save with a login mode on leaves a web origin in the scope of the RP ID
\* that resolves (_validate_enablement, get_rp_scope_problem).
THEOREM SavesWork == Spec => SavedSettingsWork
<1>. DEFINE Works ==
       settings' # settings /\ AnyMode(settings') =>
         ValidWebOrigins(settings', ResolveRpId(settings')) # {}
<1>1. ASSUME Next, settings' # settings, AnyMode(settings')
      PROVE  ValidWebOrigins(settings', ResolveRpId(settings')) # {}
  <2>1. SavePasskeySettings
    BY <1>1 DEF Next, Account, SaveSystemSettings, EditHostName, ToggleProvider, Register,
                RemovePasskey, SetPasskeyOnly, ChangeMeans
  <2>2. ValidateEnablement(settings')
    BY <1>1, <2>1 DEF SavePasskeySettings
  <2>. QED
    BY <2>2 DEF ValidateEnablement, OriginsValid, ValidWebOrigins
<1>2. [Next]_vars => [Works]_vars
  BY <1>1
<1>3. SavedSettingsWork <=> [][Works]_vars
  BY DEF SavedSettingsWork
<1>. HIDE DEF Works
<1>. QED
  BY <1>2, <1>3, PTL DEF Spec

\* Nobody who can sign in loses the last way to it to a save, a removal or a
\* flag, as long as the RP ID stays and core knows the account as before
\* (guard_system_settings, Passkey Settings' floor, _guard_last_login_method), but
\* for two kinds of account: one that has a passkey, has no password and is on a
\* site where the passkey comes second to one; and one that core leaves no way,
\* at a step that no guard of the app is there for.
THEOREM NobodyIsStranded == Spec => NobodyStranded
<1>. DEFINE Kept ==
       UNCHANGED <<host, providers, means>> /\ SiteRpId(settings') = SiteRpId(settings) =>
         \A u \in Users : CanSignIn(u) => CanSignIn(u)' \/ NeedsPassword(u)' \/ NotGuarded(u)
<1>1. ASSUME IInv, Next, UNCHANGED <<host, providers, means>>,
             SiteRpId(settings') = SiteRpId(settings), NEW u \in Users, CanSignIn(u)
      PROVE  CanSignIn(u)' \/ NeedsPassword(u)' \/ NotGuarded(u)
  <2>1. Typed /\ SecondHasAFirst' /\ FlagHasAMode'
    BY <1>1, IInvStep DEF IInv
  <2>2. SiteRpId(settings)' = SiteRpId(settings)
    BY <1>1 DEF SiteRpId, ResolveRpId, ValidWebOrigins, ResolveOrigins, SiteOrigin
  <2>3. CASE Enrolled(u)' /\ AnyMode(settings')
    \* The passkey serves: alone, or after the password that the floor keeps on.
    <3>1. First(settings)' \/ (Second(settings)' /\ Passwords')
      BY <2>1, <2>3 DEF SecondHasAFirst, AnyMode, First, Second
    <3>2. PasskeyWays(u)' \/ NeedsPassword(u)'
      BY <2>3, <3>1 DEF PasskeyWays, NeedsPassword, HasPassword, First, Second
    <3>. QED
      BY <3>2, WaysNext
  <2>4. CASE ~ AnyMode(settings')
    \* No flag is left either, so that core's ways are open.
    <3>1. ~ Restricted(u)'
      BY <2>1, <2>4 DEF FlagHasAMode, Restricted, AnyMode, Second, First
    <3>2. CASE CoreWays(u)' # {}
      BY <3>1, <3>2, WaysNext
    <3>3. CASE CoreWays(u)' = {}
      BY <2>4, <3>3 DEF NotGuarded
    <3>. QED
      BY <3>2, <3>3
  <2>5. CASE ~ Enrolled(u)'
    <3>1. ~ Restricted(u)'
      BY <2>5 DEF Restricted
    <3>2. CASE CoreWays(u)' # {}
      BY <3>1, <3>2, WaysNext
    <3>3. CASE CoreWays(u)' = {} /\ Enrolled(u)
      <4>1. keys' # keys /\ Passwords
        BY <1>1, <2>1, <2>2, <2>5, <3>3, PasskeyLost
      <4>. QED
        BY <3>3, <4>1 DEF NotGuarded
    <3>4. CASE CoreWays(u)' = {} /\ ~ Enrolled(u)
      <4>1. CoreWays(u) # {}
        BY <1>1, <3>4, Ways DEF PasskeyWays
      <4>2. core' # core
        BY <1>1, <3>4, <4>1 DEF CoreWays, Passwords
      <4>. QED
        BY <3>4, <4>2 DEF NotGuarded
    <3>. QED
      BY <3>2, <3>3, <3>4
  <2>. QED
    BY <2>3, <2>4, <2>5
<1>2. IInv /\ [Next]_vars => [Kept]_vars
  BY <1>1
<1>3. NobodyStranded <=> [][Kept]_vars
  BY DEF NobodyStranded
<1>. HIDE DEF Kept
<1>. QED
  BY <1>2, <1>3, IInvHolds, PTL DEF Spec
=============================================================================
