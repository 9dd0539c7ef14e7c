------------------------- MODULE LoginCeremoniesProofs -------------------------
(* Proofs about LoginCeremonies, for any users, passkeys, browsers, workers,  *)
(* RP IDs, administrators and bounds.                                         *)
EXTENDS LoginCeremonies, FiniteSetTheorems, SequenceTheorems, TLAPS

\* What a record says of itself, whoever holds it.
Sound(r) ==
    /\ r.type \in {"second_factor", "otp"} => r.binder \in Knows
    /\ r.type = "second_factor" => \A c \in r.allow : Owner[c] = r.user

\* What a request has seen to before it waits for locks.
Vetted(q) ==
    /\ q.op \notin {"otp", "otp_vetoed"} => q.browser = q.rec.binder
    /\ q.op \in {"uv_known", "uv_won"} => q.browser \in Knows
    /\ q.op = "verify_second_factor" => q.rp = q.rec.rp
    /\ q.op = "otp" => q.password[q.rec.user] = q.rec.version

Verifying == {w \in Workers : req[w] # Idle}

Known ==
    /\ \A id \in Stored : Sound(records[id])
    /\ \A w \in Verifying : Sound(req[w].rec) /\ Vetted(req[w])

\* A sign-in is in one place: stored, in one worker's hands, or a session.
OnePlace ==
    /\ \A id \in Stored : records[id].root \in 1..roots
    /\ \A w \in Holding : req[w].rec.root \in 1..roots
    /\ \A i \in DOMAIN sessions : sessions[i].root \in 1..roots
    /\ \A a, b \in Stored : a # b => records[a].root # records[b].root
    /\ \A v, w \in Holding : v # w => req[v].rec.root # req[w].rec.root
    /\ \A a \in Stored, w \in Holding : records[a].root # req[w].rec.root
    /\ \A i \in DOMAIN sessions :
         /\ \A a \in Stored : records[a].root # sessions[i].root
         /\ \A w \in Holding : req[w].rec.root # sessions[i].root
    /\ OneSession

\* The attempts a record names have been made, and none for a sign-in to come.
Counted ==
    /\ \A id \in Stored : records[id].type = "second_factor" =>
         tries[records[id].root] = records[id].attempts
    /\ \A w \in Holding : req[w].op = "verify_second_factor" =>
         tries[req[w].rec.root] = req[w].rec.attempts
    /\ \A r \in Roots : r > roots => tries[r] = 0
    /\ AttemptsCapped

\* The row's counter is at least that of every session of the credential.
Counters ==
    \A i \in DOMAIN sessions :
        "cred" \in DOMAIN sessions[i] => sessions[i].count <= count[sessions[i].cred]

IInv == TypeOK /\ Known /\ OnePlace /\ EndsWhereItBegan /\ Counted /\ Counters

-----------------------------------------------------------------------------
(* Shapes.                                                                 *)

\* A record is of the kind its type says.
LEMMA RecordKinds ==
  ASSUME NEW r \in Records \cup {Gone}
  PROVE  /\ r.type = "login" => r \in LoginRecords
         /\ r.type = "second_factor" => r \in SecondFactorRecords
         /\ r.type = "uv_setup" => r \in UvSetupRecords
         /\ r.type = "otp" => r \in OtpRecords
         /\ r.type \in {"login", "second_factor", "uv_setup", "otp"} => r # Gone
         /\ r # Gone => r \in Records
BY DEF Records, LoginRecords, SecondFactorRecords, UvSetupRecords, OtpRecords, Gone

\* Every record names its sign-in and the browser that began it.
LEMMA RecordShape ==
  ASSUME NEW r \in Records
  PROVE  r.root \in Roots /\ r.binder \in Browsers
         /\ r.type \in {"login", "second_factor", "uv_setup", "otp"}
BY DEF Records, LoginRecords, SecondFactorRecords, UvSetupRecords, OtpRecords

\* A request carries a record of the kind it deals with.
LEMMA RequestKinds ==
  ASSUME NEW q \in Requests \cup {Idle}
  PROVE  /\ q.op = "verify_login" => q.rec \in LoginRecords
         /\ q.op = "verify_second_factor" => q.rec \in SecondFactorRecords
         /\ q.op \in {"uv_setup", "uv_known", "uv_won"} => q.rec \in UvSetupRecords
         /\ q.op \in {"otp", "otp_vetoed"} => q.rec \in OtpRecords
         /\ q # Idle <=> q.op # "idle"
         /\ q # Idle => /\ q \in Requests
                        /\ q.op \in {"verify_login", "verify_second_factor", "uv_setup",
                                     "uv_known", "uv_won", "otp", "otp_vetoed"}
BY DEF Requests, Serving, Idle

\* The requests of the step-up.
LEMMA UvRequests ==
  ASSUME NEW q \in Requests \cup {Idle}, q.op \in {"uv_setup", "uv_known", "uv_won"}
  PROVE  q \in Serving({"uv_setup", "uv_known", "uv_won"}, UvSetupRecords)
<1>1. q # Idle
  BY DEF Idle
<1>2. q \notin Serving({"verify_login"}, LoginRecords)
      /\ q \notin Serving({"verify_second_factor"}, SecondFactorRecords)
  BY DEF Serving
<1>3. q \notin Serving({"otp", "otp_vetoed"}, OtpRecords)
  BY DEF Serving
<1>. QED
  BY <1>1, <1>2, <1>3 DEF Requests

\* Every request has its snapshot.
LEMMA RequestShape ==
  ASSUME NEW q \in Requests
  PROVE  /\ q.id \in Ids /\ q.browser \in Browsers /\ q.rp \in SiteRps
         /\ q.password \in [Users -> 0..MaxPassword] /\ q.twoFactor \in BOOLEAN
         /\ q.rec \in Records
BY DEF Requests, Serving, Records

\* A request that reads a record of its kind.
LEMMA SnapshotShape ==
  ASSUME TypeOK, NEW w \in Workers, NEW op, NEW id \in Ids, NEW b \in Browsers,
         \/ op = "verify_login" /\ records[id].type = "login"
         \/ op = "verify_second_factor" /\ records[id].type = "second_factor"
         \/ op = "uv_setup" /\ records[id].type = "uv_setup"
         \/ op \in {"otp", "otp_vetoed"} /\ records[id].type = "otp"
  PROVE  Snapshot(w, op, id, b) \in Requests
<1>1. records[id] \in Records \cup {Gone}
  BY DEF TypeOK
<1>2. /\ op = "verify_login" => records[id] \in LoginRecords
      /\ op = "verify_second_factor" => records[id] \in SecondFactorRecords
      /\ op = "uv_setup" => records[id] \in UvSetupRecords
      /\ op \in {"otp", "otp_vetoed"} => records[id] \in OtpRecords
  BY <1>1, RecordKinds
<1>. QED
  BY <1>2 DEF Snapshot, Requests, Serving, TypeOK

\* Storing keeps the records' shape.
LEMMA StoreShape ==
  ASSUME TypeOK, NEW r \in Records, Store(r)
  PROVE  records' \in [Ids -> Records \cup {Gone}]
BY DEF TypeOK, Store

\* A session is appended.
LEMMA MintShape ==
  ASSUME TypeOK, NEW s \in SessionRecords, Mint(s)
  PROVE  /\ sessions' \in Seq(SessionRecords) /\ Len(sessions) \in Nat
         /\ Len(sessions') = Len(sessions) + 1
         /\ DOMAIN sessions = 1..Len(sessions) /\ DOMAIN sessions' = 1..(Len(sessions) + 1)
         /\ \A i \in DOMAIN sessions : sessions'[i] = sessions[i]
         /\ sessions'[Len(sessions) + 1] = s /\ NewSession = s /\ Minted
<1>1. sessions \in Seq(SessionRecords) /\ sessions' = Append(sessions, s)
  BY DEF TypeOK, Mint
<1>2. /\ sessions' \in Seq(SessionRecords) /\ Len(sessions') = Len(sessions) + 1
      /\ \A i \in 1..Len(sessions) : sessions'[i] = sessions[i]
      /\ sessions'[Len(sessions) + 1] = s
  BY <1>1, AppendProperties
<1>3. /\ Len(sessions) \in Nat /\ DOMAIN sessions = 1..Len(sessions)
      /\ DOMAIN sessions' = 1..Len(sessions')
  BY <1>1, <1>2, LenProperties
<1>. QED
  BY <1>2, <1>3 DEF NewSession, Minted

\* The sessions of the two kinds.
LEMMA PasswordSessionShape ==
  ASSUME NEW r \in Roots, NEW by \in {"password", "otp"}, NEW u \in Users, NEW b \in Browsers,
         NEW o \in Browsers
  PROVE  [root |-> r, by |-> by, user |-> u, browser |-> b, began |-> o] \in SessionRecords
BY DEF SessionRecords

LEMMA PasskeySessionShape ==
  ASSUME TypeOK, NEW w \in Verifying, NEW by \in {"login", "uv_setup", "second_factor"},
         NEW c \in Credentials, NEW n \in Counts
  PROVE  PasskeySession(w, by, c, n) \in SessionRecords
<1>1. req[w] \in Requests
  BY RequestKinds DEF TypeOK, Verifying
<1>2. req[w].browser \in Browsers /\ req[w].rec.root \in Roots /\ req[w].rec.binder \in Browsers
  BY <1>1, RequestShape, RecordShape
<1>3. Owner[c] \in Users
  BY CeremonyAssumption
<1>. QED
  BY <1>2, <1>3 DEF PasskeySession, SessionRecords

-----------------------------------------------------------------------------
(* Types.                                                                  *)

\* Counters, flags and UV bits after an accepted assertion.
LEMMA AdvanceShape ==
  ASSUME TypeOK, NEW c \in Credentials, NEW n \in Counts, Advance(c, n)
  PROVE  count' \in [Credentials -> Counts] /\ flagged' \subseteq Credentials
BY DEF TypeOK, Advance

\* Core's lockout counts up to its limit.
LEMMA TrackShape ==
  ASSUME TypeOK, NEW u \in Users, TrackFailure(u) \/ TrackSuccess(u)
  PROVE  failed' \in [Users -> 0..MaxFailed]
<1>1. failed \in [Users -> 0..MaxFailed] /\ MaxFailed \in Nat
  BY CeremonyAssumption DEF TypeOK
<1>2. CASE TrackFailure(u)
  BY <1>1, <1>2 DEF TrackFailure
<1>3. CASE TrackSuccess(u)
  BY <1>1, <1>3 DEF TrackSuccess
<1>. QED
  BY <1>2, <1>3

\* A request ends.
LEMMA EndShape ==
  ASSUME TypeOK, NEW w \in Workers, End(w)
  PROVE  /\ req' \in [Workers -> Requests \cup {Idle}]
         /\ req'[w] = Idle /\ \A v \in Workers \ {w} : req'[v] = req[v]
BY DEF TypeOK, End

\* First legs keep the shapes.
LEMMA FirstLegType ==
  ASSUME TypeOK, FirstLeg
  PROVE  TypeOK'
<1>. USE DEF accounts, advanced, settings, redis, history
<1>1. ASSUME NEW b \in Browsers, BeginLogin(b) PROVE TypeOK'
  <2>. DEFINE r == [type |-> "login", root |-> roots + 1, binder |-> b, rp |-> rp]
  <2>1. roots + 1 \in Roots /\ roots' = roots + 1
    BY <1>1, CeremonyAssumption DEF BeginLogin, BeginRoot, TypeOK, Roots
  <2>2. r \in Records
    BY <1>1, <2>1 DEF BeginLogin, Records, LoginRecords, TypeOK, SiteRps
  <2>3. records' \in [Ids -> Records \cup {Gone}]
    <3>. HIDE DEF r
    <3>1. Store(r)
      BY <1>1 DEF BeginLogin, r
    <3>. QED
      BY <2>2, <3>1, StoreShape
  <2>. QED
    BY <1>1, <2>1, <2>3 DEF BeginLogin, TypeOK, Roots
<1>2. ASSUME NEW b \in Browsers, NEW u \in Users, LoginWithPassword(b, u) PROVE TypeOK'
  <2>. DEFINE r == [type |-> "second_factor", root |-> roots + 1, binder |-> b, rp |-> rp,
                    user |-> u, version |-> password[u], allow |-> Usable(u), attempts |-> 0,
                    fallback |-> {"enable_two_factor_auth", "otp_fallback"} \subseteq on]
  <2>1. roots + 1 \in Roots /\ roots' = roots + 1
    BY <1>2, CeremonyAssumption DEF LoginWithPassword, BeginRoot, TypeOK, Roots
  <2>2. \/ rp # NoRp /\ Store(r) /\ UNCHANGED sessions
        \/ Mint(PasswordSession(b, u)) /\ UNCHANGED records
        \/ UNCHANGED <<records, sessions>>
    BY <1>2 DEF LoginWithPassword
  <2>3. rp # NoRp => r \in Records
    <3>1. Usable(u) \subseteq Credentials
      BY DEF Usable, TypeOK
    <3>2. 0 \in 0..(MAX_ATTEMPTS - 1)
      BY CeremonyAssumption
    <3>. QED
      BY <2>1, <3>1, <3>2 DEF Records, SecondFactorRecords, TypeOK, SiteRps
  <2>4. PasswordSession(b, u) \in SessionRecords
    BY <2>1, PasswordSessionShape DEF PasswordSession
  <2>. HIDE DEF r
  <2>5. records' \in [Ids -> Records \cup {Gone}] /\ sessions' \in Seq(SessionRecords)
    BY <2>2, <2>3, <2>4, StoreShape, MintShape DEF TypeOK
  <2>6. failed' \in [Users -> 0..MaxFailed]
    BY <1>2, CeremonyAssumption DEF LoginWithPassword, TypeOK
  <2>. QED
    BY <1>2, <2>1, <2>5, <2>6 DEF LoginWithPassword, TypeOK, Roots
<1>3. ASSUME NEW b \in Browsers, NEW u \in Users, CorePasswordLogin(b, u) PROVE TypeOK'
  <2>1. roots + 1 \in Roots /\ roots' = roots + 1
    BY <1>3, CeremonyAssumption DEF CorePasswordLogin, BeginRoot, TypeOK, Roots
  <2>2. Mint(PasswordSession(b, u)) \/ UNCHANGED sessions
    BY <1>3 DEF CorePasswordLogin
  <2>3. PasswordSession(b, u) \in SessionRecords
    BY <2>1, PasswordSessionShape DEF PasswordSession
  <2>4. sessions' \in Seq(SessionRecords)
    BY <2>2, <2>3, MintShape DEF TypeOK
  <2>5. failed' \in [Users -> 0..MaxFailed]
    BY <1>3, CeremonyAssumption DEF CorePasswordLogin, TypeOK
  <2>. QED
    BY <1>3, <2>1, <2>4, <2>5 DEF CorePasswordLogin, TypeOK, Roots
<1>4. ASSUME NEW b \in Browsers, FallbackToOtp(b) PROVE TypeOK'
  <2>. PICK id \in Ids :
         \/ records' = [records EXCEPT ![id] = Gone]
         \/ /\ records[id].type = "second_factor"
            /\ records' = [records EXCEPT ![id] =
                 [type |-> "otp", root |-> records[id].root, binder |-> records[id].binder,
                  user |-> records[id].user, version |-> records[id].version]]
    BY <1>4 DEF FallbackToOtp
  <2>1. records[id].type = "second_factor" => records[id] \in SecondFactorRecords
    BY RecordKinds DEF TypeOK
  <2>2. records[id].type = "second_factor" =>
          [type |-> "otp", root |-> records[id].root, binder |-> records[id].binder,
           user |-> records[id].user, version |-> records[id].version] \in Records
    BY <2>1 DEF SecondFactorRecords, Records, OtpRecords
  <2>3. records' \in [Ids -> Records \cup {Gone}]
    BY <2>2 DEF TypeOK
  <2>. QED
    BY <1>4, <2>3 DEF FallbackToOtp, TypeOK
<1>. QED
  BY <1>1, <1>2, <1>3, <1>4 DEF FirstLeg

\* What requests do to Redis keeps the shapes.
LEMMA RedisType ==
  ASSUME TypeOK, NEW w \in Workers, RedisStep(w)
  PROVE  TypeOK'
<1>. USE DEF accounts, advanced, settings, redis, history
<1>1. ASSUME NEW id \in Ids, Consume(id) PROVE records' \in [Ids -> Records \cup {Gone}]
  BY <1>1 DEF Consume, TypeOK
<1>2. ASSUME NEW q \in Requests, Serve(w, q) PROVE req' \in [Workers -> Requests \cup {Idle}]
  BY <1>2 DEF Serve, TypeOK
<1>3. ASSUME ConsumeCeremony(w) PROVE TypeOK'
  <2>. PICK id \in Ids, b \in Browsers, op \in {"verify_login", "verify_second_factor"} :
         /\ Consume(id)
         /\ \/ /\ \/ op = "verify_login" /\ CanLogin(records[id], b)
                  \/ op = "verify_second_factor" /\ CanSecondFactor(records[id], b)
               /\ Serve(w, Snapshot(w, op, id, b))
            \/ UNCHANGED req
         /\ UNCHANGED <<accounts, advanced, settings, claims, failed, history>>
    BY <1>3 DEF ConsumeCeremony
  <2>1. req' \in [Workers -> Requests \cup {Idle}]
    BY <1>2, SnapshotShape DEF CanLogin, CanSecondFactor, TypeOK
  <2>. QED
    BY <1>1, <2>1 DEF TypeOK
<1>4. ASSUME ReadUvSetup(w) PROVE TypeOK'
  <2>1. req' \in [Workers -> Requests \cup {Idle}]
    BY <1>2, <1>4, SnapshotShape DEF ReadUvSetup
  <2>. QED
    BY <1>4, <2>1 DEF ReadUvSetup, TypeOK
<1>5. ASSUME ReadOtpMarker(w) PROVE TypeOK'
  <2>0. PICK id \in Ids, b \in Browsers, op \in {"otp", "otp_vetoed"} :
          records[id].type = "otp" /\ Serve(w, Snapshot(w, op, id, b))
    BY <1>5 DEF ReadOtpMarker
  <2>1. req' \in [Workers -> Requests \cup {Idle}]
    BY <1>2, <2>0, SnapshotShape
  <2>. QED
    BY <1>5, <2>1 DEF ReadOtpMarker, TypeOK
<1>6. ASSUME NEW op \in {"uv_known", "uv_won"}, req[w].op \in {"uv_setup", "uv_known"},
             req' = [req EXCEPT ![w].op = op]
      PROVE  req' \in [Workers -> Requests \cup {Idle}]
  <2>1. req[w] \in Serving({"uv_setup", "uv_known", "uv_won"}, UvSetupRecords)
    BY <1>6, UvRequests DEF TypeOK
  <2>2. [req[w] EXCEPT !.op = op] \in Serving({"uv_setup", "uv_known", "uv_won"}, UvSetupRecords)
    BY <2>1 DEF Serving
  <2>. QED
    BY <1>6, <2>2 DEF Requests, TypeOK
<1>7. ASSUME CheckPassword(w) PROVE TypeOK'
  <2>1. req[w].op = "uv_setup" /\ req[w].rec.user \in Users
    BY <1>7, RequestKinds DEF CheckPassword, TypeOK, UvSetupRecords
  <2>2. req' \in [Workers -> Requests \cup {Idle}]
    BY <1>6, <1>7 DEF CheckPassword, TypeOK
  <2>. DEFINE u == req[w].rec.user
  <2>3. claims' \in [Users -> 0..PASSWORD_LIMIT]
    <3>1. \/ claims' = [claims EXCEPT ![u] = 0]
          \/ claims' = [claims EXCEPT ![u] = IF claims[u] >= PASSWORD_LIMIT THEN @ ELSE @ + 1]
      BY <1>7 DEF CheckPassword
    <3>2. claims \in [Users -> 0..PASSWORD_LIMIT] /\ PASSWORD_LIMIT \in Nat /\ u \in Users
      BY <2>1, CeremonyAssumption DEF TypeOK
    <3>. QED
      BY <3>1, <3>2
  <2>4. failed' \in [Users -> 0..MaxFailed]
    <3>1. UNCHANGED failed \/ TrackFailure(u)
      BY <1>7 DEF CheckPassword, TrackFailure
    <3>. QED
      BY <2>1, <3>1, TrackShape DEF TypeOK
  <2>. QED
    BY <1>7, <2>2, <2>3, <2>4 DEF CheckPassword, TypeOK
<1>8. ASSUME ConsumeUvSetup(w) PROVE TypeOK'
  <2>1. req[w].id \in Ids
    BY <1>8, RequestKinds, RequestShape DEF ConsumeUvSetup, TypeOK
  <2>2. req' \in [Workers -> Requests \cup {Idle}]
    BY <1>6, <1>8 DEF ConsumeUvSetup, TypeOK
  <2>. QED
    BY <1>1, <1>8, <2>1, <2>2 DEF ConsumeUvSetup, TypeOK
<1>. QED
  BY <1>3, <1>4, <1>5, <1>7, <1>8 DEF RedisStep

\* Decisions keep the shapes.
LEMMA DecideType ==
  ASSUME TypeOK, NEW w \in Workers, Decide(w)
  PROVE  TypeOK'
<1>. USE DEF accounts, advanced, settings, redis, history
<1>1. ASSUME FailLogin(w) PROVE TypeOK'
  <2>1. failed' \in [Users -> 0..MaxFailed]
    BY <1>1, TrackShape, CeremonyAssumption DEF FailLogin
  <2>. QED
    BY <1>1, <2>1, EndShape DEF FailLogin, TypeOK
<1>2. ASSUME PassLogin(w) PROVE TypeOK'
  <2>. PICK c \in Credentials, n \in Counts :
         /\ req[w].op = "verify_login"
         /\ TrackSuccess(Owner[c])
         /\ \/ /\ Store([type |-> "uv_setup", root |-> req[w].rec.root,
                         binder |-> req[w].rec.binder, rp |-> req[w].rec.rp, user |-> Owner[c],
                         cred |-> c, count |-> n])
               /\ UNCHANGED <<advanced, sessions>>
            \/ /\ \/ Advance(c, n) /\ Mint(PasskeySession(w, "login", c, n))
                  \/ UNCHANGED <<count, flagged, sessions>>
               /\ UNCHANGED <<uv, records>>
         /\ End(w)
         /\ UNCHANGED <<accounts, settings, claims, roots, tries>>
    BY <1>2 DEF PassLogin
  <2>1. Owner[c] \in Users
    BY CeremonyAssumption
  <2>2. w \in Verifying /\ req[w].rec \in LoginRecords
    BY RequestKinds DEF TypeOK, Verifying, Idle
  <2>3. [type |-> "uv_setup", root |-> req[w].rec.root, binder |-> req[w].rec.binder,
         rp |-> req[w].rec.rp, user |-> Owner[c], cred |-> c, count |-> n] \in Records
    BY <2>1, <2>2 DEF LoginRecords, Records, UvSetupRecords
  <2>4. records' \in [Ids -> Records \cup {Gone}]
    BY <2>3, StoreShape DEF TypeOK
  <2>5. sessions' \in Seq(SessionRecords)
    BY <2>2, PasskeySessionShape, MintShape DEF TypeOK
  <2>6. count' \in [Credentials -> Counts] /\ flagged' \subseteq Credentials /\ uv' \subseteq Credentials
    BY AdvanceShape DEF TypeOK
  <2>7. failed' \in [Users -> 0..MaxFailed]
    BY <2>1, TrackShape
  <2>. QED
    BY <2>4, <2>5, <2>6, <2>7, EndShape DEF TypeOK
<1>3. ASSUME PassUvSetup(w) PROVE TypeOK'
  <2>. DEFINE c == req[w].rec.cred
              n == req[w].rec.count
  <2>1. /\ req[w].op = "uv_won" /\ Advance(c, n) /\ uv' = uv \cup {c}
        /\ Mint(PasskeySession(w, "uv_setup", c, n))
        /\ End(w) /\ UNCHANGED <<accounts, settings, redis, roots, tries>>
    BY <1>3 DEF PassUvSetup
  <2>2. w \in Verifying /\ req[w].rec \in UvSetupRecords
    BY <2>1, RequestKinds DEF TypeOK, Verifying, Idle
  <2>3. c \in Credentials /\ n \in Counts
    BY <2>2 DEF UvSetupRecords
  <2>. HIDE DEF c, n
  <2>4. sessions' \in Seq(SessionRecords)
    BY <2>1, <2>2, <2>3, PasskeySessionShape, MintShape
  <2>. QED
    BY <2>1, <2>3, <2>4, AdvanceShape, EndShape DEF TypeOK
<1>4. ASSUME FailSecondFactor(w) PROVE TypeOK'
  <2>1. /\ req[w].op = "verify_second_factor" /\ TrackFailure(req[w].rec.user)
        /\ Rearm(req[w].rec) /\ tries' = [tries EXCEPT ![req[w].rec.root] = @ + 1]
        /\ End(w) /\ UNCHANGED <<accounts, advanced, settings, claims, roots, sessions>>
    BY <1>4 DEF FailSecondFactor
  <2>2. req[w].rec \in SecondFactorRecords
    BY <2>1, RequestKinds DEF TypeOK
  <2>3. req[w].rec.user \in Users /\ req[w].rec.root \in Roots
    BY <2>2 DEF SecondFactorRecords
  <2>4. records' \in [Ids -> Records \cup {Gone}]
    <3>1. CASE UNCHANGED records
      BY <3>1 DEF TypeOK
    <3>2. CASE /\ ~ (req[w].rec.attempts + 1 >= MAX_ATTEMPTS)
               /\ Store([req[w].rec EXCEPT !.attempts = @ + 1])
      <4>1. [req[w].rec EXCEPT !.attempts = @ + 1] \in Records
        BY <2>2, <3>2, CeremonyAssumption DEF SecondFactorRecords, Records
      <4>. QED
        BY <3>2, <4>1, StoreShape
    <3>. QED
      BY <2>1, <3>1, <3>2 DEF Rearm
  <2>5. tries' \in [Roots -> Nat]
    BY <2>1, <2>3 DEF TypeOK
  <2>. QED
    BY <2>1, <2>3, <2>4, <2>5, TrackShape, EndShape DEF TypeOK
<1>5. ASSUME PassSecondFactor(w) PROVE TypeOK'
  <2>. PICK c \in Credentials, n \in Counts, verified \in BOOLEAN :
         /\ req[w].op = "verify_second_factor" /\ TrackSuccess(req[w].rec.user)
         /\ \/ /\ Advance(c, n) /\ uv' = IF verified THEN uv \cup {c} ELSE uv
               /\ Mint(PasskeySession(w, "second_factor", c, n))
            \/ UNCHANGED <<advanced, sessions>>
         /\ End(w) /\ UNCHANGED <<accounts, settings, records, claims, roots, tries>>
    BY <1>5 DEF PassSecondFactor
  <2>1. w \in Verifying /\ req[w].rec \in SecondFactorRecords
    BY RequestKinds DEF TypeOK, Verifying, Idle
  <2>2. failed' \in [Users -> 0..MaxFailed]
    BY <2>1, TrackShape DEF SecondFactorRecords
  <2>3. sessions' \in Seq(SessionRecords)
    BY <2>1, PasskeySessionShape, MintShape DEF TypeOK
  <2>4. count' \in [Credentials -> Counts] /\ flagged' \subseteq Credentials /\ uv' \subseteq Credentials
    BY AdvanceShape DEF TypeOK
  <2>. QED
    BY <2>2, <2>3, <2>4, EndShape DEF TypeOK
<1>6. ASSUME PassOtp(w) PROVE TypeOK'
  <2>. DEFINE m == req[w].rec
              s == [root |-> m.root, by |-> "otp", user |-> m.user, browser |-> req[w].browser,
                    began |-> m.binder]
  <2>1. /\ req[w].op \in {"otp", "otp_vetoed"} /\ Consume(req[w].id)
        /\ Mint(s) \/ UNCHANGED sessions
        /\ End(w) /\ UNCHANGED <<accounts, advanced, settings, claims, failed, roots, tries>>
    BY <1>6 DEF PassOtp
  <2>2. req[w] \in Requests /\ m \in OtpRecords
    BY <2>1, RequestKinds DEF TypeOK, Idle
  <2>3. s \in SessionRecords
    BY <2>2, RequestShape, PasswordSessionShape DEF OtpRecords
  <2>4. records' \in [Ids -> Records \cup {Gone}]
    BY <2>1, <2>2, RequestShape DEF Consume, TypeOK
  <2>. HIDE DEF s
  <2>5. sessions' \in Seq(SessionRecords)
    BY <2>1, <2>3, MintShape DEF TypeOK
  <2>. QED
    BY <2>1, <2>4, <2>5, EndShape DEF TypeOK
<1>. QED
  BY <1>1, <1>2, <1>3, <1>4, <1>5, <1>6 DEF Decide

\* Every step keeps the shapes.
LEMMA TypeStep ==
  ASSUME TypeOK, [Next]_vars
  PROVE  TypeOK'
<1>. USE DEF accounts, advanced, settings, redis, history
<1>1. ASSUME NEW w \in Workers, Abandon(w) PROVE TypeOK'
  BY <1>1, EndShape DEF Abandon, TypeOK
<1>2. ASSUME NEW id \in Ids, Expire(id) PROVE TypeOK'
  BY <1>2 DEF Expire, Consume, TypeOK
<1>3. ASSUME NEW u \in Users, ForgetFailures(u) PROVE TypeOK'
  BY <1>3, CeremonyAssumption, SMTT(30) DEF ForgetFailures, TypeOK
<1>4. ASSUME NEW u \in Users, ChangePassword(u) PROVE TypeOK'
  <2>1. password[u] \in 0..MaxPassword /\ MaxPassword \in Nat
    BY CeremonyAssumption DEF TypeOK
  <2>2. password[u] + 1 \in 0..MaxPassword
    BY <1>4, <2>1 DEF ChangePassword
  <2>3. password' \in [Users -> 0..MaxPassword]
    BY <1>4, <2>2 DEF ChangePassword, TypeOK
  <2>4. UNCHANGED <<active, passkeyOnly, enabled, advanced, settings, redis, req, history>>
    BY <1>4 DEF ChangePassword
  <2>. QED
    BY <2>3, <2>4 DEF TypeOK
<1>5. ASSUME NEW u \in Users, ToggleUser(u) \/ TogglePasskeyOnly(u) PROVE TypeOK'
  BY <1>5 DEF ToggleUser, TogglePasskeyOnly, TypeOK
<1>6. ASSUME NEW c \in Credentials, ToggleCredential(c) PROVE TypeOK'
  BY <1>6 DEF ToggleCredential, TypeOK
<1>7. ASSUME NEW k \in Knobs, ToggleKnob(k) PROVE TypeOK'
  BY <1>7 DEF ToggleKnob, TypeOK
<1>8. ASSUME ChangeRp PROVE TypeOK'
  BY <1>8 DEF ChangeRp, TypeOK
<1>9. CASE UNCHANGED vars
  BY <1>9 DEF TypeOK, vars
<1>. QED
  BY <1>1, <1>2, <1>3, <1>4, <1>5, <1>6, <1>7, <1>8, <1>9, FirstLegType, RedisType, DecideType
  DEF Next, Change

-----------------------------------------------------------------------------
(* Where sign-ins go.                                                      *)

\* An id is free while the records are of different sign-ins: there is one id
\* more than sign-ins.
LEMMA FreshIsFree ==
  ASSUME TypeOK, \A a, b \in Stored : a # b => records[a].root # records[b].root
  PROVE  Fresh \in Ids /\ records[Fresh] = Gone
<1>1. \E id \in Ids : records[id] = Gone
  <2>. SUFFICES ASSUME \A id \in Ids : records[id] # Gone PROVE FALSE
    OBVIOUS
  <2>. DEFINE f == [id \in Ids |-> records[id].root]
  <2>1. f \in [Ids -> Roots]
    BY RecordShape DEF TypeOK
  <2>2. MaxRoots \in Nat
    BY CeremonyAssumption
  <2>3. IsFiniteSet(Roots) /\ Cardinality(Roots) = MaxRoots
    BY <2>2, FS_Interval DEF Roots
  <2>4. IsFiniteSet(Ids) /\ Cardinality(Ids) = MaxRoots + 1
    BY <2>2, FS_Interval DEF Ids
  <2>5. \E a, b \in Ids : a # b /\ f[a] = f[b]
    <3>. HIDE DEF f
    <3>1. Cardinality(Roots) < Cardinality(Ids)
      BY <2>2, <2>3, <2>4
    <3>. QED
      BY <2>1, <2>3, <2>4, <3>1, FS_PigeonHole
  <2>. QED
    BY <2>5 DEF Stored
<1>. QED
  BY <1>1 DEF Fresh

\* What stays in a record: its sign-in, and all of it while it awaits a second
\* factor.
Same(r, s) == r.root = s.root /\ (r.type = "second_factor" => r = s)

\* Nothing new is stored, taken in hand or minted; sign-ins may begin.
LEMMA QuietStep ==
  ASSUME OnePlace, Counted, roots \in Nat, roots' \in Nat, roots <= roots',
         sessions' = sessions, tries' = tries,
         \A id \in Stored' : id \in Stored /\ Same(records'[id], records[id]),
         \A w \in Holding' : w \in Holding /\ req'[w] = req[w]
  PROVE  (OnePlace /\ Counted)'
<1>1. OnePlace'
  BY DEF OnePlace, OneSession, Same
<1>2. Counted'
  BY DEF Counted, Same, AttemptsCapped, Roots
<1>. QED
  BY <1>1, <1>2

\* One sign-in, found nowhere else, is stored.
LEMMA IntoStore ==
  ASSUME OnePlace, Counted, roots \in Nat, roots' \in Nat, roots <= roots',
         roots <= MaxRoots, sessions' = sessions, NEW i \in Ids, NEW g \in Roots,
         g = records'[i].root, g <= roots',
         \A r \in Roots \ {g} : tries'[r] = tries[r],
         tries'[g] <= MAX_ATTEMPTS,
         records'[i].type = "second_factor" => tries'[g] = records'[i].attempts,
         \A id \in Stored' \ {i} : /\ id \in Stored /\ records'[id] = records[id]
                                   /\ records[id].root # g,
         \A w \in Holding' : w \in Holding /\ req'[w] = req[w] /\ req[w].rec.root # g,
         \A k \in DOMAIN sessions : sessions[k].root # g
  PROVE  (OnePlace /\ Counted)'
<1>1. OnePlace'
  BY DEF OnePlace, OneSession, Roots
<1>2. Counted'
  <2>0. \A r \in 1..roots : r \in Roots
    BY CeremonyAssumption DEF Roots
  <2>1. \A id \in Stored' : records'[id].type = "second_factor" =>
          tries'[records'[id].root] = records'[id].attempts
    <3>. SUFFICES ASSUME NEW id \in Stored', id # i, records'[id].type = "second_factor"
         PROVE tries'[records'[id].root] = records'[id].attempts
      OBVIOUS
    <3>. QED
      BY <2>0 DEF Counted, OnePlace
  <2>2. \A w \in Holding' : req'[w].op = "verify_second_factor" =>
          tries'[req'[w].rec.root] = req'[w].rec.attempts
    BY <2>0 DEF Counted, OnePlace
  <2>3. \A r \in Roots : r > roots' => tries'[r] = 0
    BY DEF Counted, Roots
  <2>4. AttemptsCapped'
    BY DEF Counted, AttemptsCapped
  <2>. QED
    BY <2>1, <2>2, <2>3, <2>4 DEF Counted
<1>. QED
  BY <1>1, <1>2

\* One sign-in, found nowhere else, is taken in hand.
LEMMA IntoHands ==
  ASSUME OnePlace, Counted, roots \in Nat, roots' = roots, sessions' = sessions, tries' = tries,
         NEW v \in Workers, req'[v].rec.root \in 1..roots,
         req'[v].op = "verify_second_factor" =>
           tries[req'[v].rec.root] = req'[v].rec.attempts,
         \A id \in Stored' : /\ id \in Stored /\ records'[id] = records[id]
                             /\ records[id].root # req'[v].rec.root,
         \A w \in Holding' \ {v} : /\ w \in Holding /\ req'[w] = req[w]
                                   /\ req[w].rec.root # req'[v].rec.root,
         \A k \in DOMAIN sessions : sessions[k].root # req'[v].rec.root
  PROVE  (OnePlace /\ Counted)'
<1>1. OnePlace'
  BY DEF OnePlace, OneSession
<1>2. Counted'
  BY DEF Counted, AttemptsCapped
<1>. QED
  BY <1>1, <1>2

\* One sign-in, found nowhere else, ends in a session.
LEMMA IntoSession ==
  ASSUME OnePlace, Counted, roots \in Nat, roots' \in Nat, roots <= roots', tries' = tries,
         NEW n \in Nat, NEW g \in 1..roots',
         DOMAIN sessions = 1..n, DOMAIN sessions' = 1..(n + 1),
         \A k \in DOMAIN sessions : sessions'[k] = sessions[k],
         sessions'[n + 1].root = g,
         \A id \in Stored' : id \in Stored /\ records'[id] = records[id] /\ records[id].root # g,
         \A w \in Holding' : w \in Holding /\ req'[w] = req[w] /\ req[w].rec.root # g,
         \A k \in DOMAIN sessions : sessions[k].root # g
  PROVE  (OnePlace /\ Counted)'
<1>1. \A k \in DOMAIN sessions' :
        k = n + 1 \/ (k \in DOMAIN sessions /\ sessions'[k] = sessions[k])
  OBVIOUS
<1>2. OneSession'
  BY <1>1 DEF OnePlace, OneSession
<1>3. OnePlace'
  <2>1. /\ \A id \in Stored' : records'[id].root \in 1..roots'
        /\ \A w \in Holding' : req'[w].rec.root \in 1..roots'
        /\ \A k \in DOMAIN sessions' : sessions'[k].root \in 1..roots'
    BY <1>1 DEF OnePlace
  <2>2. /\ \A a, b \in Stored' : a # b => records'[a].root # records'[b].root
        /\ \A v, w \in Holding' : v # w => req'[v].rec.root # req'[w].rec.root
        /\ \A a \in Stored', w \in Holding' : records'[a].root # req'[w].rec.root
    BY SMTT(30) DEF OnePlace
  <2>3. \A k \in DOMAIN sessions' :
          /\ \A a \in Stored' : records'[a].root # sessions'[k].root
          /\ \A w \in Holding' : req'[w].rec.root # sessions'[k].root
    BY <1>1 DEF OnePlace
  <2>. QED
    BY <1>2, <2>1, <2>2, <2>3 DEF OnePlace
<1>4. Counted'
  BY DEF Counted, AttemptsCapped, Roots
<1>. QED
  BY <1>3, <1>4

\* The last attempt fails: its sign-in is nowhere.
LEMMA IntoNothing ==
  ASSUME OnePlace, Counted, roots \in Nat, roots' = roots, sessions' = sessions,
         NEW g \in Roots, g <= roots,
         \A r \in Roots \ {g} : tries'[r] = tries[r],
         tries'[g] <= MAX_ATTEMPTS,
         \A id \in Stored' : id \in Stored /\ records'[id] = records[id] /\ records[id].root # g,
         \A w \in Holding' : w \in Holding /\ req'[w] = req[w] /\ req[w].rec.root # g,
         roots <= MaxRoots
  PROVE  (OnePlace /\ Counted)'
<1>1. OnePlace'
  BY DEF OnePlace, OneSession
<1>2. \A r \in 1..roots : r \in Roots
  BY CeremonyAssumption DEF Roots
<1>3. \A id \in Stored' : records'[id].type = "second_factor" =>
        tries'[records'[id].root] = records'[id].attempts
  BY <1>2 DEF Counted, OnePlace
<1>4. \A w \in Holding' : req'[w].op = "verify_second_factor" =>
        tries'[req'[w].rec.root] = req'[w].rec.attempts
  BY <1>2 DEF Counted, OnePlace
<1>5. AttemptsCapped' /\ \A r \in Roots : r > roots => tries'[r] = 0
  BY DEF Counted, AttemptsCapped, Roots
<1>. QED
  BY <1>1, <1>3, <1>4, <1>5 DEF Counted

\* What is known of records and requests that stay stays known.
LEMMA KnownStep ==
  ASSUME Known,
         \A id \in Stored' : (id \in Stored /\ records'[id] = records[id]) \/ Sound(records'[id]),
         \A w \in Verifying' : \/ w \in Verifying /\ req'[w] = req[w]
                               \/ Sound(req'[w].rec) /\ Vetted(req'[w])
  PROVE  Known'
<1>1. \A id \in Stored' : Sound(records'[id])
  BY DEF Known
<1>2. \A w \in Verifying' : Sound(req'[w].rec) /\ Vetted(req'[w])
  BY DEF Known
<1>. QED
  BY <1>1, <1>2 DEF Known, Sound, Vetted

-----------------------------------------------------------------------------
(* The steps.                                                              *)

\* A sign-in nothing leads to.
Nowhere(g) ==
    /\ \A id \in Stored : records[id].root # g
    /\ \A w \in Holding : req[w].rec.root # g
    /\ \A k \in DOMAIN sessions : sessions[k].root # g

\* The bounds on the number of sign-ins.
LEMMA RootsShape ==
  ASSUME TypeOK
  PROVE  roots \in Nat /\ MaxRoots \in Nat /\ roots <= MaxRoots
         /\ \A g \in 1..roots : g \in Roots /\ g \in Nat
BY CeremonyAssumption DEF TypeOK, Roots

\* A sign-in that begins is the next one, and nothing leads to it yet.
LEMMA NextRoot ==
  ASSUME TypeOK, OnePlace, Counted, BeginRoot
  PROVE  /\ roots' = roots + 1 /\ roots' \in Nat /\ roots <= roots'
         /\ roots + 1 \in Roots /\ roots + 1 \in 1..roots' /\ tries[roots + 1] = 0
         /\ Nowhere(roots + 1)
<1>1. roots' = roots + 1 /\ roots < MaxRoots
  BY DEF BeginRoot
<1>2. roots' \in Nat /\ roots <= roots' /\ roots + 1 \in Roots /\ roots + 1 \in 1..roots'
      /\ roots + 1 > roots /\ roots + 1 \notin 1..roots
  BY <1>1, RootsShape DEF Roots
<1>3. tries[roots + 1] = 0
  BY <1>2 DEF Counted
<1>4. Nowhere(roots + 1)
  BY <1>2 DEF Nowhere, OnePlace
<1>. QED
  BY <1>1, <1>2, <1>3, <1>4

\* A record is stored under an id that was free.
LEMMA StorePlace ==
  ASSUME TypeOK, OnePlace, NEW r \in Records, Store(r)
  PROVE  \E i \in Ids : /\ i \notin Stored /\ records'[i] = r
                        /\ \A id \in Stored' \ {i} : id \in Stored /\ records'[id] = records[id]
<1>1. Fresh \in Ids /\ records[Fresh] = Gone
  BY FreshIsFree DEF OnePlace
<1>2. PICK i \in Ids : i = Fresh
  BY <1>1
<1>3. records' = [records EXCEPT ![i] = r]
  BY <1>2 DEF Store
<1>4. i \notin Stored /\ records'[i] = r
  BY <1>1, <1>2, <1>3 DEF Stored, TypeOK
<1>5. \A id \in Stored' \ {i} : id \in Stored /\ records'[id] = records[id]
  BY <1>3 DEF Stored, TypeOK
<1>. QED
  BY <1>4, <1>5

\* A consumed record is gone, the others stay.
LEMMA ConsumePlace ==
  ASSUME TypeOK, NEW id \in Ids, Consume(id)
  PROVE  \A a \in Stored' : a # id /\ a \in Stored /\ records'[a] = records[a]
BY DEF Consume, Stored, TypeOK

\* A request that ends holds nothing, the others hold what they held.
LEMMA EndPlace ==
  ASSUME TypeOK, NEW w \in Workers, End(w)
  PROVE  /\ \A v \in Holding' : v # w /\ v \in Holding /\ req'[v] = req[v]
         /\ \A v \in Verifying' : v # w /\ v \in Verifying /\ req'[v] = req[v]
BY EndShape DEF Holding, Verifying, Idle

\* What leaves requests, or records, alone.
LEMMA RequestsStay ==
  ASSUME UNCHANGED req
  PROVE  /\ \A v \in Holding' : v \in Holding /\ req'[v] = req[v]
         /\ \A v \in Verifying' : v \in Verifying /\ req'[v] = req[v]
BY DEF Holding, Verifying

LEMMA RecordsStay ==
  ASSUME UNCHANGED records
  PROVE  \A a \in Stored' : a \in Stored /\ records'[a] = records[a]
BY DEF Stored

\* What a request holds nothing else leads to.
LEMMA HeldOnce ==
  ASSUME TypeOK, OnePlace, NEW w \in Holding
  PROVE  /\ req[w].rec.root \in 1..roots
         /\ \A id \in Stored : records[id].root # req[w].rec.root
         /\ \A v \in Holding \ {w} : req[v].rec.root # req[w].rec.root
         /\ \A k \in DOMAIN sessions : sessions[k].root # req[w].rec.root
BY DEF OnePlace

\* What is stored nothing else leads to.
LEMMA StoredOnce ==
  ASSUME TypeOK, OnePlace, NEW id \in Stored
  PROVE  /\ records[id].root \in 1..roots
         /\ \A a \in Stored \ {id} : records[a].root # records[id].root
         /\ \A w \in Holding : req[w].rec.root # records[id].root
         /\ \A k \in DOMAIN sessions : sessions[k].root # records[id].root
BY DEF OnePlace

\* A sign-in begins with a record.
LEMMA BeginWithRecord ==
  ASSUME TypeOK, OnePlace, Counted, Known, BeginRoot, NEW r \in Records, Store(r),
         r.root = roots + 1, r.type = "second_factor" => r.attempts = 0, Sound(r),
         UNCHANGED <<req, tries, sessions>>
  PROVE  (Known /\ OnePlace /\ Counted)'
<1>1. PICK i \in Ids : /\ i \notin Stored /\ records'[i] = r
                       /\ \A id \in Stored' \ {i} : id \in Stored /\ records'[id] = records[id]
  BY StorePlace
<1>2. PICK g \in Roots : g = roots + 1
  BY NextRoot
<1>3. tries[g] = 0 /\ Nowhere(g) /\ roots \in Nat /\ roots' \in Nat /\ roots <= roots' /\ g <= roots'
      /\ roots <= MaxRoots
  BY <1>2, NextRoot, RootsShape
<1>4. MAX_ATTEMPTS \in Nat
  BY CeremonyAssumption
<1>5. (OnePlace /\ Counted)'
  <2>1. /\ g = records'[i].root /\ tries' = tries /\ tries'[g] <= MAX_ATTEMPTS
        /\ records'[i].type = "second_factor" => tries'[g] = records'[i].attempts
    BY <1>1, <1>2, <1>3, <1>4
  <2>2. \A id \in Stored' \ {i} : /\ id \in Stored /\ records'[id] = records[id]
                                  /\ records[id].root # g
    BY <1>1, <1>3 DEF Nowhere
  <2>3. \A w \in Holding' : w \in Holding /\ req'[w] = req[w] /\ req[w].rec.root # g
    BY <1>3, RequestsStay DEF Nowhere
  <2>4. \A k \in DOMAIN sessions : sessions[k].root # g
    BY <1>3 DEF Nowhere
  <2>. QED
    BY <1>3, <2>1, <2>2, <2>3, <2>4, IntoStore
<1>6. Known'
  BY <1>1, RequestsStay, KnownStep
<1>. QED
  BY <1>5, <1>6

\* A sign-in begins with a session.
LEMMA BeginWithSession ==
  ASSUME TypeOK, OnePlace, Counted, Known, BeginRoot, NEW s \in SessionRecords, Mint(s),
         s.root = roots + 1, UNCHANGED <<records, req, tries>>
  PROVE  (Known /\ OnePlace /\ Counted)'
<1>1. PICK n \in Nat : n = Len(sessions)
  BY MintShape
<1>2. PICK g \in 1..roots' : g = roots + 1
  BY NextRoot
<1>3. Nowhere(g) /\ roots \in Nat /\ roots' \in Nat /\ roots <= roots'
  BY <1>2, NextRoot, RootsShape
<1>4. (OnePlace /\ Counted)'
  <2>1. /\ DOMAIN sessions = 1..n /\ DOMAIN sessions' = 1..(n + 1)
        /\ \A k \in DOMAIN sessions : sessions'[k] = sessions[k]
        /\ sessions'[n + 1].root = g
    BY <1>1, <1>2, MintShape
  <2>2. \A id \in Stored' : id \in Stored /\ records'[id] = records[id] /\ records[id].root # g
    BY <1>3, RecordsStay DEF Nowhere
  <2>3. \A w \in Holding' : w \in Holding /\ req'[w] = req[w] /\ req[w].rec.root # g
    BY <1>3, RequestsStay DEF Nowhere
  <2>4. \A k \in DOMAIN sessions : sessions[k].root # g
    BY <1>3 DEF Nowhere
  <2>. QED
    BY <1>3, <2>1, <2>2, <2>3, <2>4, IntoSession
<1>5. Known'
  BY RecordsStay, RequestsStay, KnownStep
<1>. QED
  BY <1>4, <1>5

\* Records and requests stay or go.
LEMMA NothingNew ==
  ASSUME TypeOK, OnePlace, Counted, Known, roots' \in Nat, roots <= roots',
         UNCHANGED <<tries, sessions>>,
         \A id \in Stored' : id \in Stored /\ records'[id] = records[id],
         \A w \in Holding' : w \in Holding /\ req'[w] = req[w],
         \A w \in Verifying' : \/ w \in Verifying /\ req'[w] = req[w]
                               \/ Sound(req'[w].rec) /\ Vetted(req'[w])
  PROVE  (Known /\ OnePlace /\ Counted)'
<1>1. (OnePlace /\ Counted)'
  BY QuietStep, RootsShape DEF Same
<1>2. Known'
  BY KnownStep
<1>. QED
  BY <1>1, <1>2

\* First legs.
LEMMA FirstLegPlaces ==
  ASSUME TypeOK, OnePlace, Counted, Known, FirstLeg
  PROVE  (Known /\ OnePlace /\ Counted)'
<1>1. ASSUME NEW b \in Browsers, BeginLogin(b) PROVE (Known /\ OnePlace /\ Counted)'
  <2>1. PICK r \in Records : /\ Store(r) /\ r.type = "login" /\ r.root = roots + 1
    <3>1. roots + 1 \in Roots /\ rp \in Rps
      BY <1>1, NextRoot DEF BeginLogin, TypeOK, SiteRps
    <3>2. [type |-> "login", root |-> roots + 1, binder |-> b, rp |-> rp] \in Records
      BY <3>1 DEF Records, LoginRecords
    <3>. QED
      BY <1>1, <3>2 DEF BeginLogin
  <2>2. Sound(r)
    BY <2>1 DEF Sound
  <2>. QED
    BY <1>1, <2>1, <2>2, BeginWithRecord DEF BeginLogin
<1>2. ASSUME NEW b \in Browsers, NEW u \in Users,
             BeginRoot, UNCHANGED <<records, req, tries>>,
             Mint(PasswordSession(b, u)) \/ UNCHANGED sessions
      PROVE  (Known /\ OnePlace /\ Counted)'
  <2>1. CASE Mint(PasswordSession(b, u))
    <3>1. PICK s \in SessionRecords : s = PasswordSession(b, u)
      BY <1>2, NextRoot, PasswordSessionShape DEF PasswordSession
    <3>2. s.root = roots + 1
      BY <3>1 DEF PasswordSession
    <3>. QED
      BY <1>2, <2>1, <3>1, <3>2, BeginWithSession
  <2>2. CASE UNCHANGED sessions
    BY <1>2, <2>2, NextRoot, NothingNew, RecordsStay, RequestsStay
  <2>. QED
    BY <1>2, <2>1, <2>2
<1>3. ASSUME NEW b \in Browsers, NEW u \in Users, LoginWithPassword(b, u)
      PROVE  (Known /\ OnePlace /\ Counted)'
  <2>. DEFINE r == [type |-> "second_factor", root |-> roots + 1, binder |-> b, rp |-> rp,
                    user |-> u, version |-> password[u], allow |-> Usable(u), attempts |-> 0,
                    fallback |-> {"enable_two_factor_auth", "otp_fallback"} \subseteq on]
  <2>1. BeginRoot /\ UNCHANGED <<req, tries>> /\ b \in Knows
    BY <1>3 DEF LoginWithPassword
  <2>2. \/ rp # NoRp /\ Store(r) /\ UNCHANGED sessions
        \/ UNCHANGED records /\ (Mint(PasswordSession(b, u)) \/ UNCHANGED sessions)
    BY <1>3 DEF LoginWithPassword
  <2>3. rp # NoRp => r \in Records
    <3>1. Usable(u) \subseteq Credentials
      BY DEF Usable, TypeOK
    <3>2. 0 \in 0..(MAX_ATTEMPTS - 1)
      BY CeremonyAssumption
    <3>3. roots + 1 \in Roots
      BY <2>1, NextRoot
    <3>. QED
      BY <3>1, <3>2, <3>3 DEF Records, SecondFactorRecords, TypeOK, SiteRps
  <2>4. Sound(r) /\ r.root = roots + 1 /\ r.attempts = 0
    BY <2>1 DEF Sound, Usable
  <2>. HIDE DEF r
  <2>5. CASE rp # NoRp /\ Store(r) /\ UNCHANGED sessions
    <3>1. PICK q \in Records : q = r
      BY <2>3, <2>5
    <3>. QED
      BY <2>1, <2>4, <2>5, <3>1, BeginWithRecord
  <2>. QED
    BY <1>2, <2>1, <2>2, <2>5
<1>4. ASSUME NEW b \in Browsers, NEW u \in Users, CorePasswordLogin(b, u)
      PROVE  (Known /\ OnePlace /\ Counted)'
  BY <1>2, <1>4 DEF CorePasswordLogin
<1>5. ASSUME NEW b \in Browsers, FallbackToOtp(b) PROVE (Known /\ OnePlace /\ Counted)'
  <2>1. PICK id \in Ids :
         /\ UNCHANGED <<req, history>>
         /\ \/ records' = [records EXCEPT ![id] = Gone]
            \/ /\ records[id].type = "second_factor"
               /\ records' = [records EXCEPT ![id] =
                    [type |-> "otp", root |-> records[id].root, binder |-> records[id].binder,
                     user |-> records[id].user, version |-> records[id].version]]
    BY <1>5 DEF FallbackToOtp
  <2>2. records[id].type = "second_factor" => id \in Stored /\ records[id].binder \in Knows
    <3>1. records[id].type = "second_factor" => id \in Stored
      BY RecordKinds DEF TypeOK, Stored
    <3>. QED
      BY <3>1 DEF Known, Sound
  <2>3. \A a \in Stored' : a \in Stored /\
          \/ records'[a] = records[a]
          \/ a = id /\ Same(records'[a], records[a]) /\ Sound(records'[a])
    BY <2>1, <2>2 DEF Stored, TypeOK, Same, Sound
  <2>4. (OnePlace /\ Counted)'
    BY <2>1, <2>3, QuietStep, RequestsStay, RootsShape DEF Same, history
  <2>5. Known'
    BY <2>1, <2>3, RequestsStay, KnownStep
  <2>. QED
    BY <2>4, <2>5
<1>. QED
  BY <1>1, <1>3, <1>4, <1>5 DEF FirstLeg

\* What requests do to Redis: only ConsumeCeremony and ConsumeUvSetup take a
\* sign-in out of its record.
LEMMA RedisPlaces ==
  ASSUME TypeOK, OnePlace, Counted, Known, NEW w \in Workers, RedisStep(w)
  PROVE  (Known /\ OnePlace /\ Counted)'
<1>. USE DEF redis, history
<1>1. ASSUME NEW q, Serve(w, q)
      PROVE  /\ req'[w] = q
             /\ \A v \in Workers \ {w} : req'[v] = req[v]
  BY <1>1 DEF Serve, TypeOK
<1>2. \A v \in Workers : req[v] \in Requests \cup {Idle}
  BY DEF TypeOK
<1>3. ASSUME NEW id \in Ids, NEW b \in Browsers, NEW op, Serve(w, Snapshot(w, op, id, b)),
             op \in {"uv_setup", "otp", "otp_vetoed"}, id \in Stored, UNCHANGED <<redis, history>>,
             Vetted(Snapshot(w, op, id, b))
      PROVE  (Known /\ OnePlace /\ Counted)'
  <2>1. req'[w].op = op /\ req'[w].rec = records[id] /\ Vetted(req'[w])
    BY <1>1, <1>3 DEF Snapshot
  <2>2. Sound(req'[w].rec)
    BY <1>3, <2>1 DEF Known
  <2>3. \A v \in Holding' : v \in Holding /\ req'[v] = req[v]
    BY <1>1, <1>3, <2>1 DEF Holding
  <2>4. \A v \in Verifying' : \/ v \in Verifying /\ req'[v] = req[v]
                              \/ Sound(req'[v].rec) /\ Vetted(req'[v])
    BY <1>1, <1>3, <2>1, <2>2 DEF Verifying
  <2>. QED
    BY <1>3, <2>3, <2>4, NothingNew, RecordsStay, RootsShape
<1>4. ASSUME ReadUvSetup(w) PROVE (Known /\ OnePlace /\ Counted)'
  <2>1. PICK id \in Ids, b \in Browsers :
          /\ records[id].type = "uv_setup" /\ records[id].binder = b
          /\ Serve(w, Snapshot(w, "uv_setup", id, b)) /\ UNCHANGED <<redis, history>>
    BY <1>4 DEF ReadUvSetup
  <2>2. id \in Stored
    BY <2>1, RecordKinds DEF TypeOK, Stored
  <2>3. Vetted(Snapshot(w, "uv_setup", id, b))
    BY <2>1 DEF Vetted, Snapshot
  <2>. QED
    BY <1>3, <2>1, <2>2, <2>3
<1>5. ASSUME ReadOtpMarker(w) PROVE (Known /\ OnePlace /\ Counted)'
  <2>1. PICK id \in Ids, b \in Browsers, op \in {"otp", "otp_vetoed"} :
          /\ records[id].type = "otp" /\ records[id].version = password[records[id].user]
          /\ Serve(w, Snapshot(w, op, id, b)) /\ UNCHANGED <<redis, history>>
    BY <1>5 DEF ReadOtpMarker
  <2>2. id \in Stored
    BY <2>1, RecordKinds DEF TypeOK, Stored
  <2>3. Vetted(Snapshot(w, op, id, b))
    BY <2>1 DEF Vetted, Snapshot
  <2>. QED
    BY <1>3, <2>1, <2>2, <2>3
<1>6. ASSUME CheckPassword(w) PROVE (Known /\ OnePlace /\ Counted)'
  <2>1. /\ req[w].op = "uv_setup" /\ w \in Verifying /\ w \notin Holding
        /\ UNCHANGED <<records, history>>
        /\ \/ req[w].browser \in Knows /\ req' = [req EXCEPT ![w].op = "uv_known"]
           \/ End(w)
    BY <1>6, <1>2, RequestKinds DEF CheckPassword, Verifying, Holding, End
  <2>2. CASE End(w)
    BY <2>1, <2>2, NothingNew, RecordsStay, EndPlace, RootsShape
  <2>3. CASE req[w].browser \in Knows /\ req' = [req EXCEPT ![w].op = "uv_known"]
    <3>1. req'[w] = [req[w] EXCEPT !.op = "uv_known"] /\ \A v \in Workers \ {w} : req'[v] = req[v]
      BY <2>3 DEF TypeOK
    <3>2. req[w] \in Serving({"uv_setup", "uv_known", "uv_won"}, UvSetupRecords)
      BY <2>1, UvRequests DEF TypeOK
    <3>3. /\ req'[w].op = "uv_known" /\ req'[w].rec = req[w].rec
          /\ req'[w].browser = req[w].browser
      BY <3>1, <3>2 DEF Serving
    <3>4. Sound(req'[w].rec) /\ Vetted(req'[w])
      BY <2>1, <2>3, <3>3 DEF Known, Vetted
    <3>5. \A v \in Holding' : v \in Holding /\ req'[v] = req[v]
      BY <3>1, <3>3 DEF Holding
    <3>6. \A v \in Verifying' : \/ v \in Verifying /\ req'[v] = req[v]
                                \/ Sound(req'[v].rec) /\ Vetted(req'[v])
      BY <3>1, <3>4 DEF Verifying
    <3>. QED
      BY <2>1, <3>5, <3>6, NothingNew, RecordsStay, RootsShape
  <2>. QED
    BY <2>1, <2>2, <2>3
\* A stored sign-in goes from its record into the request's hands.
<1>7. ASSUME NEW id \in Stored, Consume(id), UNCHANGED history,
             w \notin Holding, \A v \in Workers \ {w} : req'[v] = req[v],
             req'[w].rec = records[id],
             req'[w].op = "verify_second_factor" => records[id].type = "second_factor",
             Vetted(req'[w])
      PROVE  (Known /\ OnePlace /\ Counted)'
  <2>1. /\ req'[w].rec.root \in 1..roots
        /\ req'[w].op = "verify_second_factor" => tries[req'[w].rec.root] = req'[w].rec.attempts
    BY <1>7, StoredOnce DEF Counted
  <2>2. \A a \in Stored' : /\ a \in Stored /\ records'[a] = records[a]
                           /\ records[a].root # req'[w].rec.root
    BY <1>7, ConsumePlace, StoredOnce DEF Stored
  <2>3. \A v \in Holding' \ {w} : /\ v \in Holding /\ req'[v] = req[v]
                                  /\ req[v].rec.root # req'[w].rec.root
    BY <1>7, StoredOnce DEF Holding
  <2>4. \A k \in DOMAIN sessions : sessions[k].root # req'[w].rec.root
    BY <1>7, StoredOnce
  <2>5. (OnePlace /\ Counted)'
    BY <1>7, <2>1, <2>2, <2>3, <2>4, IntoHands, RootsShape
  <2>6. Sound(req'[w].rec)
    BY <1>7 DEF Known
  <2>7. Known'
    BY <1>7, <2>2, <2>6, KnownStep DEF Verifying
  <2>. QED
    BY <2>5, <2>7
<1>8. ASSUME ConsumeCeremony(w) PROVE (Known /\ OnePlace /\ Counted)'
  <2>1. PICK id \in Ids, b \in Browsers, op \in {"verify_login", "verify_second_factor"} :
         /\ records[id].type \in {"login", "second_factor"}
         /\ Consume(id)
         /\ \/ /\ \/ op = "verify_login" /\ CanLogin(records[id], b)
                  \/ op = "verify_second_factor" /\ CanSecondFactor(records[id], b)
               /\ Serve(w, Snapshot(w, op, id, b))
            \/ UNCHANGED req
         /\ UNCHANGED history
    BY <1>8 DEF ConsumeCeremony
  <2>2. CASE UNCHANGED req
    BY <2>1, <2>2, NothingNew, ConsumePlace, RequestsStay, RootsShape
  <2>3. CASE /\ \/ op = "verify_login" /\ CanLogin(records[id], b)
                \/ op = "verify_second_factor" /\ CanSecondFactor(records[id], b)
             /\ Serve(w, Snapshot(w, op, id, b))
    <3>1. id \in Stored
      BY <2>1, RecordKinds DEF TypeOK, Stored
    <3>2. w \notin Holding
      BY <2>3 DEF Serve, Holding, Idle
    <3>3. req'[w] = Snapshot(w, op, id, b) /\ \A v \in Workers \ {w} : req'[v] = req[v]
      BY <1>1, <2>3
    <3>4. /\ req'[w].op = op /\ req'[w].rec = records[id] /\ Vetted(req'[w])
      BY <2>3, <3>3 DEF Snapshot, Vetted, CanLogin, CanSecondFactor
    <3>5. op = "verify_second_factor" => records[id].type = "second_factor"
      BY <2>3 DEF CanSecondFactor
    <3>. QED
      BY <1>7, <2>1, <3>1, <3>2, <3>3, <3>4, <3>5
  <2>. QED
    BY <2>1, <2>2, <2>3
<1>9. ASSUME ConsumeUvSetup(w) PROVE (Known /\ OnePlace /\ Counted)'
  <2>1. /\ req[w].op = "uv_known" /\ Consume(req[w].id) /\ UNCHANGED history
        /\ \/ records[req[w].id] = req[w].rec /\ req' = [req EXCEPT ![w].op = "uv_won"]
           \/ End(w)
    BY <1>9 DEF ConsumeUvSetup, End
  <2>2. req[w] \in Requests /\ w \in Verifying /\ w \notin Holding
    BY <1>2, <2>1, RequestKinds DEF Verifying, Holding
  <2>3. req[w].id \in Ids /\ req[w].rec \in Records /\ req[w].rec # Gone
    <3>1. req[w].id \in Ids /\ req[w].rec \in Records
      BY <2>2, RequestShape
    <3>. QED
      BY <3>1, RecordShape DEF Gone
  <2>4. CASE End(w)
    BY <2>1, <2>3, <2>4, NothingNew, ConsumePlace, EndPlace, RootsShape
  <2>5. CASE records[req[w].id] = req[w].rec /\ req' = [req EXCEPT ![w].op = "uv_won"]
    <3>1. req'[w] = [req[w] EXCEPT !.op = "uv_won"] /\ \A v \in Workers \ {w} : req'[v] = req[v]
      BY <2>5 DEF TypeOK
    <3>2. req[w] \in Serving({"uv_setup", "uv_known", "uv_won"}, UvSetupRecords)
      BY <1>2, <2>1, UvRequests
    <3>3. /\ req'[w].op = "uv_won" /\ req'[w].rec = req[w].rec
          /\ req'[w].browser = req[w].browser
      BY <3>1, <3>2 DEF Serving
    <3>4. Vetted(req'[w])
      BY <2>1, <2>2, <3>3 DEF Known, Vetted
    <3>5. req[w].id \in Stored
      BY <2>3, <2>5 DEF Stored
    <3>. QED
      BY <1>7, <2>1, <2>2, <2>5, <3>1, <3>3, <3>4, <3>5
  <2>. QED
    BY <2>1, <2>4, <2>5
<1>. QED
  BY <1>4, <1>5, <1>6, <1>8, <1>9 DEF RedisStep

\* What a request holds ends in a session.
LEMMA HeldIntoSession ==
  ASSUME TypeOK, OnePlace, Counted, Known, NEW w \in Holding, End(w),
         NEW s \in SessionRecords, Mint(s), s.root = req[w].rec.root,
         UNCHANGED <<records, roots, tries>>
  PROVE  (Known /\ OnePlace /\ Counted)'
<1>1. PICK n \in Nat : n = Len(sessions)
  BY MintShape
<1>2. w \in Workers
  BY DEF Holding
<1>3. PICK g \in 1..roots' : g = req[w].rec.root
  BY HeldOnce
<1>4. (OnePlace /\ Counted)'
  <2>1. /\ DOMAIN sessions = 1..n /\ DOMAIN sessions' = 1..(n + 1)
        /\ \A k \in DOMAIN sessions : sessions'[k] = sessions[k]
        /\ sessions'[n + 1].root = g
    BY <1>1, <1>3, MintShape
  <2>2. \A id \in Stored' : id \in Stored /\ records'[id] = records[id] /\ records[id].root # g
    BY <1>3, RecordsStay, HeldOnce
  <2>3. \A v \in Holding' : v \in Holding /\ req'[v] = req[v] /\ req[v].rec.root # g
    BY <1>2, <1>3, EndPlace, HeldOnce
  <2>4. \A k \in DOMAIN sessions : sessions[k].root # g
    BY <1>3, HeldOnce
  <2>5. roots \in Nat /\ roots' \in Nat /\ roots <= roots'
    BY RootsShape
  <2>. QED
    BY <2>1, <2>2, <2>3, <2>4, <2>5, IntoSession
<1>5. Known'
  BY <1>2, RecordsStay, EndPlace, KnownStep
<1>. QED
  BY <1>4, <1>5

\* What a request holds is stored again, with the attempts it names made.
LEMMA HeldIntoStore ==
  ASSUME TypeOK, OnePlace, Counted, Known, NEW w \in Holding, End(w),
         NEW r \in Records, Store(r), Sound(r), r.root = req[w].rec.root,
         UNCHANGED <<roots, sessions>>, DOMAIN tries' = Roots,
         \A g \in Roots : g # r.root => tries'[g] = tries[g],
         tries'[r.root] <= MAX_ATTEMPTS,
         r.type = "second_factor" => tries'[r.root] = r.attempts
  PROVE  (Known /\ OnePlace /\ Counted)'
<1>1. PICK i \in Ids : /\ i \notin Stored /\ records'[i] = r
                       /\ \A id \in Stored' \ {i} : id \in Stored /\ records'[id] = records[id]
  BY StorePlace
<1>2. w \in Workers
  BY DEF Holding
<1>3. roots \in Nat /\ roots' \in Nat /\ roots <= roots' /\ roots <= MaxRoots
      /\ \A g \in 1..roots : g \in Roots /\ g <= roots'
  BY RootsShape
<1>4. PICK g \in Roots : g = r.root /\ g <= roots'
  BY <1>3, HeldOnce
<1>5. (OnePlace /\ Counted)'
  <2>1. /\ g = records'[i].root /\ tries'[g] <= MAX_ATTEMPTS
        /\ \A h \in Roots \ {g} : tries'[h] = tries[h]
        /\ records'[i].type = "second_factor" => tries'[g] = records'[i].attempts
    BY <1>1, <1>4
  <2>2. \A id \in Stored' \ {i} : /\ id \in Stored /\ records'[id] = records[id]
                                  /\ records[id].root # g
    BY <1>1, <1>4, HeldOnce
  <2>3. \A v \in Holding' : v \in Holding /\ req'[v] = req[v] /\ req[v].rec.root # g
    BY <1>2, <1>4, EndPlace, HeldOnce
  <2>4. \A k \in DOMAIN sessions : sessions[k].root # g
    BY <1>4, HeldOnce
  <2>. QED
    BY <1>3, <1>4, <2>1, <2>2, <2>3, <2>4, IntoStore
<1>6. Known'
  BY <1>1, <1>2, EndPlace, KnownStep
<1>. QED
  BY <1>5, <1>6

\* Decisions: a held sign-in becomes a session, a record again, or nothing.
LEMMA DecidePlaces ==
  ASSUME TypeOK, OnePlace, Counted, Known, NEW w \in Workers, Decide(w)
  PROVE  (Known /\ OnePlace /\ Counted)'
<1>. USE DEF advanced, redis, history
<1>1. ASSUME End(w), UNCHANGED <<records, history>> PROVE (Known /\ OnePlace /\ Counted)'
  BY <1>1, NothingNew, RecordsStay, EndPlace, RootsShape
<1>2. ASSUME req[w].op \in {"verify_login", "verify_second_factor", "uv_won"}, End(w),
             NEW by \in {"login", "uv_setup", "second_factor"},
             NEW c \in Credentials, NEW n \in Counts, Mint(PasskeySession(w, by, c, n)),
             UNCHANGED <<records, roots, tries>>
      PROVE  (Known /\ OnePlace /\ Counted)'
  <2>1. w \in Holding /\ w \in Verifying
    BY <1>2, RequestKinds DEF TypeOK, Holding, Verifying
  <2>2. PICK s \in SessionRecords : s = PasskeySession(w, by, c, n)
    BY <1>2, <2>1, PasskeySessionShape
  <2>3. s.root = req[w].rec.root
    BY <2>2 DEF PasskeySession
  <2>. QED
    BY <1>2, <2>1, <2>2, <2>3, HeldIntoSession
<1>3. ASSUME FailLogin(w) PROVE (Known /\ OnePlace /\ Counted)'
  BY <1>1, <1>3 DEF FailLogin
<1>4. ASSUME PassLogin(w) PROVE (Known /\ OnePlace /\ Counted)'
  <2>1. PICK c \in Credentials, n \in Counts :
         /\ req[w].op = "verify_login" /\ End(w) /\ UNCHANGED <<roots, tries>>
         /\ \/ /\ Store([type |-> "uv_setup", root |-> req[w].rec.root,
                         binder |-> req[w].rec.binder, rp |-> req[w].rec.rp, user |-> Owner[c],
                         cred |-> c, count |-> n])
               /\ UNCHANGED sessions
            \/ /\ UNCHANGED records
               /\ Mint(PasskeySession(w, "login", c, n)) \/ UNCHANGED sessions
    BY <1>4 DEF PassLogin
  <2>2. CASE UNCHANGED records /\ UNCHANGED sessions
    BY <1>1, <2>1, <2>2
  <2>3. CASE UNCHANGED records /\ Mint(PasskeySession(w, "login", c, n))
    BY <1>2, <2>1, <2>3
  <2>4. CASE /\ Store([type |-> "uv_setup", root |-> req[w].rec.root,
                       binder |-> req[w].rec.binder, rp |-> req[w].rec.rp, user |-> Owner[c],
                       cred |-> c, count |-> n])
             /\ UNCHANGED sessions
    <3>1. w \in Holding /\ req[w].rec \in LoginRecords
      BY <2>1, RequestKinds DEF TypeOK, Holding
    <3>2. PICK r \in Records : /\ Store(r) /\ r.type = "uv_setup" /\ r.root = req[w].rec.root
      <4>1. Owner[c] \in Users
        BY CeremonyAssumption
      <4>2. [type |-> "uv_setup", root |-> req[w].rec.root, binder |-> req[w].rec.binder,
             rp |-> req[w].rec.rp, user |-> Owner[c], cred |-> c, count |-> n] \in Records
        BY <3>1, <4>1 DEF LoginRecords, Records, UvSetupRecords
      <4>. QED
        BY <2>4, <4>2
    <3>3. Sound(r)
      BY <3>2 DEF Sound
    <3>4. r.root \in Roots /\ tries[r.root] <= MAX_ATTEMPTS
      BY <3>2, RecordShape DEF Counted, AttemptsCapped
    <3>. QED
      BY <2>1, <2>4, <3>1, <3>2, <3>3, <3>4, HeldIntoStore DEF TypeOK
  <2>. QED
    BY <2>1, <2>2, <2>3, <2>4
<1>5. ASSUME PassUvSetup(w) PROVE (Known /\ OnePlace /\ Counted)'
  <2>1. req[w].rec \in UvSetupRecords
    BY <1>5, RequestKinds DEF TypeOK, PassUvSetup
  <2>2. PICK c \in Credentials, n \in Counts :
          /\ req[w].op = "uv_won" /\ End(w) /\ Mint(PasskeySession(w, "uv_setup", c, n))
          /\ UNCHANGED <<records, roots, tries>>
    BY <1>5, <2>1 DEF PassUvSetup, UvSetupRecords
  <2>. QED
    BY <1>2, <2>2
<1>6. ASSUME FailSecondFactor(w) PROVE (Known /\ OnePlace /\ Counted)'
  <2>1. /\ req[w].op = "verify_second_factor" /\ Rearm(req[w].rec)
        /\ tries' = [tries EXCEPT ![req[w].rec.root] = @ + 1]
        /\ End(w) /\ UNCHANGED <<roots, sessions>>
    BY <1>6 DEF FailSecondFactor
  <2>2. w \in Holding /\ w \in Verifying /\ req[w].rec \in SecondFactorRecords
    BY <2>1, RequestKinds DEF TypeOK, Holding, Verifying
  <2>3. PICK g \in Roots : g = req[w].rec.root
    BY <2>2 DEF SecondFactorRecords
  <2>4. PICK a \in 0..(MAX_ATTEMPTS - 1) : a = req[w].rec.attempts
    BY <2>2 DEF SecondFactorRecords
  <2>5. tries[g] = a
    BY <2>1, <2>2, <2>3, <2>4 DEF Counted
  <2>6. /\ MAX_ATTEMPTS \in Nat /\ DOMAIN tries' = Roots /\ tries'[g] = a + 1
        /\ \A h \in Roots \ {g} : tries'[h] = tries[h]
    BY <2>1, <2>3, <2>5, CeremonyAssumption DEF TypeOK
  <2>7. CASE UNCHANGED records
    <3>1. \A id \in Stored' : id \in Stored /\ records'[id] = records[id] /\ records[id].root # g
      BY <2>2, <2>3, <2>7, RecordsStay, HeldOnce
    <3>2. \A v \in Holding' : v \in Holding /\ req'[v] = req[v] /\ req[v].rec.root # g
      BY <2>1, <2>2, <2>3, EndPlace, HeldOnce
    <3>3. g <= roots /\ roots \in Nat /\ roots <= MaxRoots
      BY <2>2, <2>3, HeldOnce, RootsShape
    <3>4. tries'[g] <= MAX_ATTEMPTS
      BY <2>6
    <3>5. (OnePlace /\ Counted)'
      BY <2>1, <2>6, <3>1, <3>2, <3>3, <3>4, IntoNothing
    <3>6. Known'
      BY <2>1, <2>7, RecordsStay, EndPlace, KnownStep
    <3>. QED
      BY <3>5, <3>6
  <2>8. CASE /\ ~ (a + 1 >= MAX_ATTEMPTS)
             /\ Store([req[w].rec EXCEPT !.attempts = @ + 1])
    <3>1. PICK r \in Records : r = [req[w].rec EXCEPT !.attempts = @ + 1]
      BY <2>2, <2>4, <2>6, <2>8 DEF SecondFactorRecords, Records
    <3>2. /\ r.type = "second_factor" /\ r.root = g /\ r.attempts = a + 1
          /\ r.binder = req[w].rec.binder /\ r.user = req[w].rec.user
          /\ r.allow = req[w].rec.allow /\ req[w].rec.type = "second_factor"
      BY <2>2, <2>3, <2>4, <3>1 DEF SecondFactorRecords
    <3>3. Sound(req[w].rec)
      BY <2>2 DEF Known
    <3>4. Sound(r)
      BY <3>2, <3>3 DEF Sound
    <3>5. tries'[r.root] <= MAX_ATTEMPTS
      BY <2>4, <2>6, <2>8, <3>2
    <3>6. /\ Store(r) /\ r.root = req[w].rec.root /\ UNCHANGED <<roots, sessions>>
          /\ DOMAIN tries' = Roots /\ tries'[r.root] = r.attempts
          /\ \A h \in Roots : h # r.root => tries'[h] = tries[h]
      BY <2>1, <2>3, <2>6, <2>8, <3>1, <3>2
    <3>. QED
      BY <2>1, <2>2, <3>4, <3>5, <3>6, HeldIntoStore
  <2>. QED
    BY <2>1, <2>4, <2>7, <2>8 DEF Rearm
<1>7. ASSUME PassSecondFactor(w) PROVE (Known /\ OnePlace /\ Counted)'
  <2>1. PICK c \in Credentials, n \in Counts :
          /\ req[w].op = "verify_second_factor" /\ End(w)
          /\ Mint(PasskeySession(w, "second_factor", c, n)) \/ UNCHANGED sessions
          /\ UNCHANGED <<records, roots, tries>>
    BY <1>7 DEF PassSecondFactor
  <2>. QED
    BY <1>1, <1>2, <2>1
<1>8. ASSUME PassOtp(w) PROVE (Known /\ OnePlace /\ Counted)'
  <2>. DEFINE m == req[w].rec
              t == [root |-> m.root, by |-> "otp", user |-> m.user, browser |-> req[w].browser,
                    began |-> m.binder]
  <2>1. /\ req[w].op \in {"otp", "otp_vetoed"} /\ records[req[w].id] = m /\ Consume(req[w].id)
        /\ Mint(t) \/ UNCHANGED sessions
        /\ End(w) /\ UNCHANGED <<roots, tries>>
    BY <1>8 DEF PassOtp, MarkerTaken
  <2>2. req[w] \in Requests /\ m \in OtpRecords
    BY <2>1, RequestKinds DEF TypeOK, Idle
  <2>3. PICK id \in Ids : id = req[w].id
    BY <2>2, RequestShape
  <2>4. id \in Stored
    BY <2>1, <2>2, <2>3 DEF OtpRecords, Gone, Stored
  <2>5. t \in SessionRecords
    BY <2>2, RequestShape, PasswordSessionShape DEF OtpRecords
  <2>6. PICK s \in SessionRecords : s = t
    BY <2>5
  <2>7. s.root = records[id].root
    BY <2>1, <2>3, <2>6
  <2>8. CASE UNCHANGED sessions
    BY <2>1, <2>3, <2>8, NothingNew, ConsumePlace, EndPlace, RootsShape
  <2>9. CASE Mint(t)
    <3>. HIDE DEF t
    <3>1. PICK n \in Nat : n = Len(sessions)
      BY MintShape, <2>6, <2>9
    <3>2. PICK g \in 1..roots' : g = records[id].root
      BY <2>1, <2>4, StoredOnce
    <3>3. /\ DOMAIN sessions = 1..n /\ DOMAIN sessions' = 1..(n + 1)
          /\ \A k \in DOMAIN sessions : sessions'[k] = sessions[k]
          /\ sessions'[n + 1].root = g
      BY <2>6, <2>7, <2>9, <3>1, <3>2, MintShape
    <3>4. \A a \in Stored' : a \in Stored /\ records'[a] = records[a] /\ records[a].root # g
      BY <2>1, <2>3, <2>4, <3>2, ConsumePlace, StoredOnce
    <3>5. \A v \in Holding' : v \in Holding /\ req'[v] = req[v] /\ req[v].rec.root # g
      BY <2>1, <2>4, <3>2, EndPlace, StoredOnce
    <3>6. \A k \in DOMAIN sessions : sessions[k].root # g
      BY <2>4, <3>2, StoredOnce
    <3>7. (OnePlace /\ Counted)'
      BY <2>1, <3>3, <3>4, <3>5, <3>6, IntoSession, RootsShape
    <3>8. Known'
      BY <2>1, <3>4, EndPlace, KnownStep
    <3>. QED
      BY <3>7, <3>8
  <2>. QED
    BY <2>1, <2>8, <2>9
<1>. QED
  BY <1>3, <1>4, <1>5, <1>6, <1>7, <1>8 DEF Decide

\* No other step starts, takes up or ends a sign-in.
LEMMA PlacesStep ==
  ASSUME TypeOK, OnePlace, Counted, Known, [Next]_vars
  PROVE  (Known /\ OnePlace /\ Counted)'
<1>. USE DEF redis, history
<1>1. ASSUME NEW w \in Workers, Abandon(w) PROVE (Known /\ OnePlace /\ Counted)'
  BY <1>1, NothingNew, RecordsStay, EndPlace, RootsShape DEF Abandon
<1>2. ASSUME NEW id \in Ids, Expire(id) PROVE (Known /\ OnePlace /\ Counted)'
  BY <1>2, NothingNew, ConsumePlace, RequestsStay, RootsShape DEF Expire
<1>3. ASSUME UNCHANGED <<records, req, history>> PROVE (Known /\ OnePlace /\ Counted)'
  BY <1>3, NothingNew, RecordsStay, RequestsStay, RootsShape
<1>4. ASSUME NEW u \in Users,
             ForgetFailures(u) \/ ChangePassword(u) \/ ToggleUser(u) \/ TogglePasskeyOnly(u)
      PROVE  UNCHANGED <<records, req, history>>
  BY <1>4 DEF ForgetFailures, ChangePassword, ToggleUser, TogglePasskeyOnly
<1>5. ASSUME NEW c \in Credentials, ToggleCredential(c) PROVE UNCHANGED <<records, req, history>>
  BY <1>5 DEF ToggleCredential
<1>6. ASSUME NEW k \in Knobs, ToggleKnob(k) PROVE UNCHANGED <<records, req, history>>
  BY <1>6 DEF ToggleKnob
<1>7. ASSUME ChangeRp PROVE UNCHANGED <<records, req, history>>
  BY <1>7 DEF ChangeRp
<1>8. CASE UNCHANGED vars
  BY <1>3, <1>8 DEF vars
<1>. QED
  BY <1>1, <1>2, <1>3, <1>4, <1>5, <1>6, <1>7, <1>8, FirstLegPlaces, RedisPlaces, DecidePlaces
  DEF Next, Change

-----------------------------------------------------------------------------
(* What mints.                                                             *)

PasskeyMint(w, by, c, n) ==
    /\ Mint(PasskeySession(w, by, c, n))
    /\ LockedAndEnabled(c) /\ RpOf[c] = req[w].rp
    /\ CountAccepted(c, n) /\ Advance(c, n)
    /\ End(w)
    /\ \/ by = "login" /\ req[w].op = "verify_login" /\ c \in uv /\ UNCHANGED uv
       \/ by = "uv_setup" /\ req[w].op = "uv_won" /\ uv' = uv \cup {c}
       \/ /\ by = "second_factor" /\ req[w].op = "verify_second_factor"
          /\ req[w].rec.user = Owner[c] /\ req[w].rec.version = req[w].password[Owner[c]]
          /\ uv' \in {uv, uv \cup {c}}

OtpSession(w) ==
    [root |-> req[w].rec.root, by |-> "otp", user |-> req[w].rec.user,
     browser |-> req[w].browser, began |-> req[w].rec.binder]

\* A step mints nothing and advances no passkey, or it mints a passkey session,
\* a password session or a one-time-code session.
Mints ==
    \/ UNCHANGED <<sessions, advanced>>
    \/ \E w \in Workers, by \in {"login", "uv_setup", "second_factor"},
          c \in Credentials, n \in Counts : PasskeyMint(w, by, c, n)
    \/ \E b \in Knows, u \in Users :
         BeginRoot /\ Mint(PasswordSession(b, u)) /\ UNCHANGED <<req, advanced>>
    \/ \E w \in Workers :
         req[w].op = "otp" /\ Mint(OtpSession(w)) /\ End(w) /\ UNCHANGED advanced

LEMMA MintsStep ==
  ASSUME TypeOK, Known, [Next]_vars
  PROVE  Mints
<1>. USE DEF advanced, history
<1>1. ASSUME FirstLeg PROVE Mints
  <2>1. ASSUME NEW b \in Browsers, BeginLogin(b) \/ FallbackToOtp(b)
        PROVE  UNCHANGED <<sessions, advanced>>
    BY <2>1 DEF BeginLogin, FallbackToOtp
  <2>2. ASSUME NEW b \in Browsers, NEW u \in Users,
               LoginWithPassword(b, u) \/ CorePasswordLogin(b, u)
        PROVE  /\ UNCHANGED <<req, advanced>> /\ BeginRoot /\ b \in Knows
               /\ Mint(PasswordSession(b, u)) \/ UNCHANGED sessions
    BY <2>2 DEF LoginWithPassword, CorePasswordLogin
  <2>. QED
    BY <1>1, <2>1, <2>2 DEF FirstLeg, Mints
<1>2. ASSUME NEW w \in Workers, RedisStep(w) PROVE UNCHANGED <<sessions, advanced>>
  BY <1>2 DEF RedisStep, ConsumeCeremony, ReadUvSetup, CheckPassword, ConsumeUvSetup, ReadOtpMarker
<1>3. ASSUME NEW w \in Workers, FailLogin(w) \/ FailSecondFactor(w) \/ Abandon(w)
      PROVE  UNCHANGED <<sessions, advanced>>
  BY <1>3 DEF FailLogin, FailSecondFactor, Abandon
<1>4. ASSUME NEW w \in Workers, PassLogin(w) PROVE Mints
  <2>1. PICK c \in Credentials, n \in Counts :
          /\ req[w].op = "verify_login" /\ End(w) /\ LockedAndEnabled(c)
          /\ RpOf[c] = req[w].rec.rp /\ CountAccepted(c, n)
          /\ \/ UNCHANGED <<sessions, advanced>>
             \/ /\ UvOutcome(TRUE, c) = "session" /\ UNCHANGED uv
                /\ RpIsCurrent(w) /\ Advance(c, n) /\ Mint(PasskeySession(w, "login", c, n))
    BY <1>4 DEF PassLogin
  <2>2. UvOutcome(TRUE, c) = "session" => c \in uv
    BY DEF UvOutcome
  <2>3. \/ UNCHANGED <<sessions, advanced>>
        \/ PasskeyMint(w, "login", c, n)
    BY <2>1, <2>2 DEF PasskeyMint, RpIsCurrent
  <2>. QED
    BY <2>3 DEF Mints
<1>5. ASSUME NEW w \in Workers, PassUvSetup(w) PROVE Mints
  <2>1. req[w].rec \in UvSetupRecords
    BY <1>5, RequestKinds DEF TypeOK, PassUvSetup
  <2>2. PICK c \in Credentials, n \in Counts : c = req[w].rec.cred /\ n = req[w].rec.count
    BY <2>1 DEF UvSetupRecords
  <2>3. PasskeyMint(w, "uv_setup", c, n)
    BY <1>5, <2>2 DEF PassUvSetup, PasskeyMint, RpIsCurrent
  <2>. QED
    BY <2>3 DEF Mints
<1>6. ASSUME NEW w \in Workers, PassSecondFactor(w) PROVE Mints
  <2>1. PICK c \in Credentials, n \in Counts, verified \in BOOLEAN :
          /\ req[w].op = "verify_second_factor" /\ End(w)
          /\ c \in req[w].rec.allow /\ LockedAndEnabled(c) /\ RpOf[c] = req[w].rec.rp
          /\ CountAccepted(c, n)
          /\ \/ /\ Reauthenticates(w) /\ Advance(c, n)
                /\ uv' = IF verified THEN uv \cup {c} ELSE uv
                /\ Mint(PasskeySession(w, "second_factor", c, n))
             \/ UNCHANGED <<advanced, sessions>>
    BY <1>6 DEF PassSecondFactor
  <2>2. w \in Verifying /\ req[w].rec \in SecondFactorRecords
    BY <2>1, RequestKinds DEF TypeOK, Verifying
  <2>3. Owner[c] = req[w].rec.user /\ req[w].rp = req[w].rec.rp
    BY <2>1, <2>2 DEF Known, Sound, Vetted, SecondFactorRecords
  <2>4. \/ UNCHANGED <<sessions, advanced>>
        \/ PasskeyMint(w, "second_factor", c, n)
    BY <2>1, <2>3 DEF PasskeyMint, Reauthenticates
  <2>. QED
    BY <2>4 DEF Mints
<1>7. ASSUME NEW w \in Workers, PassOtp(w) PROVE Mints
  BY <1>7 DEF PassOtp, OtpSession, Mints
<1>8. ASSUME Change PROVE UNCHANGED <<sessions, advanced>>
  BY <1>8 DEF Change, Expire, ForgetFailures, ChangePassword, ToggleUser, TogglePasskeyOnly,
     ToggleCredential, ToggleKnob, ChangeRp
<1>9. CASE UNCHANGED vars
  BY <1>9 DEF vars, Mints
<1>. QED
  BY <1>1, <1>2, <1>3, <1>4, <1>5, <1>6, <1>7, <1>8, <1>9 DEF Next, Decide, Mints

\* What a request that mints a passkey session has seen to.
LEMMA PasskeyMintFacts ==
  ASSUME TypeOK, Known, NEW w \in Workers, NEW by \in {"login", "uv_setup", "second_factor"},
         NEW c \in Credentials, NEW n \in Counts, PasskeyMint(w, by, c, n)
  PROVE  /\ w \in Verifying /\ PasskeySession(w, by, c, n) \in SessionRecords
         /\ req[w].browser = req[w].rec.binder
         /\ by \in {"uv_setup", "second_factor"} => req[w].browser \in Knows
         /\ "cred" \in DOMAIN NewSession /\ NewSession.cred = c /\ NewSession.count = n
         /\ NewSession.by = by /\ NewSession.user = Owner[c] /\ Minted
         /\ NewSession.browser = req[w].browser /\ NewSession.began = req[w].browser
<1>1. w \in Verifying
  BY RequestKinds DEF TypeOK, Verifying, PasskeyMint
<1>2. PasskeySession(w, by, c, n) \in SessionRecords
  BY <1>1, PasskeySessionShape
<1>3. req[w].browser = req[w].rec.binder
  BY <1>1 DEF Known, Vetted, PasskeyMint
<1>4. by = "second_factor" => req[w].rec \in SecondFactorRecords
  BY RequestKinds DEF TypeOK, PasskeyMint
<1>5. by \in {"uv_setup", "second_factor"} => req[w].browser \in Knows
  BY <1>1, <1>3, <1>4 DEF Known, Sound, Vetted, PasskeyMint, SecondFactorRecords
<1>6. Mint(PasskeySession(w, by, c, n))
  BY DEF PasskeyMint
<1>7. PICK s \in SessionRecords : s = PasskeySession(w, by, c, n)
  BY <1>2
<1>8. /\ "cred" \in DOMAIN s /\ s.cred = c /\ s.count = n /\ s.by = by /\ s.user = Owner[c]
      /\ s.browser = req[w].browser /\ s.began = req[w].rec.binder
  BY <1>7 DEF PasskeySession
<1>9. NewSession = s /\ Minted
  BY <1>6, <1>7, MintShape
<1>. QED
  BY <1>1, <1>2, <1>3, <1>5, <1>8, <1>9

\* The sessions without a passkey.
LEMMA PasswordMintFacts ==
  ASSUME TypeOK, OnePlace, Counted, NEW b \in Knows, NEW u \in Users, BeginRoot,
         Mint(PasswordSession(b, u))
  PROVE  PasswordSession(b, u) \in SessionRecords /\ NewSession = PasswordSession(b, u)
<1>1. PasswordSession(b, u) \in SessionRecords
  BY NextRoot, CeremonyAssumption, PasswordSessionShape DEF PasswordSession
<1>2. PICK s \in SessionRecords : s = PasswordSession(b, u)
  BY <1>1
<1>. QED
  BY <1>2, MintShape

LEMMA OtpMintFacts ==
  ASSUME TypeOK, Known, NEW w \in Workers, req[w].op = "otp", Mint(OtpSession(w))
  PROVE  /\ w \in Verifying /\ OtpSession(w) \in SessionRecords /\ NewSession = OtpSession(w)
         /\ req[w].rec.binder \in Knows
         /\ req[w].password[req[w].rec.user] = req[w].rec.version
<1>1. w \in Verifying /\ req[w] \in Requests /\ req[w].rec \in OtpRecords
  BY RequestKinds DEF TypeOK, Verifying
<1>2. OtpSession(w) \in SessionRecords
  BY <1>1, RequestShape, PasswordSessionShape DEF OtpRecords, OtpSession
<1>3. PICK s \in SessionRecords : s = OtpSession(w)
  BY <1>2
<1>4. NewSession = OtpSession(w)
  BY <1>3, MintShape
<1>5. req[w].rec.type = "otp"
  BY <1>1 DEF OtpRecords
<1>. QED
  BY <1>1, <1>2, <1>4, <1>5 DEF Known, Sound, Vetted

\* Sessions end where they began and stay below the rows' counters.
LEMMA SessionsStep ==
  ASSUME IInv, [Next]_vars
  PROVE  (EndsWhereItBegan /\ Counters)'
<1>. USE DEF IInv
<1>1. ASSUME NEW s \in SessionRecords, Mint(s), \A c \in Credentials : count[c] <= count'[c],
             count' \in [Credentials -> Counts],
             "cred" \in DOMAIN s => s.browser = s.began /\ s.count <= count'[s.cred]
      PROVE  (EndsWhereItBegan /\ Counters)'
  <2>1. \A i \in DOMAIN sessions' : \/ i \in DOMAIN sessions /\ sessions'[i] = sessions[i]
                                    \/ sessions'[i] = s
    BY <1>1, MintShape
  <2>2. \A i \in DOMAIN sessions : sessions[i] \in SessionRecords
    BY DEF TypeOK
  <2>3. \A t \in SessionRecords : "cred" \in DOMAIN t => t.cred \in Credentials /\ t.count \in Counts
    BY DEF SessionRecords
  <2>4. Counters'
    <3>. SUFFICES ASSUME NEW i \in DOMAIN sessions, sessions'[i] = sessions[i],
                         "cred" \in DOMAIN sessions[i]
         PROVE  sessions[i].count <= count'[sessions[i].cred]
      BY <1>1, <2>1 DEF Counters
    <3>1. PICK c \in Credentials, n \in Counts : c = sessions[i].cred /\ n = sessions[i].count
      BY <2>2, <2>3
    <3>2. n <= count[c]
      BY <3>1 DEF Counters
    <3>3. n \in Nat /\ count[c] \in Nat /\ count'[c] \in Nat /\ count[c] <= count'[c]
      BY <1>1 DEF TypeOK, Counts
    <3>. QED
      BY <3>1, <3>2, <3>3
  <2>5. EndsWhereItBegan'
    BY <1>1, <2>1 DEF EndsWhereItBegan
  <2>. QED
    BY <2>4, <2>5
<1>2. ASSUME UNCHANGED <<sessions, count>> PROVE (EndsWhereItBegan /\ Counters)'
  BY <1>2 DEF EndsWhereItBegan, Counters
<1>3. ASSUME UNCHANGED advanced PROVE /\ UNCHANGED count /\ count' \in [Credentials -> Counts]
                                      /\ \A c \in Credentials : count[c] <= count'[c]
  BY <1>3 DEF advanced, TypeOK, Counts
<1>4. ASSUME NEW w \in Workers, NEW by \in {"login", "uv_setup", "second_factor"},
             NEW c \in Credentials, NEW n \in Counts, PasskeyMint(w, by, c, n)
      PROVE  (EndsWhereItBegan /\ Counters)'
  <2>1. PICK s \in SessionRecords : s = PasskeySession(w, by, c, n)
    BY <1>4, PasskeyMintFacts
  <2>2. s.browser = s.began /\ s.cred = c /\ s.count = n
    BY <1>4, <2>1, MintShape, PasskeyMintFacts DEF PasskeyMint
  <2>3. Mint(s) /\ Advance(c, n)
    BY <1>4, <2>1 DEF PasskeyMint
  <2>4. /\ count' \in [Credentials -> Counts] /\ n <= count'[c]
        /\ \A d \in Credentials : count[d] <= count'[d]
    BY <2>3 DEF Advance, TypeOK, Counts
  <2>. QED
    BY <1>1, <2>2, <2>3, <2>4
<1>5. ASSUME NEW b \in Knows, NEW u \in Users, BeginRoot, Mint(PasswordSession(b, u)),
             UNCHANGED advanced
      PROVE  (EndsWhereItBegan /\ Counters)'
  <2>1. PICK s \in SessionRecords : s = PasswordSession(b, u)
    BY <1>5, PasswordMintFacts
  <2>2. "cred" \notin DOMAIN s
    BY <2>1 DEF PasswordSession
  <2>. QED
    BY <1>1, <1>3, <1>5, <2>1, <2>2
<1>6. ASSUME NEW w \in Workers, req[w].op = "otp", Mint(OtpSession(w)), UNCHANGED advanced
      PROVE  (EndsWhereItBegan /\ Counters)'
  <2>1. PICK s \in SessionRecords : s = OtpSession(w)
    BY <1>6, OtpMintFacts
  <2>2. "cred" \notin DOMAIN s
    BY <2>1 DEF OtpSession
  <2>. QED
    BY <1>1, <1>3, <1>6, <2>1, <2>2
<1>. QED
  BY <1>2, <1>3, <1>4, <1>5, <1>6, MintsStep DEF Mints

\* In the beginning nothing is under way.
LEMMA IInvInit ==
  ASSUME Init
  PROVE  IInv
<1>1. TypeOK
  <2>1. count \in [Credentials -> Counts] /\ moving \in Changes /\ uv \subseteq Credentials
        /\ on \subseteq Knobs /\ rp \in SiteRps
    BY DEF Init, Knobs, SiteRps
  <2>2. active \subseteq Users /\ passkeyOnly \subseteq Users /\ enabled \subseteq Credentials
        /\ flagged \subseteq Credentials
    BY DEF Init
  <2>3. password \in [Users -> 0..MaxPassword] /\ claims \in [Users -> 0..PASSWORD_LIMIT]
        /\ failed \in [Users -> 0..MaxFailed]
    BY CeremonyAssumption DEF Init
  <2>4. /\ records \in [Ids -> Records \cup {Gone}] /\ req \in [Workers -> Requests \cup {Idle}]
        /\ roots \in 0..MaxRoots /\ tries \in [Roots -> Nat]
    BY DEF Init
  <2>5. sessions \in Seq(SessionRecords)
    BY DEF Init
  <2>. QED
    BY <2>1, <2>2, <2>3, <2>4, <2>5 DEF TypeOK
<1>2. Stored = {} /\ Verifying = {} /\ Holding = {} /\ DOMAIN sessions = {}
  <2>1. Stored = {} /\ Verifying = {} /\ Holding = {}
    BY DEF Init, Stored, Verifying, Holding, Idle
  <2>2. sessions = << >>
    BY DEF Init
  <2>. QED
    BY <2>1, <2>2
<1>3. AttemptsCapped /\ \A r \in Roots : tries[r] = 0
  BY CeremonyAssumption DEF Init, AttemptsCapped
<1>4. Known /\ OnePlace /\ EndsWhereItBegan /\ Counters
  BY <1>2 DEF Known, OnePlace, OneSession, EndsWhereItBegan, Counters
<1>5. Counted
  BY <1>2, <1>3 DEF Counted
<1>. QED
  BY <1>1, <1>4, <1>5 DEF IInv

\* The inductive invariant holds.
LEMMA IInvHolds == Spec => []IInv
<1>1. Init => IInv
  BY IInvInit
<1>2. IInv /\ [Next]_vars => IInv'
  BY TypeStep, PlacesStep, SessionsStep DEF IInv
<1>. QED
  BY <1>1, <1>2, PTL DEF Spec

-----------------------------------------------------------------------------
(* Theorems.                                                               *)

\* Type correctness: every request keeps carrying a record of the kind its
\* handler expects, whatever becomes of the record in Redis.
THEOREM TypeCorrect == Spec => []TypeOK
<1>1. IInv => TypeOK
  BY DEF IInv
<1>. QED
  BY <1>1, IInvHolds, PTL

\* Single use: a sign-in ends in one session at most, a passkey session in the
\* browser that began it, after at most SECOND_FACTOR_MAX_ATTEMPTS attempts.
THEOREM OneSessionPerSignIn == Spec => []SignInsEndOnce
<1>1. IInv => SignInsEndOnce
  BY DEF IInv, OnePlace, Counted, SignInsEndOnce
<1>. QED
  BY <1>1, IInvHolds, PTL

\* advance_credential: the counters of a passkey's sessions rise, whoever
\* switches hard fail meanwhile.
THEOREM CountsRise == Spec => SignCountsRise
<1>. DEFINE Rise == Minted /\ "cred" \in DOMAIN NewSession =>
              \A i \in DOMAIN sessions :
                LET s == sessions[i]
                    t == NewSession
                IN  "cred" \in DOMAIN s /\ s.cred = t.cred =>
                      \/ t.count > s.count
                      \/ s.count = 0 /\ t.count = 0
                      \/ ~ HardFail /\ t.cred \in flagged'
<1>1. IInv /\ [Next]_vars => [Rise]_vars
  <2>. SUFFICES ASSUME IInv, [Next]_vars, Minted, "cred" \in DOMAIN NewSession,
                       NEW i \in DOMAIN sessions,
                       "cred" \in DOMAIN sessions[i], sessions[i].cred = NewSession.cred
       PROVE  \/ NewSession.count > sessions[i].count
              \/ sessions[i].count = 0 /\ NewSession.count = 0
              \/ ~ HardFail /\ NewSession.cred \in flagged'
    OBVIOUS
  <2>. USE DEF IInv
  <2>1. PICK w \in Workers, by \in {"login", "uv_setup", "second_factor"},
             c \in Credentials, n \in Counts : PasskeyMint(w, by, c, n)
    <3>1. ASSUME NEW b \in Knows, NEW u \in Users, BeginRoot, Mint(PasswordSession(b, u))
          PROVE  "cred" \notin DOMAIN NewSession
      BY <3>1, PasswordMintFacts DEF PasswordSession
    <3>2. ASSUME NEW w \in Workers, req[w].op = "otp", Mint(OtpSession(w))
          PROVE  "cred" \notin DOMAIN NewSession
      BY <3>2, OtpMintFacts DEF OtpSession
    <3>. QED
      BY <3>1, <3>2, MintsStep DEF Mints, Minted
  <2>2. NewSession.cred = c /\ NewSession.count = n
    BY <2>1, PasskeyMintFacts
  <2>3. PICK m \in Counts : m = sessions[i].count
    <3>1. sessions[i] \in SessionRecords
      BY DEF TypeOK
    <3>. QED
      BY <3>1 DEF SessionRecords
  <2>4. m <= count[c] /\ count[c] \in Nat /\ n \in Nat /\ m \in Nat
    BY <2>2, <2>3 DEF Counters, TypeOK, Counts
  <2>5. CountAccepted(c, n) /\ flagged' = IF Regression(c, n) THEN flagged \cup {c} ELSE flagged
    BY <2>1 DEF PasskeyMint, Advance
  <2>. QED
    BY <2>2, <2>3, <2>4, <2>5 DEF CountAccepted, Replay, Regression
<1>. QED
  BY <1>1, IInvHolds, PTL DEF SignCountsRise, Spec

\* passwordless_uv_outcome: who does not know the password signs in only with a
\* passkey that has uv_initialized, and never sets it.
THEOREM PossessionNeverEnough == Spec => PossessionIsNotEnough
<1>. DEFINE Enough == /\ Minted => \/ NewSession.began \in Knows
                                   \/ "cred" \in DOMAIN NewSession /\ NewSession.cred \in uv
                      /\ uv' # uv => Minted /\ NewSession.browser \in Knows
<1>1. IInv /\ [Next]_vars => [Enough]_vars
  <2>. SUFFICES ASSUME IInv, [Next]_vars PROVE Enough
    OBVIOUS
  <2>. USE DEF IInv
  <2>1. CASE UNCHANGED <<sessions, advanced>>
    BY <2>1 DEF Minted, advanced
  <2>2. ASSUME NEW w \in Workers, NEW by \in {"login", "uv_setup", "second_factor"},
               NEW c \in Credentials, NEW n \in Counts, PasskeyMint(w, by, c, n)
        PROVE  Enough
    <3>1. /\ Minted /\ NewSession.cred = c /\ "cred" \in DOMAIN NewSession
          /\ NewSession.browser = req[w].browser /\ NewSession.began = req[w].browser
          /\ by \in {"uv_setup", "second_factor"} => req[w].browser \in Knows
      BY <2>2, PasskeyMintFacts
    <3>2. by = "login" => c \in uv /\ UNCHANGED uv
      BY <2>2 DEF PasskeyMint
    <3>. QED
      BY <3>1, <3>2
  <2>3. ASSUME NEW b \in Knows, NEW u \in Users, BeginRoot, Mint(PasswordSession(b, u)),
               UNCHANGED advanced
        PROVE  Enough
    BY <2>3, PasswordMintFacts DEF PasswordSession, advanced
  <2>4. ASSUME NEW w \in Workers, req[w].op = "otp", Mint(OtpSession(w)), UNCHANGED advanced
        PROVE  Enough
    BY <2>4, OtpMintFacts DEF OtpSession, advanced
  <2>. QED
    BY <2>1, <2>2, <2>3, <2>4, MintsStep DEF Mints
<1>. QED
  BY <1>1, IInvHolds, PTL DEF PossessionIsNotEnough, Spec

\* Between the legs of a sign-in nothing goes stale unseen: the locked rows are
\* the present ones, RP ID and password hash those of the second leg's snapshot.
THEOREM StaleNeverMints == Spec => NothingStaleMints
<1>. DEFINE Fresher == \A w \in Workers : Minting(w) =>
              /\ "cred" \in DOMAIN NewSession =>
                   /\ NewSession.user \in active /\ NewSession.cred \in enabled
                   /\ RpOf[NewSession.cred] = req[w].rp
              /\ NewSession.by \in {"second_factor", "otp"} =>
                   req[w].password[NewSession.user] = req[w].rec.version
<1>1. IInv /\ [Next]_vars => [Fresher]_vars
  <2>. SUFFICES ASSUME IInv, [Next]_vars, NEW w \in Workers, Minting(w)
       PROVE  /\ "cred" \in DOMAIN NewSession =>
                   /\ NewSession.user \in active /\ NewSession.cred \in enabled
                   /\ RpOf[NewSession.cred] = req[w].rp
              /\ NewSession.by \in {"second_factor", "otp"} =>
                   req[w].password[NewSession.user] = req[w].rec.version
    OBVIOUS
  <2>. USE DEF IInv
  <2>1. ASSUME NEW v \in Workers, End(v) PROVE v = w
    BY <2>1, EndShape DEF Minting
  <2>2. ASSUME NEW v \in Workers, NEW by \in {"login", "uv_setup", "second_factor"},
               NEW c \in Credentials, NEW n \in Counts, PasskeyMint(v, by, c, n)
        PROVE  /\ NewSession.user \in active /\ NewSession.cred \in enabled
               /\ RpOf[NewSession.cred] = req[w].rp
               /\ NewSession.by \in {"second_factor", "otp"} =>
                    req[w].password[NewSession.user] = req[w].rec.version
    <3>1. v = w
      BY <2>1, <2>2 DEF PasskeyMint
    <3>2. NewSession.user = Owner[c] /\ NewSession.cred = c /\ NewSession.by = by
      BY <2>2, PasskeyMintFacts
    <3>. QED
      BY <2>2, <3>1, <3>2 DEF PasskeyMint, LockedAndEnabled
  <2>3. ASSUME NEW v \in Workers, req[v].op = "otp", Mint(OtpSession(v)), End(v)
        PROVE  /\ "cred" \notin DOMAIN NewSession
               /\ req[w].password[NewSession.user] = req[w].rec.version
    BY <2>1, <2>3, OtpMintFacts DEF OtpSession
  <2>4. ~ UNCHANGED sessions /\ ~ UNCHANGED req
    BY DEF Minting, Minted
  <2>. QED
    BY <2>2, <2>3, <2>4, MintsStep DEF Mints
<1>. QED
  BY <1>1, IInvHolds, PTL DEF NothingStaleMints, Spec

-----------------------------------------------------------------------------
(* The refinement of SingleUse.                                            *)

\* Nothing of it is seen in what SingleUse says.
Quiet == UNCHANGED <<roots, Pending, Used>>

\* What is pending is stored or in hand.
LEMMA PendingIs ==
  /\ \A x : x \in Pending <=> \/ \E id \in Stored : x = Carries(records[id])
                              \/ \E w \in Holding : x = Carries(req[w].rec)
  /\ \A x : x \in Pending' <=> \/ \E id \in Stored' : x = Carries(records'[id])
                               \/ \E w \in Holding' : x = Carries(req'[w].rec)
BY DEF Pending, Carries

\* Sign-ins that carry the same authorisation are the same one.
LEMMA CarriesRoot ==
  ASSUME NEW r, NEW q, Carries(r) = Carries(q)
  PROVE  r.root = q.root
<1>1. Carries(r).id = r.root /\ Carries(q).id = q.root
  BY DEF Carries
<1>. QED
  BY <1>1

\* Every sign-in stays where it is, or moves.
LEMMA PendingKept ==
  ASSUME \A id \in Stored' :
             \/ \E i \in Stored : Carries(records'[id]) = Carries(records[i])
             \/ \E w \in Holding : Carries(records'[id]) = Carries(req[w].rec),
         \A w \in Holding' :
             \/ \E i \in Stored : Carries(req'[w].rec) = Carries(records[i])
             \/ \E v \in Holding : Carries(req'[w].rec) = Carries(req[v].rec),
         \A id \in Stored :
             \/ \E i \in Stored' : Carries(records[id]) = Carries(records'[i])
             \/ \E w \in Holding' : Carries(records[id]) = Carries(req'[w].rec),
         \A w \in Holding :
             \/ \E i \in Stored' : Carries(req[w].rec) = Carries(records'[i])
             \/ \E v \in Holding' : Carries(req[w].rec) = Carries(req'[v].rec)
  PROVE  Pending' = Pending
<1>. DEFINE c(r) == Carries(r)
<1>1. Pending = {c(records[id]) : id \in Stored} \cup {c(req[w].rec) : w \in Holding}
  BY DEF Pending
<1>2. Pending' = {c(records'[id]) : id \in Stored'} \cup {c(req'[w].rec) : w \in Holding'}
  BY DEF Pending, Carries
<1>. HIDE DEF c
<1>3. Pending' \subseteq Pending
  BY <1>1, <1>2 DEF c
<1>4. Pending \subseteq Pending'
  BY <1>1, <1>2 DEF c
<1>. QED
  BY <1>3, <1>4

\* One sign-in is nowhere any more, the others stay.
LEMMA PendingLoses ==
  ASSUME NEW a, a \in Pending,
         \A id \in Stored' : /\ id \in Stored /\ records'[id] = records[id]
                             /\ Carries(records[id]) # a,
         \A w \in Holding' : w \in Holding /\ req'[w] = req[w] /\ Carries(req[w].rec) # a,
         \A id \in Stored : Carries(records[id]) = a \/ id \in Stored',
         \A w \in Holding : Carries(req[w].rec) = a \/ w \in Holding'
  PROVE  Pending' = Pending \ {a}
<1>1. ASSUME NEW x, x \in Pending' PROVE x \in Pending /\ x # a
  <2>1. CASE \E id \in Stored' : x = Carries(records'[id])
    <3>1. PICK id \in Stored' : x = Carries(records'[id])
      BY <2>1
    <3>2. id \in Stored /\ x = Carries(records[id]) /\ x # a
      BY <3>1 DEF Carries
    <3>. QED
      BY <3>2, PendingIs
  <2>2. CASE \E w \in Holding' : x = Carries(req'[w].rec)
    <3>1. PICK w \in Holding' : x = Carries(req'[w].rec)
      BY <2>2
    <3>2. w \in Holding /\ x = Carries(req[w].rec) /\ x # a
      BY <3>1 DEF Carries
    <3>. QED
      BY <3>2, PendingIs
  <2>. QED
    BY <1>1, <2>1, <2>2, PendingIs
<1>2. ASSUME NEW x, x \in Pending, x # a PROVE x \in Pending'
  <2>1. CASE \E id \in Stored : x = Carries(records[id])
    <3>1. PICK id \in Stored : x = Carries(records[id])
      BY <2>1
    <3>2. id \in Stored' /\ x = Carries(records'[id])
      BY <1>2, <3>1 DEF Carries
    <3>. QED
      BY <3>2, PendingIs
  <2>2. CASE \E w \in Holding : x = Carries(req[w].rec)
    <3>1. PICK w \in Holding : x = Carries(req[w].rec)
      BY <2>2
    <3>2. w \in Holding' /\ x = Carries(req'[w].rec)
      BY <1>2, <3>1 DEF Carries
    <3>. QED
      BY <3>2, PendingIs
  <2>. QED
    BY <1>2, <2>1, <2>2, PendingIs
<1>. QED
  BY <1>1, <1>2

\* One sign-in more is stored, the others stay.
LEMMA PendingGrows ==
  ASSUME NEW i \in Ids, i \notin Stored, Stored' = Stored \cup {i},
         \A id \in Stored : records'[id] = records[id], req' = req
  PROVE  Pending' = Pending \cup {Carries(records'[i])}
<1>. DEFINE a == Carries(records'[i])
<1>1. Holding' = Holding /\ \A w \in Holding : Carries(req'[w].rec) = Carries(req[w].rec)
  BY DEF Holding
<1>2. \A id \in Stored : Carries(records'[id]) = Carries(records[id])
  BY DEF Carries
<1>. HIDE DEF a
<1>3. ASSUME NEW x, x \in Pending' PROVE x \in Pending \/ x = a
  BY <1>1, <1>2, <1>3, PendingIs DEF a
<1>4. ASSUME NEW x, x \in Pending \/ x = a PROVE x \in Pending'
  BY <1>1, <1>2, <1>4, PendingIs DEF a
<1>. QED
  BY <1>3, <1>4 DEF a

\* The sessions are the uses.
LEMMA UsedKept ==
  ASSUME sessions' = sessions
  PROVE  Used' = Used
BY DEF Used, Ends

LEMMA UsedGrows ==
  ASSUME TypeOK, NEW s \in SessionRecords, Mint(s)
  PROVE  Single!Note(Ends(s))
<1>1. PICK n \in Nat :
        /\ DOMAIN sessions = 1..n /\ DOMAIN sessions' = 1..(n + 1)
        /\ \A k \in DOMAIN sessions : sessions'[k] = sessions[k]
        /\ sessions'[n + 1] = s
  BY MintShape
<1>2. DOMAIN Used = 1..n /\ \A k \in 1..n : Used[k] = Ends(sessions[k])
  BY <1>1 DEF Used
<1>3. Used' = [k \in 1..(n + 1) |-> Ends(sessions'[k])]
  BY <1>1 DEF Used, Ends
<1>4. /\ 1..(n + 1) = 1..n \cup {n + 1} /\ n + 1 \notin 1..n
      /\ \A k \in 1..n : sessions'[k] = sessions[k]
  BY <1>1
<1>5. Used' = [k \in 1..n \cup {n + 1} |-> IF k = n + 1 THEN Ends(s) ELSE Used[k]]
  <2>1. \A k \in 1..n \cup {n + 1} :
          Ends(sessions'[k]) = IF k = n + 1 THEN Ends(s) ELSE Used[k]
    BY <1>1, <1>2, <1>4
  <2>. QED
    BY <1>3, <1>4, <2>1
<1>6. n + 1 \in DOMAIN Used' \ DOMAIN Used
  BY <1>2, <1>4, <1>5
<1>. QED
  BY <1>2, <1>5, <1>6 DEF Single!Note

\* A record is stored beside the others.
LEMMA StoreBeside ==
  ASSUME TypeOK, OnePlace, NEW r \in Records, Store(r)
  PROVE  \E i \in Ids : /\ i \notin Stored /\ records'[i] = r /\ Stored' = Stored \cup {i}
                        /\ \A id \in Stored : records'[id] = records[id]
<1>1. Fresh \in Ids /\ records[Fresh] = Gone
  BY FreshIsFree DEF OnePlace
<1>2. PICK i \in Ids : i = Fresh
  BY <1>1
<1>3. records' = [records EXCEPT ![i] = r] /\ r # Gone
  BY <1>2, RecordShape DEF Store, Gone
<1>4. /\ records'[i] = r /\ i \notin Stored
      /\ \A id \in Stored : records'[id] = records[id]
  BY <1>1, <1>2, <1>3 DEF Stored, TypeOK
<1>5. Stored' = Stored \cup {i}
  BY <1>3 DEF Stored, TypeOK
<1>. QED
  BY <1>4, <1>5

\* A request that ends leaves the others what they hold.
LEMMA EndBeside ==
  ASSUME TypeOK, NEW w \in Workers, End(w)
  PROVE  /\ w \notin Holding'
         /\ \A v \in Holding' : v \in Holding /\ req'[v] = req[v]
         /\ \A v \in Holding \ {w} : v \in Holding' /\ req'[v] = req[v]
BY EndShape DEF Holding, Idle

\* A first leg that leaves a record.
LEMMA RecordIsBegin ==
  ASSUME TypeOK, OnePlace, Counted, BeginRoot, NEW r \in Records, Store(r), r.root = roots + 1,
         UNCHANGED <<req, sessions>>
  PROVE  Single!Next
<1>1. PICK i \in Ids : /\ i \notin Stored /\ records'[i] = r /\ Stored' = Stored \cup {i}
                       /\ \A id \in Stored : records'[id] = records[id]
  BY StoreBeside
<1>2. Pending' = Pending \cup {Carries(r)}
  BY <1>1, PendingGrows DEF Carries
<1>3. Carries(r) = Single!Authorisation(roots + 1, r.binder)
  BY DEF Carries, Single!Authorisation
<1>4. roots' = roots + 1 /\ Used' = Used
  BY UsedKept DEF BeginRoot
<1>5. Single!Issue(Single!Authorisation(roots + 1, r.binder))
  BY <1>2, <1>3, <1>4 DEF Single!Issue
<1>6. Single!Begin
  BY <1>4, <1>5, RecordShape DEF Single!Begin
<1>. QED
  BY <1>6 DEF Single!Next

\* A first leg that signs in at once, or does not sign in at all.
LEMMA PasswordIsBegin ==
  ASSUME TypeOK, OnePlace, Counted, BeginRoot, NEW b \in Browsers, NEW u \in Users,
         Mint(PasswordSession(b, u)) \/ UNCHANGED sessions, UNCHANGED <<records, req>>
  PROVE  Single!Next
<1>. DEFINE a == Single!Authorisation(roots + 1, b)
<1>1. Pending' = Pending /\ roots' = roots + 1
  BY DEF Pending, Stored, Holding, Carries, BeginRoot
<1>2. PICK s \in SessionRecords : s = PasswordSession(b, u)
  BY NextRoot, PasswordSessionShape DEF PasswordSession
<1>3. Ends(s) = a
  BY <1>2 DEF Ends, PasswordSession, Single!Authorisation
<1>. HIDE DEF a
<1>4. Single!Note(a) \/ UNCHANGED Used
  BY <1>2, <1>3, UsedGrows, UsedKept
<1>5. Single!Issue(a)
  BY <1>1, <1>4 DEF Single!Issue
<1>6. Single!Begin
  BY <1>1, <1>5 DEF a, Single!Begin
<1>. QED
  BY <1>6 DEF Single!Next

\* A request that ends with nothing loses what it held.
LEMMA EndIsLose ==
  ASSUME TypeOK, OnePlace, NEW w \in Workers, End(w), UNCHANGED <<records, roots, sessions>>
  PROVE  Single!Next \/ Quiet
<1>1. /\ w \notin Holding'
      /\ \A v \in Holding' : v \in Holding /\ req'[v] = req[v]
      /\ \A v \in Holding \ {w} : v \in Holding' /\ req'[v] = req[v]
  BY EndBeside
<1>2. Stored' = Stored /\ Used' = Used
  BY UsedKept DEF Stored
<1>3. CASE w \in Holding
  <2>1. PICK a : a = Carries(req[w].rec)
    OBVIOUS
  <2>2. a \in Pending
    BY <1>3, <2>1, PendingIs
  <2>3. /\ \A id \in Stored : Carries(records[id]) # a
        /\ \A v \in Holding \ {w} : Carries(req[v].rec) # a
    BY <1>3, <2>1, HeldOnce, CarriesRoot
  <2>4. Pending' = Pending \ {a}
    BY <1>1, <1>2, <2>1, <2>2, <2>3, PendingLoses
  <2>5. Single!Lose(a)
    BY <1>2, <2>4 DEF Single!Lose
  <2>. QED
    BY <2>2, <2>5 DEF Single!Next
<1>4. CASE w \notin Holding
  <2>1. Pending' = Pending
    BY <1>1, <1>2, <1>4, PendingKept
  <2>. QED
    BY <1>2, <2>1 DEF Quiet
<1>. QED
  BY <1>3, <1>4

\* A request that ends in a session uses what it held.
LEMMA EndIsUse ==
  ASSUME TypeOK, OnePlace, NEW w \in Holding, End(w), NEW s \in SessionRecords, Mint(s),
         Ends(s) = Carries(req[w].rec), UNCHANGED <<records, roots>>
  PROVE  Single!Next
<1>1. /\ w \notin Holding'
      /\ \A v \in Holding' : v \in Holding /\ req'[v] = req[v]
      /\ \A v \in Holding \ {w} : v \in Holding' /\ req'[v] = req[v]
  BY EndBeside DEF Holding
<1>2. PICK a : a = Carries(req[w].rec)
  OBVIOUS
<1>3. a \in Pending /\ Stored' = Stored
  BY <1>2, PendingIs DEF Stored
<1>4. /\ \A id \in Stored : Carries(records[id]) # a
      /\ \A v \in Holding \ {w} : Carries(req[v].rec) # a
  BY <1>2, HeldOnce, CarriesRoot
<1>5. Pending' = Pending \ {a}
  BY <1>1, <1>2, <1>3, <1>4, PendingLoses
<1>6. Single!Note(a)
  BY <1>2, UsedGrows
<1>7. Single!Use(a)
  BY <1>5, <1>6 DEF Single!Use
<1>. QED
  BY <1>3, <1>7 DEF Single!Next

\* A request that ends by storing what it held again.
LEMMA EndIsQuiet ==
  ASSUME TypeOK, OnePlace, NEW w \in Holding, End(w), NEW r \in Records, Store(r),
         Carries(r) = Carries(req[w].rec), UNCHANGED <<roots, sessions>>
  PROVE  Quiet
<1>1. /\ w \notin Holding'
      /\ \A v \in Holding' : v \in Holding /\ req'[v] = req[v]
      /\ \A v \in Holding \ {w} : v \in Holding' /\ req'[v] = req[v]
  BY EndBeside DEF Holding
<1>2. PICK i \in Ids : /\ i \notin Stored /\ records'[i] = r /\ Stored' = Stored \cup {i}
                       /\ \A id \in Stored : records'[id] = records[id]
  BY StoreBeside
<1>3. i \in Stored' /\ Carries(records'[i]) = Carries(req[w].rec)
  BY <1>2 DEF Carries
<1>4. \A id \in Stored : id \in Stored' /\ Carries(records'[id]) = Carries(records[id])
  BY <1>2 DEF Carries
<1>5. \A id \in Stored' : id = i \/ id \in Stored
  BY <1>2
<1>6. \A v \in Holding \ {w} : v \in Holding' /\ Carries(req'[v].rec) = Carries(req[v].rec)
  BY <1>1 DEF Carries
<1>7. \A v \in Holding' : v \in Holding /\ Carries(req'[v].rec) = Carries(req[v].rec)
  BY <1>1 DEF Carries
<1>8. Pending' = Pending
  BY <1>3, <1>4, <1>5, <1>6, <1>7, PendingKept
<1>. QED
  BY <1>8, UsedKept DEF Quiet

\* A stored sign-in goes from its record into a request's hands.
LEMMA TakeIsQuiet ==
  ASSUME TypeOK, NEW id \in Stored, Consume(id), NEW w \in Workers, w \notin Holding,
         w \in Holding', \A v \in Workers \ {w} : req'[v] = req[v],
         req'[w].rec = records[id], UNCHANGED <<roots, sessions>>
  PROVE  Quiet
<1>1. /\ id \notin Stored'
      /\ \A a \in Stored' : a \in Stored /\ Carries(records'[a]) = Carries(records[a])
      /\ \A a \in Stored \ {id} : a \in Stored' /\ Carries(records'[a]) = Carries(records[a])
  BY DEF Consume, Stored, TypeOK, Carries
<1>2. \A v \in Workers \ {w} : /\ v \in Holding' <=> v \in Holding
                               /\ Carries(req'[v].rec) = Carries(req[v].rec)
  BY DEF Holding, Carries
<1>3. Carries(req'[w].rec) = Carries(records[id])
  BY DEF Carries
<1>4. Holding \subseteq Workers /\ Holding' \subseteq Workers
  BY DEF Holding
<1>5. Pending' = Pending
  BY <1>1, <1>2, <1>3, <1>4, PendingKept
<1>. QED
  BY <1>5, UsedKept DEF Quiet

\* A record goes, and nobody has what it carried.
LEMMA ConsumeIsLose ==
  ASSUME TypeOK, OnePlace, NEW id \in Ids, Consume(id), UNCHANGED <<roots, sessions>>,
         \A w \in Holding' : w \in Holding /\ req'[w] = req[w],
         \A w \in Holding : w \in Holding'
  PROVE  Single!Next \/ Quiet
<1>1. /\ id \notin Stored'
      /\ \A a \in Stored' : a \in Stored /\ records'[a] = records[a]
      /\ \A a \in Stored \ {id} : a \in Stored'
  BY DEF Consume, Stored, TypeOK
<1>2. Used' = Used
  BY UsedKept
<1>3. CASE id \in Stored
  <2>1. PICK a : a = Carries(records[id])
    OBVIOUS
  <2>2. a \in Pending
    BY <1>3, <2>1, PendingIs
  <2>3. /\ \A i \in Stored \ {id} : Carries(records[i]) # a
        /\ \A w \in Holding : Carries(req[w].rec) # a
    BY <1>3, <2>1, StoredOnce, CarriesRoot
  <2>4. Pending' = Pending \ {a}
    BY <1>1, <2>1, <2>2, <2>3, PendingLoses
  <2>5. Single!Lose(a)
    BY <1>2, <2>4 DEF Single!Lose
  <2>. QED
    BY <2>2, <2>5 DEF Single!Next
<1>4. CASE id \notin Stored
  <2>1. Pending' = Pending
    BY <1>1, <1>4, PendingKept DEF Carries
  <2>. QED
    BY <1>2, <2>1 DEF Quiet
<1>. QED
  BY <1>3, <1>4

\* First legs begin; the fallback carries a sign-in on, or loses it.
LEMMA FirstLegIsSingle ==
  ASSUME IInv, FirstLeg
  PROVE  Single!Next \/ Quiet
<1>. USE DEF IInv
<1>1. ASSUME NEW b \in Browsers, BeginLogin(b) PROVE Single!Next
  <2>1. PICK r \in Records : Store(r) /\ r.root = roots + 1
    <3>1. roots + 1 \in Roots /\ rp \in Rps
      BY <1>1, NextRoot DEF BeginLogin, TypeOK, SiteRps
    <3>2. [type |-> "login", root |-> roots + 1, binder |-> b, rp |-> rp] \in Records
      BY <3>1 DEF Records, LoginRecords
    <3>. QED
      BY <1>1, <3>2 DEF BeginLogin
  <2>. QED
    BY <1>1, <2>1, RecordIsBegin DEF BeginLogin
<1>2. ASSUME NEW b \in Browsers, NEW u \in Users, LoginWithPassword(b, u) PROVE Single!Next
  <2>. DEFINE r == [type |-> "second_factor", root |-> roots + 1, binder |-> b, rp |-> rp,
                    user |-> u, version |-> password[u], allow |-> Usable(u), attempts |-> 0,
                    fallback |-> {"enable_two_factor_auth", "otp_fallback"} \subseteq on]
  <2>1. BeginRoot /\ UNCHANGED req
    BY <1>2 DEF LoginWithPassword
  <2>2. \/ rp # NoRp /\ Store(r) /\ UNCHANGED sessions
        \/ UNCHANGED records /\ (Mint(PasswordSession(b, u)) \/ UNCHANGED sessions)
    BY <1>2 DEF LoginWithPassword
  <2>3. rp # NoRp => r \in Records
    <3>1. Usable(u) \subseteq Credentials
      BY DEF Usable, TypeOK
    <3>2. 0 \in 0..(MAX_ATTEMPTS - 1)
      BY CeremonyAssumption
    <3>3. roots + 1 \in Roots
      BY <2>1, NextRoot
    <3>. QED
      BY <3>1, <3>2, <3>3 DEF Records, SecondFactorRecords, TypeOK, SiteRps
  <2>4. r.root = roots + 1
    OBVIOUS
  <2>. HIDE DEF r
  <2>5. CASE rp # NoRp /\ Store(r) /\ UNCHANGED sessions
    <3>1. PICK q \in Records : q = r
      BY <2>3, <2>5
    <3>. QED
      BY <2>1, <2>4, <2>5, <3>1, RecordIsBegin
  <2>. QED
    BY <2>1, <2>2, <2>5, PasswordIsBegin
<1>3. ASSUME NEW b \in Browsers, NEW u \in Users, CorePasswordLogin(b, u) PROVE Single!Next
  BY <1>3, PasswordIsBegin DEF CorePasswordLogin
<1>4. ASSUME NEW b \in Browsers, FallbackToOtp(b) PROVE Single!Next \/ Quiet
  <2>1. PICK id \in Ids :
         /\ UNCHANGED <<req, roots, sessions>>
         /\ \/ Consume(id)
            \/ /\ records[id].type = "second_factor"
               /\ records' = [records EXCEPT ![id] =
                    [type |-> "otp", root |-> records[id].root, binder |-> records[id].binder,
                     user |-> records[id].user, version |-> records[id].version]]
    BY <1>4 DEF FallbackToOtp, Consume, history
  <2>2. Holding' = Holding /\ \A w \in Holding : req'[w] = req[w]
    BY <2>1 DEF Holding
  <2>3. CASE Consume(id)
    BY <2>1, <2>2, <2>3, ConsumeIsLose
  <2>4. CASE /\ records[id].type = "second_factor"
             /\ records' = [records EXCEPT ![id] =
                  [type |-> "otp", root |-> records[id].root, binder |-> records[id].binder,
                   user |-> records[id].user, version |-> records[id].version]]
    <3>1. id \in Stored
      BY <2>4, RecordKinds DEF TypeOK, Stored
    <3>2. records'[id] = [type |-> "otp", root |-> records[id].root,
                          binder |-> records[id].binder, user |-> records[id].user,
                          version |-> records[id].version]
          /\ \A i \in Ids \ {id} : records'[i] = records[i]
      BY <2>4 DEF TypeOK
    <3>3. id \in Stored' /\ Carries(records'[id]) = Carries(records[id])
      BY <3>2 DEF Stored, Gone, Carries
    <3>4. /\ \A i \in Stored : i \in Stored' /\ Carries(records'[i]) = Carries(records[i])
          /\ \A i \in Stored' : i \in Stored
      BY <3>1, <3>2, <3>3 DEF Stored, Carries
    <3>5. \A w \in Holding : Carries(req'[w].rec) = Carries(req[w].rec)
      BY <2>2 DEF Carries
    <3>6. Pending' = Pending
      BY <2>2, <3>4, <3>5, PendingKept
    <3>. QED
      BY <2>1, <3>6, UsedKept DEF Quiet
  <2>. QED
    BY <2>1, <2>3, <2>4
<1>. QED
  BY <1>1, <1>2, <1>3, <1>4 DEF FirstLeg

\* What requests do to Redis moves a sign-in into their hands, or loses it.
LEMMA RedisIsSingle ==
  ASSUME IInv, NEW w \in Workers, RedisStep(w)
  PROVE  Single!Next \/ Quiet
<1>. USE DEF IInv
<1>1. \A v \in Workers : req[v] \in Requests \cup {Idle}
  BY DEF TypeOK
<1>2. ASSUME w \notin Holding, w \notin Holding', \A v \in Workers \ {w} : req'[v] = req[v]
      PROVE  /\ \A v \in Holding' : v \in Holding /\ req'[v] = req[v]
             /\ \A v \in Holding : v \in Holding'
  BY <1>2 DEF Holding
<1>3. ASSUME w \notin Holding, w \notin Holding', \A v \in Workers \ {w} : req'[v] = req[v],
             UNCHANGED <<records, roots, sessions>>
      PROVE  Quiet
  <2>1. Stored' = Stored
    BY <1>3 DEF Stored
  <2>2. Pending' = Pending
    BY <1>2, <1>3, <2>1, PendingKept DEF Carries
  <2>. QED
    BY <1>3, <2>2, UsedKept DEF Quiet
<1>4. ASSUME ReadUvSetup(w) \/ ReadOtpMarker(w) PROVE Quiet
  <2>1. /\ req[w] = Idle /\ req'[w].op \in {"uv_setup", "otp", "otp_vetoed"}
        /\ \A v \in Workers \ {w} : req'[v] = req[v]
        /\ UNCHANGED <<records, roots, sessions>>
    BY <1>4 DEF ReadUvSetup, ReadOtpMarker, Serve, Snapshot, TypeOK, redis, history
  <2>2. w \notin Holding /\ w \notin Holding'
    BY <2>1 DEF Holding, Idle
  <2>. QED
    BY <1>3, <2>1, <2>2
<1>5. ASSUME CheckPassword(w) PROVE Quiet
  <2>1. /\ req[w].op = "uv_setup" /\ UNCHANGED <<records, roots, sessions>>
        /\ \/ req' = [req EXCEPT ![w].op = "uv_known"]
           \/ End(w)
    BY <1>5 DEF CheckPassword, End, history
  <2>2. req[w] \in Serving({"uv_setup", "uv_known", "uv_won"}, UvSetupRecords)
    BY <1>1, <2>1, UvRequests
  <2>3. req'[w].op \in {"uv_known", "idle"} /\ \A v \in Workers \ {w} : req'[v] = req[v]
    BY <2>1, <2>2 DEF TypeOK, End, Idle, Serving
  <2>4. w \notin Holding /\ w \notin Holding'
    BY <2>1, <2>3 DEF Holding
  <2>. QED
    BY <1>3, <2>1, <2>3, <2>4
<1>6. ASSUME ConsumeCeremony(w) PROVE Single!Next \/ Quiet
  <2>1. PICK id \in Ids, b \in Browsers, op \in {"verify_login", "verify_second_factor"} :
         /\ records[id].type \in {"login", "second_factor"}
         /\ Consume(id)
         /\ Serve(w, Snapshot(w, op, id, b)) \/ UNCHANGED req
         /\ UNCHANGED <<roots, sessions>>
    BY <1>6 DEF ConsumeCeremony, history
  <2>2. CASE UNCHANGED req
    <3>1. Holding' = Holding /\ \A v \in Holding : req'[v] = req[v]
      BY <2>2 DEF Holding
    <3>. QED
      BY <2>1, <3>1, ConsumeIsLose
  <2>3. CASE Serve(w, Snapshot(w, op, id, b))
    <3>1. id \in Stored
      BY <2>1, RecordKinds DEF TypeOK, Stored
    <3>2. /\ req[w] = Idle /\ req'[w] = Snapshot(w, op, id, b)
          /\ \A v \in Workers \ {w} : req'[v] = req[v]
      BY <2>3 DEF Serve, TypeOK
    <3>3. req'[w].rec = records[id] /\ req'[w].op = op
      BY <3>2 DEF Snapshot
    <3>4. w \notin Holding /\ w \in Holding'
      BY <3>2, <3>3 DEF Holding, Idle
    <3>. QED
      BY <2>1, <3>1, <3>2, <3>3, <3>4, TakeIsQuiet
  <2>. QED
    BY <2>1, <2>2, <2>3
<1>7. ASSUME ConsumeUvSetup(w) PROVE Single!Next \/ Quiet
  <2>1. /\ req[w].op = "uv_known" /\ Consume(req[w].id) /\ UNCHANGED <<roots, sessions>>
        /\ \/ records[req[w].id] = req[w].rec /\ req' = [req EXCEPT ![w].op = "uv_won"]
           \/ End(w)
    BY <1>7 DEF ConsumeUvSetup, End, history
  <2>2. /\ req[w] \in Serving({"uv_setup", "uv_known", "uv_won"}, UvSetupRecords)
        /\ req[w] \in Requests /\ w \notin Holding
    BY <1>1, <2>1, UvRequests, RequestKinds DEF Holding
  <2>3. PICK id \in Ids : id = req[w].id
    BY <2>2, RequestShape
  <2>4. CASE End(w)
    <3>1. w \notin Holding' /\ \A v \in Workers \ {w} : req'[v] = req[v]
      BY <2>4, EndShape DEF Holding, Idle
    <3>. QED
      BY <1>2, <2>1, <2>2, <2>3, <3>1, ConsumeIsLose
  <2>5. CASE records[req[w].id] = req[w].rec /\ req' = [req EXCEPT ![w].op = "uv_won"]
    <3>1. /\ req'[w] = [req[w] EXCEPT !.op = "uv_won"]
          /\ \A v \in Workers \ {w} : req'[v] = req[v]
      BY <2>5 DEF TypeOK
    <3>2. req'[w].op = "uv_won" /\ req'[w].rec = req[w].rec
      BY <2>2, <3>1 DEF Serving
    <3>3. req[w].rec # Gone
      BY <2>2, RequestShape, RecordShape DEF Gone
    <3>4. id \in Stored /\ req'[w].rec = records[id] /\ w \in Holding'
      BY <2>3, <2>5, <3>2, <3>3 DEF Stored, Holding
    <3>. QED
      BY <2>1, <2>2, <2>3, <3>1, <3>4, TakeIsQuiet
  <2>. QED
    BY <2>1, <2>4, <2>5
<1>. QED
  BY <1>4, <1>5, <1>6, <1>7 DEF RedisStep

\* A decision uses what the request holds, carries it on, or loses it.
LEMMA DecideIsSingle ==
  ASSUME IInv, NEW w \in Workers, Decide(w)
  PROVE  Single!Next \/ Quiet
<1>. USE DEF IInv
\* A session by a passkey is of the browser the sign-in began in.
<1>1. ASSUME NEW by \in {"login", "uv_setup", "second_factor"}, NEW c \in Credentials,
             NEW n \in Counts, w \in Holding, End(w), Mint(PasskeySession(w, by, c, n)),
             UNCHANGED <<records, roots>>
      PROVE  Single!Next
  <2>1. w \in Verifying /\ req[w].op \notin {"otp", "otp_vetoed"}
    BY <1>1, RequestKinds DEF TypeOK, Holding, Verifying, Idle
  <2>2. PICK s \in SessionRecords : s = PasskeySession(w, by, c, n)
    BY <2>1, PasskeySessionShape
  <2>3. req[w].browser = req[w].rec.binder
    BY <2>1 DEF Known, Vetted
  <2>4. "cred" \in DOMAIN s /\ s.root = req[w].rec.root /\ s.browser = req[w].browser
    BY <2>2 DEF PasskeySession
  <2>5. Ends(s) = Carries(req[w].rec)
    BY <2>3, <2>4 DEF Ends, Carries
  <2>. QED
    BY <1>1, <2>2, <2>5, EndIsUse
<1>2. ASSUME FailLogin(w) PROVE Single!Next \/ Quiet
  BY <1>2, EndIsLose DEF FailLogin, history
<1>3. ASSUME PassLogin(w) PROVE Single!Next \/ Quiet
  <2>1. PICK c \in Credentials, n \in Counts :
         /\ req[w].op = "verify_login" /\ End(w) /\ UNCHANGED roots
         /\ \/ /\ Store([type |-> "uv_setup", root |-> req[w].rec.root,
                         binder |-> req[w].rec.binder, rp |-> req[w].rec.rp, user |-> Owner[c],
                         cred |-> c, count |-> n])
               /\ UNCHANGED sessions
            \/ /\ UNCHANGED records
               /\ Mint(PasskeySession(w, "login", c, n)) \/ UNCHANGED sessions
    BY <1>3 DEF PassLogin
  <2>2. w \in Holding /\ req[w].rec \in LoginRecords
    BY <2>1, RequestKinds DEF TypeOK, Holding
  <2>3. CASE /\ Store([type |-> "uv_setup", root |-> req[w].rec.root,
                       binder |-> req[w].rec.binder, rp |-> req[w].rec.rp, user |-> Owner[c],
                       cred |-> c, count |-> n])
             /\ UNCHANGED sessions
    <3>1. PICK r \in Records : /\ Store(r) /\ r.root = req[w].rec.root
                               /\ r.binder = req[w].rec.binder
      <4>1. Owner[c] \in Users
        BY CeremonyAssumption
      <4>2. [type |-> "uv_setup", root |-> req[w].rec.root, binder |-> req[w].rec.binder,
             rp |-> req[w].rec.rp, user |-> Owner[c], cred |-> c, count |-> n] \in Records
        BY <2>2, <4>1 DEF LoginRecords, Records, UvSetupRecords
      <4>. QED
        BY <2>3, <4>2
    <3>2. Carries(r) = Carries(req[w].rec)
      BY <3>1 DEF Carries
    <3>. QED
      BY <2>1, <2>2, <2>3, <3>1, <3>2, EndIsQuiet
  <2>. QED
    BY <1>1, <2>1, <2>2, <2>3, EndIsLose
<1>4. ASSUME PassUvSetup(w) PROVE Single!Next
  <2>1. req[w].rec \in UvSetupRecords /\ w \in Holding
    BY <1>4, RequestKinds DEF TypeOK, PassUvSetup, Holding
  <2>2. PICK c \in Credentials, n \in Counts :
          /\ End(w) /\ Mint(PasskeySession(w, "uv_setup", c, n)) /\ UNCHANGED <<records, roots>>
    BY <1>4, <2>1 DEF PassUvSetup, UvSetupRecords, redis
  <2>. QED
    BY <1>1, <2>1, <2>2
<1>5. ASSUME FailSecondFactor(w) PROVE Single!Next \/ Quiet
  <2>1. /\ req[w].op = "verify_second_factor" /\ Rearm(req[w].rec)
        /\ End(w) /\ UNCHANGED <<roots, sessions>>
    BY <1>5 DEF FailSecondFactor
  <2>2. w \in Holding /\ req[w].rec \in SecondFactorRecords
    BY <2>1, RequestKinds DEF TypeOK, Holding
  <2>3. CASE UNCHANGED records
    BY <2>1, <2>3, EndIsLose
  <2>4. CASE /\ ~ (req[w].rec.attempts + 1 >= MAX_ATTEMPTS)
             /\ Store([req[w].rec EXCEPT !.attempts = @ + 1])
    <3>1. PICK r \in Records : r = [req[w].rec EXCEPT !.attempts = @ + 1]
      BY <2>2, <2>4, CeremonyAssumption DEF SecondFactorRecords, Records
    <3>2. r.root = req[w].rec.root /\ r.binder = req[w].rec.binder
      BY <2>2, <3>1 DEF SecondFactorRecords
    <3>3. Carries(r) = Carries(req[w].rec)
      BY <3>2 DEF Carries
    <3>. QED
      BY <2>1, <2>2, <2>4, <3>1, <3>3, EndIsQuiet
  <2>. QED
    BY <2>1, <2>3, <2>4 DEF Rearm
<1>6. ASSUME PassSecondFactor(w) PROVE Single!Next \/ Quiet
  <2>1. PICK c \in Credentials, n \in Counts :
          /\ req[w].op = "verify_second_factor" /\ End(w)
          /\ Mint(PasskeySession(w, "second_factor", c, n)) \/ UNCHANGED sessions
          /\ UNCHANGED <<records, roots>>
    BY <1>6 DEF PassSecondFactor
  <2>2. w \in Holding
    BY <2>1 DEF Holding
  <2>. QED
    BY <1>1, <2>1, <2>2, EndIsLose
\* Whoever removes the marker has what it carried, and uses or loses it.
<1>7. ASSUME PassOtp(w) PROVE Single!Next \/ Quiet
  <2>1. /\ req[w].op \in {"otp", "otp_vetoed"} /\ records[req[w].id] = req[w].rec
        /\ Consume(req[w].id)
        /\ Mint(OtpSession(w)) \/ UNCHANGED sessions
        /\ End(w) /\ UNCHANGED roots
    BY <1>7 DEF PassOtp, MarkerTaken, OtpSession
  <2>2. req[w] \in Requests /\ req[w].rec \in OtpRecords /\ w \notin Holding
    BY <2>1, RequestKinds DEF TypeOK, Idle, Holding
  <2>3. PICK id \in Ids : id = req[w].id
    BY <2>2, RequestShape
  <2>4. id \in Stored
    BY <2>1, <2>2, <2>3 DEF OtpRecords, Gone, Stored
  <2>5. /\ \A v \in Holding' : v \in Holding /\ req'[v] = req[v]
        /\ \A v \in Holding : v \in Holding'
    BY <2>1, <2>2, EndBeside
  <2>6. CASE UNCHANGED sessions
    BY <2>1, <2>3, <2>5, <2>6, ConsumeIsLose
  <2>7. CASE Mint(OtpSession(w))
    <3>1. PICK a : a = Carries(records[id])
      OBVIOUS
    <3>2. a \in Pending
      BY <2>4, <3>1, PendingIs
    <3>3. /\ \A i \in Stored' : i \in Stored /\ i # id /\ records'[i] = records[i]
          /\ \A i \in Stored \ {id} : i \in Stored'
      BY <2>1, <2>3 DEF Consume, Stored, TypeOK
    <3>4. /\ \A i \in Stored \ {id} : Carries(records[i]) # a
          /\ \A v \in Holding : Carries(req[v].rec) # a
      BY <2>4, <3>1, StoredOnce, CarriesRoot
    <3>5. Pending' = Pending \ {a}
      BY <2>5, <3>1, <3>2, <3>3, <3>4, PendingLoses
    <3>6. PICK s \in SessionRecords : s = OtpSession(w)
      BY <2>2, RequestShape, PasswordSessionShape DEF OtpSession, OtpRecords
    <3>7. "cred" \notin DOMAIN s /\ s.root = req[w].rec.root /\ s.began = req[w].rec.binder
      BY <3>6 DEF OtpSession
    <3>8. Ends(s) = a
      BY <2>1, <2>3, <3>1, <3>7 DEF Ends, Carries
    <3>9. Single!Note(a)
      BY <2>7, <3>6, <3>8, UsedGrows
    <3>10. Single!Use(a)
      BY <2>1, <3>5, <3>9 DEF Single!Use
    <3>. QED
      BY <3>2, <3>10 DEF Single!Next
  <2>. QED
    BY <2>1, <2>6, <2>7
<1>. QED
  BY <1>2, <1>3, <1>4, <1>5, <1>6, <1>7 DEF Decide

\* Every step is a step of SingleUse, or none.
LEMMA StepIsSingleStep ==
  ASSUME IInv, [Next]_vars
  PROVE  Single!Next \/ Quiet
<1>. USE DEF IInv, redis, history
<1>1. ASSUME NEW w \in Workers, Abandon(w) PROVE Single!Next \/ Quiet
  BY <1>1, EndIsLose DEF Abandon
<1>2. ASSUME NEW id \in Ids, Expire(id) PROVE Single!Next \/ Quiet
  <2>1. Holding' = Holding /\ \A w \in Holding : req'[w] = req[w]
    BY <1>2 DEF Expire, Holding
  <2>. QED
    BY <1>2, <2>1, ConsumeIsLose DEF Expire
<1>3. ASSUME UNCHANGED <<records, req, history>> PROVE Quiet
  BY <1>3, UsedKept DEF Quiet, Pending, Stored, Holding, Carries
<1>4. ASSUME NEW u \in Users,
             ForgetFailures(u) \/ ChangePassword(u) \/ ToggleUser(u) \/ TogglePasskeyOnly(u)
      PROVE  UNCHANGED <<records, req, history>>
  BY <1>4 DEF ForgetFailures, ChangePassword, ToggleUser, TogglePasskeyOnly
<1>5. ASSUME NEW c \in Credentials, ToggleCredential(c) PROVE UNCHANGED <<records, req, history>>
  BY <1>5 DEF ToggleCredential
<1>6. ASSUME NEW k \in Knobs, ToggleKnob(k) PROVE UNCHANGED <<records, req, history>>
  BY <1>6 DEF ToggleKnob
<1>7. ASSUME ChangeRp PROVE UNCHANGED <<records, req, history>>
  BY <1>7 DEF ChangeRp
<1>8. CASE UNCHANGED vars
  BY <1>3, <1>8 DEF vars
<1>. QED
  BY <1>1, <1>2, <1>3, <1>4, <1>5, <1>6, <1>7, <1>8, FirstLegIsSingle, RedisIsSingle,
     DecideIsSingle
  DEF Next, Change

\* Ceremonies, requests, UV setups and one-time-code markers keep the promise of
\* SingleUse together: a sign-in begun in a browser ends in one session at most,
\* and there (consume_ceremony, consume_uv_setup, consume_otp_fallback).
THEOREM SignInsAreSingleUse == Spec => ImplementsSingleUse
<1>1. Init => Single!Init
  <2>. SUFFICES ASSUME Init PROVE Single!Init
    OBVIOUS
  <2>1. sessions = << >> /\ Stored = {} /\ Holding = {}
    BY DEF Init, Stored, Holding, Idle
  <2>2. roots \in Nat
    BY CeremonyAssumption DEF Init
  <2>3. Pending = {} /\ Used = << >>
    BY <2>1 DEF Pending, Used
  <2>. QED
    BY <2>2, <2>3 DEF Single!Init
<1>2. IInv /\ [Next]_vars => [Single!Next]_Single!vars
  BY StepIsSingleStep DEF Quiet, Single!vars
<1>. QED
  BY <1>1, <1>2, IInvHolds, PTL DEF Spec, ImplementsSingleUse, Single!Spec
=============================================================================
