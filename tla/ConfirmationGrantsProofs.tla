------------------------ MODULE ConfirmationGrantsProofs ------------------------
(* Proofs about ConfirmationGrants, for any accounts, sessions, workers,      *)
(* payloads, releases in use and bounds.                                      *)
EXTENDS ConfirmationGrants, FiniteSetTheorems, SequenceTheorems, TLAPS

\* A gesture is in one place: stored, in one worker's hands, or in one call.
OnePlace ==
    /\ \A a, b \in Stored : a # b => records[a].gesture # records[b].gesture
    /\ \A v, w \in Working : v # w => Claim(v).gesture # Claim(w).gesture
    /\ \A a \in Stored, w \in Working : records[a].gesture # Claim(w).gesture
    /\ \A i \in DOMAIN done :
         /\ \A a \in Stored : records[a].gesture # done[i].gesture
         /\ \A w \in Working : Claim(w).gesture # done[i].gesture
    /\ OneGestureOneAction

\* What names a gesture names the call it was begun for.
Names(r) ==
    /\ r.gesture \in DOMAIN begun
    /\ begun[r.gesture] = [sid |-> r.sid, action |-> r.action, payload |-> r.payload]
AsBegun ==
    /\ \A id \in Stored : Names(records[id])
    /\ \A w \in Working : Names(Claim(w))
    /\ \A i \in DOMAIN done : done[i].gesture # 0 => Names(done[i])

\* Attempts that are counted and whose password is not checked yet.
Trying(u, e) ==
    {w \in Workers : req[w].op = "reauth" /\ UserOf[req[w].sid] = u /\ req[w].epoch = e}
\* Whatever is or may still be a wrong guess has been claimed, before or after
\* the last reset.
Claimed ==
    \A u \in Users, e \in Epochs :
        /\ IsFiniteSet(Trying(u, e))
        /\ guesses[u][e] + Cardinality(Trying(u, e)) <= PASSWORD_LIMIT
        /\ e = epoch[u] => guesses[u][e] + Cardinality(Trying(u, e)) <= claims[u]
        /\ e > epoch[u] => guesses[u][e] = 0 /\ Trying(u, e) = {}

IInv == TypeOK /\ OnePlace /\ AsBegun /\ Claimed /\ ConsumerDecides /\ WindowIsEarned

-----------------------------------------------------------------------------
(* Shapes.                                                                 *)

\* A confirmation in a worker's hands carries the ceremony it consumed.
LEMMA ConfirmShape ==
  ASSUME TypeOK, NEW w \in Workers, req[w].op = "confirm"
  PROVE  /\ req[w].rec \in RecordType
         /\ req[w].rec.sid \in Sids /\ req[w].rec.action \in Actions
         /\ req[w].rec.payload \in Payloads /\ req[w].rec.gesture \in Gestures
<1>1. req[w] \in [op : {"confirm"}, rec : {r \in RecordType : r.type = "confirm"}]
  BY DEF TypeOK, ReqType, Idle
<1>2. req[w].rec \in RecordType /\ req[w].rec.type = "confirm"
  BY <1>1
<1>. QED
  BY <1>2 DEF RecordType, Gone

\* A password attempt names its session, its action if any, and its epoch.
LEMMA ReauthShape ==
  ASSUME TypeOK, NEW w \in Workers, req[w].op = "reauth"
  PROVE  /\ req[w].sid \in Sids /\ req[w].action \in Actions \cup {None}
         /\ req[w].payload \in Payloads /\ req[w].gesture \in 0..MaxGestures
         /\ req[w].action # None => req[w].gesture \in Gestures
         /\ req[w].epoch \in Epochs
<1>. DEFINE named == [op : {"reauth"}, sid : Sids, action : Actions, payload : Payloads,
                      gesture : Gestures, epoch : Epochs]
            bare == [op : {"reauth"}, sid : Sids, action : {None}, payload : Payloads,
                     gesture : 0..MaxGestures, epoch : Epochs]
<1>1. req[w] \in named \cup bare
  BY DEF TypeOK, ReqType, Idle
<1>. QED
  BY <1>1, GrantAssumption DEF Gestures

\* Storing keeps the records' shape.
LEMMA StoreShape ==
  ASSUME TypeOK, NEW r \in RecordType, Store(r)
  PROVE  records' \in [Ids -> RecordType]
BY DEF TypeOK, Store

\* The two kinds of records that are stored.
LEMMA RecordShape ==
  ASSUME NEW s \in Sids, NEW a \in Actions, NEW p \in Payloads, NEW g \in Gestures
  PROVE  /\ \A c \in SUBSET Credentials :
              [type |-> "confirm", sid |-> s, action |-> a, payload |-> p, allow |-> c,
               gesture |-> g] \in RecordType
         /\ \A m \in {"password", "passkey"} :
              [type |-> "grant", sid |-> s, action |-> a, payload |-> p, method |-> m,
               gesture |-> g] \in RecordType
BY DEF RecordType

\* One more gesture.
LEMMA BeginShape ==
  ASSUME TypeOK, NEW s \in Sids, NEW a \in Actions, NEW p \in Payloads,
         Len(begun) < MaxGestures,
         begun' = Append(begun, [sid |-> s, action |-> a, payload |-> p])
  PROVE  /\ begun' \in Seq(Calls) /\ Len(begun') = Len(begun) + 1 /\ Len(begun') \in Gestures
         /\ Len(begun) \in Nat /\ DOMAIN begun' = 1..(Len(begun) + 1)
         /\ begun'[Len(begun) + 1] = [sid |-> s, action |-> a, payload |-> p]
         /\ \A g \in DOMAIN begun : g \in DOMAIN begun' /\ begun'[g] = begun[g]
<1>1. [sid |-> s, action |-> a, payload |-> p] \in Calls /\ begun \in Seq(Calls)
  BY DEF Calls, TypeOK
<1>2. /\ begun' \in Seq(Calls) /\ Len(begun') = Len(begun) + 1
      /\ \A i \in 1..Len(begun) : begun'[i] = begun[i]
      /\ begun'[Len(begun) + 1] = [sid |-> s, action |-> a, payload |-> p]
  BY <1>1, AppendProperties
<1>3. Len(begun) \in Nat /\ DOMAIN begun = 1..Len(begun) /\ DOMAIN begun' = 1..Len(begun')
  BY <1>1, <1>2, LenProperties
<1>. QED
  BY <1>2, <1>3, GrantAssumption DEF Gestures

\* One more call.
LEMMA RunShape ==
  ASSUME TypeOK, NEW w \in Workers, NEW s \in Sids, NEW a \in Actions, NEW p \in Payloads,
         NEW via \in {"password", "passkey", "sudo"}, NEW g \in 0..MaxGestures,
         Run(w, s, a, p, via, g)
  PROVE  /\ done' \in Seq(RunType) /\ Len(done) \in Nat
         /\ DOMAIN done = 1..Len(done) /\ DOMAIN done' = 1..(Len(done) + 1)
         /\ \A i \in DOMAIN done : done'[i] = done[i]
         /\ done'[Len(done) + 1] = [sid |-> s, action |-> a, payload |-> p, via |-> via,
                                    gesture |-> g, under |-> code[w]]
<1>. DEFINE r == [sid |-> s, action |-> a, payload |-> p, via |-> via, gesture |-> g,
                  under |-> code[w]]
<1>1. r \in RunType /\ done \in Seq(RunType)
  BY DEF RunType, TypeOK
<1>2. /\ done' \in Seq(RunType) /\ Len(done') = Len(done) + 1
      /\ \A i \in 1..Len(done) : done'[i] = done[i]
      /\ done'[Len(done) + 1] = r
  <2>. HIDE DEF r
  <2>1. done' = Append(done, r)
    BY DEF Run, r
  <2>. QED
    BY <1>1, <2>1, AppendProperties
<1>3. Len(done) \in Nat /\ DOMAIN done = 1..Len(done) /\ DOMAIN done' = 1..Len(done')
  BY <1>1, <1>2, LenProperties
<1>. QED
  BY <1>2, <1>3

-----------------------------------------------------------------------------
(* Types.                                                                  *)

\* What a call does: nothing, or one run.
Ran(w, s, a, p) ==
    \/ \E via \in {"password", "passkey", "sudo"}, g \in 0..MaxGestures : Run(w, s, a, p, via, g)
    \/ UNCHANGED done

\* A call spends at most the record it names.
LEMMA CallShape ==
  ASSUME TypeOK, NEW w \in Workers, NEW s \in Sids, NEW a \in Actions, NEW p \in Payloads,
         CallWithGrant(w, s, a, p) \/ CallWithWindow(w, s, a, p)
  PROVE  records' \in [Ids -> RecordType] /\ Ran(w, s, a, p)
<1>1. CASE CallWithWindow(w, s, a, p)
  BY <1>1, GrantAssumption DEF CallWithWindow, Ran, TypeOK
<1>2. CASE CallWithGrant(w, s, a, p)
  <2>. PICK id \in Ids :
         /\ records[id].type = "grant"
         /\ Spend(id, s, a, p)
         /\ \/ Run(w, s, a, p, records[id].method, records[id].gesture)
            \/ Run(w, s, a, p, "sudo", 0)
            \/ UNCHANGED done
    BY <1>2 DEF CallWithGrant
  <2>1. records[id].method \in {"password", "passkey"} /\ records[id].gesture \in 0..MaxGestures
    BY GrantAssumption DEF TypeOK, RecordType, Gone, Gestures
  <2>2. records' \in [Ids -> RecordType]
    BY DEF TypeOK, Spend, RecordType
  <2>. QED
    BY <2>1, <2>2, GrantAssumption DEF Ran
<1>. QED
  BY <1>1, <1>2

\* Every step keeps the shapes.
LEMMA TypeStep ==
  ASSUME TypeOK, [Next]_vars
  PROVE  TypeOK'
<1>. USE DEF account, policies, history
<1>1. ASSUME NEW s \in Sids, SignOut(s) \/ ExpireWindow(s) PROVE TypeOK'
  BY <1>1 DEF TypeOK, SignOut, ExpireWindow, None
<1>2. ASSUME NEW s \in Sids, NEW k \in Logins, SignIn(s, k) PROVE TypeOK'
  BY <1>2 DEF TypeOK, SignIn, SetWindow, Logins, FullSudo
<1>3. ASSUME NEW s \in Sids, NEW a \in Asked, NEW p \in Payloads, BeginConfirmation(s, a, p)
      PROVE  TypeOK'
  <2>. DEFINE r == [type |-> "confirm", sid |-> s, action |-> a, payload |-> p,
                    allow |-> {c \in usable : Owner[c] = UserOf[s]}, gesture |-> Len(begun) + 1]
  <2>1. a \in Actions
    BY GrantAssumption
  <2>2. begun' \in Seq(Calls) /\ Len(begun') <= MaxGestures /\ Len(begun) + 1 \in Gestures
    <3>1. begun' = Append(begun, [sid |-> s, action |-> a, payload |-> p])
          /\ Len(begun) < MaxGestures
      BY <1>3 DEF BeginConfirmation, Begin
    <3>. QED
      BY <2>1, <3>1, BeginShape, GrantAssumption DEF Gestures
  <2>3. r \in RecordType
    BY <2>1, <2>2, RecordShape DEF TypeOK
  <2>4. records' \in [Ids -> RecordType]
    <3>. HIDE DEF r
    <3>1. Store(r)
      BY <1>3 DEF BeginConfirmation, r
    <3>. QED
      BY <2>3, <3>1, StoreShape
  <2>. QED
    BY <1>3, <2>2, <2>4 DEF TypeOK, BeginConfirmation
<1>4. ASSUME NEW w \in Workers, ConsumeConfirmation(w) PROVE TypeOK'
  <2>. PICK id \in Ids, s \in Callers :
         /\ records[id].type = "confirm"
         /\ records' = [records EXCEPT ![id] = Gone]
         /\ req' = IF records[id].sid = s
                   THEN [req EXCEPT ![w] = [op |-> "confirm", rec |-> records[id]]] ELSE req
         /\ UNCHANGED <<account, window, uv, claims, policies, history>>
    BY <1>4 DEF ConsumeConfirmation
  <2>1. [op |-> "confirm", rec |-> records[id]] \in ReqType
    BY DEF TypeOK, ReqType
  <2>2. records' \in [Ids -> RecordType] /\ req' \in [Workers -> ReqType]
    BY <2>1 DEF TypeOK, RecordType
  <2>. QED
    BY <2>2 DEF TypeOK
<1>5. ASSUME NEW w \in Workers, PassConfirmation(w) PROVE TypeOK'
  <2>. DEFINE r == req[w].rec
              grant == [type |-> "grant", sid |-> r.sid, action |-> r.action,
                        payload |-> r.payload, method |-> "passkey", gesture |-> r.gesture]
  <2>. PICK c \in Credentials :
         /\ req[w].op = "confirm" /\ uv' = uv \cup {c}
         /\ Earn(r.sid, "passkey") /\ Store(grant)
         /\ \/ SetWindow(r.sid, "passkey") \/ UNCHANGED window
         /\ End(w) /\ UNCHANGED <<account, claims, policies, begun, done, epoch, guesses>>
    BY <1>5 DEF PassConfirmation
  <2>1. /\ r.sid \in Sids /\ r.action \in Actions /\ r.payload \in Payloads /\ r.gesture \in Gestures
    BY ConfirmShape
  <2>2. grant \in RecordType
    BY <2>1, RecordShape
  <2>3. records' \in [Ids -> RecordType]
    BY <2>2, StoreShape
  <2>4. /\ window' \in [Sids -> FullSudo \cup {"external", None}]
        /\ proofs' \in [Sids -> SUBSET {"password", "passkey"}]
        /\ req' \in [Workers -> ReqType] /\ uv' \subseteq Credentials
    BY <2>1 DEF TypeOK, SetWindow, Earn, End, FullSudo, ReqType
  <2>. QED
    BY <2>3, <2>4 DEF TypeOK
<1>6. ASSUME NEW w \in Workers, ClaimAttempt(w) PROVE TypeOK'
  <2>. PICK s \in Callers, a \in Asked \cup {None}, p \in Payloads :
         /\ ~ TooMany(UserOf[s])
         /\ claims' = [claims EXCEPT ![UserOf[s]] = @ + 1]
         /\ a # None => Len(begun) < MaxGestures
         /\ begun' = IF a = None THEN begun
                     ELSE Append(begun, [sid |-> s, action |-> a, payload |-> p])
         /\ req' = [req EXCEPT ![w] = [op |-> "reauth", sid |-> s, action |-> a, payload |-> p,
                                       gesture |-> Len(begun'), epoch |-> epoch[UserOf[s]]]]
         /\ UNCHANGED <<account, window, uv, records, policies, done, proofs, epoch, guesses>>
    BY <1>6 DEF ClaimAttempt
  <2>1. s \in Sids /\ UserOf[s] \in Users /\ a \in Actions \cup {None}
    BY GrantAssumption DEF Callers, TypeOK
  <2>2. /\ begun' \in Seq(Calls) /\ Len(begun') \in 0..MaxGestures
        /\ a # None => Len(begun') \in Gestures
    <3>1. CASE a = None
      BY <3>1, LenProperties, GrantAssumption DEF TypeOK
    <3>2. CASE a # None
      BY <2>1, <3>2, BeginShape, GrantAssumption DEF Gestures
    <3>. QED
      BY <3>1, <3>2
  <2>3. claims' \in [Users -> 0..PASSWORD_LIMIT]
    BY <2>1, GrantAssumption DEF TypeOK, TooMany
  <2>4. req' \in [Workers -> ReqType]
    BY <2>1, <2>2 DEF TypeOK, ReqType
  <2>. QED
    BY <2>2, <2>3, <2>4 DEF TypeOK
<1>7. ASSUME NEW w \in Workers, WrongPassword(w) PROVE TypeOK'
  <2>1. /\ req[w].op = "reauth" /\ End(w)
        /\ guesses' = [guesses EXCEPT ![UserOf[req[w].sid]][req[w].epoch] = @ + 1]
        /\ UNCHANGED <<account, window, uv, records, claims, policies, begun, done, proofs, epoch>>
    BY <1>7 DEF WrongPassword
  <2>2. UserOf[req[w].sid] \in Users /\ req[w].epoch \in Epochs
    BY <2>1, ReauthShape, GrantAssumption
  <2>3. guesses' \in [Users -> [Epochs -> Nat]]
    BY <2>1, <2>2 DEF TypeOK
  <2>. QED
    BY <2>1, <2>3 DEF TypeOK, End, ReqType
<1>8. ASSUME NEW w \in Workers, RightPassword(w) PROVE TypeOK'
  <2>. DEFINE s == req[w].sid
              a == req[w].action
              granted == a # None /\ Lenient(PolicyOf(w, a), a)
              grant == [type |-> "grant", sid |-> s, action |-> a, payload |-> req[w].payload,
                        method |-> "password", gesture |-> req[w].gesture]
  <2>1. /\ req[w].op = "reauth" /\ epoch[UserOf[s]] < MaxEpochs /\ ResetThrottle(UserOf[s])
        /\ Earn(s, "password")
        /\ \/ (granted /\ Store(grant)) \/ UNCHANGED records
        /\ \/ SetWindow(s, "reauth") \/ UNCHANGED window
        /\ End(w) /\ UNCHANGED <<account, uv, policies, begun, done, guesses>>
    BY <1>8 DEF RightPassword
  <2>2. /\ s \in Sids /\ UserOf[s] \in Users /\ a \in Actions \cup {None}
        /\ req[w].payload \in Payloads
    BY <2>1, ReauthShape, GrantAssumption
  <2>3. records' \in [Ids -> RecordType]
    <3>1. CASE granted /\ Store(grant)
      <4>1. req[w].gesture \in Gestures /\ a \in Actions
        BY <2>1, <2>2, <3>1, ReauthShape
      <4>2. grant \in RecordType
        BY <2>2, <4>1, RecordShape
      <4>. QED
        BY <3>1, <4>2, StoreShape
    <3>2. CASE UNCHANGED records
      BY <3>2 DEF TypeOK
    <3>. QED
      BY <2>1, <3>1, <3>2
  <2>4. /\ window' \in [Sids -> FullSudo \cup {"external", None}]
        /\ proofs' \in [Sids -> SUBSET {"password", "passkey"}]
        /\ req' \in [Workers -> ReqType]
    BY <2>1, <2>2 DEF TypeOK, SetWindow, Earn, End, FullSudo, ReqType
  <2>5. claims' \in [Users -> 0..PASSWORD_LIMIT] /\ epoch' \in [Users -> Epochs]
    BY <2>1, <2>2, GrantAssumption, SMTT(30) DEF TypeOK, ResetThrottle, Epochs
  <2>. QED
    BY <2>1, <2>3, <2>4, <2>5 DEF TypeOK
<1>9. ASSUME NEW w \in Workers, Abandon(w) PROVE TypeOK'
  BY <1>9 DEF TypeOK, Abandon, End, ReqType
<1>10. ASSUME NEW w \in Workers, Call(w) PROVE TypeOK'
  <2>. PICK s \in Callers, a \in Asked \ {"manage"}, p \in Payloads :
         /\ shared' \in {shared} \cup (IF a = "pay" THEN {code[w]} ELSE {})
         /\ CallWithGrant(w, s, a, p) \/ CallWithWindow(w, s, a, p)
         /\ UNCHANGED <<account, window, uv, claims, code, req, begun, proofs, epoch, guesses>>
    BY <1>10 DEF Call
  <2>1. s \in Sids /\ a \in Actions
    BY GrantAssumption DEF Callers, TypeOK
  <2>2. records' \in [Ids -> RecordType] /\ Ran(w, s, a, p)
    BY <2>1, CallShape
  <2>3. done' \in Seq(RunType)
    <3>1. CASE UNCHANGED done
      BY <3>1 DEF TypeOK
    <3>2. ASSUME NEW via \in {"password", "passkey", "sudo"}, NEW g \in 0..MaxGestures,
                 Run(w, s, a, p, via, g)
          PROVE  done' \in Seq(RunType)
      BY <2>1, <3>2, RunShape
    <3>. QED
      BY <2>2, <3>1, <3>2 DEF Ran
  <2>. QED
    BY <2>2, <2>3 DEF TypeOK
<1>11. ASSUME NEW w \in Workers, Deploy(w) PROVE TypeOK'
  BY <1>11 DEF TypeOK, Deploy
<1>12. ASSUME NEW id \in Ids, Expire(id) PROVE TypeOK'
  BY <1>12 DEF TypeOK, Expire, RecordType
<1>13. ASSUME NEW u \in Users, ExpireClaims(u) PROVE TypeOK'
  BY <1>13, GrantAssumption, SMTT(30) DEF TypeOK, ExpireClaims, ResetThrottle, Epochs
<1>14. ASSUME NEW c \in Credentials, ToggleCredential(c) PROVE TypeOK'
  BY <1>14 DEF TypeOK, ToggleCredential
<1>15. ASSUME TogglePasswords \/ ExpirePolicy PROVE TypeOK'
  BY <1>15 DEF TypeOK, TogglePasswords, ExpirePolicy
<1>16. CASE UNCHANGED vars
  BY <1>16 DEF TypeOK, vars
<1>. QED
  BY <1>1, <1>2, <1>3, <1>4, <1>5, <1>6, <1>7, <1>8, <1>9, <1>10, <1>11, <1>12, <1>13, <1>14,
     <1>15, <1>16
  DEF Next, Serve

-----------------------------------------------------------------------------
(* Where gestures go.                                                      *)

\* The gestures there are stay what they were.
Kept == \A g \in DOMAIN begun : g \in DOMAIN begun' /\ begun'[g] = begun[g]

\* An id is free while the records are of different gestures: there is one id
\* more than gestures.
LEMMA FreshIsFree ==
  ASSUME TypeOK, \A a, b \in Stored : a # b => records[a].gesture # records[b].gesture
  PROVE  Fresh \in Ids /\ records[Fresh] = Gone
<1>1. \E id \in Ids : records[id] = Gone
  <2>. SUFFICES ASSUME \A id \in Ids : records[id] # Gone PROVE FALSE
    OBVIOUS
  <2>. DEFINE f == [id \in Ids |-> records[id].gesture]
  <2>1. f \in [Ids -> Gestures]
    BY DEF TypeOK, RecordType
  <2>2. /\ IsFiniteSet(Ids) /\ Cardinality(Ids) = MaxGestures + 1
        /\ IsFiniteSet(Gestures) /\ Cardinality(Gestures) = MaxGestures
    <3>1. MaxGestures \in Nat
      BY GrantAssumption
    <3>2. IsFiniteSet(1..MaxGestures) /\ Cardinality(1..MaxGestures) = MaxGestures
      BY <3>1, FS_Interval
    <3>3. IsFiniteSet(1..(MaxGestures + 1)) /\ Cardinality(1..(MaxGestures + 1)) = MaxGestures + 1
      BY <3>1, FS_Interval
    <3>. QED
      BY <3>2, <3>3 DEF Ids, Gestures
  <2>3. \E a, b \in Ids : a # b /\ f[a] = f[b]
    <3>. HIDE DEF f
    <3>1. Cardinality(Gestures) < Cardinality(Ids)
      BY <2>2, GrantAssumption
    <3>. QED
      BY <2>1, <2>2, <3>1, FS_PigeonHole
  <2>. QED
    BY <2>3 DEF Stored
<1>. QED
  BY <1>1 DEF Fresh

\* Nothing new is stored, taken in hand or called.
LEMMA QuietStep ==
  ASSUME OnePlace, AsBegun, Kept, done' = done,
         \A id \in Stored' : id \in Stored /\ records'[id] = records[id],
         \A w \in Working' : w \in Working /\ Claim(w)' = Claim(w)
  PROVE  (OnePlace /\ AsBegun)'
<1>1. OnePlace'
  BY DEF OnePlace, OneGestureOneAction
<1>2. AsBegun'
  BY DEF AsBegun, Names, Kept
<1>. QED
  BY <1>1, <1>2

\* One gesture, found nowhere else, is stored.
LEMMA IntoStore ==
  ASSUME OnePlace, AsBegun, Kept, done' = done, NEW i \in Ids,
         \A id \in Stored' \ {i} : /\ id \in Stored /\ records'[id] = records[id]
                                   /\ records[id].gesture # records'[i].gesture,
         \A w \in Working' : /\ w \in Working /\ Claim(w)' = Claim(w)
                             /\ Claim(w).gesture # records'[i].gesture,
         \A k \in DOMAIN done : done[k].gesture # records'[i].gesture,
         Names(records[i])'
  PROVE  (OnePlace /\ AsBegun)'
<1>1. OnePlace'
  BY DEF OnePlace, OneGestureOneAction
<1>2. AsBegun'
  <2>1. \A id \in Stored' : Names(records[id])'
    BY DEF AsBegun, Names, Kept
  <2>2. \A w \in Working' : Names(Claim(w))'
    BY DEF AsBegun, Names, Kept
  <2>3. \A k \in DOMAIN done' : done'[k].gesture # 0 => Names(done[k])'
    BY DEF AsBegun, Names, Kept
  <2>. QED
    BY <2>1, <2>2, <2>3 DEF AsBegun
<1>. QED
  BY <1>1, <1>2

\* One gesture, found nowhere else, is taken in hand.
LEMMA IntoHands ==
  ASSUME OnePlace, AsBegun, Kept, done' = done, NEW v \in Workers,
         \A id \in Stored' : /\ id \in Stored /\ records'[id] = records[id]
                             /\ records[id].gesture # Claim(v)'.gesture,
         \A w \in Working' \ {v} : /\ w \in Working /\ Claim(w)' = Claim(w)
                                   /\ Claim(w).gesture # Claim(v)'.gesture,
         \A k \in DOMAIN done : done[k].gesture # Claim(v)'.gesture,
         Names(Claim(v))'
  PROVE  (OnePlace /\ AsBegun)'
<1>1. OnePlace'
  BY DEF OnePlace, OneGestureOneAction
<1>2. AsBegun'
  <2>1. \A id \in Stored' : Names(records[id])'
    BY DEF AsBegun, Names, Kept
  <2>2. \A w \in Working' : Names(Claim(w))'
    BY DEF AsBegun, Names, Kept
  <2>3. \A k \in DOMAIN done' : done'[k].gesture # 0 => Names(done[k])'
    BY DEF AsBegun, Names, Kept
  <2>. QED
    BY <2>1, <2>2, <2>3 DEF AsBegun
<1>. QED
  BY <1>1, <1>2

\* One gesture, found nowhere else, or none, has its call.
LEMMA IntoCall ==
  ASSUME OnePlace, AsBegun, begun' = begun, req' = req, NEW n \in Nat, NEW g \in 0..MaxGestures,
         DOMAIN done = 1..n, DOMAIN done' = 1..(n + 1),
         \A k \in DOMAIN done : done'[k] = done[k],
         done'[n + 1].gesture = g,
         \A id \in Stored' : /\ id \in Stored /\ records'[id] = records[id]
                             /\ records[id].gesture # g,
         \A w \in Working : Claim(w).gesture # g,
         g # 0 => /\ \A k \in DOMAIN done : done[k].gesture # g
                  /\ Names(done[n + 1])'
  PROVE  (OnePlace /\ AsBegun)'
<1>1. Working' = Working /\ \A w \in Working : Claim(w)' = Claim(w)
  BY DEF Working, Claim
<1>2. \A k \in DOMAIN done' : k = n + 1 \/ (k \in DOMAIN done /\ done'[k] = done[k])
  OBVIOUS
<1>3. OneGestureOneAction'
  BY <1>2 DEF OnePlace, OneGestureOneAction
<1>4. OnePlace'
  <2>1. \A a, b \in Stored' : a # b => records'[a].gesture # records'[b].gesture
    BY DEF OnePlace
  <2>2. \A v, w \in Working' : v # w => Claim(v)'.gesture # Claim(w)'.gesture
    BY <1>1 DEF OnePlace
  <2>3. \A a \in Stored', w \in Working' : records'[a].gesture # Claim(w)'.gesture
    BY <1>1 DEF OnePlace
  <2>4. \A k \in DOMAIN done', a \in Stored' : records'[a].gesture # done'[k].gesture
    BY <1>2 DEF OnePlace
  <2>5. \A k \in DOMAIN done', w \in Working' : Claim(w)'.gesture # done'[k].gesture
    BY <1>1, <1>2 DEF OnePlace
  <2>. QED
    BY <1>3, <2>1, <2>2, <2>3, <2>4, <2>5 DEF OnePlace
<1>5. AsBegun'
  <2>1. \A id \in Stored' : Names(records[id])'
    BY DEF AsBegun, Names
  <2>2. \A w \in Working' : Names(Claim(w))'
    BY <1>1 DEF AsBegun, Names
  <2>3. \A k \in DOMAIN done' : done'[k].gesture # 0 => Names(done[k])'
    BY <1>2 DEF AsBegun, Names
  <2>. QED
    BY <2>1, <2>2, <2>3 DEF AsBegun
<1>. QED
  BY <1>4, <1>5

\* What is under way names gestures that were begun.
LEMMA UnderwayBegun ==
  ASSUME TypeOK, AsBegun
  PROVE  /\ Len(begun) \in Nat /\ DOMAIN begun = 1..Len(begun)
         /\ \A id \in Stored : records[id].gesture \in 1..Len(begun)
         /\ \A w \in Working : Claim(w).gesture \in 1..Len(begun)
         /\ \A k \in DOMAIN done : done[k].gesture \in 0..Len(begun)
<1>1. Len(begun) \in Nat /\ DOMAIN begun = 1..Len(begun)
  BY LenProperties DEF TypeOK
<1>2. \A k \in DOMAIN done : done[k].gesture = 0 \/ done[k].gesture \in DOMAIN begun
  BY DEF AsBegun, Names
<1>3. /\ \A id \in Stored : records[id].gesture \in DOMAIN begun
      /\ \A w \in Working : Claim(w).gesture \in DOMAIN begun
  BY DEF AsBegun, Names
<1>. QED
  BY <1>1, <1>2, <1>3

\* A confirmation begins: its ceremony holds the new gesture.
LEMMA BeginStep ==
  ASSUME IInv, NEW s \in Sids, NEW a \in Asked, NEW p \in Payloads, BeginConfirmation(s, a, p)
  PROVE  (OnePlace /\ AsBegun)'
<1>. DEFINE r == [type |-> "confirm", sid |-> s, action |-> a, payload |-> p,
                  allow |-> {c \in usable : Owner[c] = UserOf[s]}, gesture |-> Len(begun) + 1]
<1>1. PICK i \in Ids : i = Fresh /\ records[i] = Gone
  BY FreshIsFree DEF IInv, OnePlace
<1>2. records' = [records EXCEPT ![i] = r] /\ done' = done /\ req' = req
  BY <1>1 DEF BeginConfirmation, Store, history
<1>3. records'[i] = r /\ \A id \in Stored' \ {i} : id \in Stored /\ records'[id] = records[id]
  BY <1>1, <1>2 DEF IInv, TypeOK, Stored
<1>4. Working' = Working /\ \A w \in Working : Claim(w)' = Claim(w)
  BY <1>2 DEF Working, Claim
<1>5. /\ Kept /\ Len(begun) + 1 \in DOMAIN begun'
      /\ begun'[Len(begun) + 1] = [sid |-> s, action |-> a, payload |-> p]
  <2>1. a \in Actions /\ Len(begun) < MaxGestures
        /\ begun' = Append(begun, [sid |-> s, action |-> a, payload |-> p])
    BY GrantAssumption DEF BeginConfirmation, Begin
  <2>. QED
    BY <2>1, BeginShape DEF IInv, Kept
<1>6. Names(records[i])'
  BY <1>3, <1>5 DEF Names
<1>7. /\ \A id \in Stored : records[id].gesture # Len(begun) + 1
      /\ \A w \in Working : Claim(w).gesture # Len(begun) + 1
      /\ \A k \in DOMAIN done : done[k].gesture # Len(begun) + 1
  BY UnderwayBegun DEF IInv
<1>8. records'[i].gesture = Len(begun) + 1
  BY <1>3
<1>. HIDE DEF r
<1>. QED
  BY <1>1, <1>2, <1>3, <1>4, <1>5, <1>6, <1>7, <1>8, IntoStore DEF IInv

\* A ceremony is consumed: its gesture is in the worker's hands, or nowhere.
LEMMA ConsumeStep ==
  ASSUME IInv, NEW w \in Workers, ConsumeConfirmation(w)
  PROVE  (OnePlace /\ AsBegun)'
<1>. PICK id \in Ids, s \in Callers :
       /\ req[w] = Idle /\ records[id].type = "confirm"
       /\ records' = [records EXCEPT ![id] = Gone]
       /\ req' = IF records[id].sid = s
                 THEN [req EXCEPT ![w] = [op |-> "confirm", rec |-> records[id]]] ELSE req
       /\ begun' = begun /\ done' = done
  BY DEF ConsumeConfirmation, history
<1>1. /\ id \in Stored /\ id \notin Stored'
      /\ \A i \in Stored' : i \in Stored /\ records'[i] = records[i]
  BY DEF Stored, IInv, TypeOK, Gone
<1>2. Kept
  BY DEF Kept
<1>3. CASE req' = req
  <2>1. Working' = Working /\ \A v \in Working : Claim(v)' = Claim(v)
    BY <1>3 DEF Working, Claim
  <2>. QED
    BY <1>1, <1>2, <2>1, QuietStep DEF IInv
<1>4. CASE req' = [req EXCEPT ![w] = [op |-> "confirm", rec |-> records[id]]]
  <2>1. /\ req'[w] = [op |-> "confirm", rec |-> records[id]]
        /\ \A v \in Workers \ {w} : req'[v] = req[v]
    BY <1>4 DEF IInv, TypeOK
  <2>2. Claim(w)' = records[id]
    BY <2>1 DEF Claim
  <2>3. \A v \in Working' \ {w} : v \in Working /\ Claim(v)' = Claim(v)
    BY <2>1 DEF Working, Claim
  <2>4. Names(Claim(w))'
    BY <1>1, <2>2 DEF Names, IInv, AsBegun
  <2>5. /\ \A i \in Stored' : records[i].gesture # records[id].gesture
        /\ \A v \in Working : Claim(v).gesture # records[id].gesture
        /\ \A k \in DOMAIN done : done[k].gesture # records[id].gesture
    BY <1>1 DEF IInv, OnePlace
  <2>. QED
    BY <1>1, <1>2, <2>2, <2>3, <2>4, <2>5, IntoHands DEF IInv
<1>. QED
  BY <1>3, <1>4

\* A worker mints a grant for the gesture in its hands.
LEMMA GrantStep ==
  ASSUME IInv, NEW w \in Working, NEW method, End(w), begun' = begun, done' = done,
         Store([type |-> "grant", sid |-> Claim(w).sid, action |-> Claim(w).action,
                payload |-> Claim(w).payload, method |-> method, gesture |-> Claim(w).gesture])
  PROVE  (OnePlace /\ AsBegun)'
<1>. DEFINE r == [type |-> "grant", sid |-> Claim(w).sid, action |-> Claim(w).action,
                  payload |-> Claim(w).payload, method |-> method, gesture |-> Claim(w).gesture]
<1>1. PICK i \in Ids : i = Fresh /\ records[i] = Gone
  BY FreshIsFree DEF IInv, OnePlace
<1>2. records' = [records EXCEPT ![i] = r]
  BY <1>1 DEF Store
<1>3. records'[i] = r /\ \A id \in Stored' \ {i} : id \in Stored /\ records'[id] = records[id]
  BY <1>1, <1>2 DEF IInv, TypeOK, Stored
<1>4. w \in Workers /\ req'[w] = Idle /\ \A v \in Workers \ {w} : req'[v] = req[v]
  BY DEF Working, End, IInv, TypeOK
<1>5. w \notin Working' /\ \A v \in Working' : v \in Working /\ Claim(v)' = Claim(v)
  BY <1>4 DEF Working, Claim, Idle
<1>6. Kept
  BY DEF Kept
<1>7. Names(records[i])'
  BY <1>3 DEF Names, IInv, AsBegun
<1>8. /\ \A id \in Stored : records[id].gesture # Claim(w).gesture
      /\ \A v \in Working' : Claim(v).gesture # Claim(w).gesture
      /\ \A k \in DOMAIN done : done[k].gesture # Claim(w).gesture
  BY <1>5 DEF IInv, OnePlace
<1>9. records'[i].gesture = Claim(w).gesture
  BY <1>3
<1>. HIDE DEF r
<1>. QED
  BY <1>1, <1>3, <1>5, <1>6, <1>7, <1>8, <1>9, IntoStore DEF IInv

\* A password attempt for an action holds the new gesture.
LEMMA ClaimStep ==
  ASSUME IInv, NEW w \in Workers, ClaimAttempt(w)
  PROVE  (OnePlace /\ AsBegun)'
<1>. PICK s \in Callers, a \in Asked \cup {None}, p \in Payloads :
       /\ req[w] = Idle
       /\ a # None => Len(begun) < MaxGestures
       /\ begun' = IF a = None THEN begun
                   ELSE Append(begun, [sid |-> s, action |-> a, payload |-> p])
       /\ req' = [req EXCEPT ![w] = [op |-> "reauth", sid |-> s, action |-> a, payload |-> p,
                                     gesture |-> Len(begun'), epoch |-> epoch[UserOf[s]]]]
       /\ records' = records /\ done' = done
  BY DEF ClaimAttempt
<1>. DEFINE q == [op |-> "reauth", sid |-> s, action |-> a, payload |-> p,
                  gesture |-> Len(begun'), epoch |-> epoch[UserOf[s]]]
<1>1. req'[w] = q /\ \A v \in Workers \ {w} : req'[v] = req[v]
  BY DEF IInv, TypeOK
<1>2. \A v \in Working' \ {w} : v \in Working /\ Claim(v)' = Claim(v)
  BY <1>1 DEF Working, Claim
<1>3. Stored' = Stored
  BY DEF Stored
<1>4. CASE a = None
  <2>1. w \notin Working'
    BY <1>1, <1>4 DEF Working
  <2>. QED
    BY <1>2, <1>3, <1>4, <2>1, QuietStep DEF IInv, Kept
<1>5. CASE a # None
  <2>1. /\ Kept /\ Len(begun') = Len(begun) + 1 /\ Len(begun) + 1 \in DOMAIN begun'
        /\ begun'[Len(begun) + 1] = [sid |-> s, action |-> a, payload |-> p]
    <3>1. s \in Sids /\ a \in Actions
      BY <1>5, GrantAssumption DEF Callers, IInv, TypeOK
    <3>. QED
      BY <1>5, <3>1, BeginShape DEF IInv, Kept
  <2>2. Claim(w)' = q
    BY <1>1 DEF Claim
  <2>3. Names(Claim(w))' /\ Claim(w)'.gesture = Len(begun) + 1
    BY <2>1, <2>2 DEF Names
  <2>4. /\ \A id \in Stored : records[id].gesture # Len(begun) + 1
        /\ \A v \in Working : Claim(v).gesture # Len(begun) + 1
        /\ \A k \in DOMAIN done : done[k].gesture # Len(begun) + 1
    BY UnderwayBegun DEF IInv
  <2>. QED
    BY <1>2, <1>3, <2>1, <2>3, <2>4, IntoHands DEF IInv
<1>. QED
  BY <1>4, <1>5

\* A protected call takes the gesture of the grant it spends, or none.
LEMMA CallStep ==
  ASSUME IInv, NEW w \in Workers, Call(w)
  PROVE  (OnePlace /\ AsBegun)'
<1>. PICK s \in Callers, a \in Asked \ {"manage"}, p \in Payloads :
       /\ CallWithGrant(w, s, a, p) \/ CallWithWindow(w, s, a, p)
       /\ UNCHANGED <<req, begun>>
  BY DEF Call
<1>1. s \in Sids /\ a \in Actions
  BY GrantAssumption DEF Callers, IInv, TypeOK
<1>2. Kept /\ Working' = Working /\ \A v \in Working : Claim(v)' = Claim(v)
  BY DEF Kept, Working, Claim
<1>3. ASSUME Run(w, s, a, p, "sudo", 0),
             \A i \in Stored' : i \in Stored /\ records'[i] = records[i]
      PROVE  (OnePlace /\ AsBegun)'
  <2>1. 0 \in 0..MaxGestures
    BY GrantAssumption
  <2>2. PICK n \in Nat :
          /\ DOMAIN done = 1..n /\ DOMAIN done' = 1..(n + 1)
          /\ \A k \in DOMAIN done : done'[k] = done[k]
          /\ done'[n + 1] = [sid |-> s, action |-> a, payload |-> p, via |-> "sudo",
                             gesture |-> 0, under |-> code[w]]
    BY <1>1, <1>3, <2>1, RunShape DEF IInv
  <2>3. /\ \A i \in Stored : records[i].gesture # 0
        /\ \A v \in Working : Claim(v).gesture # 0
    BY UnderwayBegun DEF IInv
  <2>. QED
    BY <1>3, <2>1, <2>2, <2>3, IntoCall DEF IInv
<1>4. CASE CallWithWindow(w, s, a, p)
  BY <1>3, <1>4 DEF CallWithWindow, Stored
<1>5. CASE CallWithGrant(w, s, a, p)
  <2>. PICK id \in Ids :
         /\ records[id].type = "grant"
         /\ records' = [records EXCEPT ![id] = Gone]
         /\ \/ /\ Matches(records[id], s, a, p)
               /\ Run(w, s, a, p, records[id].method, records[id].gesture)
            \/ Run(w, s, a, p, "sudo", 0)
            \/ UNCHANGED done
    BY <1>5 DEF CallWithGrant, Spend
  <2>1. /\ id \in Stored /\ id \notin Stored'
        /\ \A i \in Stored' : i \in Stored /\ records'[i] = records[i]
    BY DEF Stored, IInv, TypeOK, Gone
  <2>2. CASE UNCHANGED done
    BY <1>2, <2>1, <2>2, QuietStep DEF IInv
  <2>3. CASE Run(w, s, a, p, "sudo", 0)
    BY <1>3, <2>1, <2>3
  <2>4. CASE /\ Matches(records[id], s, a, p)
             /\ Run(w, s, a, p, records[id].method, records[id].gesture)
    <3>. DEFINE g == records[id].gesture
    <3>1. records[id].method \in {"password", "passkey"} /\ g \in 0..MaxGestures
      BY GrantAssumption DEF IInv, TypeOK, RecordType, Gone, Gestures
    <3>2. PICK n \in Nat :
            /\ DOMAIN done = 1..n /\ DOMAIN done' = 1..(n + 1)
            /\ \A k \in DOMAIN done : done'[k] = done[k]
            /\ done'[n + 1] = [sid |-> s, action |-> a, payload |-> p,
                               via |-> records[id].method, gesture |-> records[id].gesture,
                               under |-> code[w]]
      BY <1>1, <2>4, <3>1, RunShape DEF IInv
    <3>3. Names(done[n + 1])'
      BY <2>1, <2>4, <3>2 DEF IInv, AsBegun, Matches, Names
    <3>4. /\ \A i \in Stored' : records[i].gesture # g
          /\ \A v \in Working : Claim(v).gesture # g
          /\ \A k \in DOMAIN done : done[k].gesture # g
      BY <2>1 DEF IInv, OnePlace
    <3>5. done'[n + 1].gesture = g
      BY <3>2
    <3>. HIDE DEF g
    <3>. QED
      BY <2>1, <3>1, <3>2, <3>3, <3>4, <3>5, IntoCall DEF IInv
  <2>. QED
    BY <2>2, <2>3, <2>4
<1>. QED
  BY <1>4, <1>5

\* Every step leaves each gesture in one place, for the call it was begun for.
LEMMA GestureStep ==
  ASSUME IInv, [Next]_vars
  PROVE  (OnePlace /\ AsBegun)'
<1>. USE DEF account, policies, history
<1>1. ASSUME NEW w \in Workers, PassConfirmation(w) PROVE (OnePlace /\ AsBegun)'
  <2>1. w \in Working /\ Claim(w) = req[w].rec
    BY <1>1 DEF PassConfirmation, Working, Claim
  <2>. QED
    BY <1>1, <2>1, GrantStep DEF PassConfirmation
<1>2. ASSUME NEW w \in Workers, RightPassword(w), req[w].action # None,
             Lenient(PolicyOf(w, req[w].action), req[w].action)
      PROVE  (OnePlace /\ AsBegun)'
  <2>1. w \in Working /\ Claim(w) = req[w]
    BY <1>2 DEF RightPassword, Working, Claim
  <2>. QED
    BY <1>2, <2>1, GrantStep DEF RightPassword
<1>3. ASSUME NEW w \in Workers, End(w), begun' = begun, done' = done, records' = records
      PROVE  (OnePlace /\ AsBegun)'
  <2>1. Stored' = Stored /\ Kept
    BY <1>3 DEF Stored, Kept
  <2>2. \A v \in Working' : v \in Working /\ Claim(v)' = Claim(v)
    BY <1>3 DEF Working, Claim, End, Idle, IInv, TypeOK
  <2>. QED
    BY <1>3, <2>1, <2>2, QuietStep DEF IInv
<1>4. ASSUME NEW w \in Workers, WrongPassword(w) \/ Abandon(w) \/ RightPassword(w)
      PROVE  (OnePlace /\ AsBegun)'
  BY <1>2, <1>3, <1>4 DEF WrongPassword, Abandon, RightPassword
<1>5. ASSUME req' = req, begun' = begun, done' = done,
             \A id \in Stored' : id \in Stored /\ records'[id] = records[id]
      PROVE  (OnePlace /\ AsBegun)'
  <2>1. Working' = Working /\ Kept /\ \A v \in Working : Claim(v)' = Claim(v)
    BY <1>5 DEF Working, Kept, Claim
  <2>. QED
    BY <1>5, <2>1, QuietStep DEF IInv
<1>6. ASSUME NEW id \in Ids, Expire(id) PROVE (OnePlace /\ AsBegun)'
  <2>1. \A i \in Stored' : i \in Stored /\ records'[i] = records[i]
    BY <1>6 DEF Stored, Expire, IInv, TypeOK
  <2>. QED
    BY <1>5, <1>6, <2>1 DEF Expire
<1>7. CASE UNCHANGED <<req, begun, done, records>>
  BY <1>5, <1>7 DEF Stored
<1>8. ASSUME NEW s \in Sids, SignOut(s) \/ ExpireWindow(s) \/ \E k \in Logins : SignIn(s, k)
      PROVE  UNCHANGED <<req, begun, done, records>>
  BY <1>8 DEF SignOut, ExpireWindow, SignIn
<1>9. ASSUME NEW w \in Workers, Deploy(w) PROVE UNCHANGED <<req, begun, done, records>>
  BY <1>9 DEF Deploy
<1>10. ASSUME NEW u \in Users, ExpireClaims(u) PROVE UNCHANGED <<req, begun, done, records>>
  BY <1>10 DEF ExpireClaims
<1>11. ASSUME NEW c \in Credentials, ToggleCredential(c)
       PROVE  UNCHANGED <<req, begun, done, records>>
  BY <1>11 DEF ToggleCredential
<1>12. TogglePasswords \/ ExpirePolicy \/ UNCHANGED vars => UNCHANGED <<req, begun, done, records>>
  BY DEF TogglePasswords, ExpirePolicy, vars
<1>. QED
  BY <1>1, <1>4, <1>6, <1>7, <1>8, <1>9, <1>10, <1>11, <1>12, BeginStep, ConsumeStep, ClaimStep,
     CallStep
  DEF Next, Serve

-----------------------------------------------------------------------------
(* The throttle.                                                           *)

\* An attempt of epoch e that is under way.
LEMMA TryingType ==
  ASSUME TypeOK, Claimed, NEW u \in Users, NEW e \in Epochs
  PROVE  /\ Trying(u, e) \subseteq Workers /\ Cardinality(Trying(u, e)) \in Nat
         /\ guesses[u][e] \in Nat /\ claims[u] \in Nat /\ epoch[u] \in Nat /\ e \in Nat
<1>1. Cardinality(Trying(u, e)) \in Nat
  BY FS_CardinalityType DEF Claimed
<1>2. Trying(u, e) \subseteq Workers
  BY DEF Trying
<1>3. guesses[u][e] \in Nat
  BY DEF TypeOK
<1>4. claims[u] \in Nat
  BY GrantAssumption DEF TypeOK
<1>5. epoch[u] \in Nat /\ e \in Nat
  BY GrantAssumption DEF TypeOK, Epochs
<1>. QED
  BY <1>1, <1>2, <1>3, <1>4, <1>5

\* Attempts only end, and counts are only reset.
LEMMA ThrottleKept ==
  ASSUME TypeOK, Claimed, guesses' = guesses,
         \A u \in Users, e \in Epochs : Trying(u, e)' \subseteq Trying(u, e),
         \A u \in Users : \/ claims'[u] = claims[u] /\ epoch'[u] = epoch[u]
                          \/ claims'[u] = 0 /\ epoch'[u] = epoch[u] + 1
  PROVE  Claimed'
<1>. SUFFICES ASSUME NEW u \in Users, NEW e \in Epochs
     PROVE  /\ IsFiniteSet(Trying(u, e)')
            /\ guesses[u][e] + Cardinality(Trying(u, e)') <= PASSWORD_LIMIT
            /\ e = epoch'[u] => guesses[u][e] + Cardinality(Trying(u, e)') <= claims'[u]
            /\ e > epoch'[u] => guesses[u][e] = 0 /\ Trying(u, e)' = {}
  BY DEF Claimed
<1>. DEFINE T == Trying(u, e)
            S == Trying(u, e)'
<1>1. /\ IsFiniteSet(T) /\ S \subseteq T
      /\ guesses[u][e] + Cardinality(T) <= PASSWORD_LIMIT
      /\ e = epoch[u] => guesses[u][e] + Cardinality(T) <= claims[u]
      /\ e > epoch[u] => guesses[u][e] = 0 /\ T = {}
  BY DEF Claimed
<1>2. /\ Cardinality(T) \in Nat /\ guesses[u][e] \in Nat /\ claims[u] \in Nat
      /\ epoch[u] \in Nat /\ e \in Nat
  BY TryingType
<1>. HIDE DEF T, S
<1>3. IsFiniteSet(S) /\ Cardinality(S) \in Nat /\ Cardinality(S) <= Cardinality(T)
  BY <1>1, FS_Subset, FS_CardinalityType
<1>4. S = {} => Cardinality(S) = 0
  BY FS_EmptySet
<1>5. /\ guesses[u][e] + Cardinality(S) <= PASSWORD_LIMIT
      /\ e = epoch'[u] => guesses[u][e] + Cardinality(S) <= claims'[u]
      /\ e > epoch'[u] => guesses[u][e] = 0 /\ S = {}
  BY <1>1, <1>2, <1>3, <1>4, GrantAssumption, SMTT(30)
<1>. QED
  BY <1>3, <1>5 DEF S

\* An attempt is counted before its password is looked at.
LEMMA ThrottleClaim ==
  ASSUME IInv, NEW w \in Workers, ClaimAttempt(w)
  PROVE  Claimed'
<1>. PICK s \in Callers, a \in Asked \cup {None}, p \in Payloads :
       /\ req[w] = Idle /\ ~ TooMany(UserOf[s])
       /\ claims' = [claims EXCEPT ![UserOf[s]] = @ + 1]
       /\ req' = [req EXCEPT ![w] = [op |-> "reauth", sid |-> s, action |-> a, payload |-> p,
                                     gesture |-> Len(begun'), epoch |-> epoch[UserOf[s]]]]
       /\ epoch' = epoch /\ guesses' = guesses
  BY DEF ClaimAttempt
<1>1. s \in Sids /\ UserOf[s] \in Users
  BY GrantAssumption DEF Callers, IInv, TypeOK
<1>2. /\ req'[w].op = "reauth" /\ req'[w].sid = s /\ req'[w].epoch = epoch[UserOf[s]]
      /\ \A v \in Workers \ {w} : req'[v] = req[v]
  BY DEF IInv, TypeOK
<1>. SUFFICES ASSUME NEW u \in Users, NEW e \in Epochs
     PROVE  /\ IsFiniteSet(Trying(u, e)')
            /\ guesses[u][e] + Cardinality(Trying(u, e)') <= PASSWORD_LIMIT
            /\ e = epoch[u] => guesses[u][e] + Cardinality(Trying(u, e)') <= claims'[u]
            /\ e > epoch[u] => guesses[u][e] = 0 /\ Trying(u, e)' = {}
  BY DEF Claimed
<1>3. /\ IsFiniteSet(Trying(u, e))
      /\ guesses[u][e] + Cardinality(Trying(u, e)) <= PASSWORD_LIMIT
      /\ e = epoch[u] => guesses[u][e] + Cardinality(Trying(u, e)) <= claims[u]
      /\ e > epoch[u] => guesses[u][e] = 0 /\ Trying(u, e) = {}
  BY DEF IInv, Claimed
<1>4. w \notin Trying(u, e)
  BY DEF Trying, Idle
<1>5. CASE u = UserOf[s] /\ e = epoch[u]
  <2>1. Trying(u, e)' = Trying(u, e) \cup {w}
    BY <1>2, <1>5 DEF Trying
  <2>2. IsFiniteSet(Trying(u, e)') /\ Cardinality(Trying(u, e)') = Cardinality(Trying(u, e)) + 1
    BY <1>3, <1>4, <2>1, FS_AddElement
  <2>3. claims'[u] = claims[u] + 1 /\ claims[u] + 1 <= PASSWORD_LIMIT
    <3>1. claims \in [Users -> 0..PASSWORD_LIMIT]
      BY DEF IInv, TypeOK
    <3>. QED
      BY <1>1, <1>5, <3>1, GrantAssumption DEF TooMany
  <2>4. /\ Cardinality(Trying(u, e)) \in Nat /\ guesses[u][e] \in Nat /\ claims[u] \in Nat
        /\ e \in Nat
    BY TryingType DEF IInv
  <2>. QED
    BY <1>3, <1>5, <2>2, <2>3, <2>4, GrantAssumption, SMTT(30)
<1>6. CASE u = UserOf[s] /\ e # epoch[u]
  <2>1. Trying(u, e)' = Trying(u, e)
    BY <1>2, <1>4, <1>6 DEF Trying
  <2>. QED
    BY <1>3, <1>6, <2>1
<1>7. CASE u # UserOf[s]
  <2>1. Trying(u, e)' = Trying(u, e)
    BY <1>2, <1>4, <1>7 DEF Trying
  <2>2. claims'[u] = claims[u]
    BY <1>7 DEF IInv, TypeOK
  <2>. QED
    BY <1>3, <2>1, <2>2
<1>. QED
  BY <1>5, <1>6, <1>7

\* A wrong guess was an attempt.
LEMMA ThrottleGuess ==
  ASSUME IInv, NEW w \in Workers, WrongPassword(w)
  PROVE  Claimed'
<1>. DEFINE o == UserOf[req[w].sid]
            f == req[w].epoch
<1>1. /\ req[w].op = "reauth" /\ req' = [req EXCEPT ![w] = Idle]
      /\ guesses' = [guesses EXCEPT ![o][f] = @ + 1] /\ claims' = claims /\ epoch' = epoch
  BY DEF WrongPassword, End
<1>2. o \in Users /\ f \in Epochs
  BY <1>1, ReauthShape, GrantAssumption DEF IInv
<1>3. w \in Trying(o, f) /\ req'[w] = Idle /\ \A v \in Workers \ {w} : req'[v] = req[v]
  BY <1>1 DEF Trying, IInv, TypeOK
<1>. SUFFICES ASSUME NEW u \in Users, NEW e \in Epochs
     PROVE  /\ IsFiniteSet(Trying(u, e)')
            /\ guesses'[u][e] + Cardinality(Trying(u, e)') <= PASSWORD_LIMIT
            /\ e = epoch[u] => guesses'[u][e] + Cardinality(Trying(u, e)') <= claims[u]
            /\ e > epoch[u] => guesses'[u][e] = 0 /\ Trying(u, e)' = {}
  BY <1>1 DEF Claimed
<1>4. /\ IsFiniteSet(Trying(u, e))
      /\ guesses[u][e] + Cardinality(Trying(u, e)) <= PASSWORD_LIMIT
      /\ e = epoch[u] => guesses[u][e] + Cardinality(Trying(u, e)) <= claims[u]
      /\ e > epoch[u] => guesses[u][e] = 0 /\ Trying(u, e) = {}
  BY DEF IInv, Claimed
<1>5. CASE u = o /\ e = f
  <2>1. Trying(u, e)' = Trying(u, e) \ {w}
    BY <1>3 DEF Trying, Idle
  <2>2. IsFiniteSet(Trying(u, e)') /\ Cardinality(Trying(u, e)') = Cardinality(Trying(u, e)) - 1
    BY <1>3, <1>4, <1>5, <2>1, FS_RemoveElement
  <2>3. guesses'[u][e] = guesses[u][e] + 1
    BY <1>1, <1>2, <1>5 DEF IInv, TypeOK
  <2>4. Cardinality(Trying(u, e)) \in Nat /\ guesses[u][e] \in Nat
    BY TryingType DEF IInv
  <2>5. ~ (e > epoch[u])
    BY <1>3, <1>4, <1>5
  <2>. HIDE DEF o, f
  <2>. QED
    BY <1>4, <2>2, <2>3, <2>4, <2>5
<1>6. CASE ~ (u = o /\ e = f)
  <2>1. Trying(u, e)' = Trying(u, e)
    BY <1>3, <1>6 DEF Trying, Idle
  <2>2. guesses'[u][e] = guesses[u][e]
    BY <1>1, <1>2, <1>6 DEF IInv, TypeOK
  <2>. QED
    BY <1>4, <2>1, <2>2
<1>. QED
  BY <1>5, <1>6

\* Every step looks at no more passwords than were claimed.
LEMMA ThrottleStep ==
  ASSUME IInv, [Next]_vars
  PROVE  Claimed'
<1>. USE DEF account, policies, history
<1>1. ASSUME guesses' = guesses,
             \A w \in Workers : req'[w] = req[w] \/ req'[w].op # "reauth",
             \A u \in Users : \/ claims'[u] = claims[u] /\ epoch'[u] = epoch[u]
                              \/ claims'[u] = 0 /\ epoch'[u] = epoch[u] + 1
      PROVE  Claimed'
  <2>1. \A u \in Users, e \in Epochs : Trying(u, e)' \subseteq Trying(u, e)
    BY <1>1 DEF Trying
  <2>. QED
    BY <1>1, <2>1, ThrottleKept DEF IInv
<1>2. ASSUME NEW w \in Workers, ConsumeConfirmation(w) PROVE Claimed'
  <2>1. \A v \in Workers : req'[v] = req[v] \/ req'[v].op # "reauth"
    BY <1>2 DEF ConsumeConfirmation, IInv, TypeOK
  <2>. QED
    BY <1>1, <1>2, <2>1 DEF ConsumeConfirmation
<1>3. ASSUME NEW w \in Workers, PassConfirmation(w) \/ Abandon(w) PROVE Claimed'
  <2>1. \A v \in Workers : req'[v] = req[v] \/ req'[v].op # "reauth"
    BY <1>3 DEF PassConfirmation, Abandon, End, Idle, IInv, TypeOK
  <2>. QED
    BY <1>1, <1>3, <2>1 DEF PassConfirmation, Abandon
<1>4. ASSUME NEW u \in Users, ResetThrottle(u)
      PROVE  \A v \in Users : \/ claims'[v] = claims[v] /\ epoch'[v] = epoch[v]
                              \/ claims'[v] = 0 /\ epoch'[v] = epoch[v] + 1
  BY <1>4 DEF ResetThrottle, IInv, TypeOK
<1>5. ASSUME NEW w \in Workers, RightPassword(w) PROVE Claimed'
  <2>1. \A v \in Workers : req'[v] = req[v] \/ req'[v].op # "reauth"
    BY <1>5 DEF RightPassword, End, Idle, IInv, TypeOK
  <2>2. UserOf[req[w].sid] \in Users
    BY <1>5, ReauthShape, GrantAssumption DEF RightPassword, IInv
  <2>. QED
    BY <1>1, <1>4, <1>5, <2>1, <2>2 DEF RightPassword
<1>6. ASSUME NEW u \in Users, ExpireClaims(u) PROVE Claimed'
  BY <1>1, <1>4, <1>6 DEF ExpireClaims
<1>7. CASE UNCHANGED <<req, claims, epoch, guesses>>
  BY <1>1, <1>7
<1>8. ASSUME NEW s \in Sids, \/ SignOut(s) \/ ExpireWindow(s) \/ \E k \in Logins : SignIn(s, k)
                             \/ \E a \in Asked, p \in Payloads : BeginConfirmation(s, a, p)
      PROVE  UNCHANGED <<req, claims, epoch, guesses>>
  BY <1>8 DEF SignOut, ExpireWindow, SignIn, BeginConfirmation
<1>9. ASSUME NEW w \in Workers, Call(w) \/ Deploy(w)
      PROVE  UNCHANGED <<req, claims, epoch, guesses>>
  BY <1>9 DEF Call, Deploy
<1>10. ASSUME NEW id \in Ids, Expire(id) PROVE UNCHANGED <<req, claims, epoch, guesses>>
  BY <1>10 DEF Expire
<1>11. ASSUME NEW c \in Credentials, ToggleCredential(c)
       PROVE  UNCHANGED <<req, claims, epoch, guesses>>
  BY <1>11 DEF ToggleCredential
<1>12. TogglePasswords \/ ExpirePolicy \/ UNCHANGED vars => UNCHANGED <<req, claims, epoch, guesses>>
  BY DEF TogglePasswords, ExpirePolicy, vars
<1>. QED
  BY <1>2, <1>3, <1>5, <1>6, <1>7, <1>8, <1>9, <1>10, <1>11, <1>12, ThrottleClaim, ThrottleGuess
  DEF Next, Serve

-----------------------------------------------------------------------------
(* The consumer's policy and the windows.                                  *)

\* Whatever runs without a passkey runs where the release of its worker allows.
LEMMA ConsumerStep ==
  ASSUME IInv, [Next]_vars
  PROVE  ConsumerDecides'
<1>1. CASE done' = done
  BY <1>1 DEF IInv, ConsumerDecides
<1>2. ASSUME NEW w \in Workers, Call(w) PROVE ConsumerDecides'
  <2>. PICK s \in Callers, a \in Asked \ {"manage"}, p \in Payloads :
         CallWithGrant(w, s, a, p) \/ CallWithWindow(w, s, a, p)
    BY <1>2 DEF Call
  <2>1. ASSUME NEW via \in {"password", "passkey", "sudo"}, NEW g \in 0..MaxGestures,
               Run(w, s, a, p, via, g), via = "passkey" \/ Lenient(code[w], a)
        PROVE  ConsumerDecides'
    <3>1. s \in Sids /\ a \in Actions
      BY GrantAssumption DEF Callers, IInv, TypeOK
    <3>. PICK n \in Nat :
           /\ DOMAIN done = 1..n /\ DOMAIN done' = 1..(n + 1)
           /\ \A i \in DOMAIN done : done'[i] = done[i]
           /\ done'[n + 1] = [sid |-> s, action |-> a, payload |-> p, via |-> via,
                              gesture |-> g, under |-> code[w]]
      BY <2>1, <3>1, RunShape DEF IInv
    <3>2. \A i \in DOMAIN done' : i = n + 1 \/ (i \in DOMAIN done /\ done'[i] = done[i])
      OBVIOUS
    <3>. QED
      BY <2>1, <3>2 DEF IInv, ConsumerDecides
  <2>2. CASE CallWithWindow(w, s, a, p)
    BY <2>1, <2>2, GrantAssumption DEF CallWithWindow, Decides
  <2>3. CASE CallWithGrant(w, s, a, p)
    <3>. PICK id \in Ids :
           /\ records[id].type = "grant"
           /\ \/ /\ Run(w, s, a, p, records[id].method, records[id].gesture)
                 /\ records[id].method = "passkey" \/ Decides(w, a)
              \/ Run(w, s, a, p, "sudo", 0) /\ Decides(w, a)
              \/ done' = done
      BY <2>3 DEF CallWithGrant
    <3>1. /\ records[id].method \in {"password", "passkey"}
          /\ records[id].gesture \in 0..MaxGestures /\ 0 \in 0..MaxGestures
      BY GrantAssumption DEF IInv, TypeOK, RecordType, Gone, Gestures
    <3>. QED
      BY <1>1, <2>1, <3>1 DEF Decides
  <2>. QED
    BY <2>2, <2>3
<1>3. ASSUME NEW s \in Sids, \/ SignOut(s) \/ ExpireWindow(s) \/ \E k \in Logins : SignIn(s, k)
                             \/ \E a \in Asked, p \in Payloads : BeginConfirmation(s, a, p)
      PROVE  done' = done
  BY <1>3 DEF SignOut, ExpireWindow, SignIn, BeginConfirmation, history
<1>4. ASSUME NEW w \in Workers, \/ ConsumeConfirmation(w) \/ PassConfirmation(w) \/ ClaimAttempt(w)
                                \/ WrongPassword(w) \/ RightPassword(w) \/ Abandon(w) \/ Deploy(w)
      PROVE  done' = done
  BY <1>4 DEF ConsumeConfirmation, PassConfirmation, ClaimAttempt, WrongPassword, RightPassword,
              Abandon, Deploy, history
<1>5. ASSUME NEW id \in Ids, Expire(id) PROVE done' = done
  BY <1>5 DEF Expire, history
<1>6. ASSUME NEW u \in Users, ExpireClaims(u) PROVE done' = done
  BY <1>6 DEF ExpireClaims, history
<1>7. ASSUME NEW c \in Credentials, ToggleCredential(c) PROVE done' = done
  BY <1>7 DEF ToggleCredential, history
<1>8. TogglePasswords \/ ExpirePolicy \/ UNCHANGED vars => done' = done
  BY DEF TogglePasswords, ExpirePolicy, history, vars
<1>. QED
  BY <1>1, <1>2, <1>3, <1>4, <1>5, <1>6, <1>7, <1>8 DEF Next, Serve

\* Every window that is opened was earned in its session.
LEMMA WindowStep ==
  ASSUME IInv, [Next]_vars
  PROVE  WindowIsEarned'
<1>. USE DEF account, policies, history
<1>1. CASE UNCHANGED <<window, proofs>>
  BY <1>1 DEF IInv, WindowIsEarned
<1>2. ASSUME NEW s \in Sids, SignOut(s) \/ ExpireWindow(s) PROVE WindowIsEarned'
  BY <1>2 DEF SignOut, ExpireWindow, IInv, TypeOK, WindowIsEarned, FullSudo, None
<1>3. ASSUME NEW s \in Sids, NEW k \in Logins, SignIn(s, k) PROVE WindowIsEarned'
  BY <1>3 DEF SignIn, SetWindow, IInv, TypeOK, WindowIsEarned, FullSudo, Logins
<1>4. ASSUME NEW w \in Workers, PassConfirmation(w) PROVE WindowIsEarned'
  <2>1. /\ Earn(req[w].rec.sid, "passkey")
        /\ SetWindow(req[w].rec.sid, "passkey") \/ UNCHANGED window
    BY <1>4 DEF PassConfirmation
  <2>. QED
    BY <2>1 DEF Earn, SetWindow, IInv, TypeOK, WindowIsEarned, FullSudo
<1>5. ASSUME NEW w \in Workers, RightPassword(w) PROVE WindowIsEarned'
  <2>1. /\ Earn(req[w].sid, "password")
        /\ SetWindow(req[w].sid, "reauth") \/ UNCHANGED window
    BY <1>5 DEF RightPassword
  <2>. QED
    BY <2>1 DEF Earn, SetWindow, IInv, TypeOK, WindowIsEarned, FullSudo
<1>6. ASSUME NEW s \in Sids, \E a \in Asked, p \in Payloads : BeginConfirmation(s, a, p)
      PROVE  UNCHANGED <<window, proofs>>
  BY <1>6 DEF BeginConfirmation
<1>7. ASSUME NEW w \in Workers, \/ ConsumeConfirmation(w) \/ ClaimAttempt(w) \/ WrongPassword(w)
                                \/ Abandon(w) \/ Call(w) \/ Deploy(w)
      PROVE  UNCHANGED <<window, proofs>>
  BY <1>7 DEF ConsumeConfirmation, ClaimAttempt, WrongPassword, Abandon, Call, Deploy
<1>8. ASSUME NEW id \in Ids, Expire(id) PROVE UNCHANGED <<window, proofs>>
  BY <1>8 DEF Expire
<1>9. ASSUME NEW u \in Users, ExpireClaims(u) PROVE UNCHANGED <<window, proofs>>
  BY <1>9 DEF ExpireClaims
<1>10. ASSUME NEW c \in Credentials, ToggleCredential(c) PROVE UNCHANGED <<window, proofs>>
  BY <1>10 DEF ToggleCredential
<1>11. TogglePasswords \/ ExpirePolicy \/ UNCHANGED vars => UNCHANGED <<window, proofs>>
  BY DEF TogglePasswords, ExpirePolicy, vars
<1>. QED
  BY <1>1, <1>2, <1>3, <1>4, <1>5, <1>6, <1>7, <1>8, <1>9, <1>10, <1>11 DEF Next, Serve

-----------------------------------------------------------------------------
(* Theorems.                                                               *)

\* The invariant holds at the start.
LEMMA IInvInit ==
  ASSUME Init
  PROVE  IInv
<1>1. TypeOK
  <2>1. begun \in Seq(Calls) /\ done \in Seq(RunType) /\ Len(begun) <= MaxGestures
    <3>1. << >> \in Seq(Calls) /\ << >> \in Seq(RunType) /\ Len(<< >>) = 0
      BY EmptySeq
    <3>. QED
      BY <3>1, GrantAssumption DEF Init
  <2>2. code \in [Workers -> Releases \cup {"absent"}]
    BY DEF Init, Releases
  <2>3. records \in [Ids -> RecordType] /\ req \in [Workers -> ReqType]
    BY DEF Init, RecordType, ReqType
  <2>4. /\ claims \in [Users -> 0..PASSWORD_LIMIT]
        /\ epoch \in [Users -> Epochs] /\ guesses \in [Users -> [Epochs -> Nat]]
    BY GrantAssumption DEF Init, Epochs
  <2>5. /\ live \subseteq Sids /\ over \subseteq Sids /\ moving \in Changes
        /\ window \in [Sids -> FullSudo \cup {"external", None}]
        /\ proofs \in [Sids -> SUBSET {"password", "passkey"}]
        /\ usable \subseteq Credentials /\ uv \subseteq Credentials /\ noPasswords \in BOOLEAN
        /\ shared \in Releases \cup {"absent"}
    BY DEF Init
  <2>. QED
    BY <2>1, <2>2, <2>3, <2>4, <2>5 DEF TypeOK
<1>2. Stored = {} /\ Working = {} /\ DOMAIN done = {}
  BY DEF Init, Stored, Working, Idle
<1>3. OnePlace /\ AsBegun /\ ConsumerDecides
  BY <1>2 DEF OnePlace, AsBegun, OneGestureOneAction, ConsumerDecides
<1>4. Claimed
  <2>1. \A u \in Users, e \in Epochs : Trying(u, e) = {} /\ guesses[u][e] = 0
    BY DEF Init, Trying, Idle
  <2>2. IsFiniteSet({}) /\ Cardinality({}) = 0
    BY FS_EmptySet
  <2>3. \A u \in Users : claims[u] = 0
    BY DEF Init
  <2>4. PASSWORD_LIMIT \in Nat
    BY GrantAssumption
  <2>. QED
    BY <2>1, <2>2, <2>3, <2>4 DEF Claimed
<1>5. WindowIsEarned
  BY DEF Init, WindowIsEarned, FullSudo, None
<1>. QED
  BY <1>1, <1>3, <1>4, <1>5 DEF IInv

\* And it is kept.
LEMMA IInvHolds == Spec => []IInv
<1>1. IInv /\ [Next]_vars => IInv'
  BY TypeStep, GestureStep, ThrottleStep, ConsumerStep, WindowStep DEF IInv
<1>. QED
  BY <1>1, IInvInit, PTL DEF Spec

\* The variables keep their shapes; the attempts that are counted never pass
\* the limit (claim_password_attempt).
THEOREM TypeCorrect == Spec => []TypeOK
<1>1. IInv => TypeOK
  BY DEF IInv
<1>. QED
  BY <1>1, IInvHolds, PTL

\* One gesture, one call (consume_ceremony, consume_grant).
THEOREM GestureSpentOnce == Spec => []OneGestureOneAction
<1>1. IInv => OneGestureOneAction
  BY DEF IInv, OnePlace
<1>. QED
  BY <1>1, IInvHolds, PTL

\* What a gesture authorized is what it was made for (mint_action_grant,
\* consume_action_grant).
THEOREM GestureAsConfirmed == Spec => []ActsAsConfirmed
<1>1. IInv => ActsAsConfirmed
  BY DEF IInv, AsBegun, Names, ActsAsConfirmed
<1>. QED
  BY <1>1, IInvHolds, PTL

\* The release that runs a call decides what may confirm it (passkey_protected).
THEOREM PolicyOfConsumer == Spec => []ConsumerDecides
<1>1. IInv => ConsumerDecides
  BY DEF IInv
<1>. QED
  BY <1>1, IInvHolds, PTL

\* A window stands for a factor of its own session (set_window).
THEOREM WindowsEarned == Spec => []WindowIsEarned
<1>1. IInv => WindowIsEarned
  BY DEF IInv
<1>. QED
  BY <1>1, IInvHolds, PTL

\* No more wrong passwords are looked at than the throttle lets through
\* (claim_password_attempt before check_password).
THEOREM ThrottleNeverPassed == Spec => []ThrottleHolds
<1>1. IInv => ThrottleHolds
  <2>. SUFFICES ASSUME IInv, NEW u \in Users, NEW e \in Epochs
       PROVE guesses[u][e] <= PASSWORD_LIMIT
    BY DEF ThrottleHolds
  <2>1. guesses[u][e] + Cardinality(Trying(u, e)) <= PASSWORD_LIMIT
    BY DEF IInv, Claimed
  <2>2. Cardinality(Trying(u, e)) \in Nat /\ guesses[u][e] \in Nat
    BY TryingType DEF IInv
  <2>. QED
    BY <2>1, <2>2, GrantAssumption
<1>. QED
  BY <1>1, IInvHolds, PTL

\* uv_initialized is only set after the password of the confirming session
\* (verify_confirmation).
THEOREM UvAfterPassword == Spec => UvFlipNeedsPassword
<1>. DEFINE Flip == \A w \in Workers : uv' # uv /\ req'[w] # req[w] =>
                      "password" \in proofs[req[w].rec.sid]
<1>1. IInv /\ [Next]_vars => Flip
  <2>. SUFFICES ASSUME IInv, [Next]_vars, uv' # uv, NEW w \in Workers, req'[w] # req[w]
       PROVE  "password" \in proofs[req[w].rec.sid]
    OBVIOUS
  <2>1. \E v \in Workers : PassConfirmation(v)
    BY ZenonT(60) DEF Next, Serve, SignOut, ExpireWindow, SignIn, BeginConfirmation, ConsumeConfirmation,
           ClaimAttempt, WrongPassword, RightPassword, Abandon, Call, Deploy, Expire, ExpireClaims,
           ToggleCredential, TogglePasswords, ExpirePolicy, vars
  <2>2. PassConfirmation(w)
    BY <2>1 DEF PassConfirmation, End, IInv, TypeOK
  <2>3. req[w].rec.sid \in Sids
    BY <2>2, ConfirmShape DEF PassConfirmation, IInv
  <2>4. MayFlip(req[w].rec.sid)
    BY <2>2 DEF PassConfirmation
  <2>. QED
    BY <2>3, <2>4 DEF MayFlip, IInv, WindowIsEarned
<1>2. UvFlipNeedsPassword <=> [][Flip]_vars
  BY DEF UvFlipNeedsPassword
<1>. HIDE DEF Flip
<1>3. IInv /\ [Next]_vars => [Flip]_vars
  BY <1>1
<1>. QED
  BY <1>2, <1>3, IInvHolds, PTL DEF Spec

-----------------------------------------------------------------------------
(* The refinement of SingleUse.                                            *)

\* What authorisations there are, seen from the records and the requests.
Quiet == UNCHANGED <<Len(begun), Pending, Used>>

\* The calls that ran are the uses.
LEMMA UsedKept ==
  ASSUME done' = done
  PROVE  Used' = Used
<1>1. Authorised' = Authorised
  BY DEF Authorised
<1>. QED
  BY <1>1 DEF Used

\* Every authorisation stays where it is, or moves with what it is for.
LEMMA PendingKept ==
  ASSUME \A id \in Stored' :
             \/ \E i \in Stored : Carries(records'[id]) = Carries(records[i])
             \/ \E w \in Working : Carries(records'[id]) = Carries(Claim(w)),
         \A w \in Working' :
             \/ \E i \in Stored : Carries(Claim(w)') = Carries(records[i])
             \/ \E v \in Working : Carries(Claim(w)') = Carries(Claim(v)),
         \A id \in Stored :
             \/ \E i \in Stored' : Carries(records[id]) = Carries(records'[i])
             \/ \E w \in Working' : Carries(records[id]) = Carries(Claim(w)'),
         \A w \in Working :
             \/ \E i \in Stored' : Carries(Claim(w)) = Carries(records'[i])
             \/ \E v \in Working' : Carries(Claim(w)) = Carries(Claim(v)')
  PROVE  Pending' = Pending
<1>. DEFINE c(r) == Carries(r)
<1>1. Pending = {c(records[id]) : id \in Stored} \cup {c(Claim(w)) : w \in Working}
  BY DEF Pending
<1>2. Pending' = {c(records'[id]) : id \in Stored'} \cup {c(Claim(w)') : w \in Working'}
  BY DEF Pending, Carries
<1>. HIDE DEF c
<1>3. Pending' \subseteq Pending
  BY <1>1, <1>2 DEF c
<1>4. Pending \subseteq Pending'
  BY <1>1, <1>2 DEF c
<1>. QED
  BY <1>3, <1>4

\* Authorisations of different gestures differ.
LEMMA CarriesGesture ==
  ASSUME NEW r, NEW q, Carries(r) = Carries(q)
  PROVE  r.gesture = q.gesture
<1>1. Carries(r).id = r.gesture /\ Carries(q).id = q.gesture
  BY DEF Carries
<1>. QED
  BY <1>1

\* A record is gone: what it carried may not be used any more.
LEMMA RecordLost ==
  ASSUME OnePlace, NEW id \in Stored, id \notin Stored',
         \A i \in Stored' : i \in Stored /\ records'[i] = records[i],
         \A i \in Stored \ {id} : i \in Stored',
         Working' = Working, \A w \in Working : Claim(w)' = Claim(w)
  PROVE  /\ Pending' = Pending \ {Carries(records[id])}
         /\ Carries(records[id]) \in Pending
<1>. DEFINE a == Carries(records[id])
<1>1. \A x : x \in Pending <=> \/ \E i \in Stored : x = Carries(records[i])
                               \/ \E w \in Working : x = Carries(Claim(w))
  BY DEF Pending
<1>2. \A x : x \in Pending' <=> \/ \E i \in Stored' : x = Carries(records'[i])
                                \/ \E w \in Working' : x = Carries(Claim(w)')
  BY DEF Pending, Carries
<1>3. /\ \A i \in Stored' : Carries(records'[i]) = Carries(records[i])
      /\ \A w \in Working : Carries(Claim(w)') = Carries(Claim(w))
  BY DEF Carries
<1>4. /\ \A i \in Stored' : Carries(records[i]) # a
      /\ \A w \in Working : Carries(Claim(w)) # a
  BY CarriesGesture DEF OnePlace
<1>. HIDE DEF a
<1>5. ASSUME NEW x \in Pending' PROVE x \in Pending /\ x # a
  BY <1>1, <1>2, <1>3, <1>4, <1>5
<1>6. ASSUME NEW x \in Pending, x # a PROVE x \in Pending'
  BY <1>1, <1>2, <1>3, <1>6 DEF a
<1>7. a \in Pending
  BY <1>1 DEF a
<1>. QED
  BY <1>5, <1>6, <1>7 DEF a

\* A request is over, and nothing was stored for the gesture in its hands.
LEMMA HandsLost ==
  ASSUME OnePlace, NEW w \in Working, w \notin Working',
         \A v \in Working' : v \in Working /\ Claim(v)' = Claim(v),
         \A v \in Working \ {w} : v \in Working',
         records' = records
  PROVE  /\ Pending' = Pending \ {Carries(Claim(w))}
         /\ Carries(Claim(w)) \in Pending
<1>. DEFINE a == Carries(Claim(w))
<1>1. \A x : x \in Pending <=> \/ \E i \in Stored : x = Carries(records[i])
                               \/ \E v \in Working : x = Carries(Claim(v))
  BY DEF Pending
<1>2. \A x : x \in Pending' <=> \/ \E i \in Stored' : x = Carries(records'[i])
                                \/ \E v \in Working' : x = Carries(Claim(v)')
  BY DEF Pending, Carries
<1>3. /\ Stored' = Stored
      /\ \A i \in Stored : Carries(records'[i]) = Carries(records[i])
      /\ \A v \in Working' : Carries(Claim(v)') = Carries(Claim(v))
  BY DEF Carries, Stored
<1>4. /\ \A i \in Stored : Carries(records[i]) # a
      /\ \A v \in Working' : Carries(Claim(v)) # a
  BY CarriesGesture DEF OnePlace
<1>. HIDE DEF a
<1>5. ASSUME NEW x \in Pending' PROVE x \in Pending /\ x # a
  BY <1>1, <1>2, <1>3, <1>4, <1>5
<1>6. ASSUME NEW x \in Pending, x # a PROVE x \in Pending'
  BY <1>1, <1>2, <1>3, <1>6 DEF a
<1>7. a \in Pending
  BY <1>1 DEF a
<1>. QED
  BY <1>5, <1>6, <1>7 DEF a

\* One authorisation more, for what s, a and p say.
LEMMA PendingGrows ==
  ASSUME NEW x,
         \/ \E i \in Stored' \ Stored :
              /\ Stored' = Stored \cup {i} /\ Carries(records'[i]) = x
              /\ Working' = Working
         \/ \E v \in Working' \ Working :
              /\ Working' = Working \cup {v} /\ Carries(Claim(v)') = x
              /\ Stored' = Stored,
         \A id \in Stored : records'[id] = records[id],
         \A w \in Working : Claim(w)' = Claim(w)
  PROVE  Pending' = Pending \cup {x}
<1>1. \A y : y \in Pending <=> \/ \E i \in Stored : y = Carries(records[i])
                               \/ \E w \in Working : y = Carries(Claim(w))
  BY DEF Pending
<1>2. \A y : y \in Pending' <=> \/ \E i \in Stored' : y = Carries(records'[i])
                                \/ \E w \in Working' : y = Carries(Claim(w)')
  BY DEF Pending, Carries
<1>3. /\ \A i \in Stored : Carries(records'[i]) = Carries(records[i])
      /\ \A w \in Working : Carries(Claim(w)') = Carries(Claim(w))
  BY DEF Carries
<1>4. CASE \E i \in Stored' \ Stored :
              /\ Stored' = Stored \cup {i} /\ Carries(records'[i]) = x
              /\ Working' = Working
  BY <1>1, <1>2, <1>3, <1>4
<1>5. CASE \E v \in Working' \ Working :
              /\ Working' = Working \cup {v} /\ Carries(Claim(v)') = x
              /\ Stored' = Stored
  BY <1>1, <1>2, <1>3, <1>5
<1>. QED
  BY <1>4, <1>5

\* A confirmation begins.
LEMMA BeginIsBegin ==
  ASSUME IInv, NEW s \in Sids, NEW a \in Asked, NEW p \in Payloads, BeginConfirmation(s, a, p)
  PROVE  Single!Next
<1>. DEFINE r == [type |-> "confirm", sid |-> s, action |-> a, payload |-> p,
                  allow |-> {c \in usable : Owner[c] = UserOf[s]}, gesture |-> Len(begun) + 1]
            t == [sid |-> s, action |-> a, payload |-> p]
            x == Single!Authorisation(Len(begun) + 1, t)
<1>1. PICK i \in Ids : i = Fresh /\ records[i] = Gone
  BY FreshIsFree DEF IInv, OnePlace
<1>2. records' = [records EXCEPT ![i] = r] /\ done' = done /\ req' = req
  BY <1>1 DEF BeginConfirmation, Store, history
<1>3. /\ records'[i] = r /\ i \notin Stored /\ r # Gone
      /\ \A id \in Stored : id \in Stored' /\ records'[id] = records[id]
      /\ \A id \in Stored' \ {i} : id \in Stored
  BY <1>1, <1>2 DEF IInv, TypeOK, Stored, Gone
<1>4. Working' = Working /\ \A w \in Working : Claim(w)' = Claim(w)
  BY <1>2 DEF Working, Claim
<1>5. Carries(records'[i]) = x
  BY <1>3 DEF Carries, Single!Authorisation
<1>6. Stored' = Stored \cup {i} /\ i \in Stored'
  BY <1>1, <1>3 DEF Stored
<1>7. t \in Calls /\ Len(begun') = Len(begun) + 1
  <2>1. a \in Actions /\ Len(begun) < MaxGestures
        /\ begun' = Append(begun, [sid |-> s, action |-> a, payload |-> p])
    BY GrantAssumption DEF BeginConfirmation, Begin
  <2>. QED
    BY <2>1, BeginShape DEF IInv, Calls
<1>8. Pending' = Pending \cup {x}
  <2>. HIDE DEF x, r
  <2>. QED
    BY <1>3, <1>4, <1>5, <1>6, PendingGrows
<1>9. Used' = Used
  BY <1>2, UsedKept
<1>. HIDE DEF t
<1>10. Single!Issue(x)
  BY <1>8, <1>9 DEF Single!Issue
<1>11. Single!Begin
  BY <1>7, <1>10 DEF Single!Begin
<1>. QED
  BY <1>11 DEF Single!Next

\* So does an attempt with the password, for an action.
LEMMA ClaimIsBegin ==
  ASSUME IInv, NEW w \in Workers, ClaimAttempt(w)
  PROVE  Single!Next \/ Quiet
<1>. PICK s \in Callers, a \in Asked \cup {None}, p \in Payloads :
       /\ req[w] = Idle
       /\ a # None => Len(begun) < MaxGestures
       /\ begun' = IF a = None THEN begun
                   ELSE Append(begun, [sid |-> s, action |-> a, payload |-> p])
       /\ req' = [req EXCEPT ![w] = [op |-> "reauth", sid |-> s, action |-> a, payload |-> p,
                                     gesture |-> Len(begun'), epoch |-> epoch[UserOf[s]]]]
       /\ records' = records /\ done' = done
  BY DEF ClaimAttempt
<1>. DEFINE q == [op |-> "reauth", sid |-> s, action |-> a, payload |-> p,
                  gesture |-> Len(begun'), epoch |-> epoch[UserOf[s]]]
            t == [sid |-> s, action |-> a, payload |-> p]
            x == Single!Authorisation(Len(begun) + 1, t)
<1>1. req'[w] = q /\ \A v \in Workers \ {w} : req'[v] = req[v]
  BY DEF IInv, TypeOK
<1>2. /\ w \notin Working
      /\ \A v \in Workers \ {w} : (v \in Working' <=> v \in Working) /\ Claim(v)' = Claim(v)
  BY <1>1 DEF Working, Claim, Idle
<1>3. Stored' = Stored /\ Used' = Used
  BY UsedKept DEF Stored
<1>4. CASE a = None
  <2>1. w \notin Working'
    BY <1>1, <1>4 DEF Working
  <2>2. Working' = Working
    BY <1>2, <2>1 DEF Working
  <2>3. \A v \in Working : Claim(v)' = Claim(v)
    BY <1>2 DEF Working
  <2>4. Pending' = Pending
    BY <1>3, <2>2, <2>3, PendingKept
  <2>. QED
    BY <1>3, <1>4, <2>4 DEF Quiet
<1>5. CASE a # None
  <2>1. t \in Calls /\ Len(begun') = Len(begun) + 1
    <3>1. s \in Sids /\ a \in Actions
      BY <1>5, GrantAssumption DEF Callers, IInv, TypeOK
    <3>. QED
      BY <1>5, <3>1, BeginShape DEF IInv, Calls
  <2>2. w \in Working' /\ Claim(w)' = q
    BY <1>1, <1>5 DEF Working, Claim
  <2>3. Working' = Working \cup {w}
    BY <1>2, <2>2 DEF Working
  <2>4. Carries(Claim(w)') = x
    BY <2>1, <2>2 DEF Carries, Single!Authorisation
  <2>5. \A v \in Working : Claim(v)' = Claim(v)
    BY <1>2 DEF Working
  <2>6. Pending' = Pending \cup {x}
    <3>. HIDE DEF x, q
    <3>. QED
      BY <1>2, <1>3, <2>2, <2>3, <2>4, <2>5, PendingGrows
  <2>. HIDE DEF t
  <2>7. Single!Issue(x)
    BY <1>3, <2>6 DEF Single!Issue
  <2>8. Single!Begin
    BY <2>1, <2>7 DEF Single!Begin
  <2>. QED
    BY <2>8 DEF Single!Next
<1>. QED
  BY <1>4, <1>5

\* A ceremony consumed is in the worker's hands, or lost.
LEMMA ConsumeIsLose ==
  ASSUME IInv, NEW w \in Workers, ConsumeConfirmation(w)
  PROVE  Single!Next \/ Quiet
<1>. PICK id \in Ids, s \in Callers :
       /\ req[w] = Idle /\ records[id].type = "confirm"
       /\ records' = [records EXCEPT ![id] = Gone]
       /\ req' = IF records[id].sid = s
                 THEN [req EXCEPT ![w] = [op |-> "confirm", rec |-> records[id]]] ELSE req
       /\ begun' = begun /\ done' = done
  BY DEF ConsumeConfirmation, history
<1>1. /\ id \in Stored /\ id \notin Stored'
      /\ \A i \in Stored' : i \in Stored /\ records'[i] = records[i]
      /\ \A i \in Stored \ {id} : i \in Stored' /\ records'[i] = records[i]
  BY DEF Stored, IInv, TypeOK, Gone
<1>2. Used' = Used
  BY UsedKept
<1>3. CASE req' = req
  <2>1. Working' = Working /\ \A v \in Working : Claim(v)' = Claim(v)
    BY <1>3 DEF Working, Claim
  <2>2. /\ Pending' = Pending \ {Carries(records[id])}
        /\ Carries(records[id]) \in Pending
    BY <1>1, <2>1, RecordLost DEF IInv
  <2>3. Single!Lose(Carries(records[id]))
    BY <1>2, <2>2 DEF Single!Lose
  <2>. QED
    BY <2>2, <2>3 DEF Single!Next
<1>4. CASE req' = [req EXCEPT ![w] = [op |-> "confirm", rec |-> records[id]]]
  <2>1. /\ req'[w] = [op |-> "confirm", rec |-> records[id]]
        /\ \A v \in Workers \ {w} : req'[v] = req[v]
    BY <1>4 DEF IInv, TypeOK
  <2>2. w \in Working' /\ Claim(w)' = records[id]
    BY <2>1 DEF Working, Claim
  <2>3. w \notin Working
    BY DEF Working, Idle
  <2>4. \A v \in Workers \ {w} : (v \in Working' <=> v \in Working) /\ Claim(v)' = Claim(v)
    BY <2>1 DEF Working, Claim
  <2>5. /\ \A v \in Working' : v = w \/ (v \in Working /\ Claim(v)' = Claim(v))
        /\ \A v \in Working : v \in Working' /\ Claim(v)' = Claim(v)
    BY <2>3, <2>4 DEF Working
  <2>6. Pending' = Pending
    BY <1>1, <2>2, <2>5, PendingKept
  <2>. QED
    BY <1>2, <2>6 DEF Quiet
<1>. QED
  BY <1>3, <1>4

\* A grant carries on what the worker had in its hands.
LEMMA GrantIsQuiet ==
  ASSUME IInv, NEW w \in Working, NEW method, End(w), begun' = begun, done' = done,
         Store([type |-> "grant", sid |-> Claim(w).sid, action |-> Claim(w).action,
                payload |-> Claim(w).payload, method |-> method, gesture |-> Claim(w).gesture])
  PROVE  Quiet
<1>. DEFINE r == [type |-> "grant", sid |-> Claim(w).sid, action |-> Claim(w).action,
                  payload |-> Claim(w).payload, method |-> method, gesture |-> Claim(w).gesture]
<1>1. PICK i \in Ids : i = Fresh /\ records[i] = Gone
  BY FreshIsFree DEF IInv, OnePlace
<1>2. records' = [records EXCEPT ![i] = r]
  BY <1>1 DEF Store
<1>3. /\ records'[i] = r /\ i \notin Stored /\ i \in Stored'
      /\ \A id \in Stored' \ {i} : id \in Stored /\ records'[id] = records[id]
      /\ \A id \in Stored : id \in Stored' /\ records'[id] = records[id]
  BY <1>1, <1>2 DEF IInv, TypeOK, Stored, Gone
<1>4. w \in Workers /\ req'[w] = Idle /\ \A v \in Workers \ {w} : req'[v] = req[v]
  BY DEF Working, End, IInv, TypeOK
<1>5. /\ w \notin Working'
      /\ \A v \in Working' : v \in Working /\ Claim(v)' = Claim(v)
      /\ \A v \in Working \ {w} : v \in Working' /\ Claim(v)' = Claim(v)
  BY <1>4 DEF Working, Claim, Idle
<1>6. Carries(records'[i]) = Carries(Claim(w))
  BY <1>3 DEF Carries
<1>7. Pending' = Pending
  <2>. HIDE DEF r
  <2>. QED
    BY <1>3, <1>5, <1>6, PendingKept
<1>. QED
  BY <1>7, UsedKept DEF Quiet

\* A request that ends with nothing loses what it had.
LEMMA EndIsLose ==
  ASSUME IInv, NEW w \in Workers, End(w), begun' = begun, done' = done, records' = records
  PROVE  Single!Next \/ Quiet
<1>1. req'[w] = Idle /\ \A v \in Workers \ {w} : req'[v] = req[v]
  BY DEF End, IInv, TypeOK
<1>2. /\ w \notin Working'
      /\ \A v \in Working' : v \in Working /\ Claim(v)' = Claim(v)
      /\ \A v \in Working \ {w} : v \in Working' /\ Claim(v)' = Claim(v)
  BY <1>1 DEF Working, Claim, Idle
<1>3. Used' = Used /\ Stored' = Stored
  BY UsedKept DEF Stored
<1>4. CASE w \in Working
  <2>1. Pending' = Pending \ {Carries(Claim(w))} /\ Carries(Claim(w)) \in Pending
    BY <1>2, <1>4, HandsLost DEF IInv
  <2>2. Single!Lose(Carries(Claim(w)))
    BY <1>3, <2>1 DEF Single!Lose
  <2>. QED
    BY <2>1, <2>2 DEF Single!Next
<1>5. CASE w \notin Working
  <2>1. Pending' = Pending
    BY <1>2, <1>3, <1>5, PendingKept
  <2>. QED
    BY <1>3, <2>1 DEF Quiet
<1>. QED
  BY <1>4, <1>5

\* One call more: a use of the authorisation it carries, or none.
LEMMA RunIsUse ==
  ASSUME IInv, NEW n \in Nat, DOMAIN done = 1..n, DOMAIN done' = 1..(n + 1),
         \A k \in DOMAIN done : done'[k] = done[k]
  PROVE  /\ done'[n + 1].gesture = 0 => Used' = Used
         /\ done'[n + 1].gesture # 0 => Single!Note(Carries(done'[n + 1]))
<1>. DEFINE x == Carries(done'[n + 1])
            old == [l \in Authorised |-> Carries(done'[l])]
<1>1. /\ n + 1 \notin Authorised
      /\ \A k \in DOMAIN done' : k = n + 1 \/ (k \in DOMAIN done /\ done'[k] = done[k])
      /\ \A k \in DOMAIN done : k \in DOMAIN done' /\ k # n + 1
  BY DEF Authorised
<1>2. \A l \in Authorised : Carries(done'[l]) = Carries(done[l])
  BY DEF Authorised, Carries
<1>3. Used = old
  BY <1>2 DEF Used
<1>4. CASE done'[n + 1].gesture = 0
  <2>1. Authorised' = Authorised
    BY <1>1, <1>4 DEF Authorised
  <2>. QED
    BY <1>3, <1>4, <2>1 DEF Used
<1>5. CASE done'[n + 1].gesture # 0
  <2>1. Authorised' = Authorised \cup {n + 1}
    BY <1>1, <1>5 DEF Authorised
  <2>2. Used' = [l \in Authorised \cup {n + 1} |-> Carries(done'[l])]
    BY <2>1 DEF Used, Carries
  <2>3. Used' = [l \in Authorised \cup {n + 1} |-> IF l = n + 1 THEN x ELSE Used[l]]
    BY <1>1, <1>3, <2>2
  <2>4. /\ DOMAIN Used = Authorised /\ DOMAIN Used' = Authorised \cup {n + 1}
        /\ n + 1 \in DOMAIN Used' \ DOMAIN Used
    BY <1>1, <2>2 DEF Used
  <2>. HIDE DEF x
  <2>5. Single!Note(x)
    BY <2>3, <2>4 DEF Single!Note
  <2>. QED
    BY <1>5, <2>5 DEF x
<1>. QED
  BY <1>4, <1>5

\* A protected call uses the grant it names, or loses it, or goes without.
LEMMA CallIsUse ==
  ASSUME IInv, NEW w \in Workers, Call(w)
  PROVE  Single!Next \/ Quiet
<1>. PICK s \in Callers, a \in Asked \ {"manage"}, p \in Payloads :
       /\ CallWithGrant(w, s, a, p) \/ CallWithWindow(w, s, a, p)
       /\ UNCHANGED <<req, begun>>
  BY DEF Call
<1>1. s \in Sids /\ a \in Actions
  BY GrantAssumption DEF Callers, IInv, TypeOK
<1>2. Working' = Working /\ \A v \in Working : Claim(v)' = Claim(v)
  BY DEF Working, Claim
<1>3. ASSUME Run(w, s, a, p, "sudo", 0) PROVE Used' = Used
  <2>1. 0 \in 0..MaxGestures
    BY GrantAssumption
  <2>2. PICK n \in Nat :
          /\ DOMAIN done = 1..n /\ DOMAIN done' = 1..(n + 1)
          /\ \A k \in DOMAIN done : done'[k] = done[k]
          /\ done'[n + 1] = [sid |-> s, action |-> a, payload |-> p, via |-> "sudo",
                             gesture |-> 0, under |-> code[w]]
    BY <1>1, <1>3, <2>1, RunShape DEF IInv
  <2>. QED
    BY <2>2, RunIsUse
<1>4. CASE CallWithWindow(w, s, a, p)
  <2>1. Used' = Used /\ records' = records
    BY <1>3, <1>4 DEF CallWithWindow
  <2>2. Stored' = Stored
    BY <2>1 DEF Stored
  <2>3. Pending' = Pending
    BY <1>2, <2>1, <2>2, PendingKept
  <2>. QED
    BY <2>1, <2>3 DEF Quiet
<1>5. CASE CallWithGrant(w, s, a, p)
  <2>. PICK id \in Ids :
         /\ records[id].type = "grant"
         /\ records' = [records EXCEPT ![id] = Gone]
         /\ \/ /\ Matches(records[id], s, a, p)
               /\ Run(w, s, a, p, records[id].method, records[id].gesture)
            \/ Run(w, s, a, p, "sudo", 0)
            \/ UNCHANGED done
    BY <1>5 DEF CallWithGrant, Spend
  <2>. DEFINE x == Carries(records[id])
  <2>1. /\ id \in Stored /\ id \notin Stored'
        /\ \A i \in Stored' : i \in Stored /\ records'[i] = records[i]
        /\ \A i \in Stored \ {id} : i \in Stored'
    BY DEF Stored, IInv, TypeOK, Gone
  <2>2. Pending' = Pending \ {x} /\ x \in Pending
    BY <1>2, <2>1, RecordLost DEF IInv
  <2>3. ASSUME Used' = Used PROVE Single!Next
    <3>. HIDE DEF x
    <3>1. Single!Lose(x)
      BY <2>2, <2>3 DEF Single!Lose
    <3>. QED
      BY <2>2, <3>1 DEF Single!Next
  <2>4. CASE UNCHANGED done
    BY <2>3, <2>4, UsedKept
  <2>5. CASE Run(w, s, a, p, "sudo", 0)
    BY <1>3, <2>3, <2>5
  <2>6. CASE /\ Matches(records[id], s, a, p)
             /\ Run(w, s, a, p, records[id].method, records[id].gesture)
    <3>1. /\ records[id].method \in {"password", "passkey"}
          /\ records[id].gesture \in Gestures
      BY GrantAssumption DEF IInv, TypeOK, RecordType, Gone
    <3>2. records[id].gesture \in 0..MaxGestures /\ records[id].gesture # 0
      BY <3>1, GrantAssumption DEF Gestures
    <3>3. PICK n \in Nat :
            /\ DOMAIN done = 1..n /\ DOMAIN done' = 1..(n + 1)
            /\ \A k \in DOMAIN done : done'[k] = done[k]
            /\ done'[n + 1] = [sid |-> s, action |-> a, payload |-> p,
                               via |-> records[id].method, gesture |-> records[id].gesture,
                               under |-> code[w]]
      BY <1>1, <2>6, <3>1, <3>2, RunShape DEF IInv
    <3>4. Carries(done'[n + 1]) = x /\ done'[n + 1].gesture # 0
      BY <2>6, <3>2, <3>3 DEF Carries, Matches
    <3>. HIDE DEF x
    <3>5. Single!Note(x)
      BY <3>3, <3>4, RunIsUse
    <3>6. Single!Use(x)
      BY <2>2, <3>5 DEF Single!Use
    <3>. QED
      BY <2>2, <3>6 DEF Single!Next
  <2>. QED
    BY <2>4, <2>5, <2>6
<1>. QED
  BY <1>4, <1>5

\* Every step is a step of SingleUse, or none.
LEMMA StepIsSingleStep ==
  ASSUME IInv, [Next]_vars
  PROVE  Single!Next \/ Quiet
<1>. USE DEF account, policies, history
<1>1. ASSUME NEW w \in Workers, PassConfirmation(w) PROVE Quiet
  <2>1. w \in Working /\ Claim(w) = req[w].rec
    BY <1>1 DEF PassConfirmation, Working, Claim
  <2>. QED
    BY <1>1, <2>1, GrantIsQuiet DEF PassConfirmation
<1>2. ASSUME NEW w \in Workers, RightPassword(w), req[w].action # None,
             Lenient(PolicyOf(w, req[w].action), req[w].action)
      PROVE  Quiet
  <2>1. w \in Working /\ Claim(w) = req[w]
    BY <1>2 DEF RightPassword, Working, Claim
  <2>. QED
    BY <1>2, <2>1, GrantIsQuiet DEF RightPassword
<1>3. ASSUME NEW w \in Workers, WrongPassword(w) \/ Abandon(w) \/ RightPassword(w)
      PROVE  Single!Next \/ Quiet
  BY <1>2, <1>3, EndIsLose DEF WrongPassword, Abandon, RightPassword
<1>4. ASSUME NEW id \in Ids, Expire(id) PROVE Single!Next
  <2>1. /\ id \in Stored /\ id \notin Stored'
        /\ \A i \in Stored' : i \in Stored /\ records'[i] = records[i]
        /\ \A i \in Stored \ {id} : i \in Stored'
        /\ req' = req /\ begun' = begun /\ done' = done
    BY <1>4 DEF Stored, Expire, IInv, TypeOK
  <2>2. Working' = Working /\ \A v \in Working : Claim(v)' = Claim(v)
    BY <2>1 DEF Working, Claim
  <2>3. /\ Pending' = Pending \ {Carries(records[id])}
        /\ Carries(records[id]) \in Pending
    BY <2>1, <2>2, RecordLost DEF IInv
  <2>4. Single!Lose(Carries(records[id]))
    BY <2>1, <2>3, UsedKept DEF Single!Lose
  <2>. QED
    BY <2>3, <2>4 DEF Single!Next
<1>5. CASE UNCHANGED <<req, begun, done, records>>
  <2>1. Stored' = Stored /\ Working' = Working /\ \A v \in Working : Claim(v)' = Claim(v)
    BY <1>5 DEF Stored, Working, Claim
  <2>2. Pending' = Pending
    BY <1>5, <2>1, PendingKept
  <2>. QED
    BY <1>5, <2>2, UsedKept DEF Quiet
<1>6. ASSUME NEW s \in Sids, SignOut(s) \/ ExpireWindow(s) \/ \E k \in Logins : SignIn(s, k)
      PROVE  UNCHANGED <<req, begun, done, records>>
  BY <1>6 DEF SignOut, ExpireWindow, SignIn
<1>7. ASSUME NEW w \in Workers, Deploy(w) PROVE UNCHANGED <<req, begun, done, records>>
  BY <1>7 DEF Deploy
<1>8. ASSUME NEW u \in Users, ExpireClaims(u) PROVE UNCHANGED <<req, begun, done, records>>
  BY <1>8 DEF ExpireClaims
<1>9. ASSUME NEW c \in Credentials, ToggleCredential(c)
      PROVE  UNCHANGED <<req, begun, done, records>>
  BY <1>9 DEF ToggleCredential
<1>10. TogglePasswords \/ ExpirePolicy \/ UNCHANGED vars => UNCHANGED <<req, begun, done, records>>
  BY DEF TogglePasswords, ExpirePolicy, vars
<1>. QED
  BY <1>1, <1>3, <1>4, <1>5, <1>6, <1>7, <1>8, <1>9, <1>10, BeginIsBegin, ConsumeIsLose,
     ClaimIsBegin, CallIsUse
  DEF Next, Serve

\* Ceremonies, requests and grants keep the promise of SingleUse: what a user
\* confirmed is authorized once, as it was confirmed (verify_confirmation,
\* mint_action_grant, consume_action_grant).
THEOREM GrantsAreSingleUse == Spec => ImplementsSingleUse
<1>1. Init => Single!Init
  <2>. SUFFICES ASSUME Init PROVE Single!Init
    OBVIOUS
  <2>1. begun = << >> /\ done = << >> /\ Stored = {} /\ Working = {}
    BY DEF Init, Stored, Working, Idle
  <2>2. Pending = {} /\ Authorised = {} /\ Len(begun) \in Nat
    BY <2>1 DEF Pending, Authorised
  <2>3. Used = << >>
    BY <2>2 DEF Used
  <2>. QED
    BY <2>2, <2>3 DEF Single!Init
<1>2. IInv /\ [Next]_vars => [Single!Next]_Single!vars
  BY StepIsSingleStep DEF Quiet, Single!vars
<1>. QED
  BY <1>1, <1>2, IInvHolds, PTL DEF Spec, ImplementsSingleUse, Single!Spec
=============================================================================
