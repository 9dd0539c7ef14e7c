------------------------ MODULE EnrollmentCadenceProofs ------------------------
(* Proofs about EnrollmentCadence, for any accounts, sessions, workers, grace *)
(* budget and bounds.                                                         *)
EXTENDS EnrollmentCadence, FiniteSetTheorems, TLAPS

\* The requests under way for an account, those of them that defer, and the
\* defers of a session that are past its claim.
Serving(u) == {w \in Workers : req[w] # Idle /\ userOf[req[w].sid] = u}
Deferring(u) == {w \in Serving(u) : req[w].event = "defer"}
Claimed(s) ==
    {w \in Workers : /\ req[w].op \in {"wait", "locked"}
                     /\ req[w].event = "defer" /\ req[w].sid = s}

\* Who has the lock has the row as it is; of a marker it may still see what has
\* lapsed since.
Held ==
    \A w \in Workers, u \in Users : lock[u] = w =>
        /\ req[w].op = "locked" /\ userOf[req[w].sid] = u
        /\ req[w].event \in NudgeEvents => req[w].row = nudge[u]
        /\ req[w].event = "defer" => req[w].row = grace[u]
        /\ req[w].event = "incapable" /\ u \in notified => req[w].row # {}

\* A defer that is or may still be spent has been claimed, under the live claim
\* or under one that lapsed.
DefersClaimed ==
    \A s \in Sids :
        spent[s] + Cardinality(Claimed(s)) <= lapses[s] + (IF s \in claims THEN 1 ELSE 0)

\* A defer begins below the budget; each rename may hand its row to an account
\* with defers of its own under way.
BudgetSlips ==
    \A u \in Users : grace[u] # 0 \/ Deferring(u) # {} =>
        /\ GRACE > 0
        /\ grace[u] + Cardinality(Deferring(u)) < GRACE + Cardinality(Workers) * (1 + passed)

\* Rows of a name without an account were left by requests that were under way
\* when it went.
LeftBehind ==
    \A u \in Users \ accounts :
        Left(u) + Cardinality(Serving(u)) <= Cardinality(Workers) /\ u \notin excused

IInv ==
    /\ TypeOK /\ Held /\ NothingLost
    /\ DefersClaimed /\ OneAdvisoryPerWindow /\ BudgetSlips /\ LeftBehind

-----------------------------------------------------------------------------
(* Shapes.                                                                 *)

\* What a request carries.
LEMMA RequestShape ==
  ASSUME NEW q \in Requests \cup {Idle}
  PROVE  /\ q # Idle <=> q.op # "idle"
         /\ q # Idle => /\ q \in Requests /\ q.sid \in Sids /\ q.event \in asked
                        /\ q.op \in {"claim", "wait", "locked"}
                        /\ q.event \in NudgeEvents => q.row \in NudgeRows /\ q.op # "claim"
                        /\ q.event = "defer" => q.row \in Nat
                        /\ q.event = "incapable" => q.row \in SUBSET Users
                        /\ q.op = "claim" => q.event = "defer"
                        /\ q.event \in NudgeEvents \cup {"defer", "incapable"}
BY DEF Requests, Idle, NudgeEvents

\* And that is all of it.
LEMMA RequestRecord ==
  ASSUME NEW q \in Requests
  PROVE  q = [op |-> q.op, event |-> q.event, sid |-> q.sid, row |-> q.row]
BY DEF Requests

LEMMA RequestType ==
  ASSUME TypeOK, NEW w \in Workers
  PROVE  req[w] \in Requests \cup {Idle}
BY DEF TypeOK

\* Histories and moves.
LEMMA CountShape ==
  ASSUME TypeOK
  PROVE  /\ shown \in [Users -> Nat] /\ deferred \in [Users -> Nat] /\ mailed \in [Users -> Nat]
         /\ spent \in [Sids -> Nat] /\ lapses \in [Sids -> Nat]
         /\ moves \in Nat /\ passed \in Nat
         /\ notified \subseteq Users /\ excused \subseteq Users /\ opted \subseteq Users
         /\ accounts \subseteq Users
BY DEF TypeOK

LEMMA CountType ==
  ASSUME shown \in [Users -> Nat], deferred \in [Users -> Nat], mailed \in [Users -> Nat],
         spent \in [Sids -> Nat], lapses \in [Sids -> Nat], moves \in Nat, passed \in Nat,
         notified \subseteq Users, excused \subseteq Users, opted \subseteq Users,
         accounts \subseteq Users
  PROVE  /\ {shown, deferred, mailed} \subseteq [Users -> Nat]
         /\ {spent, lapses} \subseteq [Sids -> Nat] /\ {moves, passed} \subseteq Nat
         /\ UNION {notified, excused, opted, accounts} \subseteq Users
OBVIOUS

\* The row an event is about.
LEMMA RowShape ==
  ASSUME TypeOK, NEW u \in Users, NEW event \in asked
  PROVE  /\ event \in NudgeEvents => RowOf(u, event) = nudge[u] /\ nudge[u] \in NudgeRows
         /\ event = "defer" => RowOf(u, event) = grace[u] /\ grace[u] \in Nat
         /\ event = "incapable" => RowOf(u, event) = {u} \cap notified
         /\ event \in NudgeEvents \cup {"defer", "incapable"}
         /\ "defer" \notin NudgeEvents /\ "incapable" \notin NudgeEvents
<1>1. "defer" \notin NudgeEvents /\ "incapable" \notin NudgeEvents
      /\ event \in NudgeEvents \cup {"defer", "incapable"}
  BY DEF NudgeEvents, TypeOK, Events
<1>2. nudge[u] \in NudgeRows /\ grace[u] \in Nat
  BY DEF TypeOK
<1>. QED
  BY <1>1, <1>2 DEF RowOf

\* A request that has read its account's row.
LEMMA RequestOf ==
  ASSUME TypeOK, NEW s \in Sids, NEW event \in asked, NEW op \in {"claim", "wait", "locked"},
         op = "claim" => event = "defer"
  PROVE  [op |-> op, event |-> event, sid |-> s, row |-> RowOf(userOf[s], event)] \in Requests
<1>1. userOf[s] \in Users
  BY DEF TypeOK
<1>2. CASE event \in NudgeEvents
  <2>1. RowOf(userOf[s], event) \in NudgeRows /\ op \in {"wait", "locked"}
    BY <1>1, <1>2, RowShape
  <2>. QED
    BY <1>2, <2>1 DEF Requests
<1>3. CASE event = "defer"
  <2>1. RowOf(userOf[s], event) \in Nat
    BY <1>1, <1>3, RowShape
  <2>. QED
    BY <1>3, <2>1 DEF Requests
<1>4. CASE event = "incapable"
  <2>1. RowOf(userOf[s], event) \in SUBSET Users /\ op \in {"wait", "locked"}
    BY <1>1, <1>4, RowShape
  <2>. QED
    BY <1>4, <2>1 DEF Requests
<1>. QED
  BY <1>1, <1>2, <1>3, <1>4, RowShape

\* Of the locks, types aside: one per request that has read its row.
LockOK ==
    /\ lock \in [Users -> Workers \cup {Free}]
    /\ \A w \in Workers : req[w].op = "locked" <=> \E u \in Users : lock[u] = w

\* A request that ends lets go of its lock.
LEMMA ReleaseShape ==
  ASSUME TypeOK, NEW w \in Workers, Release(w)
  PROVE  /\ req' \in [Workers -> Requests \cup {Idle}] /\ req'[w] = Idle
         /\ \A v \in Workers \ {w} : req'[v] = req[v]
         /\ \A u \in Users : lock'[u] = IF lock[u] = w THEN Free ELSE lock[u]
         /\ LockOK'
<1>1. req' \in [Workers -> Requests \cup {Idle}] /\ req'[w] = Idle
      /\ \A v \in Workers \ {w} : req'[v] = req[v]
  BY DEF TypeOK, Release
<1>2. \A u \in Users : lock'[u] = IF lock[u] = w THEN Free ELSE lock[u]
  BY DEF Release
<1>3. lock' \in [Users -> Workers \cup {Free}]
  BY DEF Release, TypeOK
<1>4. ASSUME NEW v \in Workers
      PROVE  req'[v].op = "locked" <=> \E u \in Users : lock'[u] = v
  <2>1. CASE v = w
    BY <1>1, <1>2, <2>1, CadenceAssumption DEF Idle
  <2>2. CASE v # w
    BY <1>1, <1>2, <2>2, CadenceAssumption DEF TypeOK
  <2>. QED
    BY <2>1, <2>2
<1>. QED
  BY <1>1, <1>2, <1>3, <1>4 DEF LockOK

LEMMA MovedNameType ==
  ASSUME NEW S, NEW old, NEW new, old # new
  PROVE  \A u : u \in MovedName(S, old, new) <=>
                  \/ u \in S /\ u # old
                  \/ u = new /\ old \in S
BY DEF MovedName

\* Endpoints keep the shapes.
LEMMA EndpointType ==
  ASSUME TypeOK, NEW w \in Workers, Endpoint(w)
  PROVE  TypeOK'
<1>. USE DEF rows, inputs, names, history
<1>1. ASSUME NEW s \in Sids, NEW event \in asked, NEW op \in {"claim", "wait"},
             op = "claim" => event = "defer", Serve(w, s, event, op),
             UNCHANGED <<rows, inputs, names, lock, claims, history, lapses>>
      PROVE  TypeOK'
  <2>. DEFINE q == [op |-> op, event |-> event, sid |-> s, row |-> RowOf(userOf[s], event)]
  <2>2. q \in Requests
    BY <1>1, RequestOf
  <2>3. req[w] = Idle /\ req' = [req EXCEPT ![w] = q]
    BY <1>1 DEF Serve
  <2>4. q.op # "locked"
    OBVIOUS
  <2>. HIDE DEF q
  <2>5. req' \in [Workers -> Requests \cup {Idle}] /\ req'[w] = q
        /\ \A v \in Workers \ {w} : req'[v] = req[v]
    BY <2>2, <2>3 DEF TypeOK
  <2>6. \A v \in Workers : req'[v].op = "locked" <=> \E u \in Users : lock[u] = v
    BY <2>3, <2>4, <2>5 DEF TypeOK, Idle
  <2>7. Requests' = Requests
    BY <1>1 DEF Requests, NudgeEvents
  <2>. QED
    BY <1>1, <2>5, <2>6, <2>7 DEF TypeOK
<1>2. ASSUME RecordNudge(w) PROVE TypeOK'
  <2>. PICK s \in Sids, event \in NudgeEvents :
         /\ Serve(w, s, event, "wait")
         /\ UNCHANGED <<rows, inputs, names, lock, claims, history, lapses>>
    BY <1>2 DEF RecordNudge
  <2>. event \in asked
    BY DEF NudgeEvents
  <2>. QED
    BY <1>1
<1>3. ASSUME RecordEnforcement(w) PROVE TypeOK'
  BY <1>1, <1>3 DEF RecordEnforcement
<1>4. ASSUME Claim(w) PROVE TypeOK'
  <2>1. req[w] \in [op : {"claim", "wait", "locked"}, event : asked \cap {"defer"}, sid : Sids,
                    row : Nat]
    BY <1>4, RequestType DEF Claim, Requests, Idle
  <2>2. PICK q \in Requests : q = [req[w] EXCEPT !.op = "wait"] /\ q.op = "wait"
    <3>1. [req[w] EXCEPT !.op = "wait"] \in
            [op : {"claim", "wait", "locked"}, event : asked \cap {"defer"}, sid : Sids, row : Nat]
      BY <2>1
    <3>2. [req[w] EXCEPT !.op = "wait"].op = "wait"
      BY <2>1
    <3>. QED
      BY <3>1, <3>2 DEF Requests
  <2>3. /\ req' = [req EXCEPT ![w] = Idle] \/ req' = [req EXCEPT ![w] = q]
        /\ claims' = claims \cup {req[w].sid}
        /\ req[w].op = "claim"
    BY <1>4, <2>2 DEF Claim
  <2>4. /\ req' \in [Workers -> Requests \cup {Idle}] /\ req'[w].op # "locked"
        /\ \A v \in Workers \ {w} : req'[v] = req[v]
    <3>1. PICK x \in Requests \cup {Idle} : x.op # "locked" /\ req' = [req EXCEPT ![w] = x]
      BY <2>2, <2>3 DEF Idle
    <3>. QED
      BY <3>1 DEF TypeOK
  <2>5. \A v \in Workers : req'[v].op = "locked" <=> \E u \in Users : lock[u] = v
    BY <2>3, <2>4 DEF TypeOK
  <2>6. Requests' = Requests /\ claims' \subseteq Sids
    BY <1>4, <2>1, <2>3 DEF Claim, Requests, NudgeEvents, TypeOK
  <2>. QED
    BY <1>4, <2>4, <2>5, <2>6 DEF Claim, TypeOK
<1>5. ASSUME Lock(w) PROVE TypeOK'
  <2>. DEFINE u == userOf[req[w].sid]
  <2>1. /\ req[w].op = "wait" /\ lock[u] = Free /\ lock' = [lock EXCEPT ![u] = w]
        /\ req' = [req EXCEPT ![w].op = "locked", ![w].row = RowOf(u, req[w].event)]
        /\ UNCHANGED <<rows, inputs, names, claims, history, lapses>>
    BY <1>5 DEF Lock, Load
  <2>2. req[w] \in Requests /\ req[w].sid \in Sids /\ req[w].event \in asked
    BY <2>1, RequestType, RequestShape
  <2>3. u \in Users
    BY <2>2 DEF TypeOK
  <2>4. PICK q \in Requests : /\ q.op = "locked"
                              /\ q = [op |-> "locked", event |-> req[w].event, sid |-> req[w].sid,
                                      row |-> RowOf(u, req[w].event)]
    BY <2>2, RequestOf
  <2>. HIDE DEF u
  <2>5. req' = [req EXCEPT ![w] = q]
    <3>. DEFINE r == RowOf(u, req[w].event)
                a == [req[w] EXCEPT !.op = "locked"]
    <3>1. a = [op |-> "locked", event |-> req[w].event, sid |-> req[w].sid, row |-> req[w].row]
      BY <2>2, RequestRecord
    <3>2. [a EXCEPT !.row = r] =
            [op |-> "locked", event |-> req[w].event, sid |-> req[w].sid, row |-> r]
      <4>. HIDE DEF a, r
      <4>. QED
        BY <3>1
    <3>3. req' = [req EXCEPT ![w] = [a EXCEPT !.row = r]]
      BY <2>1, <2>2 DEF TypeOK
    <3>. QED
      BY <2>4, <3>2, <3>3
  <2>6. /\ req' \in [Workers -> Requests \cup {Idle}] /\ req'[w].op = "locked"
        /\ \A v \in Workers \ {w} : req'[v] = req[v]
    BY <2>4, <2>5 DEF TypeOK
  <2>7. /\ lock' \in [Users -> Workers \cup {Free}] /\ lock'[u] = w
        /\ \A t \in Users \ {u} : lock'[t] = lock[t]
    BY <2>1, <2>3 DEF TypeOK
  <2>8. ASSUME NEW v \in Workers PROVE req'[v].op = "locked" <=> \E t \in Users : lock'[t] = v
    BY <2>1, <2>3, <2>6, <2>7, CadenceAssumption DEF TypeOK
  <2>9. Requests' = Requests
    BY <2>1 DEF Requests, NudgeEvents
  <2>. QED
    BY <2>1, <2>6, <2>7, <2>8, <2>9 DEF TypeOK
\* The commits and the rollback let go of the lock.
<1>6. ASSUME Release(w), nudge' \in [Users -> NudgeRows], grace' \in [Users -> Nat],
             notified' \subseteq Users, opted' \subseteq Users,
             shown' \in [Users -> Nat], deferred' \in [Users -> Nat], mailed' \in [Users -> Nat],
             spent' \in [Sids -> Nat], UNCHANGED <<inputs, names, claims, lapses>>
      PROVE  TypeOK'
  <2>1. LockOK' /\ req' \in [Workers -> Requests \cup {Idle}]
    BY <1>6, ReleaseShape
  <2>2. Requests' = Requests
    BY <1>6 DEF Requests, NudgeEvents
  <2>. QED
    BY <1>6, <2>1, <2>2 DEF TypeOK, LockOK
<1>7. ASSUME RecordNudgeEvent(w) PROVE TypeOK'
  <2>1. /\ req[w].event \in NudgeEvents /\ Release(w)
        /\ nudge' = [nudge EXCEPT ![userOf[req[w].sid]] = Fold(req[w].row, req[w].event)]
        /\ shown' = [shown EXCEPT ![userOf[req[w].sid]] = IF req[w].event = "shown" THEN @ + 1 ELSE @]
        /\ opted' = IF req[w].event = "opt_out" THEN opted \cup {userOf[req[w].sid]} ELSE opted
        /\ req[w].op = "locked"
        /\ UNCHANGED <<grace, notified, inputs, names, claims, deferred, spent, mailed, lapses>>
    BY <1>7 DEF RecordNudgeEvent, Holds
  <2>2. req[w].sid \in Sids /\ req[w].row \in NudgeRows
    BY <2>1, RequestType, RequestShape
  <2>3. userOf[req[w].sid] \in Users
    BY <2>2 DEF TypeOK
  <2>4. Fold(req[w].row, req[w].event) \in NudgeRows
    BY <2>2 DEF Fold, NudgeRows
  <2>5. nudge' \in [Users -> NudgeRows] /\ shown' \in [Users -> Nat] /\ opted' \subseteq Users
    BY <2>1, <2>3, <2>4 DEF TypeOK
  <2>. QED
    BY <1>6, <2>1, <2>5 DEF TypeOK
<1>8. ASSUME RecordEnforcementDefer(w) PROVE TypeOK'
  <2>1. /\ req[w].event = "defer" /\ Release(w) /\ req[w].op = "locked"
        /\ grace' = [grace EXCEPT ![userOf[req[w].sid]] = req[w].row + 1]
        /\ deferred' = [deferred EXCEPT ![userOf[req[w].sid]] = @ + 1]
        /\ spent' = [spent EXCEPT ![req[w].sid] = @ + 1]
        /\ UNCHANGED <<nudge, notified, inputs, names, claims, shown, opted, mailed, lapses>>
    BY <1>8 DEF RecordEnforcementDefer, Holds
  <2>2. req[w].sid \in Sids /\ req[w].row \in Nat
    BY <2>1, RequestType, RequestShape
  <2>3. grace' \in [Users -> Nat] /\ deferred' \in [Users -> Nat] /\ spent' \in [Sids -> Nat]
    BY <2>1, <2>2 DEF TypeOK
  <2>. QED
    BY <1>6, <2>1, <2>3 DEF TypeOK
<1>9. ASSUME RecordEnforcementIncapable(w) PROVE TypeOK'
  <2>1. /\ Release(w) /\ req[w].op = "locked"
        /\ \/ UNCHANGED <<notified, mailed>>
           \/ /\ notified' = notified \cup {userOf[req[w].sid]}
              /\ mailed' = [mailed EXCEPT ![userOf[req[w].sid]] = @ + 1]
        /\ UNCHANGED <<nudge, grace, inputs, names, claims, shown, opted, deferred, spent, lapses>>
    BY <1>9 DEF RecordEnforcementIncapable, Holds
  <2>2. req[w].sid \in Sids
    BY <2>1, RequestType, RequestShape
  <2>3. notified' \subseteq Users /\ mailed' \in [Users -> Nat]
    BY <2>1, <2>2 DEF TypeOK
  <2>. QED
    BY <1>6, <2>1, <2>3 DEF TypeOK
<1>10. ASSUME Rollback(w) PROVE TypeOK'
  BY <1>6, <1>10 DEF Rollback, TypeOK
<1>. QED
  BY <1>2, <1>3, <1>4, <1>5, <1>7, <1>8, <1>9, <1>10 DEF Endpoint

\* A rename or merge keeps the shapes.
LEMMA RenameType ==
  ASSUME TypeOK, NEW old \in Users, NEW new \in Users, RenameUser(old, new)
  PROVE  TypeOK'
<1>1. /\ old # new /\ moves' = moves - 1 /\ moves > 0 /\ passed' = passed + 1
      /\ accounts' = MovedName(accounts, old, new) /\ excused' = MovedName(excused, old, new)
      /\ nudge' = MovedRow(nudge, NoNudge, old, new) /\ grace' = MovedRow(grace, 0, old, new)
      /\ UNCHANGED <<userOf, asked, policy, lock, claims, req, spent, lapses>>
  BY DEF RenameUser
<1>2. PICK m \in [Users -> Nat] : mailed' = [m EXCEPT ![old] = 0]
  <2>1. PICK moved : mailed' = [mailed EXCEPT
          ![new] = IF new \in moved \ notified THEN mailed[old] ELSE @, ![old] = 0]
    BY DEF RenameUser
  <2>. DEFINE m == [mailed EXCEPT ![new] = IF new \in moved \ notified THEN mailed[old] ELSE @]
  <2>2. m \in [Users -> Nat]
    BY DEF TypeOK
  <2>. QED
    BY <2>1, <2>2
<1>3. shown' \in [Users -> Nat] /\ deferred' \in [Users -> Nat] /\ mailed' \in [Users -> Nat]
  <2>1. PICK n \in [Users -> Nat] : shown' = [n EXCEPT ![old] = 0]
    <3>. DEFINE n == [shown EXCEPT ![new] = IF nudge[new] = NoNudge THEN shown[old] ELSE @]
    <3>1. n \in [Users -> Nat]
      BY DEF TypeOK
    <3>. QED
      BY <3>1 DEF RenameUser
  <2>2. PICK d \in [Users -> Nat] : deferred' = [d EXCEPT ![old] = 0]
    <3>. DEFINE d == [deferred EXCEPT ![new] = IF grace[new] = 0 THEN deferred[old] ELSE @]
    <3>1. d \in [Users -> Nat]
      BY DEF TypeOK
    <3>. QED
      BY <3>1 DEF RenameUser
  <2>. QED
    BY <1>2, <2>1, <2>2
<1>4. /\ accounts' \subseteq Users /\ excused' \subseteq Users /\ opted' \subseteq Users
      /\ notified' \subseteq Users
  <2>1. /\ opted' \subseteq MovedName(opted, old, new) \cup opted
        /\ notified' \subseteq MovedName(notified, old, new) \cup notified
    BY DEF RenameUser
  <2>. QED
    BY <1>1, <2>1, MovedNameType, CountShape
<1>5. nudge' \in [Users -> NudgeRows] /\ grace' \in [Users -> Nat]
  BY <1>1 DEF TypeOK, NudgeRows, NoNudge, MovedRow
<1>6. passed' \in Nat /\ moves' \in Nat
  BY <1>1, CountShape
<1>7. Requests' = Requests
  BY <1>1 DEF Requests, NudgeEvents
<1>. QED
  BY <1>1, <1>3, <1>4, <1>5, <1>6, <1>7 DEF TypeOK

\* Every step keeps the shapes.
LEMMA TypeStep ==
  ASSUME TypeOK, [Next]_vars
  PROVE  TypeOK'
<1>. USE DEF rows, inputs, names, history
<1>1. ASSUME NEW u \in Users, ResetEnforcementGrace(u) PROVE TypeOK'
  BY <1>1 DEF ResetEnforcementGrace, TypeOK, Requests, NudgeEvents
<1>2. ASSUME NEW u \in Users, Excuse(u) PROVE TypeOK'
  BY <1>2 DEF Excuse, TypeOK, Requests, NudgeEvents
<1>3. ASSUME NEW u \in Users, LapseNotice(u) PROVE TypeOK'
  <2>1. mailed' \in [Users -> Nat] /\ notified' \subseteq Users
    BY <1>3 DEF LapseNotice, TypeOK
  <2>. QED
    BY <1>3, <2>1 DEF LapseNotice, TypeOK, Requests, NudgeEvents
<1>4. ASSUME NEW u \in Users, DeleteUser(u) PROVE TypeOK'
  <2>1. /\ shown' \in [Users -> Nat] /\ deferred' \in [Users -> Nat] /\ mailed' \in [Users -> Nat]
        /\ nudge' \in [Users -> NudgeRows] /\ grace' \in [Users -> Nat]
    BY <1>4 DEF DeleteUser, ClearUserState, TypeOK, NoNudge, NudgeRows
  <2>2. /\ notified' \subseteq Users /\ excused' \subseteq Users /\ opted' \subseteq Users
        /\ accounts' \subseteq Users /\ moves' \in Nat
    BY <1>4 DEF DeleteUser, ClearUserState, TypeOK
  <2>. QED
    BY <1>4, <2>1, <2>2 DEF DeleteUser, TypeOK, Requests, NudgeEvents
<1>5. ASSUME NEW u \in Users, CreateUser(u) PROVE TypeOK'
  BY <1>5 DEF CreateUser, TypeOK, Requests, NudgeEvents
<1>6. ASSUME NEW s \in Sids, LapseClaim(s) PROVE TypeOK'
  <2>1. lapses' \in [Sids -> Nat] /\ claims' \subseteq Sids
    BY <1>6 DEF LapseClaim, TypeOK
  <2>. QED
    BY <1>6, <2>1 DEF LapseClaim, TypeOK, Requests, NudgeEvents
<1>7. ASSUME SetPolicy PROVE TypeOK'
  BY <1>7 DEF SetPolicy, TypeOK, Requests, NudgeEvents
<1>8. CASE UNCHANGED vars
  BY <1>8 DEF vars, TypeOK, Requests, NudgeEvents
<1>. QED
  BY <1>1, <1>2, <1>3, <1>4, <1>5, <1>6, <1>7, <1>8, EndpointType, RenameType DEF Next

-----------------------------------------------------------------------------
(* No event is lost.                                                       *)

Exact == Held /\ NothingLost

\* Only the lock's holder writes its account's rows, so that the others hold
\* what they read.
LEMMA WriteExact ==
  ASSUME TypeOK, Exact, NEW w \in Workers, NEW u \in Users, lock[u] = w, Release(w),
         UNCHANGED userOf, NudgeEvents' = NudgeEvents,
         \A t \in Users \ {u} : /\ nudge'[t] = nudge[t] /\ grace'[t] = grace[t]
                                /\ shown'[t] = shown[t] /\ deferred'[t] = deferred[t]
                                /\ t \in notified' <=> t \in notified
                                /\ t \in opted' <=> t \in opted,
         nudge'[u].declines = shown'[u], grace'[u] = deferred'[u],
         u \in opted' => nudge'[u].optOut
  PROVE  Exact'
<1>1. Held'
  <2>. SUFFICES ASSUME NEW v \in Workers, NEW t \in Users, lock'[t] = v
       PROVE  /\ req'[v].op = "locked" /\ userOf[req'[v].sid] = t
              /\ req'[v].event \in NudgeEvents => req'[v].row = nudge'[t]
              /\ req'[v].event = "defer" => req'[v].row = grace'[t]
              /\ req'[v].event = "incapable" /\ t \in notified' => req'[v].row # {}
    BY DEF Held
  <2>1. v # w /\ t # u /\ lock[t] = v /\ req'[v] = req[v]
    BY ReleaseShape, CadenceAssumption
  <2>. QED
    BY <2>1 DEF Exact, Held
<1>2. NothingLost'
  BY DEF Exact, NothingLost
<1>. QED
  BY <1>1, <1>2 DEF Exact

\* Who has the lock on its account's row, and what it knows of it.
LEMMA Holding ==
  ASSUME TypeOK, Held, NEW w \in Workers, req[w].op = "locked"
  PROVE  \E u \in Users :
           /\ u = userOf[req[w].sid] /\ lock[u] = w
           /\ req[w].event \in NudgeEvents => req[w].row = nudge[u]
           /\ req[w].event = "defer" => req[w].row = grace[u]
           /\ req[w].event = "incapable" /\ u \in notified => req[w].row # {}
BY DEF TypeOK, Held

\* Rows nobody has locked may change.
LEMMA FreeExact ==
  ASSUME TypeOK, Exact, UNCHANGED <<lock, req, userOf>>, NudgeEvents' = NudgeEvents,
         \A t \in Users : \/ lock[t] = Free
                          \/ /\ nudge'[t] = nudge[t] /\ grace'[t] = grace[t]
                             /\ t \in notified' => t \in notified,
         NothingLost'
  PROVE  Exact'
<1>1. Held'
  BY CadenceAssumption DEF Exact, Held
<1>. QED
  BY <1>1 DEF Exact

\* Rows and locks as they are; requests as they are or not holding a lock.
LEMMA SameExact ==
  ASSUME TypeOK, Exact, UNCHANGED <<nudge, grace, notified, shown, deferred, opted, userOf>>,
         NudgeEvents' = NudgeEvents,
         \A t \in Users, v \in Workers :
           lock'[t] = v => lock[t] = v /\ req'[v] = req[v]
  PROVE  Exact'
<1>1. Held'
  BY DEF Exact, Held
<1>2. NothingLost'
  BY DEF Exact, NothingLost
<1>. QED
  BY <1>1, <1>2 DEF Exact

LEMMA EndpointExact ==
  ASSUME TypeOK, Exact, NEW w \in Workers, Endpoint(w)
  PROVE  Exact'
<1>. USE DEF rows, inputs, names, history
<1>1. ASSUME RecordNudge(w) \/ RecordEnforcement(w) PROVE Exact'
  <2>1. PICK q : req[w] = Idle /\ req' = [req EXCEPT ![w] = q]
    BY <1>1 DEF RecordNudge, RecordEnforcement, Serve
  <2>2. UNCHANGED <<rows, inputs, names, lock, history>>
    BY <1>1 DEF RecordNudge, RecordEnforcement
  <2>3. \A t \in Users, v \in Workers : lock[t] = v => v # w
    BY <2>1 DEF TypeOK, Idle
  <2>4. \A v \in Workers \ {w} : req'[v] = req[v]
    BY <2>1 DEF TypeOK
  <2>. QED
    BY <2>2, <2>3, <2>4, SameExact DEF NudgeEvents
<1>2. ASSUME Claim(w) PROVE Exact'
  <2>1. \A t \in Users, v \in Workers : lock[t] = v => v # w
    BY <1>2 DEF Claim, TypeOK
  <2>2. \A v \in Workers \ {w} : req'[v] = req[v]
    BY <1>2 DEF Claim, TypeOK
  <2>3. UNCHANGED <<rows, inputs, names, lock, history>>
    BY <1>2 DEF Claim
  <2>. QED
    BY <2>1, <2>2, <2>3, SameExact DEF NudgeEvents
<1>3. ASSUME Rollback(w) PROVE Exact'
  <2>1. UNCHANGED <<rows, inputs, names, history>> /\ Release(w)
    BY <1>3 DEF Rollback
  <2>2. \A t \in Users, v \in Workers : lock'[t] = v => lock[t] = v /\ v # w /\ req'[v] = req[v]
    BY <2>1, ReleaseShape, CadenceAssumption
  <2>. QED
    BY <2>1, <2>2, SameExact DEF NudgeEvents
<1>4. ASSUME Lock(w) PROVE Exact'
  <2>1. PICK u \in Users : /\ u = userOf[req[w].sid]
                           /\ lock[u] = Free /\ lock' = [lock EXCEPT ![u] = w]
                           /\ req' = [req EXCEPT ![w].op = "locked", ![w].row = RowOf(u, req[w].event)]
    <3>1. req[w].sid \in Sids
      BY <1>4, RequestType, RequestShape DEF Lock
    <3>2. userOf[req[w].sid] \in Users
      BY <3>1 DEF TypeOK
    <3>. QED
      BY <1>4, <3>2 DEF Lock, Load
  <2>2. UNCHANGED <<rows, inputs, names, history>> /\ req[w].op = "wait"
    BY <1>4 DEF Lock
  <2>3. req[w] \in Requests /\ req[w].event \in asked
    BY <2>2, RequestType, RequestShape
  <2>. DEFINE r == RowOf(u, req[w].event)
              a == [req[w] EXCEPT !.op = "locked"]
  <2>4. a = [op |-> "locked", event |-> req[w].event, sid |-> req[w].sid, row |-> req[w].row]
    BY <2>3, RequestRecord
  <2>5. req' = [req EXCEPT ![w] = [a EXCEPT !.row = r]]
    BY <2>1, <2>3 DEF TypeOK
  <2>6. /\ req'[w].op = "locked" /\ req'[w].event = req[w].event /\ req'[w].sid = req[w].sid
        /\ req'[w].row = r /\ \A v \in Workers \ {w} : req'[v] = req[v]
    <3>. HIDE DEF a, r
    <3>. QED
      BY <2>4, <2>5 DEF TypeOK
  <2>7. \A t \in Users : lock[t] # w
    BY <2>2 DEF TypeOK
  <2>8. /\ req[w].event \in NudgeEvents => r = nudge[u]
        /\ req[w].event = "defer" => r = grace[u]
        /\ req[w].event = "incapable" => r = {u} \cap notified
    BY <2>3, RowShape
  <2>. HIDE DEF r, a
  <2>9. Held'
    <3>. SUFFICES ASSUME NEW v \in Workers, NEW t \in Users, lock'[t] = v
         PROVE  /\ req'[v].op = "locked" /\ userOf[req'[v].sid] = t
                /\ req'[v].event \in NudgeEvents => req'[v].row = nudge[t]
                /\ req'[v].event = "defer" => req'[v].row = grace[t]
                /\ req'[v].event = "incapable" /\ t \in notified => req'[v].row # {}
      BY <2>2 DEF Held, NudgeEvents
    <3>1. CASE t = u
      <4>1. v = w
        BY <2>1, <3>1 DEF TypeOK
      <4>. QED
        BY <2>1, <2>6, <2>8, <3>1, <4>1
    <3>2. CASE t # u
      <4>1. lock[t] = v
        BY <2>1, <3>2 DEF TypeOK
      <4>2. v # w
        BY <2>7, <4>1
      <4>. QED
        BY <2>6, <4>1, <4>2 DEF Exact, Held
    <3>. QED
      BY <3>1, <3>2
  <2>10. NothingLost'
    BY <2>2 DEF Exact, NothingLost
  <2>. QED
    BY <2>9, <2>10 DEF Exact
<1>5. ASSUME RecordNudgeEvent(w) PROVE Exact'
  <2>1. req[w].op = "locked" /\ req[w].event \in NudgeEvents /\ Release(w)
        /\ UNCHANGED <<grace, notified, inputs, names, deferred>>
    BY <1>5 DEF RecordNudgeEvent, Holds
  <2>2. PICK u \in Users : u = userOf[req[w].sid] /\ lock[u] = w /\ req[w].row = nudge[u]
    BY <2>1, Holding DEF Exact
  <2>3. /\ nudge' = [nudge EXCEPT ![u] = Fold(nudge[u], req[w].event)]
        /\ shown' = [shown EXCEPT ![u] = IF req[w].event = "shown" THEN @ + 1 ELSE @]
        /\ opted' = IF req[w].event = "opt_out" THEN opted \cup {u} ELSE opted
    BY <1>5, <2>2 DEF RecordNudgeEvent
  <2>4. nudge[u].declines = shown[u] /\ (u \in opted => nudge[u].optOut)
    BY DEF Exact, NothingLost
  <2>5. nudge'[u].declines = shown'[u] /\ (u \in opted' => nudge'[u].optOut)
    BY <2>3, <2>4 DEF Fold, TypeOK
  <2>6. grace[u] = deferred[u]
    BY DEF Exact, NothingLost
  <2>7. \A t \in Users \ {u} : /\ nudge'[t] = nudge[t] /\ shown'[t] = shown[t]
                               /\ t \in opted' <=> t \in opted
    BY <2>3 DEF TypeOK
  <2>. QED
    BY <2>1, <2>2, <2>5, <2>6, <2>7, WriteExact DEF NudgeEvents
<1>6. ASSUME RecordEnforcementDefer(w) PROVE Exact'
  <2>1. req[w].op = "locked" /\ req[w].event = "defer" /\ Release(w)
        /\ UNCHANGED <<nudge, notified, inputs, names, shown, opted>>
    BY <1>6 DEF RecordEnforcementDefer, Holds
  <2>2. PICK u \in Users : u = userOf[req[w].sid] /\ lock[u] = w /\ req[w].row = grace[u]
    BY <2>1, Holding DEF Exact
  <2>3. /\ grace' = [grace EXCEPT ![u] = grace[u] + 1]
        /\ deferred' = [deferred EXCEPT ![u] = @ + 1]
    BY <1>6, <2>2 DEF RecordEnforcementDefer
  <2>4. /\ grace[u] = deferred[u] /\ nudge[u].declines = shown[u]
        /\ u \in opted => nudge[u].optOut
    BY DEF Exact, NothingLost
  <2>5. grace'[u] = deferred'[u]
        /\ \A t \in Users \ {u} : grace'[t] = grace[t] /\ deferred'[t] = deferred[t]
    BY <2>3, <2>4 DEF TypeOK
  <2>. QED
    BY <2>1, <2>2, <2>4, <2>5, WriteExact DEF NudgeEvents
<1>7. ASSUME RecordEnforcementIncapable(w) PROVE Exact'
  <2>1. req[w].op = "locked" /\ req[w].event = "incapable" /\ Release(w)
        /\ UNCHANGED <<nudge, grace, inputs, names, shown, opted, deferred>>
    BY <1>7 DEF RecordEnforcementIncapable, Holds
  <2>2. PICK u \in Users : u = userOf[req[w].sid] /\ lock[u] = w
    BY <2>1, Holding DEF Exact
  <2>3. notified' = notified \/ notified' = notified \cup {u}
    BY <1>7, <2>2 DEF RecordEnforcementIncapable
  <2>4. /\ grace[u] = deferred[u] /\ nudge[u].declines = shown[u]
        /\ u \in opted => nudge[u].optOut
    BY DEF Exact, NothingLost
  <2>. QED
    BY <2>1, <2>2, <2>3, <2>4, WriteExact DEF NudgeEvents
<1>. QED
  BY <1>1, <1>2, <1>3, <1>4, <1>5, <1>6, <1>7 DEF Endpoint

\* What a rename or merge does to the numbers of the rows that move.
LEMMA RenameFacts ==
  ASSUME TypeOK, NEW old \in Users, NEW new \in Users, RenameUser(old, new)
  PROVE  /\ old # new /\ lock[old] = Free /\ lock[new] = Free /\ old \in accounts
         /\ new \in accounts \/ NothingLeft(new)
         /\ nudge'[old] = NoNudge /\ nudge'[new] = IF nudge[new] = NoNudge THEN nudge[old] ELSE nudge[new]
         /\ grace'[old] = 0 /\ grace'[new] = IF grace[new] = 0 THEN grace[old] ELSE grace[new]
         /\ shown'[old] = 0 /\ shown'[new] = IF nudge[new] = NoNudge THEN shown[old] ELSE shown[new]
         /\ deferred'[old] = 0
         /\ deferred'[new] = IF grace[new] = 0 THEN deferred[old] ELSE deferred[new]
         /\ old \notin opted'
         /\ new \in opted' => IF nudge[new] = NoNudge THEN new \in opted \/ old \in opted
                                                     ELSE new \in opted
         /\ \A u \in Users \ {old, new} :
              /\ nudge'[u] = nudge[u] /\ grace'[u] = grace[u] /\ shown'[u] = shown[u]
              /\ deferred'[u] = deferred[u] /\ (u \in opted' => u \in opted)
         /\ UNCHANGED <<userOf, asked, policy, lock, claims, req, spent, lapses>>
<1>1. /\ old # new /\ lock[old] = Free /\ lock[new] = Free /\ old \in accounts
      /\ new \in accounts \/ NothingLeft(new)
      /\ nudge' = MovedRow(nudge, NoNudge, old, new) /\ grace' = MovedRow(grace, 0, old, new)
      /\ shown' = [shown EXCEPT ![new] = IF nudge[new] = NoNudge THEN shown[old] ELSE @, ![old] = 0]
      /\ opted' = IF nudge[new] = NoNudge THEN MovedName(opted, old, new) ELSE opted \ {old}
      /\ deferred' = [deferred EXCEPT ![new] = IF grace[new] = 0 THEN deferred[old] ELSE @, ![old] = 0]
      /\ UNCHANGED <<userOf, asked, policy, lock, claims, req, spent, lapses>>
  BY DEF RenameUser
<1>2. nudge \in [Users -> NudgeRows] /\ NoNudge \in NudgeRows /\ grace \in [Users -> Nat]
  BY DEF TypeOK, NoNudge, NudgeRows
<1>3. /\ nudge'[old] = NoNudge
      /\ nudge'[new] = IF nudge[new] = NoNudge THEN nudge[old] ELSE nudge[new]
      /\ \A u \in Users \ {old, new} : nudge'[u] = nudge[u]
  <2>1. nudge' = MovedRow(nudge, NoNudge, old, new) /\ old # new
    BY <1>1
  <2>. QED
    BY <1>2, <2>1 DEF MovedRow
<1>4. /\ grace'[old] = 0 /\ grace'[new] = IF grace[new] = 0 THEN grace[old] ELSE grace[new]
      /\ \A u \in Users \ {old, new} : grace'[u] = grace[u]
  BY <1>1, <1>2 DEF MovedRow
<1>5. /\ shown'[old] = 0 /\ shown'[new] = IF nudge[new] = NoNudge THEN shown[old] ELSE shown[new]
      /\ \A u \in Users \ {old, new} : shown'[u] = shown[u]
  <2>. DEFINE x == IF nudge[new] = NoNudge THEN shown[old] ELSE shown[new]
  <2>1. shown' = [[shown EXCEPT ![new] = x] EXCEPT ![old] = 0] /\ shown \in [Users -> Nat]
    BY <1>1, CountShape
  <2>. QED
    BY <1>1, <2>1
<1>6. /\ deferred'[old] = 0
      /\ deferred'[new] = IF grace[new] = 0 THEN deferred[old] ELSE deferred[new]
      /\ \A u \in Users \ {old, new} : deferred'[u] = deferred[u]
  <2>. DEFINE x == IF grace[new] = 0 THEN deferred[old] ELSE deferred[new]
  <2>1. deferred' = [[deferred EXCEPT ![new] = x] EXCEPT ![old] = 0] /\ deferred \in [Users -> Nat]
    BY <1>1, CountShape
  <2>. QED
    BY <1>1, <2>1
<1>7. /\ old \notin opted'
      /\ new \in opted' => IF nudge[new] = NoNudge THEN new \in opted \/ old \in opted
                                                  ELSE new \in opted
      /\ \A u \in Users \ {old, new} : u \in opted' => u \in opted
  BY <1>1, MovedNameType
<1>. QED
  BY <1>1, <1>3, <1>4, <1>5, <1>6, <1>7

\* Every step keeps the counts exact.
LEMMA ExactStep ==
  ASSUME TypeOK, Exact, [Next]_vars
  PROVE  Exact'
<1>. USE DEF rows, inputs, names, history
<1>0. NothingLost /\ Held
  BY DEF Exact
<1>1. ASSUME NEW u \in Users, ResetEnforcementGrace(u) PROVE Exact'
  <2>1. NothingLost'
    BY <1>0, <1>1 DEF ResetEnforcementGrace, NothingLost, TypeOK
  <2>. QED
    BY <1>1, <2>1, FreeExact DEF ResetEnforcementGrace, NudgeEvents, TypeOK
<1>2. ASSUME NEW u \in Users, LapseNotice(u) PROVE Exact'
  <2>1. NothingLost'
    BY <1>0, <1>2 DEF LapseNotice, NothingLost
  <2>. QED
    BY <1>2, <2>1, FreeExact DEF LapseNotice, NudgeEvents
<1>3. ASSUME NEW u \in Users, DeleteUser(u) PROVE Exact'
  <2>1. /\ lock[u] = Free /\ nudge' = [nudge EXCEPT ![u] = NoNudge] /\ grace' = [grace EXCEPT ![u] = 0]
        /\ notified' = notified \ {u} /\ opted' = opted \ {u}
        /\ shown' = [shown EXCEPT ![u] = 0] /\ deferred' = [deferred EXCEPT ![u] = 0]
        /\ UNCHANGED <<lock, req, userOf, asked>>
    BY <1>3 DEF DeleteUser, ClearUserState
  <2>2. /\ nudge'[u] = NoNudge /\ grace'[u] = 0 /\ shown'[u] = 0 /\ deferred'[u] = 0
        /\ \A t \in Users \ {u} : /\ nudge'[t] = nudge[t] /\ grace'[t] = grace[t]
                                  /\ shown'[t] = shown[t] /\ deferred'[t] = deferred[t]
    BY <2>1 DEF TypeOK
  <2>3. NothingLost'
    BY <1>0, <2>1, <2>2 DEF NothingLost, NoNudge
  <2>. QED
    BY <2>1, <2>2, <2>3, FreeExact DEF NudgeEvents
<1>4. ASSUME NEW old \in Users, NEW new \in Users, RenameUser(old, new) PROVE Exact'
  <2>1. NothingLost'
    <3>. SUFFICES ASSUME NEW u \in Users
         PROVE  /\ nudge'[u].declines = shown'[u] /\ grace'[u] = deferred'[u]
                /\ u \in opted' => nudge'[u].optOut
      BY DEF NothingLost
    <3>1. /\ nudge[old].declines = shown[old] /\ grace[old] = deferred[old]
          /\ old \in opted => nudge[old].optOut
          /\ nudge[new].declines = shown[new] /\ grace[new] = deferred[new]
          /\ new \in opted => nudge[new].optOut
      BY <1>0 DEF NothingLost
    <3>2. NoNudge.declines = 0 /\ NoNudge.optOut = FALSE
      BY DEF NoNudge
    <3>3. CASE u = old
      BY <1>4, <3>2, <3>3, RenameFacts
    <3>4. CASE u = new
      <4>1. CASE nudge[new] = NoNudge
        <5>1. /\ nudge'[new] = nudge[old] /\ shown'[new] = shown[old]
              /\ new \in opted' => new \in opted \/ old \in opted
          BY <1>4, <4>1, RenameFacts
        <5>2. new \notin opted
          BY <3>1, <3>2, <4>1
        <5>3. grace'[new] = deferred'[new]
          BY <1>4, <3>1, RenameFacts
        <5>. QED
          BY <3>1, <3>4, <5>1, <5>2, <5>3
      <4>2. CASE nudge[new] # NoNudge
        <5>1. /\ nudge'[new] = nudge[new] /\ shown'[new] = shown[new]
              /\ new \in opted' => new \in opted
          BY <1>4, <4>2, RenameFacts
        <5>2. grace'[new] = deferred'[new]
          BY <1>4, <3>1, RenameFacts
        <5>. QED
          BY <3>1, <3>4, <5>1, <5>2
      <4>. QED
        BY <4>1, <4>2
    <3>5. CASE u \notin {old, new}
      <4>1. /\ nudge'[u] = nudge[u] /\ grace'[u] = grace[u] /\ shown'[u] = shown[u]
            /\ deferred'[u] = deferred[u] /\ (u \in opted' => u \in opted)
        BY <1>4, <3>5, RenameFacts
      <4>. QED
        BY <1>0, <4>1 DEF NothingLost
    <3>. QED
      BY <3>3, <3>4, <3>5
  <2>2. /\ UNCHANGED <<lock, req, userOf>> /\ NudgeEvents' = NudgeEvents
        /\ lock[old] = Free /\ lock[new] = Free
    BY <1>4, RenameFacts DEF NudgeEvents
  <2>3. \A t \in Users \ {old, new} :
          nudge'[t] = nudge[t] /\ grace'[t] = grace[t] /\ (t \in notified' => t \in notified)
    <3>1. notified' \subseteq MovedName(notified, old, new) \cup notified
      BY <1>4 DEF RenameUser
    <3>. QED
      BY <1>4, <3>1, RenameFacts, MovedNameType
  <2>. QED
    BY <1>4, <2>1, <2>2, <2>3, FreeExact, RenameFacts
<1>5. ASSUME UNCHANGED <<rows, userOf, asked, lock, req, shown, deferred, opted>> PROVE Exact'
  BY <1>5, SameExact DEF NudgeEvents
<1>6. ASSUME NEW u \in Users, Excuse(u) \/ CreateUser(u) PROVE Exact'
  BY <1>5, <1>6 DEF Excuse, CreateUser
<1>7. ASSUME NEW s \in Sids, LapseClaim(s) PROVE Exact'
  BY <1>5, <1>7 DEF LapseClaim
<1>8. ASSUME SetPolicy PROVE Exact'
  BY <1>5, <1>8 DEF SetPolicy
<1>9. CASE UNCHANGED vars
  BY <1>5, <1>9 DEF vars
<1>. QED
  BY <1>1, <1>2, <1>3, <1>4, <1>6, <1>7, <1>8, <1>9, EndpointExact DEF Next

-----------------------------------------------------------------------------
(* Nothing is done twice.                                                  *)

\* Sets of workers.
LEMMA WorkerSets ==
  ASSUME NEW A \in SUBSET Workers, NEW B \in SUBSET Workers
  PROVE  /\ Cardinality(A) \in Nat /\ Cardinality(B) \in Nat /\ Cardinality(Workers) \in Nat
         /\ Cardinality(A) <= Cardinality(Workers)
         /\ A # {} => Cardinality(A) > 0
         /\ B \subseteq A => Cardinality(B) <= Cardinality(A)
         /\ \A w \in Workers : B \subseteq A \cup {w} => Cardinality(B) <= Cardinality(A) + 1
         /\ \A w \in A : B \subseteq A \ {w} => Cardinality(B) + 1 <= Cardinality(A)
<1>1. IsFiniteSet(Workers)
  BY CadenceAssumption
<1>2. IsFiniteSet(A) /\ IsFiniteSet(B)
  BY <1>1, FS_Subset
<1>3. Cardinality(A) \in Nat /\ Cardinality(B) \in Nat /\ Cardinality(Workers) \in Nat
  BY <1>1, <1>2, FS_CardinalityType
<1>4. Cardinality(A) <= Cardinality(Workers) /\ (B \subseteq A => Cardinality(B) <= Cardinality(A))
  BY <1>1, <1>2, FS_Subset
<1>5. A # {} => Cardinality(A) > 0
  BY <1>2, <1>3, FS_EmptySet
<1>6. ASSUME NEW w \in Workers, B \subseteq A \cup {w} PROVE Cardinality(B) <= Cardinality(A) + 1
  <2>1. IsFiniteSet(A \cup {w}) /\ Cardinality(A \cup {w}) <= Cardinality(A) + 1
    <3>1. /\ IsFiniteSet(A \cup {w})
          /\ Cardinality(A \cup {w}) = IF w \in A THEN Cardinality(A) ELSE Cardinality(A) + 1
      BY <1>2, FS_AddElement
    <3>. QED
      BY <1>3, <3>1
  <2>2. Cardinality(B) <= Cardinality(A \cup {w}) /\ Cardinality(A \cup {w}) \in Nat
    BY <1>6, <2>1, FS_Subset, FS_CardinalityType
  <2>. QED
    BY <1>3, <2>1, <2>2
<1>7. ASSUME NEW w \in A, B \subseteq A \ {w} PROVE Cardinality(B) + 1 <= Cardinality(A)
  <2>1. IsFiniteSet(A \ {w}) /\ Cardinality(A \ {w}) = Cardinality(A) - 1
    BY <1>2, FS_RemoveElement
  <2>2. Cardinality(B) <= Cardinality(A \ {w})
    BY <1>7, <2>1, FS_Subset
  <2>. QED
    BY <1>3, <2>1, <2>2
<1>. QED
  BY <1>3, <1>4, <1>5, <1>6, <1>7

\* A request goes on or ends, the others are as they were.
Goes(w) ==
    /\ UNCHANGED userOf
    /\ \A v \in Workers \ {w} : req'[v] = req[v]
    /\ \/ req'[w] = Idle
       \/ req[w] # Idle /\ req'[w].event = req[w].event /\ req'[w].sid = req[w].sid

LEMMA GoesFacts ==
  ASSUME TypeOK, NEW w \in Workers, Goes(w)
  PROVE  /\ \A u : Serving(u)' \subseteq Serving(u) /\ Deferring(u)' \subseteq Deferring(u)
         /\ req'[w] = Idle => \A u : /\ Serving(u)' \subseteq Serving(u) \ {w}
                                     /\ Deferring(u)' \subseteq Deferring(u) \ {w}
<1>1. ASSUME NEW u PROVE Serving(u)' \subseteq Serving(u)
  BY DEF Goes, Serving
<1>2. ASSUME NEW u, req'[w] = Idle PROVE w \notin Serving(u)'
  BY <1>2 DEF Serving
<1>3. ASSUME NEW u, NEW v \in Deferring(u)' PROVE v \in Deferring(u)
  <2>1. v \in Serving(u) /\ v \in Workers /\ req'[v] # Idle
    BY <1>1 DEF Deferring, Serving
  <2>. QED
    BY <1>3, <2>1 DEF Goes, Deferring
<1>4. ASSUME NEW u PROVE Deferring(u)' \subseteq Serving(u)'
  BY DEF Deferring
<1>. QED
  BY <1>1, <1>2, <1>3, <1>4

\* Taking the lock, and letting go of it.
LEMMA LockGoes ==
  ASSUME TypeOK, NEW w \in Workers, Lock(w)
  PROVE  Goes(w) /\ req[w].op = "wait" /\ req'[w].op = "locked"
<1>1. PICK r : req' = [req EXCEPT ![w] = [[@ EXCEPT !.op = "locked"] EXCEPT !.row = r]]
  <2>. DEFINE r == Load(w, userOf[req[w].sid])
  <2>1. req' = [req EXCEPT ![w].op = "locked", ![w].row = r]
    BY DEF Lock
  <2>. HIDE DEF r
  <2>. QED
    BY <2>1 DEF TypeOK
<1>2. req[w].op = "wait" /\ UNCHANGED userOf
  BY DEF Lock, inputs
<1>3. req[w] \in Requests
  BY <1>2, RequestType, RequestShape
<1>. DEFINE a == [req[w] EXCEPT !.op = "locked"]
<1>4. a = [op |-> "locked", event |-> req[w].event, sid |-> req[w].sid, row |-> req[w].row]
  BY <1>3, RequestRecord
<1>5. req' = [req EXCEPT ![w] = [a EXCEPT !.row = r]]
  BY <1>1 DEF TypeOK
<1>6. /\ req'[w].op = "locked" /\ req'[w].event = req[w].event /\ req'[w].sid = req[w].sid
      /\ \A v \in Workers \ {w} : req'[v] = req[v]
  <2>. HIDE DEF a
  <2>. QED
    BY <1>4, <1>5 DEF TypeOK
<1>. QED
  BY <1>2, <1>3, <1>6 DEF Goes, Requests, Idle

LEMMA ReleaseGoes ==
  ASSUME TypeOK, NEW w \in Workers, Release(w), UNCHANGED userOf
  PROVE  Goes(w) /\ req'[w] = Idle
BY ReleaseShape DEF Goes

\* The claim lets one defer of the session pass.
LEMMA ClaimGoes ==
  ASSUME TypeOK, NEW w \in Workers, Claim(w)
  PROVE  /\ Goes(w) /\ req[w].sid \in Sids /\ claims' = claims \cup {req[w].sid}
         /\ req[w].sid \in claims => req'[w] = Idle
<1>1. /\ req[w].op = "claim" /\ claims' = claims \cup {req[w].sid} /\ UNCHANGED userOf
      /\ req' = [req EXCEPT ![w] = IF req[w].sid \in claims THEN Idle ELSE [@ EXCEPT !.op = "wait"]]
  BY DEF Claim, inputs
<1>2. req[w] \in Requests /\ req[w].sid \in Sids
  BY <1>1, RequestType, RequestShape
<1>3. [req[w] EXCEPT !.op = "wait"] =
        [op |-> "wait", event |-> req[w].event, sid |-> req[w].sid, row |-> req[w].row]
  BY <1>2, RequestRecord
<1>4. /\ \A v \in Workers \ {w} : req'[v] = req[v]
      /\ req'[w] = IF req[w].sid \in claims THEN Idle ELSE [req[w] EXCEPT !.op = "wait"]
  BY <1>1 DEF TypeOK
<1>5. req[w] # Idle
  BY <1>1 DEF Idle
<1>. QED
  BY <1>1, <1>2, <1>3, <1>4, <1>5 DEF Goes

\* A new request.
LEMMA ServeFacts ==
  ASSUME TypeOK, NEW w \in Workers, NEW s \in Sids, NEW event, NEW op, Serve(w, s, event, op)
  PROVE  /\ req[w] = Idle /\ req'[w].op = op /\ req'[w].event = event /\ req'[w].sid = s
         /\ \A v \in Workers \ {w} : req'[v] = req[v]
BY DEF Serve, TypeOK

\* Nothing changes in what is claimed and spent, and no defer passes its claim.
LEMMA ClaimedSame ==
  ASSUME TypeOK, DefersClaimed, UNCHANGED <<spent, lapses, claims>>,
         \A s \in Sids : Claimed(s)' \subseteq Claimed(s)
  PROVE  DefersClaimed'
<1>. SUFFICES ASSUME NEW s \in Sids
     PROVE  spent[s] + Cardinality(Claimed(s)') <= lapses[s] + (IF s \in claims THEN 1 ELSE 0)
  BY DEF DefersClaimed
<1>1. Claimed(s) \in SUBSET Workers /\ Claimed(s)' \in SUBSET Workers
  BY DEF Claimed
<1>2. Cardinality(Claimed(s)') <= Cardinality(Claimed(s)) /\ Cardinality(Claimed(s)) \in Nat
      /\ Cardinality(Claimed(s)') \in Nat
  <2>. PICK A \in SUBSET Workers, B \in SUBSET Workers : A = Claimed(s) /\ B = Claimed(s)'
    BY <1>1
  <2>. QED
    BY WorkerSets
<1>3. spent[s] + Cardinality(Claimed(s)) <= lapses[s] + (IF s \in claims THEN 1 ELSE 0)
  BY DEF DefersClaimed
<1>4. spent[s] \in Nat /\ lapses[s] \in Nat
  BY CountShape
<1>. QED
  BY <1>2, <1>3, <1>4

\* Requests that go on past no claim.
LEMMA GoesClaimed ==
  ASSUME TypeOK, NEW w \in Workers, Goes(w),
         req'[w].op \in {"wait", "locked"} => req[w].op \in {"wait", "locked"}
  PROVE  \A s \in Sids : Claimed(s)' \subseteq Claimed(s)
BY DEF Goes, Claimed, Idle

\* Whoever retries: the defers a session spends are claimed one by one.
LEMMA ClaimedStep ==
  ASSUME TypeOK, DefersClaimed, [Next]_vars
  PROVE  DefersClaimed'
<1>. USE DEF rows, inputs, names, history
<1>1. ASSUME NEW w \in Workers, RecordNudge(w) \/ RecordEnforcement(w) PROVE DefersClaimed'
  <2>1. PICK s, event, op : /\ s \in Sids /\ Serve(w, s, event, op)
                            /\ op = "claim" \/ event # "defer"
    <3>1. "defer" \notin NudgeEvents
      BY DEF NudgeEvents
    <3>. QED
      BY <1>1, <3>1 DEF RecordNudge, RecordEnforcement
  <2>2. \A t \in Sids : Claimed(t)' \subseteq Claimed(t)
    BY <2>1, ServeFacts DEF Claimed
  <2>3. UNCHANGED <<spent, lapses, claims>>
    BY <1>1 DEF RecordNudge, RecordEnforcement
  <2>. QED
    BY <2>2, <2>3, ClaimedSame
<1>2. ASSUME NEW w \in Workers, Claim(w) PROVE DefersClaimed'
  <2>1. UNCHANGED <<spent, lapses>> /\ claims' = claims \cup {req[w].sid}
    BY <1>2 DEF Claim
  <2>. SUFFICES ASSUME NEW s \in Sids
       PROVE  spent[s] + Cardinality(Claimed(s)') <= lapses[s] + (IF s \in claims' THEN 1 ELSE 0)
    BY <2>1 DEF DefersClaimed
  <2>2. PICK A \in SUBSET Workers, B \in SUBSET Workers : A = Claimed(s) /\ B = Claimed(s)'
    BY DEF Claimed
  <2>3. IF s = req[w].sid /\ s \notin claims THEN B \subseteq A \cup {w} ELSE B \subseteq A
    BY <1>2, <2>2, ClaimGoes DEF Goes, Claimed, Idle
  <2>4. spent[s] + Cardinality(A) <= lapses[s] + (IF s \in claims THEN 1 ELSE 0)
    BY <2>2 DEF DefersClaimed
  <2>5. spent[s] \in Nat /\ lapses[s] \in Nat
    BY CountShape
  <2>6. CASE s = req[w].sid /\ s \notin claims
    <3>1. Cardinality(B) <= Cardinality(A) + 1 /\ Cardinality(A) \in Nat /\ Cardinality(B) \in Nat
      BY <2>3, <2>6, WorkerSets
    <3>2. s \in claims'
      BY <2>1, <2>6
    <3>. QED
      BY <2>2, <2>4, <2>5, <2>6, <3>1, <3>2
  <2>7. CASE ~ (s = req[w].sid /\ s \notin claims)
    <3>1. Cardinality(B) <= Cardinality(A) /\ Cardinality(A) \in Nat /\ Cardinality(B) \in Nat
      BY <2>3, <2>7, WorkerSets
    <3>2. s \in claims => s \in claims'
      BY <2>1
    <3>. QED
      BY <2>2, <2>4, <2>5, <3>1, <3>2
  <2>. QED
    BY <2>6, <2>7
<1>3. ASSUME NEW w \in Workers, Lock(w) PROVE DefersClaimed'
  BY <1>3, LockGoes, GoesClaimed, ClaimedSame DEF Lock
<1>4. ASSUME NEW w \in Workers, Release(w), UNCHANGED <<userOf, spent, lapses, claims>>
      PROVE  DefersClaimed'
  <2>1. req'[w].op \notin {"wait", "locked"}
    BY <1>4, ReleaseGoes DEF Idle
  <2>. QED
    BY <1>4, <2>1, ReleaseGoes, GoesClaimed, ClaimedSame
<1>5. ASSUME NEW w \in Workers,
             RecordNudgeEvent(w) \/ RecordEnforcementIncapable(w) \/ Rollback(w)
      PROVE  DefersClaimed'
  BY <1>4, <1>5 DEF RecordNudgeEvent, RecordEnforcementIncapable, Rollback
<1>6. ASSUME NEW w \in Workers, RecordEnforcementDefer(w) PROVE DefersClaimed'
  <2>1. /\ req[w].op = "locked" /\ req[w].event = "defer" /\ Release(w)
        /\ spent' = [spent EXCEPT ![req[w].sid] = @ + 1]
        /\ UNCHANGED <<userOf, lapses, claims>>
    BY <1>6 DEF RecordEnforcementDefer, Holds
  <2>. SUFFICES ASSUME NEW s \in Sids
       PROVE  spent'[s] + Cardinality(Claimed(s)') <= lapses[s] + (IF s \in claims THEN 1 ELSE 0)
    BY <2>1 DEF DefersClaimed
  <2>2. PICK A \in SUBSET Workers, B \in SUBSET Workers : A = Claimed(s) /\ B = Claimed(s)'
    BY DEF Claimed
  <2>3. B \subseteq A \ {w} /\ (s = req[w].sid => w \in A)
    BY <2>1, <2>2, ReleaseGoes DEF Goes, Claimed, Idle
  <2>4. spent[s] + Cardinality(A) <= lapses[s] + (IF s \in claims THEN 1 ELSE 0)
    BY <2>2 DEF DefersClaimed
  <2>5. /\ spent[s] \in Nat /\ lapses[s] \in Nat
        /\ spent'[s] = IF s = req[w].sid THEN spent[s] + 1 ELSE spent[s]
    BY <2>1, CountShape
  <2>6. /\ Cardinality(A) \in Nat /\ Cardinality(B) \in Nat /\ Cardinality(B) <= Cardinality(A)
        /\ s = req[w].sid => Cardinality(B) + 1 <= Cardinality(A)
    BY <2>3, WorkerSets
  <2>. QED
    BY <2>2, <2>4, <2>5, <2>6
<1>7. ASSUME NEW s \in Sids, LapseClaim(s) PROVE DefersClaimed'
  <2>1. /\ s \in claims /\ claims' = claims \ {s} /\ lapses' = [lapses EXCEPT ![s] = @ + 1]
        /\ UNCHANGED <<spent, req>>
    BY <1>7 DEF LapseClaim
  <2>. SUFFICES ASSUME NEW t \in Sids
       PROVE  spent[t] + Cardinality(Claimed(t)) <= lapses'[t] + (IF t \in claims' THEN 1 ELSE 0)
    BY <2>1 DEF DefersClaimed, Claimed
  <2>2. spent[t] + Cardinality(Claimed(t)) <= lapses[t] + (IF t \in claims THEN 1 ELSE 0)
    BY DEF DefersClaimed
  <2>3. /\ lapses[t] \in Nat /\ lapses'[t] = IF t = s THEN lapses[t] + 1 ELSE lapses[t]
        /\ t \in claims' <=> t \in claims /\ t # s
    BY <2>1, CountShape
  <2>. QED
    BY <2>1, <2>2, <2>3
<1>8. ASSUME UNCHANGED <<spent, lapses, claims, req>> PROVE DefersClaimed'
  BY <1>8, ClaimedSame DEF Claimed
<1>9. ASSUME NEW u \in Users,
             \/ ResetEnforcementGrace(u) \/ Excuse(u) \/ LapseNotice(u)
             \/ DeleteUser(u) \/ CreateUser(u)
      PROVE  DefersClaimed'
  BY <1>8, <1>9 DEF ResetEnforcementGrace, Excuse, LapseNotice, DeleteUser, CreateUser
<1>10. ASSUME NEW old \in Users, NEW new \in Users, RenameUser(old, new) PROVE DefersClaimed'
  BY <1>8, <1>10 DEF RenameUser
<1>11. CASE SetPolicy \/ UNCHANGED vars
  BY <1>8, <1>11 DEF SetPolicy, vars
<1>. QED
  BY <1>1, <1>2, <1>3, <1>5, <1>6, <1>7, <1>9, <1>10, <1>11 DEF Next, Endpoint

\* Mail and marker go together.
LEMMA AdvisoryStep ==
  ASSUME TypeOK, Held, OneAdvisoryPerWindow, [Next]_vars
  PROVE  OneAdvisoryPerWindow'
<1>. USE DEF rows, inputs, names, history
<1>0. mailed \in [Users -> Nat] /\ notified \subseteq Users
  BY CountShape
<1>1. ASSUME UNCHANGED <<notified, mailed>> PROVE OneAdvisoryPerWindow'
  BY <1>1 DEF OneAdvisoryPerWindow
<1>2. ASSUME NEW w \in Workers, RecordEnforcementIncapable(w) PROVE OneAdvisoryPerWindow'
  <2>1. req[w].op = "locked" /\ req[w].event = "incapable"
    BY <1>2 DEF RecordEnforcementIncapable, Holds
  <2>2. PICK u \in Users : u = userOf[req[w].sid] /\ (u \in notified => req[w].row # {})
    BY <2>1, Holding
  <2>3. CASE UNCHANGED <<notified, mailed>>
    BY <1>1, <2>3
  <2>4. CASE req[w].row = {} /\ notified' = notified \cup {u} /\ mailed' = [mailed EXCEPT ![u] = @ + 1]
    BY <1>0, <2>2, <2>4 DEF OneAdvisoryPerWindow
  <2>. QED
    BY <1>2, <2>2, <2>3, <2>4 DEF RecordEnforcementIncapable
<1>3. ASSUME NEW u \in Users, LapseNotice(u) \/ DeleteUser(u) PROVE OneAdvisoryPerWindow'
  <2>1. notified' = notified \ {u} /\ mailed' = [mailed EXCEPT ![u] = 0]
    BY <1>3 DEF LapseNotice, DeleteUser, ClearUserState
  <2>. QED
    BY <1>0, <2>1 DEF OneAdvisoryPerWindow
<1>4. ASSUME NEW old \in Users, NEW new \in Users, RenameUser(old, new) PROVE OneAdvisoryPerWindow'
  <2>1. PICK moved :
          /\ moved = notified \ {old} \/ moved = MovedName(notified, old, new)
          /\ notified' = moved
          /\ mailed' = [[mailed EXCEPT ![new] = IF new \in moved \ notified THEN mailed[old] ELSE mailed[new]]
                          EXCEPT ![old] = 0]
    <3>0. PICK stale \in BOOLEAN : \E moved :
            /\ moved = IF stale THEN notified \ {old} ELSE MovedName(notified, old, new)
            /\ notified' = moved
            /\ mailed' = [mailed EXCEPT ![new] = IF new \in moved \ notified THEN mailed[old] ELSE @,
                                        ![old] = 0]
      BY <1>4 DEF RenameUser
    <3>1. PICK moved :
            /\ moved = IF stale THEN notified \ {old} ELSE MovedName(notified, old, new)
            /\ notified' = moved
            /\ mailed' = [mailed EXCEPT ![new] = IF new \in moved \ notified THEN mailed[old] ELSE @,
                                        ![old] = 0]
      BY <3>0
    <3>. DEFINE x == IF new \in moved \ notified THEN mailed[old] ELSE mailed[new]
    <3>2. mailed' = [[mailed EXCEPT ![new] = x] EXCEPT ![old] = 0]
      BY <1>0, <3>1
    <3>. QED
      BY <3>1, <3>2
  <2>2. old # new
    BY <1>4 DEF RenameUser
  <2>3. /\ old \notin moved
        /\ new \in moved => new \in notified \/ old \in notified
        /\ new \in notified => new \in moved
        /\ \A u \in Users \ {old, new} : u \in moved <=> u \in notified
    BY <2>1, <2>2, MovedNameType
  <2>4. /\ mailed'[old] = 0
        /\ mailed'[new] = IF new \in moved \ notified THEN mailed[old] ELSE mailed[new]
        /\ \A u \in Users \ {old, new} : mailed'[u] = mailed[u]
    BY <1>0, <2>1, <2>2
  <2>5. \A u \in Users : mailed[u] = IF u \in notified THEN 1 ELSE 0
    BY DEF OneAdvisoryPerWindow
  <2>6. ASSUME NEW u \in Users PROVE mailed'[u] = IF u \in moved THEN 1 ELSE 0
    BY <2>3, <2>4, <2>5
  <2>. QED
    BY <2>1, <2>6 DEF OneAdvisoryPerWindow
<1>5. ASSUME NEW w \in Workers, Endpoint(w) PROVE OneAdvisoryPerWindow'
  BY <1>1, <1>2, <1>5 DEF Endpoint, RecordNudge, RecordEnforcement, Claim, Lock, RecordNudgeEvent,
     RecordEnforcementDefer, Rollback
<1>6. ASSUME NEW u \in Users, ResetEnforcementGrace(u) \/ Excuse(u) \/ CreateUser(u)
      PROVE  OneAdvisoryPerWindow'
  BY <1>1, <1>6 DEF ResetEnforcementGrace, Excuse, CreateUser
<1>7. ASSUME NEW s \in Sids, LapseClaim(s) PROVE OneAdvisoryPerWindow'
  BY <1>1, <1>7 DEF LapseClaim
<1>8. CASE SetPolicy \/ UNCHANGED vars
  BY <1>1, <1>8 DEF SetPolicy, vars
<1>. QED
  BY <1>3, <1>4, <1>5, <1>6, <1>7, <1>8 DEF Next

-----------------------------------------------------------------------------
(* Only what is under way slips.                                           *)

\* The bound of the rows that slip, as it grows with each rename.
Bound(p) == GRACE + Cardinality(Workers) * (1 + p)

LEMMA BoundGrows ==
  ASSUME NEW p \in Nat
  PROVE  /\ Bound(p) \in Nat /\ GRACE \in Nat /\ Cardinality(Workers) \in Nat
         /\ GRACE + Cardinality(Workers) <= Bound(p)
         /\ Bound(p + 1) = Bound(p) + Cardinality(Workers)
<1>1. PICK n \in Nat : n = Cardinality(Workers)
  BY WorkerSets
<1>2. GRACE \in Nat
  BY CadenceAssumption
<1>3. n * (1 + p) \in Nat /\ n * (1 + p) = n + n * p /\ n * p \in Nat
      /\ n * (1 + (p + 1)) = n * (1 + p) + n
  OBVIOUS
<1>. QED
  BY <1>1, <1>2, <1>3 DEF Bound

\* One account's row.
Slip(u) ==
    grace[u] # 0 \/ Deferring(u) # {} =>
        GRACE > 0 /\ grace[u] + Cardinality(Deferring(u)) < Bound(passed)

LEMMA SlipIs == BudgetSlips <=> \A u \in Users : Slip(u)
BY DEF BudgetSlips, Slip, Bound

\* Defers end, the row stays or is emptied, the bound stays or grows.
LEMMA SlipSame ==
  ASSUME TypeOK, NEW u \in Users, Slip(u), Deferring(u)' \subseteq Deferring(u),
         grace'[u] \in {0, grace[u]}, passed' \in {passed, passed + 1}
  PROVE  Slip(u)'
<1>1. PICK A \in SUBSET Workers, B \in SUBSET Workers : A = Deferring(u) /\ B = Deferring(u)'
  BY DEF Deferring, Serving
<1>2. /\ Cardinality(A) \in Nat /\ Cardinality(B) \in Nat /\ Cardinality(B) <= Cardinality(A)
      /\ Cardinality(Workers) \in Nat
  BY <1>1, WorkerSets
<1>3. passed \in Nat /\ grace[u] \in Nat
  BY CountShape DEF TypeOK
<1>4. Bound(passed) \in Nat /\ Bound(passed') \in Nat /\ Bound(passed) <= Bound(passed')
  BY <1>2, <1>3, BoundGrows
<1>5. B # {} => A # {}
  BY <1>1
<1>6. grace[u] # 0 \/ A # {} => GRACE > 0 /\ grace[u] + Cardinality(A) < Bound(passed)
  BY <1>1 DEF Slip
<1>7. grace'[u] # 0 \/ B # {} => GRACE > 0 /\ grace'[u] + Cardinality(B) < Bound(passed')
  BY <1>2, <1>3, <1>4, <1>5, <1>6
<1>. QED
  BY <1>1, <1>7 DEF Slip, Bound

\* A deferral that begins finds a login left, one that commits was under way.
LEMMA EndpointSlip ==
  ASSUME TypeOK, Held, BudgetSlips, NEW w \in Workers, Endpoint(w)
  PROVE  BudgetSlips'
<1>. USE DEF rows, inputs, names, history
<1>0. \A u \in Users : Slip(u)
  BY SlipIs
<1>1. ASSUME Goes(w), UNCHANGED <<grace, passed>> PROVE \A u \in Users : Slip(u)'
  BY <1>0, <1>1, GoesFacts, SlipSame
<1>2. ASSUME RecordNudge(w) PROVE \A u \in Users : Slip(u)'
  <2>1. PICK s \in Sids, event \in NudgeEvents : Serve(w, s, event, "wait")
    BY <1>2 DEF RecordNudge
  <2>2. event # "defer"
    BY DEF NudgeEvents
  <2>3. UNCHANGED <<grace, passed, userOf>>
    BY <1>2 DEF RecordNudge
  <2>4. \A u : Deferring(u)' \subseteq Deferring(u)
    BY <2>1, <2>2, <2>3, ServeFacts DEF Deferring, Serving
  <2>. QED
    BY <1>0, <2>3, <2>4, SlipSame
<1>3. ASSUME RecordEnforcement(w) PROVE \A u \in Users : Slip(u)'
  <2>1. PICK s, event, op :
          /\ s \in Sids /\ ActsOn(userOf[s], event) /\ Serve(w, s, event, op)
    BY <1>3 DEF RecordEnforcement
  <2>2. UNCHANGED <<grace, passed, userOf>>
    BY <1>3 DEF RecordEnforcement
  <2>. TAKE u \in Users
  <2>3. CASE event # "defer" \/ u # userOf[s]
    <3>1. Deferring(u)' \subseteq Deferring(u)
      BY <2>1, <2>2, <2>3, ServeFacts DEF Deferring, Serving
    <3>. QED
      BY <1>0, <2>2, <3>1, SlipSame
  <2>4. CASE event = "defer" /\ u = userOf[s]
    <3>1. grace[u] < GRACE
      BY <2>1, <2>4 DEF ActsOn, Verdict
    <3>2. PICK B \in SUBSET Workers : B = Deferring(u)'
      BY DEF Deferring, Serving
    <3>3. Cardinality(B) <= Cardinality(Workers) /\ Cardinality(B) \in Nat
          /\ Cardinality(Workers) \in Nat
      BY WorkerSets
    <3>4. passed \in Nat /\ grace[u] \in Nat
      BY CountShape DEF TypeOK
    <3>5. GRACE \in Nat /\ GRACE + Cardinality(Workers) <= Bound(passed) /\ Bound(passed) \in Nat
      BY <3>4, BoundGrows
    <3>6. GRACE > 0 /\ grace[u] + Cardinality(B) < Bound(passed)
      BY <3>1, <3>3, <3>4, <3>5
    <3>. QED
      BY <2>2, <3>2, <3>6 DEF Slip, Bound
  <2>. QED
    BY <2>3, <2>4
<1>4. ASSUME Claim(w) PROVE \A u \in Users : Slip(u)'
  BY <1>1, <1>4, ClaimGoes DEF Claim
<1>5. ASSUME Lock(w) PROVE \A u \in Users : Slip(u)'
  BY <1>1, <1>5, LockGoes DEF Lock
<1>6. ASSUME RecordNudgeEvent(w) \/ RecordEnforcementIncapable(w) \/ Rollback(w)
      PROVE  \A u \in Users : Slip(u)'
  BY <1>1, <1>6, ReleaseGoes DEF RecordNudgeEvent, RecordEnforcementIncapable, Rollback
<1>7. ASSUME RecordEnforcementDefer(w) PROVE \A u \in Users : Slip(u)'
  <2>1. req[w].op = "locked" /\ req[w].event = "defer" /\ Release(w) /\ UNCHANGED <<userOf, passed>>
    BY <1>7 DEF RecordEnforcementDefer, Holds
  <2>2. PICK d \in Users : d = userOf[req[w].sid] /\ req[w].row = grace[d]
    BY <2>1, RequestType, RequestShape, Holding
  <2>3. grace' = [grace EXCEPT ![d] = grace[d] + 1]
    BY <1>7, <2>2 DEF RecordEnforcementDefer
  <2>. TAKE u \in Users
  <2>4. CASE u # d
    BY <1>0, <2>1, <2>3, <2>4, ReleaseGoes, GoesFacts, SlipSame DEF TypeOK
  <2>5. CASE u = d
    <3>1. PICK A \in SUBSET Workers, B \in SUBSET Workers : A = Deferring(u) /\ B = Deferring(u)'
      BY DEF Deferring, Serving
    <3>2. w \in A
      BY <2>1, <2>2, <2>5, <3>1 DEF Deferring, Serving, Idle
    <3>3. B \subseteq A \ {w}
      BY <2>1, <3>1, ReleaseGoes, GoesFacts
    <3>4. Cardinality(B) + 1 <= Cardinality(A) /\ Cardinality(A) \in Nat /\ Cardinality(B) \in Nat
      BY <3>2, <3>3, WorkerSets
    <3>5. GRACE > 0 /\ grace[u] + Cardinality(A) < Bound(passed)
      BY <1>0, <3>1, <3>2 DEF Slip
    <3>6. grace[u] \in Nat /\ grace'[u] = grace[u] + 1 /\ Bound(passed) \in Nat
      BY <2>3, <2>5, CountShape, BoundGrows DEF TypeOK
    <3>7. GRACE > 0 /\ grace'[u] + Cardinality(B) < Bound(passed)
      BY <3>4, <3>5, <3>6
    <3>. QED
      BY <2>1, <3>1, <3>7 DEF Slip, Bound
  <2>. QED
    BY <2>4, <2>5
<1>8. \A u \in Users : Slip(u)'
  BY <1>2, <1>3, <1>4, <1>5, <1>6, <1>7 DEF Endpoint
<1>. QED
  BY <1>8 DEF BudgetSlips, Slip, Bound

LEMMA BudgetStep ==
  ASSUME TypeOK, Held, BudgetSlips, [Next]_vars
  PROVE  BudgetSlips'
<1>. USE DEF rows, inputs, names, history
<1>0. /\ \A u \in Users : Slip(u)
      /\ (\A u \in Users : Slip(u)') => BudgetSlips'
  BY SlipIs DEF BudgetSlips, Slip, Bound
<1>1. ASSUME UNCHANGED <<req, userOf>>, passed' \in {passed, passed + 1},
             NEW u \in Users, grace'[u] \in {0, grace[u]}
      PROVE  Slip(u)'
  <2>1. Deferring(u)' \subseteq Deferring(u)
    BY <1>1 DEF Deferring, Serving
  <2>. QED
    BY <1>0, <1>1, <2>1, SlipSame
<1>2. ASSUME UNCHANGED <<req, userOf, passed>>, \A u \in Users : grace'[u] \in {0, grace[u]}
      PROVE  BudgetSlips'
  BY <1>0, <1>1, <1>2
<1>3. ASSUME NEW d \in Users, ResetEnforcementGrace(d) \/ DeleteUser(d) PROVE BudgetSlips'
  <2>1. grace' = [grace EXCEPT ![d] = 0] /\ UNCHANGED <<req, userOf, passed>>
    BY <1>3 DEF ResetEnforcementGrace, DeleteUser, ClearUserState
  <2>2. \A u \in Users : grace'[u] \in {0, grace[u]}
    BY <2>1 DEF TypeOK
  <2>. QED
    BY <1>2, <2>1, <2>2
<1>4. ASSUME NEW old \in Users, NEW new \in Users, RenameUser(old, new) PROVE BudgetSlips'
  <2>1. /\ grace'[old] = 0 /\ grace'[new] = IF grace[new] = 0 THEN grace[old] ELSE grace[new]
        /\ \A u \in Users \ {old, new} : grace'[u] = grace[u]
        /\ UNCHANGED <<req, userOf>> /\ passed' = passed + 1
    <3>1. passed' = passed + 1
      BY <1>4 DEF RenameUser
    <3>. QED
      BY <1>4, <3>1, RenameFacts
  <2>2. ASSUME NEW u \in Users PROVE Slip(u)'
    <3>1. CASE grace'[u] \in {0, grace[u]}
      BY <1>1, <2>1, <3>1
    <3>2. CASE u = new /\ grace'[u] = grace[old] /\ grace[old] # 0
      <4>1. PICK A \in SUBSET Workers, B \in SUBSET Workers : A = Deferring(old) /\ B = Deferring(u)'
        BY DEF Deferring, Serving
      <4>2. /\ Cardinality(A) \in Nat /\ Cardinality(B) \in Nat
            /\ Cardinality(B) <= Cardinality(Workers) /\ Cardinality(Workers) \in Nat
        BY WorkerSets
      <4>3. GRACE > 0 /\ grace[old] + Cardinality(A) < Bound(passed)
        BY <1>0, <3>2, <4>1 DEF Slip
      <4>4. /\ passed \in Nat /\ grace[old] \in Nat /\ Bound(passed) \in Nat
            /\ Bound(passed') = Bound(passed) + Cardinality(Workers)
        BY <2>1, CountShape, BoundGrows DEF TypeOK
      <4>5. GRACE > 0 /\ grace'[u] + Cardinality(B) < Bound(passed')
        BY <3>2, <4>2, <4>3, <4>4
      <4>. QED
        BY <4>1, <4>5 DEF Slip, Bound
    <3>. QED
      BY <2>1, <3>1, <3>2
  <2>. QED
    BY <1>0, <2>2
<1>5. ASSUME UNCHANGED <<req, userOf, passed, grace>> PROVE BudgetSlips'
  BY <1>2, <1>5
<1>6. ASSUME NEW u \in Users, Excuse(u) \/ LapseNotice(u) \/ CreateUser(u) PROVE BudgetSlips'
  BY <1>5, <1>6 DEF Excuse, LapseNotice, CreateUser
<1>7. ASSUME NEW s \in Sids, LapseClaim(s) PROVE BudgetSlips'
  BY <1>5, <1>7 DEF LapseClaim
<1>8. CASE SetPolicy \/ UNCHANGED vars
  BY <1>5, <1>8 DEF SetPolicy, vars
<1>. QED
  BY <1>3, <1>4, <1>6, <1>7, <1>8, EndpointSlip DEF Next

\* A marker counts as one thing that is left.
LEMMA MarkerCount ==
  ASSUME NEW N, NEW u
  PROVE  Cardinality({u} \cap N) = IF u \in N THEN 1 ELSE 0
<1>1. CASE u \in N
  <2>1. {u} \cap N = {u}
    BY <1>1
  <2>. QED
    BY <1>1, <2>1, FS_Singleton
<1>2. CASE u \notin N
  <2>1. {u} \cap N = {}
    BY <1>2
  <2>. QED
    BY <1>2, <2>1, FS_EmptySet
<1>. QED
  BY <1>1, <1>2

\* What is left of an account, now and after a step.
LEMMA LeftShape ==
  ASSUME TypeOK, NEW u \in Users
  PROVE  /\ Left(u) = nudge[u].declines + grace[u] + (IF u \in notified THEN 1 ELSE 0)
                      + (IF nudge[u].optOut THEN 1 ELSE 0)
         /\ nudge[u].declines \in Nat /\ grace[u] \in Nat /\ Left(u) \in Nat
<1>1. nudge[u].declines \in Nat /\ grace[u] \in Nat
  BY DEF TypeOK, NudgeRows
<1>. QED
  BY <1>1, MarkerCount DEF Left

LEMMA LeftShapeNext ==
  ASSUME TypeOK', NEW u \in Users
  PROVE  /\ Left(u)' = nudge'[u].declines + grace'[u] + (IF u \in notified' THEN 1 ELSE 0)
                       + (IF nudge'[u].optOut THEN 1 ELSE 0)
         /\ nudge'[u].declines \in Nat /\ grace'[u] \in Nat /\ Left(u)' \in Nat
<1>1. nudge'[u].declines \in Nat /\ grace'[u] \in Nat
  BY DEF TypeOK, NudgeRows
<1>. QED
  BY <1>1, MarkerCount DEF Left

\* Requests end, and what is left stays or goes.
LEMMA BehindSame ==
  ASSUME TypeOK, TypeOK', LeftBehind, NEW u \in Users, u \notin accounts,
         Serving(u)' \subseteq Serving(u), u \in excused' => u \in excused,
         nudge'[u] = nudge[u], grace'[u] = grace[u], u \in notified' => u \in notified
  PROVE  Left(u)' + Cardinality(Serving(u)') <= Cardinality(Workers) /\ u \notin excused'
<1>1. PICK A \in SUBSET Workers, B \in SUBSET Workers : A = Serving(u) /\ B = Serving(u)'
  BY DEF Serving
<1>2. Cardinality(B) <= Cardinality(A) /\ Cardinality(A) \in Nat /\ Cardinality(B) \in Nat
      /\ Cardinality(Workers) \in Nat
  BY <1>1, WorkerSets
<1>3. Left(u) + Cardinality(A) <= Cardinality(Workers) /\ u \notin excused
  BY <1>1 DEF LeftBehind
<1>4. Left(u)' <= Left(u) /\ Left(u) \in Nat /\ Left(u)' \in Nat
  <2>1. Left(u)' = nudge'[u].declines + grace'[u] + (IF u \in notified' THEN 1 ELSE 0)
                   + (IF nudge'[u].optOut THEN 1 ELSE 0)
        /\ Left(u)' \in Nat
    BY LeftShapeNext
  <2>. QED
    BY <2>1, LeftShape
<1>. QED
  BY <1>1, <1>2, <1>3, <1>4

\* A name whose rows are cleared has at most the requests under way.
LEMMA BehindCleared ==
  ASSUME TypeOK', NEW u \in Users, u \notin excused', nudge'[u] = NoNudge, grace'[u] = 0,
         u \notin notified'
  PROVE  Left(u)' + Cardinality(Serving(u)') <= Cardinality(Workers)
<1>1. PICK B \in SUBSET Workers : B = Serving(u)'
  BY DEF Serving
<1>2. Cardinality(B) <= Cardinality(Workers) /\ Cardinality(B) \in Nat
      /\ Cardinality(Workers) \in Nat
  BY WorkerSets
<1>3. Left(u)' = nudge'[u].declines + grace'[u] + (IF u \in notified' THEN 1 ELSE 0)
                 + (IF nudge'[u].optOut THEN 1 ELSE 0)
  BY LeftShapeNext
<1>4. Left(u)' = 0
  BY <1>3 DEF NoNudge
<1>. QED
  BY <1>1, <1>2, <1>4

\* A request that commits leaves one thing at most, and is done.
LEMMA BehindCommit ==
  ASSUME TypeOK, TypeOK', LeftBehind, NEW w \in Workers, Release(w), UNCHANGED <<userOf, excused>>,
         NEW u \in Users, u \notin accounts, u = userOf[req[w].sid], req[w] # Idle,
         Left(u)' <= Left(u) + 1
  PROVE  Left(u)' + Cardinality(Serving(u)') <= Cardinality(Workers) /\ u \notin excused'
<1>1. PICK A \in SUBSET Workers, B \in SUBSET Workers : A = Serving(u) /\ B = Serving(u)'
  BY DEF Serving
<1>2. w \in A
  BY <1>1 DEF Serving
<1>3. B \subseteq A \ {w}
  BY <1>1, ReleaseGoes, GoesFacts
<1>4. Cardinality(B) + 1 <= Cardinality(A) /\ Cardinality(A) \in Nat /\ Cardinality(B) \in Nat
      /\ Cardinality(Workers) \in Nat
  BY <1>2, <1>3, WorkerSets
<1>5. Left(u) + Cardinality(A) <= Cardinality(Workers) /\ u \notin excused
  BY <1>1 DEF LeftBehind
<1>6. Left(u) \in Nat /\ Left(u)' \in Nat
  BY LeftShape, LeftShapeNext
<1>. QED
  BY <1>1, <1>4, <1>5, <1>6

LEMMA EndpointBehind ==
  ASSUME TypeOK, TypeOK', Held, LeftBehind, NEW w \in Workers, Endpoint(w)
  PROVE  LeftBehind'
<1>. USE DEF rows, inputs, names, history
<1>. DEFINE Ok(u) == Left(u)' + Cardinality(Serving(u)') <= Cardinality(Workers) /\ u \notin excused'
<1>0. ASSUME UNCHANGED accounts, \A u \in Users : u \notin accounts => Ok(u) PROVE LeftBehind'
  BY <1>0 DEF LeftBehind
<1>1. ASSUME Goes(w), UNCHANGED <<rows, excused>>, NEW u \in Users, u \notin accounts PROVE Ok(u)
  BY <1>1, GoesFacts, BehindSame
<1>2. ASSUME RecordNudge(w) \/ RecordEnforcement(w) PROVE LeftBehind'
  <2>1. PICK s, event, op : s \in Sids /\ userOf[s] \in accounts /\ Serve(w, s, event, op)
    BY <1>2 DEF RecordNudge, RecordEnforcement
  <2>2. UNCHANGED <<rows, inputs, names>>
    BY <1>2 DEF RecordNudge, RecordEnforcement
  <2>3. ASSUME NEW u \in Users, u \notin accounts PROVE Ok(u)
    <3>1. Serving(u)' \subseteq Serving(u)
      BY <2>1, <2>2, <2>3, ServeFacts DEF Serving
    <3>. QED
      BY <2>2, <2>3, <3>1, BehindSame
  <2>. QED
    BY <1>0, <2>2, <2>3
<1>3. ASSUME Claim(w) PROVE LeftBehind'
  BY <1>0, <1>1, <1>3, ClaimGoes DEF Claim
<1>4. ASSUME Lock(w) PROVE LeftBehind'
  BY <1>0, <1>1, <1>4, LockGoes DEF Lock
<1>5. ASSUME Rollback(w) PROVE LeftBehind'
  BY <1>0, <1>1, <1>5, ReleaseGoes DEF Rollback
\* The commits: the other accounts keep what they have.
<1>6. ASSUME Release(w), req[w].op = "locked", UNCHANGED <<inputs, names>>,
             NEW d \in Users, d = userOf[req[w].sid],
             \A u \in Users \ {d} : /\ nudge'[u] = nudge[u] /\ grace'[u] = grace[u]
                                    /\ u \in notified' => u \in notified,
             Left(d)' <= Left(d) + 1
      PROVE  LeftBehind'
  <2>1. ASSUME NEW u \in Users, u \notin accounts PROVE Ok(u)
    <3>1. CASE u = d
      BY <1>6, <2>1, <3>1, BehindCommit DEF Idle
    <3>2. CASE u # d
      BY <1>6, <2>1, <3>2, ReleaseGoes, GoesFacts, BehindSame
    <3>. QED
      BY <3>1, <3>2
  <2>. QED
    BY <1>0, <1>6, <2>1
<1>7. ASSUME NEW u \in Users
      PROVE  /\ Left(u)' = nudge'[u].declines + grace'[u] + (IF u \in notified' THEN 1 ELSE 0)
                           + (IF nudge'[u].optOut THEN 1 ELSE 0)
             /\ nudge'[u].declines \in Nat /\ grace'[u] \in Nat
  BY LeftShapeNext
<1>8. ASSUME RecordNudgeEvent(w) PROVE LeftBehind'
  <2>1. /\ req[w].op = "locked" /\ req[w].event \in NudgeEvents /\ Release(w)
        /\ UNCHANGED <<grace, notified, inputs, names>>
    BY <1>8 DEF RecordNudgeEvent, Holds
  <2>2. PICK d \in Users : d = userOf[req[w].sid] /\ req[w].row = nudge[d]
    BY <2>1, RequestType, RequestShape, Holding
  <2>3. nudge' = [nudge EXCEPT ![d] = Fold(nudge[d], req[w].event)]
    BY <1>8, <2>2 DEF RecordNudgeEvent
  <2>4. /\ nudge'[d] = Fold(nudge[d], req[w].event)
        /\ \A u \in Users \ {d} : nudge'[u] = nudge[u]
    BY <2>3 DEF TypeOK
  <2>5. Left(d)' <= Left(d) + 1
    <3>. DEFINE e == req[w].event
    <3>1. /\ nudge'[d].declines = IF e = "shown" THEN nudge[d].declines + 1 ELSE nudge[d].declines
          /\ nudge'[d].optOut = (nudge[d].optOut \/ e = "opt_out")
      BY <2>4 DEF Fold
    <3>2. nudge'[d].optOut => nudge[d].optOut \/ e = "opt_out"
      BY <3>1
    <3>. HIDE DEF e
    <3>3. CASE e = "shown"
      BY <1>7, <2>1, <3>1, <3>2, <3>3, LeftShape
    <3>4. CASE e # "shown"
      BY <1>7, <2>1, <3>1, <3>4, LeftShape
    <3>. QED
      BY <3>3, <3>4
  <2>. QED
    BY <1>6, <2>1, <2>2, <2>4, <2>5
<1>9. ASSUME RecordEnforcementDefer(w) PROVE LeftBehind'
  <2>1. /\ req[w].op = "locked" /\ req[w].event = "defer" /\ Release(w)
        /\ UNCHANGED <<nudge, notified, inputs, names>>
    BY <1>9 DEF RecordEnforcementDefer, Holds
  <2>2. PICK d \in Users : d = userOf[req[w].sid] /\ req[w].row = grace[d]
    BY <2>1, RequestType, RequestShape, Holding
  <2>3. grace' = [grace EXCEPT ![d] = grace[d] + 1]
    BY <1>9, <2>2 DEF RecordEnforcementDefer
  <2>4. grace'[d] = grace[d] + 1 /\ \A u \in Users \ {d} : grace'[u] = grace[u]
    BY <2>3 DEF TypeOK
  <2>5. Left(d)' <= Left(d) + 1
    BY <1>7, <2>1, <2>4, LeftShape
  <2>. QED
    BY <1>6, <2>1, <2>2, <2>4, <2>5
<1>10. ASSUME RecordEnforcementIncapable(w) PROVE LeftBehind'
  <2>1. /\ req[w].op = "locked" /\ req[w].event = "incapable" /\ Release(w)
        /\ UNCHANGED <<nudge, grace, inputs, names>>
    BY <1>10 DEF RecordEnforcementIncapable, Holds
  <2>2. PICK d \in Users : d = userOf[req[w].sid]
    BY <2>1, RequestType, RequestShape, Holding
  <2>3. notified' = notified \/ notified' = notified \cup {d}
    BY <1>10, <2>2 DEF RecordEnforcementIncapable
  <2>4. Left(d)' <= Left(d) + 1
    BY <1>7, <2>1, <2>3, LeftShape
  <2>. QED
    BY <1>6, <2>1, <2>2, <2>3, <2>4
<1>. QED
  BY <1>2, <1>3, <1>4, <1>5, <1>8, <1>9, <1>10 DEF Endpoint

\* What a name without an account inherits is bounded by the requests under way.
LEMMA BehindStep ==
  ASSUME TypeOK, TypeOK', Held, LeftBehind, [Next]_vars
  PROVE  LeftBehind'
<1>. USE DEF rows, inputs, names, history
<1>. DEFINE Ok(u) == Left(u)' + Cardinality(Serving(u)') <= Cardinality(Workers) /\ u \notin excused'
<1>0. ASSUME \A u \in Users : u \notin accounts' => Ok(u) PROVE LeftBehind'
  BY <1>0 DEF LeftBehind
<1>1. ASSUME UNCHANGED <<req, userOf>>, NEW u \in Users, u \notin accounts,
             u \in excused' => u \in excused, nudge'[u] = nudge[u], grace'[u] = grace[u],
             u \in notified' => u \in notified
      PROVE  Ok(u)
  <2>1. Serving(u)' \subseteq Serving(u)
    BY <1>1 DEF Serving
  <2>. QED
    BY <1>1, <2>1, BehindSame
<1>2. ASSUME NEW u \in Users, ResetEnforcementGrace(u) PROVE LeftBehind'
  <2>1. /\ u \in accounts /\ grace' = [grace EXCEPT ![u] = 0]
        /\ UNCHANGED <<nudge, notified, inputs, names, req>>
    BY <1>2 DEF ResetEnforcementGrace
  <2>2. \A v \in Users \ {u} : grace'[v] = grace[v]
    BY <2>1 DEF TypeOK
  <2>. QED
    BY <1>0, <1>1, <2>1, <2>2
<1>3. ASSUME NEW u \in Users, Excuse(u) PROVE LeftBehind'
  <2>1. /\ u \in accounts /\ UNCHANGED <<rows, userOf, accounts, req>>
        /\ \A v : v # u => (v \in excused' => v \in excused)
    BY <1>3 DEF Excuse
  <2>. QED
    BY <1>0, <1>1, <2>1
<1>4. ASSUME NEW u \in Users, LapseNotice(u) PROVE LeftBehind'
  BY <1>0, <1>1, <1>4 DEF LapseNotice
<1>5. ASSUME NEW u \in Users, DeleteUser(u) PROVE LeftBehind'
  <2>1. /\ accounts' = accounts \ {u} /\ UNCHANGED <<userOf, req>>
        /\ nudge' = [nudge EXCEPT ![u] = NoNudge] /\ grace' = [grace EXCEPT ![u] = 0]
        /\ notified' = notified \ {u} /\ excused' = excused \ {u}
    BY <1>5 DEF DeleteUser, ClearUserState
  <2>2. /\ nudge'[u] = NoNudge /\ grace'[u] = 0
        /\ \A v \in Users \ {u} : nudge'[v] = nudge[v] /\ grace'[v] = grace[v]
    BY <2>1 DEF TypeOK
  <2>3. Ok(u)
    BY <2>1, <2>2, BehindCleared
  <2>4. ASSUME NEW v \in Users \ {u}, v \notin accounts' PROVE Ok(v)
    BY <1>1, <2>1, <2>2, <2>4
  <2>. QED
    BY <1>0, <2>3, <2>4
<1>6. ASSUME NEW u \in Users, CreateUser(u) PROVE LeftBehind'
  BY <1>0, <1>1, <1>6 DEF CreateUser
<1>7. ASSUME NEW old \in Users, NEW new \in Users, RenameUser(old, new) PROVE LeftBehind'
  <2>1. /\ old # new /\ old \in accounts /\ UNCHANGED <<userOf, req>>
        /\ nudge'[old] = NoNudge /\ grace'[old] = 0
        /\ \A u \in Users \ {old, new} : nudge'[u] = nudge[u] /\ grace'[u] = grace[u]
    BY <1>7, RenameFacts
  <2>2. accounts' = MovedName(accounts, old, new) /\ excused' = MovedName(excused, old, new)
    BY <1>7 DEF RenameUser
  <2>3. notified' = notified \ {old} \/ notified' = MovedName(notified, old, new)
    BY <1>7 DEF RenameUser
  <2>4. new \in accounts' /\ \A u \in Users \ {old, new} : u \notin accounts' => u \notin accounts
    BY <2>1, <2>2 DEF MovedName
  <2>5. old \notin excused' /\ \A u \in Users \ {old, new} : u \in excused' => u \in excused
    BY <2>1, <2>2 DEF MovedName
  <2>6. old \notin notified' /\ \A u \in Users \ {old, new} : u \in notified' => u \in notified
    BY <2>1, <2>3 DEF MovedName
  <2>7. Ok(old)
    BY <2>1, <2>5, <2>6, BehindCleared
  <2>8. ASSUME NEW u \in Users \ {old, new}, u \notin accounts' PROVE Ok(u)
    BY <1>1, <2>1, <2>4, <2>5, <2>6, <2>8
  <2>. QED
    BY <1>0, <2>4, <2>7, <2>8
<1>8. ASSUME NEW s \in Sids, LapseClaim(s) PROVE LeftBehind'
  BY <1>0, <1>1, <1>8 DEF LapseClaim
<1>9. CASE SetPolicy \/ UNCHANGED vars
  BY <1>0, <1>1, <1>9 DEF SetPolicy, vars
<1>. QED
  BY <1>2, <1>3, <1>4, <1>5, <1>6, <1>7, <1>8, <1>9, EndpointBehind DEF Next

-----------------------------------------------------------------------------
(* The invariant.                                                          *)

LEMMA IInvInit == Init => IInv
<1>. SUFFICES ASSUME Init PROVE IInv
  OBVIOUS
<1>1. /\ \A u \in Users : nudge[u] = NoNudge /\ grace[u] = 0 /\ shown[u] = 0 /\ deferred[u] = 0
                          /\ mailed[u] = 0 /\ lock[u] = Free
      /\ \A w \in Workers : req[w] = Idle
      /\ \A s \in Sids : spent[s] = 0 /\ lapses[s] = 0
      /\ notified = {} /\ excused = {} /\ opted = {} /\ claims = {} /\ passed = 0
  BY DEF Init
<1>2. TypeOK
  <2>1. nudge \in [Users -> NudgeRows] /\ grace \in [Users -> Nat]
    BY DEF Init, NudgeRows, NoNudge
  <2>2. /\ shown \in [Users -> Nat] /\ deferred \in [Users -> Nat] /\ mailed \in [Users -> Nat]
        /\ spent \in [Sids -> Nat] /\ lapses \in [Sids -> Nat]
    BY DEF Init
  <2>3. /\ moves \in Nat /\ passed \in Nat /\ notified \subseteq Users /\ excused \subseteq Users
        /\ opted \subseteq Users /\ accounts \subseteq Users
    BY CadenceAssumption DEF Init
  <2>4. /\ {shown, deferred, mailed} \subseteq [Users -> Nat]
        /\ {spent, lapses} \subseteq [Sids -> Nat] /\ {moves, passed} \subseteq Nat
        /\ UNION {notified, excused, opted, accounts} \subseteq Users
    BY <2>2, <2>3, CountType
  <2>5. /\ userOf \in [Sids -> Users] /\ asked \subseteq Events
        /\ policy \in {"off", "degrade", "notify"} /\ claims \subseteq Sids
        /\ req \in [Workers -> Requests \cup {Idle}] /\ lock \in [Users -> Workers \cup {Free}]
    BY DEF Init
  <2>6. \A w \in Workers : req[w].op = "locked" <=> \E u \in Users : lock[u] = w
    BY <1>1, CadenceAssumption DEF Idle
  <2>. QED
    BY <2>1, <2>4, <2>5, <2>6 DEF TypeOK
<1>3. Held /\ NothingLost /\ OneAdvisoryPerWindow
  BY <1>1, CadenceAssumption DEF Held, NothingLost, OneAdvisoryPerWindow, NoNudge
<1>4. Cardinality({}) = 0
  BY FS_EmptySet
<1>5. DefersClaimed
  <2>1. \A s \in Sids : Claimed(s) = {}
    BY <1>1 DEF Claimed, Idle
  <2>. QED
    BY <1>1, <1>4, <2>1 DEF DefersClaimed
<1>6. \A u \in Users : Serving(u) = {} /\ Deferring(u) = {}
  BY <1>1 DEF Serving, Deferring
<1>7. BudgetSlips
  BY <1>1, <1>6 DEF BudgetSlips
<1>8. LeftBehind
  <2>1. \A u \in Users : Left(u) = 0
    BY <1>1, <1>2, LeftShape DEF NoNudge
  <2>2. Cardinality(Workers) \in Nat
    BY CadenceAssumption, FS_CardinalityType
  <2>. QED
    BY <1>1, <1>4, <1>6, <2>1, <2>2 DEF LeftBehind
<1>. QED
  BY <1>2, <1>3, <1>5, <1>7, <1>8 DEF IInv

LEMMA IInvStep == IInv /\ [Next]_vars => IInv'
<1>. SUFFICES ASSUME IInv, [Next]_vars PROVE IInv'
  OBVIOUS
<1>1. TypeOK /\ Exact /\ Held /\ DefersClaimed /\ OneAdvisoryPerWindow /\ BudgetSlips /\ LeftBehind
  BY DEF IInv, Exact
<1>2. TypeOK'
  BY <1>1, TypeStep
<1>3. Held' /\ NothingLost'
  BY <1>1, ExactStep DEF Exact
<1>4. DefersClaimed' /\ BudgetSlips' /\ LeftBehind'
  BY <1>1, <1>2, ClaimedStep, BudgetStep, BehindStep
<1>5. OneAdvisoryPerWindow'
  BY <1>1, AdvisoryStep
<1>. QED
  BY <1>2, <1>3, <1>4, <1>5 DEF IInv

LEMMA IInvHolds == Spec => []IInv
BY IInvInit, IInvStep, PTL DEF Spec

-----------------------------------------------------------------------------
(* Results.                                                                *)

\* Every reachable state is well typed, and every locked User row is locked by
\* the one request that has read it (_lock_state).
THEOREM TypeCorrect == Spec => []TypeOK
<1>1. IInv => TypeOK
  BY DEF IInv
<1>. QED
  BY <1>1, IInvHolds, PTL

\* No prompt, deferral or opt-out that a request committed is lost or counted
\* twice, however many requests, renames and deletions overlap it
\* (record_nudge_event, record_enforcement_defer, rename_user_state).
THEOREM NothingIsLost == Spec => []NothingLost
<1>1. IInv => NothingLost
  BY DEF IInv
<1>. QED
  BY <1>1, IInvHolds, PTL

\* A session spends one grace login per claim, whatever is retried or rolled
\* back, and a window of the advisory is opened by exactly one mail
\* (claim_enforcement_defer, record_enforcement_incapable).
THEOREM NothingIsTwice == Spec => []NothingTwice
<1>1. IInv => NothingTwice
  <2>. SUFFICES ASSUME IInv PROVE NothingTwice
    OBVIOUS
  <2>1. ASSUME NEW s \in Sids PROVE spent[s] <= 1 + lapses[s]
    <3>1. spent[s] \in Nat /\ lapses[s] \in Nat
      BY CountShape DEF IInv
    <3>2. PICK A \in SUBSET Workers : A = Claimed(s)
      BY DEF Claimed
    <3>3. Cardinality(A) \in Nat
      BY WorkerSets
    <3>4. spent[s] + Cardinality(A) <= lapses[s] + (IF s \in claims THEN 1 ELSE 0)
      BY <3>2 DEF IInv, DefersClaimed
    <3>. QED
      BY <3>1, <3>3, <3>4
  <2>. QED
    BY <2>1 DEF IInv, NothingTwice, OneDeferPerSession
<1>. QED
  BY <1>1, IInvHolds, PTL

\* What the unlocked reads let slip is bounded by the requests under way: a
\* budget is exceeded by less than the workers for each account the row has
\* had, and a name without an account keeps no more rows than there are workers
\* and no exemption (record_enforcement, clear_user_state, rename_user_state).
THEOREM OnlyUnderwaySlips == Spec => []OnlyInFlightSlips
<1>1. IInv => OnlyInFlightSlips
  <2>. SUFFICES ASSUME IInv, NEW u \in Users
       PROVE  /\ grace[u] # 0 => grace[u] < GRACE + Cardinality(Workers) * (1 + passed)
              /\ u \notin accounts => Left(u) <= Cardinality(Workers) /\ u \notin excused
    BY DEF OnlyInFlightSlips
  <2>1. PICK A \in SUBSET Workers, B \in SUBSET Workers : A = Serving(u) /\ B = Deferring(u)
    BY DEF Serving, Deferring
  <2>2. Cardinality(A) \in Nat /\ Cardinality(B) \in Nat /\ Cardinality(Workers) \in Nat
    BY WorkerSets
  <2>3. TypeOK /\ BudgetSlips /\ LeftBehind
    BY DEF IInv
  <2>4. grace[u] \in Nat /\ Left(u) \in Nat /\ passed \in Nat
    BY <2>3, LeftShape, CountShape
  <2>5. Bound(passed) \in Nat
    BY <2>4, BoundGrows
  <2>6. grace[u] # 0 => grace[u] < Bound(passed)
    <3>1. grace[u] # 0 => grace[u] + Cardinality(B) < Bound(passed)
      BY <2>1, <2>3 DEF BudgetSlips, Bound
    <3>. QED
      BY <2>2, <2>4, <2>5, <3>1
  <2>7. u \notin accounts => Left(u) <= Cardinality(Workers) /\ u \notin excused
    <3>1. u \notin accounts => Left(u) + Cardinality(A) <= Cardinality(Workers) /\ u \notin excused
      BY <2>1, <2>3 DEF LeftBehind
    <3>. QED
      BY <2>2, <2>4, <3>1
  <2>. QED
    BY <2>6, <2>7 DEF Bound
<1>. QED
  BY <1>1, IInvHolds, PTL
=============================================================================
