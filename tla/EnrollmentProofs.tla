--------------------------- MODULE EnrollmentProofs ---------------------------
(* Proofs about Enrollment, for any accounts, sessions, workers and bounds.  *)
EXTENDS Enrollment, FiniteSetTheorems, FunctionTheorems, SequenceTheorems, TLAPS

\* The root of a ceremony is in one place: stored, in one worker's hands, or in
\* one row.
OnePlace ==
    /\ \A id \in Stored : id <= roots
    /\ \A w \in Verifying : req[w].rec.root <= roots /\ req[w].rec.root \notin Stored
    /\ \A row \in rows : row.root <= roots /\ row.root \notin Stored
    /\ \A w, o \in Verifying : w # o => req[w].rec.root # req[o].rec.root
    /\ \A w \in Verifying, row \in rows : row.root # req[w].rec.root
    /\ OneRowPerCeremony

\* A ceremony under way names the handle of its account, or is severed.
Promised ==
    /\ \A id \in Stored : records[id].uid = handle[account[records[id].sid]] \/ id \in severed
    /\ \A w \in Verifying : req[w].rec.uid = handle[req[w].user] \/ req[w].rec.root \in severed

\* A merge is of two accounts.
OfTwo == \A w \in Workers : req[w].op = "merge" => req[w].old # req[w].new

IInv ==
    /\ TypeOK /\ OfTwo /\ OnePlace /\ Promised /\ CarriesHandle
    /\ IsFiniteSet(rows) /\ CapKept

-----------------------------------------------------------------------------
(* Shapes.                                                                 *)

\* A verifying request carries the record it consumed.
LEMMA VerifyShape ==
  ASSUME TypeOK, NEW w \in Workers, req[w].op = "verify"
  PROVE  /\ req[w].user \in Users /\ req[w].user = account[req[w].rec.sid]
         /\ req[w].rec \in RecordType
         /\ req[w].cred \in Credentials /\ req[w].rp \in Rps
BY DEF TypeOK, RequestType, Idle

\* A merge carries the two names.
LEMMA MergeShape ==
  ASSUME TypeOK, NEW w \in Workers, req[w].op = "merge"
  PROVE  req[w].old \in Users /\ req[w].new \in Users
BY DEF TypeOK, RequestType, Idle

\* A ceremony that is begun for a session with a window of some class.
LEMMA AuthorizedClass ==
  ASSUME NEW s \in Sids, NEW flow \in Flows, Authorized(s, flow)
  PROVE  window[s] \in Classes
BY DEF Authorized, FullSudo, Classes, Flows

\* The handle an account gets is one of the handles there are.
LEMMA HandleShape ==
  ASSUME TypeOK, NEW u \in Users, GetOrCreateHandle(u)
  PROVE  /\ HandleOf(u) \in Handles
         /\ handle' = [handle EXCEPT ![u] = HandleOf(u)]
         /\ handle' \in [Users -> 0..MaxHandles] /\ handles' \in 0..MaxHandles
         /\ handle[u] # 0 => handle' = handle
         /\ u \in exists
<1>1. HandleOf(u) \in Handles
  BY EnrollmentAssumption DEF TypeOK, GetOrCreateHandle, HandleOf, NeedsHandle, Handles
<1>. QED
  BY <1>1, EnrollmentAssumption DEF TypeOK, GetOrCreateHandle, HandleOf, NeedsHandle, Handles

-----------------------------------------------------------------------------
(* Types.                                                                  *)

\* A move of rows and handle from one name to another keeps the shapes.
LEMMA RepointType ==
  ASSUME TypeOK, NEW old \in Users, NEW new \in Users, Repoint(old, new)
  PROVE  /\ exists' \subseteq Users /\ rows' \subseteq RowType
         /\ handle' \in [Users -> 0..MaxHandles]
         /\ severed' \subseteq Roots
         /\ \A a, b \in rows' : a # b => a.cred # b.cred
<1>1. exists' \subseteq Users
  BY DEF Repoint, TypeOK
<1>2. rows' \subseteq RowType
  <2>1. rows \subseteq RowType
    BY DEF TypeOK
  <2>2. rows' = {[row EXCEPT !.user = IF @ = old THEN new ELSE @] : row \in rows}
    BY DEF Repoint
  <2>. QED
    BY <2>1, <2>2 DEF RowType
<1>3. handle' \in [Users -> 0..MaxHandles]
  BY EnrollmentAssumption DEF Repoint, TypeOK
<1>4. Underway(old) \subseteq Roots
  <2>1. \A w \in Workers : req[w].op = "verify" => req[w].rec.root \in Roots
    BY VerifyShape DEF RecordType
  <2>. QED
    BY <2>1 DEF Underway
<1>5. ASSUME NEW a \in rows', NEW b \in rows', a # b PROVE a.cred # b.cred
  <2>1. PICK c \in rows : a = [c EXCEPT !.user = IF @ = old THEN new ELSE @]
    BY DEF Repoint
  <2>2. PICK d \in rows : b = [d EXCEPT !.user = IF @ = old THEN new ELSE @]
    BY DEF Repoint
  <2>3. c # d /\ c \in RowType /\ d \in RowType
    BY <1>5, <2>1, <2>2 DEF TypeOK
  <2>4. a.cred = c.cred /\ b.cred = d.cred
    BY <2>1, <2>2, <2>3 DEF RowType
  <2>. QED
    BY <2>3, <2>4 DEF TypeOK
<1>. QED
  BY <1>1, <1>2, <1>3, <1>4, <1>5 DEF Repoint, TypeOK

\* What a row says of its ceremony.
LEMMA CarriesShape ==
  ASSUME NEW row \in RowType
  PROVE  Carries(row, row.user) \in [id : Roots, terms : Terms]
BY DEF RowType, Carries, Terms

\* Every step keeps the shapes.
LEMMA TypeStep ==
  ASSUME TypeOK, [Next]_vars
  PROVE  TypeOK'
<1>. USE DEF names, settings, history
<1>1. ASSUME NEW s \in Sids, ChangeWindow(s) PROVE TypeOK'
  BY <1>1 DEF TypeOK, ChangeWindow
<1>2. ASSUME NEW s \in Sids, NEW flow \in Flows, BeginRegistration(s, flow) PROVE TypeOK'
  <2>. DEFINE u == account[s]
              r == [type |-> "register", root |-> roots + 1, sid |-> s,
                    authorization |-> window[s], rp |-> rp, uid |-> HandleOf(u)]
  <2>1. u \in Users /\ roots + 1 \in Roots
    BY <1>2, EnrollmentAssumption DEF TypeOK, BeginRegistration, Roots
  <2>2. /\ handle' \in [Users -> 0..MaxHandles] /\ handles' \in 0..MaxHandles
        /\ HandleOf(u) \in Handles
    BY <1>2, <2>1, HandleShape DEF BeginRegistration
  <2>3. r \in RecordType
    <3>1. window[s] \in Classes
      BY <1>2, AuthorizedClass DEF BeginRegistration
    <3>. QED
      BY <2>1, <2>2, <3>1 DEF RecordType, TypeOK
  <2>4. /\ records' = [records EXCEPT ![roots + 1] = r] /\ roots' = roots + 1
        /\ UNCHANGED <<names, rows, window, settings, req, history>>
    BY <1>2 DEF BeginRegistration
  <2>5. records' \in [Roots -> RecordType \cup {Gone}]
    BY <2>1, <2>3, <2>4 DEF TypeOK
  <2>6. \A id \in Roots : records'[id] # Gone => records'[id].root = id
    BY <2>1, <2>4 DEF TypeOK
  <2>7. roots' \in 0..MaxRoots
    BY <2>1, <2>4 DEF TypeOK, Roots
  <2>. QED
    BY <2>2, <2>4, <2>5, <2>6, <2>7 DEF TypeOK
<1>3. ASSUME NEW w \in Workers, StartVerify(w) PROVE TypeOK'
  <2>. PICK id \in Roots, s \in Sids, c \in Credentials :
         /\ req[w] = Idle /\ records[id] # Gone
         /\ records' = [records EXCEPT ![id] = Gone]
         /\ req' = IF records[id].sid = s /\ AnyMode(on)
                   THEN [req EXCEPT ![w] = [op |-> "verify", user |-> account[s],
                           rec |-> records[id], cred |-> c, on |-> on, rp |-> rp]]
                   ELSE req
         /\ UNCHANGED <<names, rows, handle, handles, window, settings, roots, history>>
    BY <1>3 DEF StartVerify, Consume
  <2>. DEFINE q == [op |-> "verify", user |-> account[s], rec |-> records[id], cred |-> c,
                    on |-> on, rp |-> rp]
  <2>1. q \in RequestType
    BY DEF TypeOK, RequestType
  <2>2. records' \in [Roots -> RecordType \cup {Gone}]
        /\ \A i \in Roots : records'[i] # Gone => records'[i].root = i
    BY DEF TypeOK
  <2>3. req' \in [Workers -> RequestType]
    BY <2>1 DEF TypeOK
  <2>4. \A o \in Workers : req'[o].op = "verify" => req'[o].user = account[req'[o].rec.sid]
    BY DEF TypeOK
  <2>. QED
    BY <2>2, <2>3, <2>4 DEF TypeOK
<1>4. ASSUME NEW w \in Workers, InsertVerifiedCredential(w) PROVE TypeOK'
  <2>1. /\ req[w].op = "verify" /\ GetOrCreateHandle(req[w].user)
        /\ rows' = rows \cup {[cred |-> req[w].cred, user |-> req[w].user, enabled |-> TRUE,
                               rp |-> req[w].rec.rp, uid |-> req[w].rec.uid,
                               root |-> req[w].rec.root,
                               authorization |-> req[w].rec.authorization]}
        /\ req' = [req EXCEPT ![w] = Idle]
        /\ UNCHANGED <<names, window, settings, records, roots, severed>>
    BY <1>4 DEF InsertVerifiedCredential, End
  <2>2. /\ req[w].user \in Users /\ req[w].rec \in RecordType /\ req[w].cred \in Credentials
    BY <2>1, VerifyShape
  <2>3. rows' \subseteq RowType
    <3>. DEFINE r == req[w].rec
    <3>1. /\ r.root \in Roots /\ r.authorization \in Classes /\ r.rp \in Rps
          /\ r.uid \in Handles
      BY <2>2 DEF RecordType
    <3>. HIDE DEF r
    <3>2. [cred |-> req[w].cred, user |-> req[w].user, enabled |-> TRUE, rp |-> r.rp,
           uid |-> r.uid, root |-> r.root, authorization |-> r.authorization] \in RowType
      BY <2>2, <3>1 DEF RowType
    <3>. QED
      BY <2>1, <3>2 DEF TypeOK, r
  <2>4. handle' \in [Users -> 0..MaxHandles] /\ handles' \in 0..MaxHandles
    BY <2>1, <2>2, HandleShape
  <2>5. /\ req' \in [Workers -> RequestType]
        /\ \A o \in Workers : req'[o].op = "verify" => req'[o].user = account[req'[o].rec.sid]
    BY <2>1 DEF TypeOK, RequestType, Idle
  <2>6. registered' \in Seq([id : Roots, terms : Terms])
    <3>. DEFINE row == [cred |-> req[w].cred, user |-> req[w].user, enabled |-> TRUE,
                        rp |-> req[w].rec.rp, uid |-> req[w].rec.uid, root |-> req[w].rec.root,
                        authorization |-> req[w].rec.authorization]
    <3>1. registered' = Append(registered, Carries(row, row.user))
      BY <1>4 DEF InsertVerifiedCredential
    <3>2. row \in RowType
      BY <2>1, <2>3
    <3>. HIDE DEF row
    <3>3. Carries(row, row.user) \in [id : Roots, terms : Terms]
      BY <3>2, CarriesShape
    <3>. QED
      BY <3>1, <3>3 DEF TypeOK
  <2>7. \A a, b \in rows' : a # b => a.cred # b.cred
    <3>1. \A a \in rows : a.cred # req[w].cred
      BY <1>4 DEF InsertVerifiedCredential, Unregistered
    <3>2. \A a, b \in rows : a # b => a.cred # b.cred
      BY DEF TypeOK
    <3>3. PICK new : new.cred = req[w].cred /\ rows' = rows \cup {new}
      BY <2>1
    <3>. QED
      BY <3>1, <3>2, <3>3
  <2>. QED
    BY <2>1, <2>3, <2>4, <2>5, <2>6, <2>7 DEF TypeOK
<1>5. ASSUME NEW w \in Workers, Abandon(w) PROVE TypeOK'
  <2>1. /\ req' \in [Workers -> RequestType]
        /\ \A o \in Workers : req'[o].op = "verify" => req'[o].user = account[req'[o].rec.sid]
    BY <1>5 DEF TypeOK, RequestType, Idle, Abandon, End
  <2>. QED
    BY <1>5, <2>1 DEF TypeOK, Abandon
<1>6. ASSUME NEW w \in Workers, BeginMerge(w) PROVE TypeOK'
  <2>1. /\ req' \in [Workers -> RequestType]
        /\ \A o \in Workers : req'[o].op = "verify" => req'[o].user = account[req'[o].rec.sid]
    BY <1>6 DEF TypeOK, RequestType, BeginMerge
  <2>. QED
    BY <1>6, <2>1 DEF TypeOK, BeginMerge
<1>7. ASSUME NEW w \in Workers, MergeUsers(w) PROVE TypeOK'
  <2>1. /\ req[w].op = "merge" /\ Repoint(req[w].old, req[w].new)
        /\ req' = [req EXCEPT ![w] = Idle]
        /\ UNCHANGED <<account, handles, window, settings, records, roots, registered>>
    BY <1>7 DEF MergeUsers, End
  <2>2. /\ exists' \subseteq Users /\ rows' \subseteq RowType
        /\ handle' \in [Users -> 0..MaxHandles] /\ severed' \subseteq Roots
        /\ \A a, b \in rows' : a # b => a.cred # b.cred
    BY <2>1, MergeShape, RepointType
  <2>3. /\ req' \in [Workers -> RequestType]
        /\ \A o \in Workers : req'[o].op = "verify" => req'[o].user = account[req'[o].rec.sid]
    BY <2>1 DEF TypeOK, RequestType, Idle
  <2>. QED
    BY <2>1, <2>2, <2>3 DEF TypeOK
<1>8. ASSUME NEW id \in Roots, Expire(id) PROVE TypeOK'
  BY <1>8 DEF TypeOK, Expire
<1>9. ASSUME NEW u \in Users, TrashHandle(u) \/ DeleteUser(u) PROVE TypeOK'
  <2>1. Underway(u) \subseteq Roots
    <3>1. \A w \in Workers : req[w].op = "verify" => req[w].rec.root \in Roots
      BY VerifyShape DEF RecordType
    <3>. QED
      BY <3>1 DEF Underway
  <2>2. handle' \in [Users -> 0..MaxHandles]
    <3>1. handle \in [Users -> 0..MaxHandles] /\ handle' = [handle EXCEPT ![u] = 0]
      BY <1>9 DEF TypeOK, TrashHandle, DeleteUser
    <3>. QED
      BY <3>1, EnrollmentAssumption
  <2>. QED
    BY <1>9, <2>1, <2>2 DEF TypeOK, TrashHandle, DeleteUser, RowsOf
<1>10. ASSUME NEW old \in Users, NEW new \in Users, RenameUser(old, new) PROVE TypeOK'
  <2>1. /\ exists' \subseteq Users /\ rows' \subseteq RowType
        /\ handle' \in [Users -> 0..MaxHandles] /\ severed' \subseteq Roots
        /\ \A a, b \in rows' : a # b => a.cred # b.cred
    BY <1>10, RepointType DEF RenameUser
  <2>. QED
    BY <1>10, <2>1 DEF TypeOK, RenameUser
<1>11. ASSUME ChangeRow PROVE TypeOK'
  <2>1. PICK row \in rows :
          rows' \in {rows \ {row}, (rows \ {row}) \cup {[row EXCEPT !.enabled = ~ @]}}
    BY <1>11 DEF ChangeRow
  <2>2. [row EXCEPT !.enabled = ~ @] \in RowType
    BY <2>1, ZenonT(60) DEF TypeOK, RowType
  <2>3. rows' \subseteq RowType
    BY <2>1, <2>2 DEF TypeOK
  <2>4. PICK new : new.cred = row.cred
                   /\ rows' \in {rows \ {row}, (rows \ {row}) \cup {new}}
    <3>1. [row EXCEPT !.enabled = ~ @].cred = row.cred
      BY <2>1 DEF TypeOK, RowType
    <3>. QED
      BY <2>1, <3>1
  <2>5. \A a, b \in rows : a # b => a.cred # b.cred
    BY DEF TypeOK
  <2>6. \A a, b \in rows' : a # b => a.cred # b.cred
    BY <2>1, <2>4, <2>5
  <2>. QED
    BY <1>11, <2>3, <2>6 DEF TypeOK, ChangeRow
<1>12. ASSUME ChangeSettings PROVE TypeOK'
  BY <1>12 DEF TypeOK, ChangeSettings
<1>13. CASE UNCHANGED vars
  BY <1>13 DEF TypeOK, vars
<1>. QED
  BY <1>1, <1>2, <1>3, <1>4, <1>5, <1>6, <1>7, <1>8, <1>9, <1>10, <1>11, <1>12, <1>13
  DEF Next, Serve

-----------------------------------------------------------------------------
(* Steps of one kind.  A quiet step begins no ceremony and no verification. *)

Quiet ==
    /\ roots' = roots /\ account' = account /\ cap' = cap
    /\ \A id \in Stored' : id \in Stored /\ records'[id] = records[id]
    /\ \A w \in Verifying' : w \in Verifying /\ req'[w] = req[w]

\* The records and requests under way have a session and a handle.
LEMMA UnderwayShape ==
  ASSUME TypeOK
  PROVE  /\ \A id \in Stored : /\ records[id] \in RecordType /\ records[id].root = id
                             /\ records[id].uid # 0 /\ account[records[id].sid] \in Users
         /\ \A w \in Verifying : /\ req[w].rec \in RecordType /\ req[w].user \in Users
                                 /\ req[w].rec.uid # 0 /\ req[w].rec.root \in Roots
<1>1. \A r \in RecordType : /\ r.uid # 0 /\ r.root \in Roots /\ r.sid \in Sids
  BY DEF RecordType, Handles
<1>2. \A id \in Stored : records[id] \in RecordType /\ records[id].root = id
  BY DEF TypeOK, Stored
<1>3. \A w \in Verifying : req[w].rec \in RecordType /\ req[w].user \in Users
  BY VerifyShape DEF Verifying
<1>. QED
  BY <1>1, <1>2, <1>3 DEF TypeOK

\* A step that leaves the rows and handles alone.
LEMMA QuietStep ==
  ASSUME IInv, Quiet, UNCHANGED <<exists, rows, handle, severed>>
  PROVE  (OnePlace /\ Promised /\ CarriesHandle /\ IsFiniteSet(rows) /\ CapKept)'
<1>1. OnePlace'
  BY DEF IInv, OnePlace, OneRowPerCeremony, Quiet, Stored, Verifying
<1>2. Promised'
  BY DEF IInv, Promised, Quiet, Stored, Verifying
<1>3. (CarriesHandle /\ IsFiniteSet(rows) /\ CapKept)'
  BY DEF IInv, CarriesHandle, CapKept, RowsOf, Quiet
<1>. QED
  BY <1>1, <1>2, <1>3

\* Rows that only go, with the same root.
LEMMA FewerRows ==
  ASSUME IInv, Quiet, rows' \subseteq rows
  PROVE  (OnePlace /\ IsFiniteSet(rows) /\ CapKept)'
<1>1. OnePlace'
  BY DEF IInv, OnePlace, OneRowPerCeremony, Quiet, Stored, Verifying
<1>2. IsFiniteSet(rows')
  BY FS_Subset DEF IInv
<1>3. CapKept'
  <2>. SUFFICES ASSUME NEW u \in Users PROVE Cardinality(RowsOf(u, rows')) <= cap
    BY DEF CapKept, Quiet
  <2>1. RowsOf(u, rows') \subseteq RowsOf(u, rows) /\ RowsOf(u, rows) \subseteq rows
    BY DEF RowsOf
  <2>2. IsFiniteSet(RowsOf(u, rows))
    BY <2>1, FS_Subset DEF IInv
  <2>3. /\ Cardinality(RowsOf(u, rows')) <= Cardinality(RowsOf(u, rows))
        /\ IsFiniteSet(RowsOf(u, rows'))
    BY <2>1, <2>2, FS_Subset
  <2>4. Cardinality(RowsOf(u, rows)) <= cap
    BY DEF IInv, CapKept
  <2>5. /\ Cardinality(RowsOf(u, rows')) \in Nat /\ Cardinality(RowsOf(u, rows)) \in Nat
        /\ cap \in Nat
    BY <2>2, <2>3, FS_CardinalityType, EnrollmentAssumption DEF IInv, TypeOK
  <2>. QED
    BY <2>3, <2>4, <2>5
<1>. QED
  BY <1>1, <1>2, <1>3

\* An account that has no handle has no row, and what is under way for it is
\* severed.
LEMMA NoHandle ==
  ASSUME IInv, NEW u \in Users, handle[u] = 0
  PROVE  /\ RowsOf(u, rows) = {}
         /\ \A id \in Stored : account[records[id].sid] = u => id \in severed
         /\ \A w \in Verifying : req[w].user = u => req[w].rec.root \in severed
<1>1. RowsOf(u, rows) = {}
  BY DEF IInv, CarriesHandle, RowsOf
<1>. QED
  BY <1>1, UnderwayShape DEF IInv, Promised

\* _get_or_create_handle gives an account without one a handle and changes no
\* other, so that what names a handle still names it.
LEMMA HandleGiven ==
  ASSUME IInv, NEW u \in Users, GetOrCreateHandle(u), UNCHANGED <<exists, account>>
  PROVE  /\ \A v \in Users : handle'[v] # 0 => v \in exists
         /\ \A v \in Users : handle[v] # 0 => handle'[v] = handle[v]
         /\ \A id \in Stored : records[id].uid = handle'[account[records[id].sid]] \/ id \in severed
         /\ \A w \in Verifying :
              req[w].rec.uid = handle'[req[w].user] \/ req[w].rec.root \in severed
         /\ handle'[u] = HandleOf(u) /\ handle'[u] # 0
<1>1. /\ handle' = [handle EXCEPT ![u] = HandleOf(u)]
      /\ handle[u] # 0 => handle' = handle
      /\ u \in exists /\ HandleOf(u) \in Handles
  BY HandleShape DEF IInv
<1>2. \A v \in Users : handle'[v] # handle[v] => v = u /\ handle[u] = 0
  BY <1>1 DEF IInv, TypeOK
<1>3. \A v \in Users : handle'[v] # 0 => v \in exists
  BY <1>1, <1>2 DEF IInv, CarriesHandle
<1>4. \A id \in Stored : records[id].uid = handle'[account[records[id].sid]] \/ id \in severed
  <2>. SUFFICES ASSUME NEW id \in Stored
       PROVE records[id].uid = handle'[account[records[id].sid]] \/ id \in severed
    OBVIOUS
  <2>1. account[records[id].sid] \in Users
    BY UnderwayShape DEF IInv
  <2>2. CASE handle[account[records[id].sid]] = 0
    BY <2>1, <2>2, NoHandle
  <2>3. CASE handle[account[records[id].sid]] # 0
    BY <2>1, <2>3, <1>2 DEF IInv, Promised
  <2>. QED
    BY <2>2, <2>3
<1>5. \A w \in Verifying : req[w].rec.uid = handle'[req[w].user] \/ req[w].rec.root \in severed
  <2>. SUFFICES ASSUME NEW w \in Verifying
       PROVE req[w].rec.uid = handle'[req[w].user] \/ req[w].rec.root \in severed
    OBVIOUS
  <2>1. req[w].user \in Users
    BY UnderwayShape DEF IInv
  <2>2. CASE handle[req[w].user] = 0
    BY <2>1, <2>2, NoHandle
  <2>3. CASE handle[req[w].user] # 0
    BY <2>1, <2>3, <1>2 DEF IInv, Promised
  <2>. QED
    BY <2>2, <2>3
<1>. QED
  BY <1>1, <1>2, <1>3, <1>4, <1>5 DEF IInv, TypeOK, Handles

\* _get_or_create_handle keeps the rows with their handle.
LEMMA HandleGivenRows ==
  ASSUME IInv, NEW u \in Users, GetOrCreateHandle(u), UNCHANGED <<exists, account>>
  PROVE  \A row \in rows : /\ row.user \in exists /\ handle'[row.user] # 0
                           /\ row.uid = handle'[row.user] \/ row.root \in severed
<1>1. \A row \in rows : row.user \in Users
  BY DEF IInv, TypeOK, RowType
<1>. QED
  BY <1>1, HandleGiven DEF IInv, CarriesHandle

\* An account that goes, or whose handle is deleted: its rows are gone, and what
\* is under way for it is severed.
LEMMA HandleTaken ==
  ASSUME IInv, NEW u \in Users, Quiet,
         Stored' = Stored, Verifying' = Verifying,
         handle' = [handle EXCEPT ![u] = 0], severed' = severed \cup Underway(u),
         exists \ {u} \subseteq exists', rows' = rows \ RowsOf(u, rows)
  PROVE  (OnePlace /\ Promised /\ CarriesHandle /\ IsFiniteSet(rows) /\ CapKept)'
<1>1. (OnePlace /\ IsFiniteSet(rows) /\ CapKept)'
  BY FewerRows
<1>2. \A v \in Users : handle'[v] = IF v = u THEN 0 ELSE handle[v]
  BY DEF IInv, TypeOK
<1>3. Promised'
  <2>1. ASSUME NEW id \in Stored
        PROVE  records[id].uid = handle'[account[records[id].sid]] \/ id \in severed'
    <3>1. account[records[id].sid] \in Users
      BY UnderwayShape DEF IInv
    <3>. QED
      BY <1>2, <3>1 DEF IInv, Promised, Underway, Stored
  <2>2. ASSUME NEW w \in Verifying
        PROVE  req[w].rec.uid = handle'[req[w].user] \/ req[w].rec.root \in severed'
    <3>1. req[w].user \in Users
      BY UnderwayShape DEF IInv
    <3>. QED
      BY <1>2, <3>1 DEF IInv, Promised, Underway, Verifying
  <2>. QED
    BY <2>1, <2>2 DEF Promised, Quiet
<1>4. CarriesHandle'
  <2>1. \A v \in Users : handle'[v] # 0 => v \in exists'
    BY <1>2 DEF IInv, CarriesHandle
  <2>2. ASSUME NEW row \in rows'
        PROVE  /\ row.user \in exists' /\ handle'[row.user] # 0
               /\ row.uid = handle'[row.user] \/ row.root \in severed'
    <3>1. row \in rows /\ row.user # u /\ row.user \in Users
      BY DEF RowsOf, IInv, TypeOK, RowType
    <3>. QED
      BY <1>2, <3>1 DEF IInv, CarriesHandle
  <2>. QED
    BY <2>1, <2>2 DEF CarriesHandle
<1>. QED
  BY <1>1, <1>3, <1>4

-----------------------------------------------------------------------------
(* A move to another name (Repoint).                                       *)

Moved(row, old, new) == [row EXCEPT !.user = IF @ = old THEN new ELSE @]

\* A moved row is the same but for its name.
LEMMA MovedRow ==
  ASSUME NEW row \in RowType, NEW old \in Users, NEW new \in Users
  PROVE  /\ Moved(row, old, new) \in RowType
         /\ Moved(row, old, new).root = row.root /\ Moved(row, old, new).uid = row.uid
         /\ Moved(row, old, new).user = IF row.user = old THEN new ELSE row.user
         /\ row.user # old => Moved(row, old, new) = row
BY DEF Moved, RowType

\* At most as many rows as one of the two accounts had, when the other had none.
LEMMA MovedCount ==
  ASSUME IInv, NEW old \in Users, NEW new \in Users, old # new,
         rows' = {Moved(row, old, new) : row \in rows},
         RowsOf(old, rows) = {} \/ RowsOf(new, rows) = {}
  PROVE  /\ IsFiniteSet(rows')
         /\ \A u \in Users : Cardinality(RowsOf(u, rows')) <= cap
<1>1. rows \subseteq RowType /\ IsFiniteSet(rows)
  BY DEF IInv, TypeOK
<1>2. IsFiniteSet(rows')
  <2>. DEFINE f == [row \in rows |-> Moved(row, old, new)]
  <2>1. f \in Surjection(rows, rows')
    BY DEF Surjection
  <2>. QED
    BY <1>1, <2>1, FS_Surjection
<1>3. ASSUME NEW u \in Users PROVE Cardinality(RowsOf(u, rows')) <= cap
  <2>1. \A v \in Users : /\ IsFiniteSet(RowsOf(v, rows)) /\ Cardinality(RowsOf(v, rows)) \in Nat
                         /\ Cardinality(RowsOf(v, rows)) <= cap
    <3>1. \A v \in Users : RowsOf(v, rows) \subseteq rows
      BY DEF RowsOf
    <3>. QED
      BY <1>1, <3>1, FS_Subset, FS_CardinalityType DEF IInv, CapKept
  <2>2. \A row \in rows : /\ Moved(row, old, new).user = IF row.user = old THEN new ELSE row.user
                          /\ row.user # old => Moved(row, old, new) = row
    BY <1>1, MovedRow
  <2>3. CASE u # old /\ u # new
    <3>1. RowsOf(u, rows') = RowsOf(u, rows)
      BY <2>2, <2>3 DEF RowsOf
    <3>. QED
      BY <2>1, <3>1
  <2>4. CASE u = old
    <3>1. RowsOf(u, rows') = {}
      BY <2>2, <2>4 DEF RowsOf
    <3>2. cap \in Nat
      BY EnrollmentAssumption DEF IInv, TypeOK
    <3>3. Cardinality(RowsOf(u, rows')) = 0
      BY <3>1, FS_EmptySet
    <3>. QED
      BY <3>2, <3>3
  <2>5. CASE u = new /\ RowsOf(old, rows) = {}
    <3>1. RowsOf(u, rows') = RowsOf(u, rows)
      BY <2>2, <2>5 DEF RowsOf
    <3>. QED
      BY <2>1, <3>1
  <2>6. CASE u = new /\ RowsOf(new, rows) = {}
    <3>. DEFINE S == RowsOf(old, rows)  T == RowsOf(u, rows')
                f == [row \in S |-> Moved(row, old, new)]
    <3>1. T = {Moved(row, old, new) : row \in S}
      BY <2>2, <2>6 DEF RowsOf
    <3>2. f \in Surjection(S, T)
      BY <3>1 DEF Surjection
    <3>3. IsFiniteSet(S) /\ Cardinality(S) \in Nat /\ Cardinality(S) <= cap
      BY <2>1
    <3>. HIDE DEF S, T, f
    <3>4. IsFiniteSet(T) /\ Cardinality(T) <= Cardinality(S)
      BY <3>2, <3>3, FS_Surjection
    <3>5. Cardinality(T) \in Nat /\ cap \in Nat
      BY <3>4, FS_CardinalityType, EnrollmentAssumption DEF IInv, TypeOK
    <3>. QED
      BY <3>3, <3>4, <3>5 DEF T
  <2>. QED
    BY <2>3, <2>4, <2>5, <2>6
<1>. QED
  BY <1>2, <1>3

\* The rows, the handle and what is under way of one name become another's.
LEMMA RepointStep ==
  ASSUME IInv, NEW old \in Users, NEW new \in Users, old # new,
         Repoint(old, new), handle[old] = 0 \/ handle[new] = 0,
         Quiet, Stored' = Stored
  PROVE  (OnePlace /\ Promised /\ CarriesHandle /\ IsFiniteSet(rows) /\ CapKept)'
<1>1. /\ exists' = (exists \ {old}) \cup {new}
      /\ rows' = {Moved(row, old, new) : row \in rows}
      /\ severed' = severed \cup Underway(old)
  BY DEF Repoint, Moved
<1>2. /\ handle'[old] = 0
      /\ handle'[new] = IF handle[old] # 0 THEN handle[old] ELSE handle[new]
      /\ \A u \in Users \ {old, new} : handle'[u] = handle[u]
  BY DEF Repoint
<1>3. \A row \in rows : /\ row \in RowType /\ row.user \in Users
                        /\ Moved(row, old, new).root = row.root
                        /\ Moved(row, old, new).uid = row.uid
                        /\ Moved(row, old, new).user = IF row.user = old THEN new ELSE row.user
  <2>1. \A row \in rows : row \in RowType
    BY DEF IInv, TypeOK
  <2>2. \A row \in RowType : row.user \in Users
    BY DEF RowType
  <2>. QED
    BY <2>1, <2>2, MovedRow
<1>4. (IsFiniteSet(rows) /\ CapKept)'
  <2>1. RowsOf(old, rows) = {} \/ RowsOf(new, rows) = {}
    BY NoHandle
  <2>. QED
    BY <1>1, <2>1, MovedCount DEF CapKept, Quiet
<1>5. OnePlace'
  <2>1. \A r \in rows' : \E row \in rows : r.root = row.root /\ r = Moved(row, old, new)
    BY <1>1, <1>3
  <2>2. \A r \in rows' : r.root <= roots' /\ r.root \notin Stored'
    BY <2>1 DEF IInv, OnePlace, Quiet
  <2>3. OneRowPerCeremony'
    BY <2>1 DEF IInv, OnePlace, OneRowPerCeremony
  <2>4. \A w \in Verifying', r \in rows' : r.root # req'[w].rec.root
    BY <2>1 DEF IInv, OnePlace, Quiet
  <2>5. /\ \A id \in Stored' : id <= roots'
        /\ \A w \in Verifying' : req'[w].rec.root <= roots' /\ req'[w].rec.root \notin Stored'
        /\ \A w, o \in Verifying' : w # o => req'[w].rec.root # req'[o].rec.root
    BY DEF IInv, OnePlace, Quiet
  <2>. QED
    BY <2>2, <2>3, <2>4, <2>5 DEF OnePlace
<1>6. Promised'
  <2>1. ASSUME NEW id \in Stored
        PROVE  records[id].uid = handle'[account[records[id].sid]] \/ id \in severed'
    <3>1. account[records[id].sid] \in Users
      BY UnderwayShape DEF IInv
    <3>2. CASE account[records[id].sid] = old
      BY <1>1, <3>2 DEF Underway, Stored
    <3>3. CASE account[records[id].sid] = new /\ handle[new] = 0
      BY <1>1, <3>3, NoHandle
    <3>4. CASE account[records[id].sid] # old /\ ~ (account[records[id].sid] = new /\ handle[new] = 0)
      BY <1>1, <1>2, <3>1, <3>4 DEF IInv, Promised
    <3>. QED
      BY <3>2, <3>3, <3>4
  <2>2. ASSUME NEW w \in Verifying
        PROVE  req[w].rec.uid = handle'[req[w].user] \/ req[w].rec.root \in severed'
    <3>1. req[w].user \in Users
      BY UnderwayShape DEF IInv
    <3>2. CASE req[w].user = old
      BY <1>1, <3>2 DEF Underway, Verifying
    <3>3. CASE req[w].user = new /\ handle[new] = 0
      BY <1>1, <3>3, NoHandle
    <3>4. CASE req[w].user # old /\ ~ (req[w].user = new /\ handle[new] = 0)
      BY <1>1, <1>2, <3>1, <3>4 DEF IInv, Promised
    <3>. QED
      BY <3>2, <3>3, <3>4
  <2>. QED
    BY <2>1, <2>2 DEF Promised, Quiet
<1>7. CarriesHandle'
  <2>1. ASSUME NEW u \in Users, handle'[u] # 0 PROVE u \in exists'
    BY <1>1, <1>2, <2>1 DEF IInv, CarriesHandle
  <2>2. ASSUME NEW r \in rows'
        PROVE  /\ r.user \in exists' /\ handle'[r.user] # 0
               /\ r.uid = handle'[r.user] \/ r.root \in severed'
    <3>1. PICK row \in rows : r = Moved(row, old, new)
      BY <1>1
    <3>2. /\ row.user \in exists /\ handle[row.user] # 0 /\ row.user \in Users
          /\ row.uid = handle[row.user] \/ row.root \in severed
      BY <1>3 DEF IInv, CarriesHandle
    <3>3. /\ r.uid = row.uid /\ r.root = row.root
          /\ r.user = IF row.user = old THEN new ELSE row.user
      BY <1>3, <3>1
    <3>4. handle'[r.user] = handle[row.user]
      BY <1>2, <3>2, <3>3
    <3>. QED
      BY <1>1, <3>2, <3>3, <3>4
  <2>. QED
    BY <2>1, <2>2 DEF CarriesHandle
<1>. QED
  BY <1>4, <1>5, <1>6, <1>7

-----------------------------------------------------------------------------
(* The invariant.                                                          *)

\* A ceremony that is begun takes a fresh root and the handle of its account.
LEMMA BeginStep ==
  ASSUME IInv, TypeOK', NEW s \in Sids, NEW flow \in Flows, BeginRegistration(s, flow)
  PROVE  (OnePlace /\ Promised /\ CarriesHandle /\ IsFiniteSet(rows) /\ CapKept)'
<1>. DEFINE u == account[s]
<1>1. u \in Users /\ roots + 1 \in Roots /\ roots \in Nat
  BY EnrollmentAssumption DEF IInv, TypeOK, BeginRegistration, Roots
<1>2. /\ GetOrCreateHandle(u) /\ roots' = roots + 1
      /\ records' = [records EXCEPT ![roots + 1] =
           [type |-> "register", root |-> roots + 1, sid |-> s, authorization |-> window[s],
            rp |-> rp, uid |-> HandleOf(u)]]
      /\ UNCHANGED <<exists, account, rows, cap, req, severed>>
  BY DEF BeginRegistration, names, settings, history
<1>3. /\ \A id \in Stored' \ {roots + 1} : id \in Stored /\ records'[id] = records[id]
      /\ records'[roots + 1].uid = HandleOf(u) /\ records'[roots + 1].sid = s
      /\ Verifying' = Verifying
  BY <1>1, <1>2 DEF Stored, Verifying, IInv, TypeOK
<1>4. OnePlace'
  <2>1. \A w \in Verifying : req[w].rec.root \in Nat
    BY UnderwayShape DEF IInv, Roots
  <2>2. \A row \in rows : row.root \in Nat
    <3>1. \A r \in RowType : r.root \in Nat
      BY DEF RowType, Roots
    <3>. QED
      BY <3>1 DEF IInv, TypeOK
  <2>3. \A id \in Stored : id \in Nat
    BY DEF Stored, Roots
  <2>4. /\ \A id \in Stored' : id <= roots'
        /\ \A w \in Verifying' : req'[w].rec.root <= roots' /\ req'[w].rec.root \notin Stored'
        /\ \A row \in rows' : row.root <= roots' /\ row.root \notin Stored'
    BY <1>1, <1>2, <1>3, <2>1, <2>2, <2>3 DEF IInv, OnePlace
  <2>. QED
    BY <1>2, <1>3, <2>4 DEF IInv, OnePlace, OneRowPerCeremony
<1>5. Promised'
  <2>1. /\ \A id \in Stored : records[id].uid = handle'[account[records[id].sid]] \/ id \in severed
        /\ \A w \in Verifying : req[w].rec.uid = handle'[req[w].user] \/ req[w].rec.root \in severed
        /\ handle'[u] = HandleOf(u)
    BY <1>1, <1>2, HandleGiven
  <2>. QED
    BY <1>2, <1>3, <2>1 DEF Promised
<1>6. CarriesHandle'
  BY <1>1, <1>2, HandleGiven, HandleGivenRows DEF CarriesHandle
<1>7. (IsFiniteSet(rows) /\ CapKept)'
  BY <1>2 DEF IInv, CapKept, RowsOf
<1>. QED
  BY <1>4, <1>5, <1>6, <1>7

\* A ceremony that is consumed moves from Redis into one worker's hands, or is lost.
LEMMA StartStep ==
  ASSUME IInv, NEW w \in Workers, StartVerify(w)
  PROVE  (OnePlace /\ Promised /\ CarriesHandle /\ IsFiniteSet(rows) /\ CapKept)'
<1>. PICK id \in Roots, s \in Sids, c \in Credentials :
       /\ req[w] = Idle /\ records[id] # Gone
       /\ records' = [records EXCEPT ![id] = Gone]
       /\ req' = IF records[id].sid = s /\ AnyMode(on)
                 THEN [req EXCEPT ![w] = [op |-> "verify", user |-> account[s],
                         rec |-> records[id], cred |-> c, on |-> on, rp |-> rp]]
                 ELSE req
       /\ UNCHANGED <<exists, account, rows, handle, cap, roots, severed>>
  BY DEF StartVerify, Consume, names, settings, history
<1>1. /\ id \in Stored /\ Stored' = Stored \ {id}
      /\ \A i \in Stored' : records'[i] = records[i]
  BY DEF Stored, IInv, TypeOK
<1>2. CASE ~ (records[id].sid = s /\ AnyMode(on))
  <2>1. Quiet
    BY <1>1, <1>2 DEF Quiet, Verifying
  <2>. QED
    BY <2>1, QuietStep
<1>3. CASE records[id].sid = s /\ AnyMode(on)
  <2>1. /\ Verifying' = Verifying \cup {w} /\ w \notin Verifying
        /\ \A o \in Verifying : req'[o] = req[o]
        /\ req'[w].rec = records[id] /\ req'[w].user = account[records[id].sid]
    BY <1>3 DEF Verifying, IInv, TypeOK, Idle
  <2>2. records[id].root = id
    BY <1>1, UnderwayShape DEF IInv
  <2>3. OnePlace'
    <3>1. /\ \A i \in Stored' : i <= roots'
          /\ \A o \in Verifying' : req'[o].rec.root <= roots' /\ req'[o].rec.root \notin Stored'
          /\ \A row \in rows' : row.root <= roots' /\ row.root \notin Stored'
      BY <1>1, <2>1, <2>2 DEF IInv, OnePlace
    <3>2. /\ \A o, p \in Verifying' : o # p => req'[o].rec.root # req'[p].rec.root
          /\ \A o \in Verifying', row \in rows' : row.root # req'[o].rec.root
      BY <1>1, <2>1, <2>2 DEF IInv, OnePlace
    <3>. QED
      BY <3>1, <3>2 DEF IInv, OnePlace, OneRowPerCeremony
  <2>4. Promised'
    BY <1>1, <2>1, <2>2 DEF IInv, Promised
  <2>5. (CarriesHandle /\ IsFiniteSet(rows) /\ CapKept)'
    BY DEF IInv, CarriesHandle, CapKept, RowsOf
  <2>. QED
    BY <2>3, <2>4, <2>5
<1>. QED
  BY <1>2, <1>3

\* A ceremony that is finished leaves the worker's hands for a row, under the cap.
LEMMA InsertStep ==
  ASSUME IInv, NEW w \in Workers, InsertVerifiedCredential(w)
  PROVE  (OnePlace /\ Promised /\ CarriesHandle /\ IsFiniteSet(rows) /\ CapKept)'
<1>. DEFINE r == req[w].rec
            u == req[w].user
            new == [cred |-> req[w].cred, user |-> u, enabled |-> TRUE, rp |-> r.rp,
                    uid |-> r.uid, root |-> r.root, authorization |-> r.authorization]
<1>1. /\ w \in Verifying /\ UnderCap(w) /\ GetOrCreateHandle(u)
      /\ rows' = rows \cup {new}
      /\ req' = [req EXCEPT ![w] = Idle]
      /\ UNCHANGED <<exists, account, cap, records, roots, severed>>
  BY DEF InsertVerifiedCredential, Verifying, End, names, settings, history
<1>2. u \in Users /\ r.root \in Roots /\ new.root = r.root /\ new.uid = r.uid /\ new.user = u
  BY <1>1, UnderwayShape DEF IInv
<1>3. /\ Verifying' = Verifying \ {w} /\ Stored' = Stored
      /\ \A o \in Verifying' : req'[o] = req[o]
  BY <1>1 DEF Verifying, Stored, IInv, TypeOK, Idle
<1>. HIDE DEF new, r, u
<1>4. r.root \notin Stored /\ r.root <= roots /\ \A row \in rows : row.root # r.root
  BY <1>1 DEF IInv, OnePlace, r
<1>5. OnePlace'
  <2>1. /\ \A i \in Stored' : i <= roots'
        /\ \A o \in Verifying' : req'[o].rec.root <= roots' /\ req'[o].rec.root \notin Stored'
        /\ \A row \in rows' : row.root <= roots' /\ row.root \notin Stored'
    BY <1>1, <1>2, <1>3, <1>4 DEF IInv, OnePlace
  <2>2. /\ \A o, p \in Verifying' : o # p => req'[o].rec.root # req'[p].rec.root
        /\ \A o \in Verifying', row \in rows' : row.root # req'[o].rec.root
    BY <1>1, <1>2, <1>3, <1>4 DEF IInv, OnePlace, r
  <2>3. OneRowPerCeremony'
    BY <1>1, <1>2, <1>4 DEF IInv, OnePlace, OneRowPerCeremony
  <2>. QED
    BY <2>1, <2>2, <2>3 DEF OnePlace
<1>6. Promised'
  BY <1>1, <1>2, <1>3, HandleGiven DEF Promised
<1>7. CarriesHandle'
  <2>1. /\ \A row \in rows : /\ row.user \in exists /\ handle'[row.user] # 0
                             /\ row.uid = handle'[row.user] \/ row.root \in severed
        /\ \A v \in Users : handle'[v] # 0 => v \in exists
        /\ r.uid = handle'[u] \/ r.root \in severed
        /\ handle'[u] # 0
    BY <1>1, <1>2, HandleGiven, HandleGivenRows DEF r, u
  <2>. QED
    BY <1>1, <1>2, <2>1 DEF CarriesHandle
<1>8. IsFiniteSet(rows')
  BY <1>1, FS_AddElement DEF IInv
<1>9. CapKept'
  <2>. SUFFICES ASSUME NEW v \in Users PROVE Cardinality(RowsOf(v, rows')) <= cap
    BY <1>1 DEF CapKept
  <2>1. CASE v # u
    <3>1. RowsOf(v, rows') = RowsOf(v, rows)
      BY <1>1, <1>2, <2>1 DEF RowsOf
    <3>. QED
      BY <3>1 DEF IInv, CapKept
  <2>2. CASE v = u
    <3>1. RowsOf(v, rows') = RowsOf(v, rows) \cup {new}
      BY <1>1, <1>2, <2>2 DEF RowsOf
    <3>2. IsFiniteSet(RowsOf(v, rows))
      <4>1. RowsOf(v, rows) \subseteq rows
        BY DEF RowsOf
      <4>. QED
        BY <4>1, FS_Subset DEF IInv
    <3>3. Cardinality(RowsOf(v, rows)) < cap
      BY <1>1, <2>2 DEF UnderCap, Census, u
    <3>4. Cardinality(RowsOf(v, rows)) \in Nat /\ cap \in Nat
      BY <3>2, FS_CardinalityType, EnrollmentAssumption DEF IInv, TypeOK
    <3>5. Cardinality(RowsOf(v, rows) \cup {new}) =
            IF new \in RowsOf(v, rows) THEN Cardinality(RowsOf(v, rows))
            ELSE Cardinality(RowsOf(v, rows)) + 1
      BY <3>2, FS_AddElement
    <3>. QED
      BY <3>1, <3>3, <3>4, <3>5
  <2>. QED
    BY <2>1, <2>2
<1>. QED
  BY <1>5, <1>6, <1>7, <1>8, <1>9

\* A credential is deleted, disabled or enabled.
LEMMA ChangeRowStep ==
  ASSUME IInv, ChangeRow
  PROVE  (OnePlace /\ Promised /\ CarriesHandle /\ IsFiniteSet(rows) /\ CapKept)'
<1>. PICK row \in rows :
       /\ rows' \in {rows \ {row}, (rows \ {row}) \cup {[row EXCEPT !.enabled = ~ @]}}
       /\ UNCHANGED <<exists, account, handle, cap, records, roots, req, severed>>
  BY DEF ChangeRow, names, settings, history
<1>. DEFINE new == [row EXCEPT !.enabled = ~ @]
<1>1. row \in RowType
  BY DEF IInv, TypeOK
<1>2. new.root = row.root /\ new.uid = row.uid /\ new.user = row.user
  BY <1>1 DEF RowType
<1>. HIDE DEF new
<1>3. rows' = rows \ {row} \/ rows' = (rows \ {row}) \cup {new}
  BY DEF new
<1>4. Quiet
  BY DEF Quiet, Stored, Verifying
<1>5. Promised'
  BY DEF IInv, Promised, Stored, Verifying
<1>6. CASE rows' = rows \ {row}
  BY <1>4, <1>5, <1>6, FewerRows DEF IInv, CarriesHandle
<1>7. CASE rows' = (rows \ {row}) \cup {new}
  <2>1. OnePlace'
    <3>1. Stored' = Stored /\ Verifying' = Verifying
      BY DEF Stored, Verifying
    <3>2. OneRowPerCeremony'
      BY <1>2, <1>7 DEF IInv, OnePlace, OneRowPerCeremony
    <3>3. /\ \A r \in rows' : r.root <= roots' /\ r.root \notin Stored'
          /\ \A w \in Verifying', r \in rows' : r.root # req'[w].rec.root
      BY <1>2, <1>7, <3>1 DEF IInv, OnePlace
    <3>. QED
      BY <3>1, <3>2, <3>3 DEF IInv, OnePlace
  <2>2. CarriesHandle'
    BY <1>2, <1>7 DEF IInv, CarriesHandle
  <2>3. IsFiniteSet(rows')
    BY <1>7, FS_AddElement, FS_RemoveElement DEF IInv
  <2>4. ASSUME NEW v \in Users PROVE Cardinality(RowsOf(v, rows')) <= cap
    <3>1. CASE row.user # v
      <4>1. RowsOf(v, rows') = RowsOf(v, rows)
        BY <1>2, <1>7, <3>1 DEF RowsOf
      <4>. QED
        BY <4>1 DEF IInv, CapKept
    <3>2. CASE row.user = v
      <4>. DEFINE S == RowsOf(v, rows)
      <4>1. RowsOf(v, rows') = (S \ {row}) \cup {new} /\ row \in S
        BY <1>2, <1>7, <3>2 DEF RowsOf
      <4>2. IsFiniteSet(S)
        <5>1. S \subseteq rows
          BY DEF RowsOf
        <5>. QED
          BY <5>1, FS_Subset DEF IInv
      <4>3. Cardinality(S) <= cap /\ Cardinality(S) \in Nat /\ cap \in Nat
        BY <4>2, FS_CardinalityType, EnrollmentAssumption DEF IInv, CapKept, TypeOK
      <4>. HIDE DEF S
      <4>4. IsFiniteSet(S \ {row}) /\ Cardinality(S \ {row}) = Cardinality(S) - 1
        BY <4>1, <4>2, FS_RemoveElement
      <4>5. Cardinality((S \ {row}) \cup {new}) =
              IF new \in S \ {row} THEN Cardinality(S \ {row}) ELSE Cardinality(S \ {row}) + 1
        BY <4>4, FS_AddElement
      <4>. QED
        BY <4>1, <4>3, <4>4, <4>5
    <3>. QED
      BY <3>1, <3>2
  <2>. QED
    BY <1>5, <2>1, <2>2, <2>3, <2>4 DEF CapKept
<1>. QED
  BY <1>3, <1>6, <1>7

\* A merge that is begun is of two accounts.
LEMMA OfTwoStep ==
  ASSUME IInv, [Next]_vars
  PROVE  OfTwo'
<1>1. ASSUME NEW w \in Workers, req'[w].op = "merge"
      PROVE  req'[w].old # req'[w].new
  <2>1. CASE req'[w] = req[w]
    BY <1>1, <2>1 DEF IInv, OfTwo
  <2>2. CASE req'[w] # req[w]
    <3>1. PICK o \in Workers : Serve(o)
      BY <2>2 DEF Next, vars, names, settings, history, ChangeWindow, BeginRegistration, Expire,
         TrashHandle, DeleteUser, RenameUser, ChangeRow, ChangeSettings
    <3>2. BeginMerge(o)
      BY <1>1, <2>2, <3>1 DEF Serve, StartVerify, InsertVerifiedCredential, Abandon,
         MergeUsers, End, IInv, TypeOK, Idle
    <3>. QED
      BY <1>1, <2>2, <3>2 DEF BeginMerge, IInv, TypeOK
  <2>. QED
    BY <2>1, <2>2
<1>. QED
  BY <1>1 DEF OfTwo

\* What an enrollment starts with satisfies the invariant.
LEMMA InitInv == Init => IInv
<1>. SUFFICES ASSUME Init PROVE IInv
  OBVIOUS
<1>1. TypeOK
  <2>1. exists \subseteq Users /\ account \in [Sids -> Users]
    <3>1. exists \subseteq Users
      BY DEF Init
    <3>. QED
      BY <3>1 DEF Init
  <2>2. rows = {} /\ handle \in [Users -> 0..MaxHandles] /\ handles \in 0..MaxHandles
    BY EnrollmentAssumption DEF Init
  <2>3. window \in [Sids -> Classes \cup {None, "signed_out"}]
    <3>1. window \in [Sids -> {"password", "external"}]
      BY DEF Init
    <3>. QED
      BY <3>1 DEF Classes
  <2>4. on \subseteq Knobs /\ rp \in Rps /\ cap \in 1..MaxCap /\ moving \in Changes
    BY DEF Init
  <2>5. roots \in 0..MaxRoots /\ severed \subseteq Roots
    BY EnrollmentAssumption DEF Init
  <2>6. \A id \in Roots : records[id] = Gone
    BY DEF Init
  <2>7. records \in [Roots -> RecordType \cup {Gone}]
    BY DEF Init
  <2>8. \A w \in Workers : req[w] = Idle
    BY DEF Init
  <2>9. req \in [Workers -> RequestType]
    <3>1. Idle \in RequestType
      BY DEF RequestType
    <3>. QED
      BY <3>1 DEF Init
  <2>10. \A w \in Workers : req[w].op # "verify"
    BY <2>8 DEF Idle
  <2>11. registered \in Seq([id : Roots, terms : Terms])
    BY DEF Init
  <2>. QED
    BY <2>1, <2>2, <2>3, <2>4, <2>5, <2>6, <2>7, <2>9, <2>10, <2>11 DEF TypeOK
<1>2. OfTwo /\ OnePlace /\ Promised /\ CarriesHandle
  BY DEF Init, OfTwo, OnePlace, OneRowPerCeremony, Promised, CarriesHandle, Stored, Verifying, Idle, Gone
<1>3. IsFiniteSet(rows)
  BY FS_EmptySet DEF Init
<1>4. CapKept
  <2>1. \A u \in Users : RowsOf(u, rows) = {}
    BY DEF Init, RowsOf
  <2>2. Cardinality({}) = 0
    BY FS_EmptySet
  <2>3. cap \in Nat
    BY EnrollmentAssumption DEF Init
  <2>. QED
    BY <2>1, <2>2, <2>3 DEF CapKept
<1>. QED
  BY <1>1, <1>2, <1>3, <1>4 DEF IInv

\* Every step keeps the invariant.
LEMMA InvStep ==
  ASSUME IInv, [Next]_vars
  PROVE  IInv'
<1>. DEFINE Kept == (OnePlace /\ Promised /\ CarriesHandle /\ IsFiniteSet(rows) /\ CapKept)'
<1>1. TypeOK'
  BY TypeStep DEF IInv
<1>2. OfTwo'
  BY OfTwoStep
<1>3. ASSUME NEW s \in Sids, ChangeWindow(s) PROVE Kept
  <2>1. Quiet /\ UNCHANGED <<exists, rows, handle, severed>>
    BY <1>3 DEF ChangeWindow, Quiet, Stored, Verifying, names, settings, history
  <2>. QED
    BY <2>1, QuietStep
<1>4. ASSUME NEW s \in Sids, NEW flow \in Flows, BeginRegistration(s, flow) PROVE Kept
  BY <1>1, <1>4, BeginStep
<1>5. ASSUME NEW w \in Workers, StartVerify(w) PROVE Kept
  BY <1>5, StartStep
<1>6. ASSUME NEW w \in Workers, InsertVerifiedCredential(w) PROVE Kept
  BY <1>6, InsertStep
<1>7. ASSUME NEW w \in Workers, Abandon(w) \/ BeginMerge(w) PROVE Kept
  <2>1. Quiet /\ UNCHANGED <<exists, rows, handle, severed>>
    BY <1>7 DEF Abandon, BeginMerge, End, Quiet, Stored, Verifying, names, settings, history,
       IInv, TypeOK, Idle
  <2>. QED
    BY <2>1, QuietStep
<1>8. ASSUME NEW w \in Workers, MergeUsers(w) PROVE Kept
  <2>. DEFINE old == req[w].old  new == req[w].new
  <2>1. /\ old \in Users /\ new \in Users /\ old # new
    BY <1>8, MergeShape DEF MergeUsers, IInv, OfTwo
  <2>2. Repoint(old, new) /\ (handle[old] = 0 \/ handle[new] = 0)
    BY <1>8 DEF MergeUsers, MayMerge
  <2>3. Quiet /\ Stored' = Stored
    BY <1>8 DEF MergeUsers, End, Quiet, Stored, Verifying, settings, IInv, TypeOK, Idle
  <2>. HIDE DEF old, new
  <2>. QED
    BY <2>1, <2>2, <2>3, RepointStep
<1>9. ASSUME NEW id \in Roots, Expire(id) PROVE Kept
  <2>1. Quiet /\ UNCHANGED <<exists, rows, handle, severed>>
    BY <1>9 DEF Expire, Quiet, Stored, Verifying, names, settings, history, IInv, TypeOK
  <2>. QED
    BY <2>1, QuietStep
<1>10. ASSUME NEW u \in Users, TrashHandle(u) PROVE Kept
  <2>1. Quiet /\ Stored' = Stored /\ Verifying' = Verifying
    BY <1>10 DEF TrashHandle, Quiet, Stored, Verifying, names, settings, history
  <2>2. /\ handle' = [handle EXCEPT ![u] = 0] /\ severed' = severed \cup Underway(u)
        /\ exists' = exists /\ rows' = rows \ RowsOf(u, rows)
    BY <1>10 DEF TrashHandle, MayTrash, names
  <2>. QED
    BY <2>1, <2>2, HandleTaken
<1>11. ASSUME NEW u \in Users, DeleteUser(u) PROVE Kept
  <2>1. Quiet /\ Stored' = Stored /\ Verifying' = Verifying
    BY <1>11 DEF DeleteUser, Quiet, Stored, Verifying, settings
  <2>2. /\ handle' = [handle EXCEPT ![u] = 0] /\ severed' = severed \cup Underway(u)
        /\ exists' = exists \ {u} /\ rows' = rows \ RowsOf(u, rows)
    BY <1>11 DEF DeleteUser
  <2>. QED
    BY <2>1, <2>2, HandleTaken
<1>12. ASSUME NEW old \in Users, NEW new \in Users, RenameUser(old, new) PROVE Kept
  <2>1. Quiet /\ Stored' = Stored
    BY <1>12 DEF RenameUser, Quiet, Stored, Verifying, settings
  <2>2. Repoint(old, new) /\ old # new /\ handle[new] = 0
    BY <1>12 DEF RenameUser, IInv, CarriesHandle
  <2>. QED
    BY <2>1, <2>2, RepointStep
<1>13. ASSUME ChangeRow PROVE Kept
  BY <1>13, ChangeRowStep
<1>14. ASSUME ChangeSettings \/ UNCHANGED vars PROVE Kept
  <2>1. Quiet /\ UNCHANGED <<exists, rows, handle, severed>>
    BY <1>14 DEF ChangeSettings, Quiet, Stored, Verifying, vars, names, settings, history
  <2>. QED
    BY <2>1, QuietStep
<1>15. Kept
  BY <1>3, <1>4, <1>5, <1>6, <1>7, <1>8, <1>9, <1>10, <1>11, <1>12, <1>13, <1>14
  DEF Next, Serve
<1>. QED
  BY <1>1, <1>2, <1>15 DEF IInv

\* Every reachable state of an enrollment satisfies the inductive invariant.
THEOREM Invariant == Spec => []IInv
<1>1. Init => IInv
  BY InitInv
<1>2. IInv /\ [Next]_vars => IInv'
  BY InvStep
<1>. QED
  BY <1>1, <1>2, PTL DEF Spec

\* The state of an enrollment keeps its shape.
THEOREM TypeCorrect == Spec => []TypeOK
<1>1. IInv => TypeOK
  BY DEF IInv
<1>. QED
  BY <1>1, Invariant, PTL

\* No account ever has more passkeys than passkey_max_per_user.
THEOREM CapAlwaysKept == Spec => []CapKept
<1>1. IInv => CapKept
  BY DEF IInv
<1>. QED
  BY <1>1, Invariant, PTL

\* A ceremony leaves at most one passkey.
THEOREM OneRow == Spec => []OneRowPerCeremony
<1>1. IInv => OneRowPerCeremony
  BY DEF IInv, OnePlace
<1>. QED
  BY <1>1, Invariant, PTL

\* Passkeys and handles belong to accounts that exist, and fit each other.
THEOREM HandleCarried == Spec => []CarriesHandle
<1>1. IInv => CarriesHandle
  BY DEF IInv
<1>. QED
  BY <1>1, Invariant, PTL

\* A new row of an external login is the first usable one of its account.
LEMMA ExternalStep ==
  ASSUME TypeOK, [Next]_vars
  PROVE  [\A row \in rows' \ rows :
            row.authorization = "external" /\ row.root \notin {r.root : r \in rows}
              => UsableOf(row.user, row.rp, rows) = {}]_vars
<1>. SUFFICES ASSUME NEW row \in rows' \ rows, row.authorization = "external",
                     row.root \notin {r.root : r \in rows}
              PROVE  UsableOf(row.user, row.rp, rows) = {}
  OBVIOUS
<1>1. ASSUME NEW w \in Workers, InsertVerifiedCredential(w)
      PROVE  UsableOf(row.user, row.rp, rows) = {}
  <2>1. /\ row.user = req[w].user /\ row.rp = req[w].rec.rp
        /\ row.authorization = req[w].rec.authorization
    BY <1>1 DEF InsertVerifiedCredential
  <2>2. UsableOf(req[w].user, req[w].rec.rp, Census(w)) = {}
    BY <1>1, <2>1 DEF InsertVerifiedCredential, StillAuthorized, BootstrapAllowed
  <2>. QED
    BY <2>1, <2>2 DEF UsableOf, RowsOf, Census
<1>2. ASSUME NEW old \in Users, NEW new \in Users, Repoint(old, new) PROVE FALSE
  <2>1. PICK r \in rows : row = [r EXCEPT !.user = IF @ = old THEN new ELSE @]
    BY <1>2 DEF Repoint
  <2>2. r \in RowType
    BY DEF TypeOK
  <2>3. row.root = r.root
    BY <2>1, <2>2 DEF RowType
  <2>. QED
    BY <2>3
<1>3. ASSUME ChangeRow PROVE FALSE
  <2>1. PICK r \in rows : row = [r EXCEPT !.enabled = ~ @]
    BY <1>3 DEF ChangeRow
  <2>2. r \in RowType
    BY DEF TypeOK
  <2>3. row.root = r.root
    BY <2>1, <2>2 DEF RowType
  <2>. QED
    BY <2>3
<1>4. ASSUME NEW w \in Workers, MergeUsers(w) PROVE FALSE
  BY <1>2, <1>4, MergeShape DEF MergeUsers
<1>5. rows' # rows
  OBVIOUS
<1>. QED
  BY <1>1, <1>2, <1>3, <1>4, <1>5 DEF Next, Serve, vars, names, settings, history, ChangeWindow,
     BeginRegistration, StartVerify, Abandon, BeginMerge, Expire, TrashHandle, DeleteUser,
     RenameUser, ChangeSettings

\* What an external login enrolls is the first usable passkey of its account,
\* whatever ceremonies run at once (_insert_verified_credential).
THEOREM ExternalIsFirst == Spec => ExternalOnlyFirst
<1>1. TypeOK /\ [Next]_vars =>
        [\A row \in rows' \ rows :
           row.authorization = "external" /\ row.root \notin {r.root : r \in rows}
             => UsableOf(row.user, row.rp, rows) = {}]_vars
  BY ExternalStep
<1>. QED
  BY <1>1, TypeCorrect, PTL DEF Spec, ExternalOnlyFirst

-----------------------------------------------------------------------------
(* The refinement of SingleUse.                                            *)

\* The authorisations there are, by the places that have them.
Ceremony(id) == Carries(records[id], account[records[id].sid])
InHand(w) == Carries(req[w].rec, req[w].user)

Unseen == UNCHANGED <<roots, Pending, registered>>

LEMMA PendingPlaces ==
  /\ \A x : x \in Pending <=> \/ \E id \in Stored : x = Ceremony(id)
                              \/ \E w \in Verifying : x = InHand(w)
  /\ \A x : x \in Pending' <=> \/ \E id \in Stored' : x = Ceremony(id)'
                               \/ \E w \in Verifying' : x = InHand(w)'
BY DEF Pending, Ceremony, InHand, Carries

\* One root, one authorisation: that places do not share one is OnePlace.
LEMMA PlacesDiffer ==
  ASSUME IInv
  PROVE  /\ \A id, i \in Stored : id # i => Ceremony(id) # Ceremony(i)
         /\ \A id \in Stored, w \in Verifying : Ceremony(id) # InHand(w)
         /\ \A w, v \in Verifying : w # v => InHand(w) # InHand(v)
<1>1. /\ \A id \in Stored : Ceremony(id).id = id
      /\ \A w \in Verifying : InHand(w).id = req[w].rec.root
  BY DEF IInv, TypeOK, Stored, Ceremony, InHand, Carries
<1>. QED
  BY <1>1 DEF IInv, OnePlace

\* A ceremony that is stored no more, and in nobody's hands, is lost.
LEMMA RecordLost ==
  ASSUME IInv, NEW id \in Stored, Stored' = Stored \ {id}, Verifying' = Verifying,
         \A i \in Stored' : Ceremony(i)' = Ceremony(i),
         \A w \in Verifying : InHand(w)' = InHand(w)
  PROVE  Pending' = Pending \ {Ceremony(id)} /\ Ceremony(id) \in Pending
<1>1. \A x : x \in Pending' <=> x \in Pending /\ x # Ceremony(id)
  BY PendingPlaces, PlacesDiffer
<1>. QED
  BY <1>1, PendingPlaces

\* A request ends, and with it the ceremony in its hands.
LEMMA HandsEmptied ==
  ASSUME IInv, NEW w \in Verifying, Verifying' = Verifying \ {w}, Stored' = Stored,
         \A id \in Stored : Ceremony(id)' = Ceremony(id),
         \A v \in Verifying' : InHand(v)' = InHand(v)
  PROVE  Pending' = Pending \ {InHand(w)} /\ InHand(w) \in Pending
<1>1. \A x : x \in Pending' <=> x \in Pending /\ x # InHand(w)
  BY PendingPlaces, PlacesDiffer
<1>. QED
  BY <1>1, PendingPlaces

\* Every place keeps what it has.
LEMMA PlacesKept ==
  ASSUME Stored' = Stored, Verifying' = Verifying, UNCHANGED <<roots, registered>>,
         \A id \in Stored : Ceremony(id)' = Ceremony(id),
         \A w \in Verifying : InHand(w)' = InHand(w)
  PROVE  Unseen
<1>1. \A x : x \in Pending' <=> x \in Pending
  BY PendingPlaces
<1>2. Pending' = Pending
  BY <1>1
<1>. QED
  BY <1>2 DEF Unseen

LEMMA LostIsLose ==
  ASSUME NEW a \in Pending, Pending' = Pending \ {a}, UNCHANGED <<roots, registered>>
  PROVE  Single!Next
<1>1. Single!Lose(a)
  BY DEF Single!Lose
<1>. QED
  BY <1>1 DEF Single!Next

\* begin_registration begins an authorisation.
LEMMA BeginIsBegin ==
  ASSUME IInv, NEW s \in Sids, NEW flow \in Flows, BeginRegistration(s, flow)
  PROVE  Single!Next
<1>. PICK n \in Nat : n = roots + 1
  BY DEF IInv, TypeOK
<1>. DEFINE u == account[s]
            r == [type |-> "register", root |-> n, sid |-> s, authorization |-> window[s],
                  rp |-> rp, uid |-> HandleOf(u)]
            t == [user |-> u, authorization |-> window[s], rp |-> rp, uid |-> HandleOf(u)]
            x == Single!Authorisation(n, t)
<1>1. u \in Users /\ n \in Roots /\ roots \in Nat
  BY EnrollmentAssumption DEF IInv, TypeOK, BeginRegistration, Roots
<1>2. /\ records' = [records EXCEPT ![n] = r] /\ roots' = n
      /\ UNCHANGED <<account, req, registered>>
  BY DEF BeginRegistration, names, history
<1>3. n \notin Stored
  BY <1>1 DEF IInv, OnePlace
<1>4. /\ records'[n] = r /\ r # Gone /\ r.sid = s
      /\ \A id \in Roots \ {n} : records'[id] = records[id]
  BY <1>1, <1>2 DEF IInv, TypeOK, Gone
<1>5. t \in Terms
  <2>1. HandleOf(u) \in Handles
    BY <1>1, HandleShape DEF IInv, BeginRegistration
  <2>2. window[s] \in Classes
    BY AuthorizedClass DEF BeginRegistration
  <2>. QED
    BY <1>1, <2>1, <2>2 DEF Terms, IInv, TypeOK
<1>6. Ceremony(n)' = x
  BY <1>2, <1>4 DEF Ceremony, Carries, Single!Authorisation
<1>7. Stored' = Stored \cup {n}
  BY <1>1, <1>4 DEF Stored
<1>8. /\ \A id \in Stored : Ceremony(id)' = Ceremony(id)
      /\ Verifying' = Verifying /\ \A w \in Verifying : InHand(w)' = InHand(w)
  BY <1>2, <1>3, <1>4 DEF Stored, Verifying, Ceremony, InHand
<1>. HIDE DEF x
<1>9. \A y : y \in Pending' <=> y \in Pending \/ y = x
  BY <1>6, <1>7, <1>8, PendingPlaces
<1>10. Single!Issue(x)
  BY <1>2, <1>9 DEF Single!Issue
<1>11. Single!Begin
  BY <1>2, <1>5, <1>10 DEF Single!Begin, x
<1>. QED
  BY <1>11 DEF Single!Next

\* A ceremony consumed is in the worker's hands, or lost.
LEMMA StartIsLose ==
  ASSUME IInv, NEW w \in Workers, StartVerify(w)
  PROVE  Single!Next \/ Unseen
<1>. PICK id \in Roots, s \in Sids, c \in Credentials :
       /\ req[w] = Idle /\ records[id] # Gone
       /\ records' = [records EXCEPT ![id] = Gone]
       /\ req' = IF records[id].sid = s /\ AnyMode(on)
                 THEN [req EXCEPT ![w] = [op |-> "verify", user |-> account[s],
                         rec |-> records[id], cred |-> c, on |-> on, rp |-> rp]]
                 ELSE req
       /\ UNCHANGED <<account, roots, registered>>
  BY DEF StartVerify, Consume, names, history
<1>1. /\ id \in Stored /\ Stored' = Stored \ {id}
      /\ \A i \in Stored' : records'[i] = records[i]
  BY DEF Stored, IInv, TypeOK
<1>2. \A i \in Stored' : Ceremony(i)' = Ceremony(i)
  BY <1>1 DEF Ceremony
<1>3. CASE ~ (records[id].sid = s /\ AnyMode(on))
  <2>1. Verifying' = Verifying /\ \A v \in Verifying : InHand(v)' = InHand(v)
    BY <1>3 DEF Verifying, InHand
  <2>. QED
    BY <1>1, <1>2, <2>1, RecordLost, LostIsLose
<1>4. CASE records[id].sid = s /\ AnyMode(on)
  <2>. DEFINE q == [op |-> "verify", user |-> account[s], rec |-> records[id], cred |-> c,
                    on |-> on, rp |-> rp]
  <2>1. req'[w] = q /\ \A v \in Workers \ {w} : req'[v] = req[v]
    BY <1>4 DEF IInv, TypeOK
  <2>2. w \notin Verifying /\ Verifying' = Verifying \cup {w}
    BY <2>1 DEF Verifying, Idle
  <2>3. InHand(w)' = Ceremony(id)
    BY <1>4, <2>1 DEF InHand, Ceremony
  <2>4. \A v \in Verifying : InHand(v)' = InHand(v)
    BY <2>1, <2>2 DEF InHand, Verifying
  <2>5. \A x : x \in Pending' <=> x \in Pending
    BY <1>1, <1>2, <2>2, <2>3, <2>4, PendingPlaces
  <2>6. Pending' = Pending
    BY <2>5
  <2>. QED
    BY <2>6 DEF Unseen
<1>. QED
  BY <1>3, <1>4

\* A worker that ends leaves the others as they are.
LEMMA EndPlaces ==
  ASSUME IInv, NEW w \in Workers, End(w), UNCHANGED <<account, records>>
  PROVE  /\ Verifying' = Verifying \ {w} /\ Stored' = Stored
         /\ \A id \in Stored : Ceremony(id)' = Ceremony(id)
         /\ \A v \in Verifying' : InHand(v)' = InHand(v)
<1>1. req'[w] = Idle /\ \A v \in Workers \ {w} : req'[v] = req[v]
  BY DEF End, IInv, TypeOK
<1>2. Verifying' = Verifying \ {w}
  BY <1>1 DEF Verifying, Idle
<1>. QED
  BY <1>1, <1>2 DEF Stored, Ceremony, InHand, Verifying

\* A sequence with one more item, as a function.
LEMMA AppendFields ==
  ASSUME NEW S, NEW q \in Seq(S), NEW a \in S
  PROVE  /\ DOMAIN q = 1..Len(q) /\ Len(q) \in Nat
         /\ DOMAIN Append(q, a) = 1..(Len(q) + 1)
         /\ Append(q, a) = [l \in 1..(Len(q) + 1) |-> IF l = Len(q) + 1 THEN a ELSE q[l]]
<1>. DEFINE t == Append(q, a)
<1>1. /\ t \in Seq(S) /\ Len(t) = Len(q) + 1 /\ t[Len(q) + 1] = a
      /\ \A l \in 1..Len(q) : t[l] = q[l]
  BY AppendProperties
<1>. HIDE DEF t
<1>2. /\ DOMAIN q = 1..Len(q) /\ Len(q) \in Nat
      /\ DOMAIN t = 1..Len(t) /\ t \in [1..Len(t) -> S]
  BY <1>1, LenProperties
<1>3. t = [l \in DOMAIN t |-> t[l]]
  BY <1>2
<1>4. \A l \in 1..(Len(q) + 1) : t[l] = IF l = Len(q) + 1 THEN a ELSE q[l]
  <2>1. \A l \in 1..(Len(q) + 1) : l # Len(q) + 1 => l \in 1..Len(q)
    BY <1>2
  <2>. QED
    BY <1>1, <2>1
<1>5. DOMAIN t = 1..(Len(q) + 1)
  BY <1>1, <1>2
<1>6. t = [l \in 1..(Len(q) + 1) |-> IF l = Len(q) + 1 THEN a ELSE q[l]]
  BY <1>3, <1>4, <1>5
<1>. QED
  BY <1>2, <1>5, <1>6 DEF t

\* A row inserted is the use of what the worker had in its hands.
LEMMA InsertIsUse ==
  ASSUME IInv, NEW w \in Workers, InsertVerifiedCredential(w)
  PROVE  Single!Next
<1>. DEFINE row == [cred |-> req[w].cred, user |-> req[w].user, enabled |-> TRUE,
                    rp |-> req[w].rec.rp, uid |-> req[w].rec.uid, root |-> req[w].rec.root,
                    authorization |-> req[w].rec.authorization]
            a == Carries(row, row.user)
            n == Len(registered) + 1
<1>1. /\ w \in Verifying /\ End(w) /\ registered' = Append(registered, a)
      /\ UNCHANGED <<account, records, roots>>
  BY DEF InsertVerifiedCredential, Verifying, names, history
<1>2. a = InHand(w)
  BY DEF Carries, InHand
<1>. HIDE DEF a
<1>3. Pending' = Pending \ {a} /\ a \in Pending
  BY <1>1, <1>2, EndPlaces, HandsEmptied
<1>4. /\ DOMAIN registered = 1..Len(registered) /\ Len(registered) \in Nat
      /\ DOMAIN registered' = 1..n
      /\ registered' = [l \in 1..n |-> IF l = n THEN a ELSE registered[l]]
  <2>. DEFINE Uses == [id : Roots, terms : Terms]
              q == registered
  <2>1. q \in Seq(Uses)
    BY DEF IInv, TypeOK
  <2>2. req[w].rec \in RecordType /\ req[w].user \in Users
    BY <1>1, VerifyShape DEF IInv, Verifying
  <2>3. a \in Uses
    BY <1>2, <2>2 DEF InHand, Carries, RecordType, Terms
  <2>4. registered' = Append(q, a)
    BY <1>1
  <2>. HIDE DEF Uses, q
  <2>5. /\ DOMAIN q = 1..Len(q) /\ Len(q) \in Nat
        /\ DOMAIN Append(q, a) = 1..(Len(q) + 1)
        /\ Append(q, a) = [l \in 1..(Len(q) + 1) |-> IF l = Len(q) + 1 THEN a ELSE q[l]]
    BY <2>1, <2>3, AppendFields
  <2>6. /\ DOMAIN q = 1..Len(q) /\ Len(q) \in Nat
        /\ DOMAIN registered' = 1..(Len(q) + 1)
        /\ registered' = [l \in 1..(Len(q) + 1) |-> IF l = Len(q) + 1 THEN a ELSE q[l]]
    BY <2>4, <2>5
  <2>. QED
    BY <2>6 DEF q
<1>5. n \in DOMAIN registered' \ DOMAIN registered /\ 1..n = DOMAIN registered \cup {n}
  BY <1>4
<1>6. Single!Note(a)
  BY <1>4, <1>5 DEF Single!Note
<1>7. Single!Use(a)
  BY <1>1, <1>3, <1>6 DEF Single!Use
<1>. QED
  BY <1>3, <1>7 DEF Single!Next

\* Every step is a step of SingleUse, or none.
LEMMA StepIsSingleStep ==
  ASSUME IInv, [Next]_vars
  PROVE  Single!Next \/ Unseen
<1>. USE DEF names, settings, history
<1>1. ASSUME NEW w \in Workers, Abandon(w) PROVE Single!Next \/ Unseen
  <2>1. End(w) /\ UNCHANGED <<account, records, roots, registered>>
    BY <1>1 DEF Abandon
  <2>2. CASE w \in Verifying
    BY <2>1, <2>2, EndPlaces, HandsEmptied, LostIsLose
  <2>3. CASE w \notin Verifying
    BY <2>1, <2>3, EndPlaces, PlacesKept
  <2>. QED
    BY <2>2, <2>3
<1>2. ASSUME NEW w \in Workers, MergeUsers(w) PROVE Unseen
  <2>1. /\ End(w) /\ w \notin Verifying
        /\ UNCHANGED <<account, records, roots, registered>>
    BY <1>2 DEF MergeUsers, Verifying
  <2>. QED
    BY <2>1, EndPlaces, PlacesKept
<1>3. ASSUME NEW w \in Workers, BeginMerge(w) PROVE Unseen
  <2>1. PICK old, new \in exists :
          /\ req[w] = Idle /\ req' = [req EXCEPT ![w] = [op |-> "merge", old |-> old, new |-> new]]
          /\ UNCHANGED <<account, records, roots, registered>>
    BY <1>3 DEF BeginMerge
  <2>2. /\ req'[w].op = "merge" /\ req[w].op = "idle"
        /\ \A v \in Workers \ {w} : req'[v] = req[v]
    BY <2>1 DEF IInv, TypeOK, Idle
  <2>3. Verifying' = Verifying /\ \A v \in Verifying : req'[v] = req[v]
    BY <2>2 DEF Verifying
  <2>. QED
    BY <2>1, <2>3, PlacesKept DEF Stored, Ceremony, InHand
<1>4. ASSUME NEW id \in Roots, Expire(id) PROVE Single!Next
  <2>1. /\ id \in Stored /\ Stored' = Stored \ {id}
        /\ \A i \in Stored' : records'[i] = records[i]
        /\ UNCHANGED <<account, roots, req, registered>>
    BY <1>4 DEF Expire, Stored, IInv, TypeOK
  <2>2. /\ Verifying' = Verifying /\ \A w \in Verifying : InHand(w)' = InHand(w)
        /\ \A i \in Stored' : Ceremony(i)' = Ceremony(i)
    BY <2>1 DEF Verifying, InHand, Ceremony
  <2>. QED
    BY <2>1, <2>2, RecordLost, LostIsLose
<1>5. CASE UNCHANGED <<account, records, roots, req, registered>>
  BY <1>5, PlacesKept DEF Stored, Verifying, Ceremony, InHand
<1>6. ASSUME NEW u \in Users, TrashHandle(u) \/ DeleteUser(u) \/ \E new \in Users : RenameUser(u, new)
      PROVE  UNCHANGED <<account, records, roots, req, registered>>
  BY <1>6 DEF TrashHandle, DeleteUser, RenameUser
<1>7. ASSUME NEW s \in Sids, ChangeWindow(s)
      PROVE  UNCHANGED <<account, records, roots, req, registered>>
  BY <1>7 DEF ChangeWindow
<1>8. ChangeRow \/ ChangeSettings \/ UNCHANGED vars
        => UNCHANGED <<account, records, roots, req, registered>>
  BY DEF ChangeRow, ChangeSettings, vars
<1>. QED
  BY <1>1, <1>2, <1>3, <1>4, <1>5, <1>6, <1>7, <1>8, BeginIsBegin, StartIsLose, InsertIsUse
  DEF Next, Serve

\* A ceremony registers one passkey at most, the one it was begun for
\* (state.consume_ceremony, verify_registration).
THEOREM EnrollmentsAreSingleUse == Spec => ImplementsSingleUse
<1>1. Init => Single!Init
  <2>. SUFFICES ASSUME Init PROVE Single!Init
    OBVIOUS
  <2>1. Stored = {} /\ Verifying = {} /\ roots = 0 /\ registered = << >>
    BY DEF Init, Stored, Verifying, Idle
  <2>2. Pending = {}
    BY <2>1 DEF Pending
  <2>. QED
    BY <2>1, <2>2 DEF Single!Init
<1>2. IInv /\ [Next]_vars => [Single!Next]_Single!vars
  BY StepIsSingleStep DEF Unseen, Single!vars
<1>. QED
  BY <1>1, <1>2, Invariant, PTL DEF Spec, ImplementsSingleUse, Single!Spec
===============================================================================
