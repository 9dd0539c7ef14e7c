--------------------------- MODULE LoginFloorProofs ---------------------------
(* Proofs about LoginFloor, for any accounts, passkeys, RP IDs and workers. *)
EXTENDS LoginFloor, TLAPS

\* No two transactions hold the same row.
MutualExclusion ==
    \A w, o \in Workers : w # o => Held(w) \cap Held(o) = {}

\* What a transaction read under a lock is still so while it holds the lock;
\* the RP ID is left out, a file edit changes it under any lock.
SeenIsCurrent ==
    \A w \in Workers : seen[w] \ SiteRps = (Held(w) \cap Facts) \ SiteRps

IInv == TypeOK /\ MutualExclusion /\ SeenIsCurrent /\ ModeFloor /\ SecondFactorFloor

Rows == Users \cup Credentials \cup PasskeyRows \cup SystemRows

-----------------------------------------------------------------------------
\* What kind of record a request is follows from its op.
LEMMA RequestShape ==
  ASSUME NEW r \in Requests \cup {Idle}
  PROVE  /\ r.op \in {"delete", "disable"} => r \in RemovalRequests
         /\ r.op \in {"enable", "register"} => r \in RowRequests
         /\ r.op \in {"set_passkey_only", "save_handle"} => r \in FlagRequests
         /\ r.op \in {"delete_handle", "delete_user"} => r \in UserRequests
         /\ r.op = "save_settings" => r \in SettingsRequests
         /\ r.op = "save_system" => r \in SystemRequests
         /\ r.op = "remove_stale" => r \in StaleRequests
         /\ r.op = "idle" => r = Idle
  BY DEF Requests, RemovalRequests, RowRequests, FlagRequests, UserRequests,
         SettingsRequests, SystemRequests, StaleRequests, Idle

\* The lock table, one line per kind of request.
LEMMA LocksByOp ==
  ASSUME NEW r
  PROVE  /\ r.op = "idle" => Locks(r) = << >>
         /\ r.op = "delete" => Locks(r) = <<{Owner[r.cred]}, CredentialRows(Owner[r.cred])>>
         /\ r.op = "disable" =>
              Locks(r) = <<{r.cred}, {Owner[r.cred]}, CredentialRows(Owner[r.cred])>>
         /\ r.op = "enable" => Locks(r) = <<{r.cred}>>
         /\ r.op = "register" => Locks(r) = <<{Owner[r.cred]}, CredentialRows(Owner[r.cred])>>
         /\ r.op = "set_passkey_only" =>
              Locks(r) = <<PasskeyRows, {r.user}, CredentialRows(r.user)>>
         /\ (r.op = "save_handle" /\ r.to = 1) =>
              Locks(r) = <<{r.user}, PasskeyRows, CredentialRows(r.user)>>
         /\ (r.op = "save_handle" /\ r.to # 1) => Locks(r) = <<{r.user}>>
         /\ r.op = "delete_handle" => Locks(r) = <<{r.user}, CredentialRows(r.user)>>
         /\ r.op = "delete_user" => Locks(r) = <<CredentialRows(r.user), {r.user}>>
         /\ r.op = "save_settings" =>
              Locks(r) = <<PasskeyRows,
                           IF r.modes = {} THEN Users ELSE {},
                           IF "passkey_as_second_factor" \in r.modes THEN SystemRows ELSE {}>>
         /\ r.op = "save_system" =>
              Locks(r) = <<SystemRows,
                           IF \/ "disable_user_pass_login" \in r.core
                              \/ "enable_two_factor_auth" \notin r.core
                           THEN PasskeyRows ELSE {}>>
         /\ r.op = "remove_stale" =>
              Locks(r) = <<PasskeyRows,
                           {Owner[c] : c \in r.stale} \cup
                           {d \in Credentials : \E c \in r.stale : Owner[c] = Owner[d]}>>
  BY Zenon DEF Locks, FloorLocks, ToggleLocks

\* Each kind of request locks between none and three sets of rows.
LEMMA LocksOf ==
  ASSUME NEW r \in Requests \cup {Idle}
  PROVE  /\ Len(Locks(r)) \in 0..3
         /\ \A i \in 1..Len(Locks(r)) : Locks(r)[i] \subseteq Rows
  <1>1. CASE r = Idle BY <1>1, LocksByOp DEF Idle
  <1>2. CASE r \in RemovalRequests
    BY <1>2, LocksByOp, RowsAssumption DEF RemovalRequests, CredentialRows, Rows
  <1>3. CASE r \in RowRequests
    BY <1>3, LocksByOp, RowsAssumption DEF RowRequests, CredentialRows, Rows
  <1>4. CASE r \in FlagRequests
    BY <1>4, LocksByOp DEF FlagRequests, CredentialRows, Rows
  <1>5. CASE r \in UserRequests
    BY <1>5, LocksByOp DEF UserRequests, CredentialRows, Rows
  <1>6. CASE r \in SettingsRequests
    BY <1>6, LocksByOp DEF SettingsRequests, Rows
  <1>7. CASE r \in SystemRequests
    BY <1>7, LocksByOp DEF SystemRequests, Rows
  <1>8. CASE r \in StaleRequests
    BY <1>8, LocksByOp, RowsAssumption DEF StaleRequests, Rows
  <1> QED BY <1>1, <1>2, <1>3, <1>4, <1>5, <1>6, <1>7, <1>8 DEF Requests

-----------------------------------------------------------------------------
(* Type correctness.                                                       *)

LEMMA BeginType ==
  ASSUME TypeOK, NEW w \in Workers, NEW r \in Requests, Begin(w, r)
  PROVE  TypeOK'
  <1>1. req' = [req EXCEPT ![w] = r] /\ req[w] = Idle /\ UNCHANGED <<tables, step, seen>>
    BY DEF Begin
  <1>2. req' \in [Workers -> Requests \cup {Idle}] BY <1>1 DEF TypeOK
  <1>3. \A v \in Workers : step'[v] <= Len(Locks(req'[v]))
    <2> SUFFICES ASSUME NEW v \in Workers PROVE step'[v] <= Len(Locks(req'[v])) OBVIOUS
    <2>1. CASE v = w
      <3>0. Len(Locks(Idle)) = 0 BY LocksByOp DEF Idle
      <3>1. step[w] = 0 BY <1>1, <3>0 DEF TypeOK
      <3>2. Len(Locks(r)) \in 0..3 BY LocksOf
      <3> QED BY <1>1, <2>1, <3>1, <3>2 DEF TypeOK
    <2>2. CASE v # w BY <1>1, <2>2 DEF TypeOK
    <2> QED BY <2>1, <2>2
  <1> QED BY <1>1, <1>2, <1>3 DEF TypeOK, tables

LEMMA StartIsBegin ==
  ASSUME TypeOK, NEW w \in Workers, Start(w)
  PROVE  \E r \in Requests : Begin(w, r)
  <1>1. CASE BeginDelete(w)
    BY <1>1 DEF TypeOK, BeginDelete, Requests, RemovalRequests
  <1>2. CASE BeginDisable(w)
    BY <1>2 DEF TypeOK, BeginDisable, Requests, RemovalRequests
  <1>3. CASE BeginEnable(w)
    BY <1>3 DEF TypeOK, BeginEnable, Requests, RowRequests
  <1>4. CASE BeginRegister(w)
    BY <1>4 DEF TypeOK, BeginRegister, Requests, RowRequests
  <1>5. CASE BeginSetPasskeyOnly(w)
    BY <1>5 DEF TypeOK, BeginSetPasskeyOnly, Requests, FlagRequests
  <1>6. CASE BeginSaveHandle(w)
    BY <1>6 DEF TypeOK, BeginSaveHandle, Requests, FlagRequests
  <1>7. CASE BeginDeleteHandle(w)
    BY <1>7 DEF TypeOK, BeginDeleteHandle, Requests, UserRequests
  <1>8. CASE BeginDeleteUser(w)
    BY <1>8 DEF TypeOK, BeginDeleteUser, Requests, UserRequests
  <1>9. CASE BeginSaveSettings(w)
    BY <1>9 DEF TypeOK, BeginSaveSettings, Requests, SettingsRequests
  <1>10. CASE BeginSaveSystem(w)
    BY <1>10 DEF TypeOK, BeginSaveSystem, Requests, SystemRequests
  <1>11. CASE BeginRemoveStale(w)
    BY <1>11 DEF TypeOK, BeginRemoveStale, Requests, StaleRequests
  <1> QED
    BY <1>1, <1>2, <1>3, <1>4, <1>5, <1>6, <1>7, <1>8, <1>9, <1>10, <1>11 DEF Start

LEMMA EndType ==
  ASSUME TypeOK, NEW w \in Workers, End(w)
  PROVE  /\ req' \in [Workers -> Requests \cup {Idle}]
         /\ step' \in [Workers -> 0..3]
         /\ \A v \in Workers : step'[v] <= Len(Locks(req'[v]))
         /\ seen' \in [Workers -> SUBSET Rows]
  <1>1. Len(Locks(Idle)) = 0 BY LocksByOp DEF Idle
  <1> QED BY <1>1 DEF TypeOK, End, Rows

\* The fields of a request are well typed.
LEMMA CommitType ==
  ASSUME TypeOK, NEW w \in Workers, Commit(w)
  PROVE  TypeOK'
  <1>1. End(w)
    BY DEF Commit, Decides, Delete, Disable, Enable, Register, SetPasskeyOnly, SaveHandle,
           DeleteHandle, DeleteUser, SaveSettings, SaveSystem, RemoveStale
  <1>2. req[w] \in Requests \cup {Idle} BY DEF TypeOK
  <1>3. CASE Delete(w) BY <1>1, <1>3, EndType DEF Delete, TypeOK, Rows
  <1>4. CASE Disable(w) BY <1>1, <1>4, EndType DEF Disable, TypeOK, Rows
  <1>5. CASE Enable(w) BY <1>1, <1>5, EndType DEF Enable, TypeOK, Rows
  <1>6. CASE Register(w)
    <2>1. req[w].cred \in Credentials
      BY <1>2, <1>6, RequestShape DEF Register, Decides, RowRequests
    <2> QED BY <1>1, <1>6, <2>1, EndType DEF Register, TypeOK, Rows
  <1>7. CASE SetPasskeyOnly(w)
    <2>1. req[w].user \in Users
      BY <1>2, <1>7, RequestShape DEF SetPasskeyOnly, Decides, FlagRequests
    <2> QED BY <1>1, <1>7, <2>1, EndType DEF SetPasskeyOnly, Flag, TypeOK, Rows
  <1>8. CASE SaveHandle(w)
    <2>1. req[w].user \in Users
      BY <1>2, <1>8, RequestShape DEF SaveHandle, Decides, FlagRequests
    <2> QED BY <1>1, <1>8, <2>1, EndType DEF SaveHandle, Flag, TypeOK, Rows
  <1>9. CASE DeleteHandle(w) BY <1>1, <1>9, EndType DEF DeleteHandle, Flag, TypeOK, Rows
  <1>10. CASE DeleteUser(w) BY <1>1, <1>10, EndType DEF DeleteUser, Flag, TypeOK, Rows
  <1>11. CASE SaveSettings(w)
    <2>1. req[w] \in SettingsRequests
      BY <1>2, <1>11, RequestShape DEF SaveSettings, Decides
    <2> QED BY <1>1, <1>11, <2>1, EndType DEF SaveSettings, SettingsRequests, TypeOK, Rows
  <1>12. CASE SaveSystem(w)
    <2>1. req[w] \in SystemRequests
      BY <1>2, <1>12, RequestShape DEF SaveSystem, Decides
    <2> QED BY <1>1, <1>12, <2>1, EndType DEF SaveSystem, SystemRequests, TypeOK, Rows
  <1>13. CASE RemoveStale(w) BY <1>1, <1>13, EndType DEF RemoveStale, TypeOK, Rows
  <1> QED BY <1>3, <1>4, <1>5, <1>6, <1>7, <1>8, <1>9, <1>10, <1>11, <1>12, <1>13 DEF Commit

LEMMA AcquireType ==
  ASSUME TypeOK, NEW w \in Workers, Acquire(w)
  PROVE  TypeOK'
  <1> DEFINE next == Locks(req[w])[step[w] + 1]
  <1>1. /\ step[w] < Len(Locks(req[w]))
        /\ step' = [step EXCEPT ![w] = @ + 1]
        /\ seen' = [seen EXCEPT ![w] = @ \cup Current(next)]
        /\ UNCHANGED <<tables, req>>
    BY DEF Acquire
  <1>2. req[w] \in Requests \cup {Idle} BY DEF TypeOK
  <1>3. Len(Locks(req[w])) \in 0..3 BY <1>2, LocksOf
  <1>4. next \subseteq Rows BY <1>1, <1>2, <1>3, LocksOf DEF TypeOK
  <1>5. step' \in [Workers -> 0..3] /\ \A v \in Workers : step'[v] <= Len(Locks(req'[v]))
    <2>0. step[w] \in 0..3 BY DEF TypeOK
    <2>1. step[w] + 1 \in 0..3
      <3>1. ASSUME NEW n \in 0..3, NEW k \in 0..3, k < n PROVE k + 1 \in 0..3
        BY <3>1
      <3>2. step[w] < Len(Locks(req[w])) BY <1>1
      <3> QED BY <1>3, <2>0, <3>1, <3>2
    <2>2. req' = req BY <1>1
    <2> QED BY <1>1, <1>3, <2>1, <2>2 DEF TypeOK
  <1>6. seen' \in [Workers -> SUBSET Rows]
    BY <1>1, <1>4 DEF TypeOK, Current, Rows
  <1> QED BY <1>1, <1>5, <1>6 DEF TypeOK, tables, Rows

\* Types are inductive.
LEMMA TypeStep ==
  ASSUME TypeOK, [Next]_vars
  PROVE  TypeOK'
  <1>1. ASSUME NEW w \in Workers, Start(w) PROVE TypeOK'
    BY <1>1, StartIsBegin, BeginType
  <1>2. ASSUME NEW w \in Workers, Acquire(w) PROVE TypeOK' BY <1>2, AcquireType
  <1>3. ASSUME NEW w \in Workers, Commit(w) PROVE TypeOK' BY <1>3, CommitType
  <1>4. ASSUME NEW w \in Workers, Rollback(w) PROVE TypeOK'
    BY <1>4, EndType DEF Rollback, TypeOK, tables, Rows
  <1>5. CASE EditSiteConfig BY <1>5 DEF EditSiteConfig, TypeOK
  <1>6. CASE UNCHANGED vars BY <1>6 DEF vars, TypeOK
  <1> QED BY <1>1, <1>2, <1>3, <1>4, <1>5, <1>6 DEF Next

LEMMA InitType == Init => TypeOK
  <1>1. Len(Locks(Idle)) = 0 BY LocksByOp DEF Idle
  <1> QED BY <1>1 DEF Init, TypeOK

\* The database and the requests keep their types, for every instance.
THEOREM TypeCorrect == Spec => []TypeOK
  BY InitType, TypeStep, PTL DEF Spec

-----------------------------------------------------------------------------
(* The lock discipline.                                                    *)

\* A transaction that decides holds every lock set of its request.
LEMMA HeldAtDecision ==
  ASSUME NEW w \in Workers, step[w] = Len(Locks(req[w])),
         req[w] \in Requests \cup {Idle}
  PROVE  /\ req[w].op \in {"delete", "disable", "register"} =>
              {Owner[req[w].cred]} \cup CredentialRows(Owner[req[w].cred]) \subseteq Held(w)
         /\ req[w].op = "enable" => req[w].cred \in Held(w)
         /\ req[w].op \in {"set_passkey_only", "delete_handle", "delete_user"} =>
              {req[w].user} \cup CredentialRows(req[w].user) \subseteq Held(w)
         /\ req[w].op = "save_handle" =>
              /\ req[w].user \in Held(w)
              /\ req[w].to = 1 => CredentialRows(req[w].user) \subseteq Held(w)
         /\ req[w].op = "save_settings" =>
              /\ PasskeyRows \subseteq Held(w)
              /\ req[w].modes = {} => Users \subseteq Held(w)
              /\ "passkey_as_second_factor" \in req[w].modes => SystemRows \subseteq Held(w)
         /\ req[w].op = "save_system" =>
              /\ SystemRows \subseteq Held(w)
              /\ ("disable_user_pass_login" \in req[w].core
                    \/ "enable_two_factor_auth" \notin req[w].core)
                   => PasskeyRows \subseteq Held(w)
         /\ req[w].op = "remove_stale" =>
              \A c \in req[w].stale :
                 {Owner[c]} \cup CredentialRows(Owner[c]) \subseteq Held(w)
  <1> DEFINE r == req[w]
             n == Len(Locks(r))
  <1>1. \A i \in 1..n : Locks(r)[i] \subseteq Held(w) BY DEF Held
  <1>2. CASE r.op = "delete"
    <2>1. n = 2 /\ Locks(r)[1] = {Owner[r.cred]} /\ Locks(r)[2] = CredentialRows(Owner[r.cred])
      BY <1>2, LocksByOp
    <2> QED BY <1>1, <1>2, <2>1
  <1>3. CASE r.op = "disable"
    <2>1. n = 3 /\ Locks(r)[2] = {Owner[r.cred]} /\ Locks(r)[3] = CredentialRows(Owner[r.cred])
      BY <1>3, LocksByOp
    <2> QED BY <1>1, <1>3, <2>1
  <1>4. CASE r.op = "enable"
    <2>1. n = 1 /\ Locks(r)[1] = {r.cred} BY <1>4, LocksByOp
    <2> QED BY <1>1, <1>4, <2>1
  <1>5. CASE r.op = "register"
    <2>1. n = 2 /\ Locks(r)[1] = {Owner[r.cred]} /\ Locks(r)[2] = CredentialRows(Owner[r.cred])
      BY <1>5, LocksByOp
    <2> QED BY <1>1, <1>5, <2>1
  <1>6. CASE r.op = "set_passkey_only"
    <2>1. n = 3 /\ Locks(r)[2] = {r.user} /\ Locks(r)[3] = CredentialRows(r.user)
      BY <1>6, LocksByOp
    <2> QED BY <1>1, <1>6, <2>1
  <1>7. CASE r.op = "save_handle"
    <2>1. CASE r.to = 1
      <3>1. n = 3 /\ Locks(r)[1] = {r.user} /\ Locks(r)[3] = CredentialRows(r.user)
        BY <1>7, <2>1, LocksByOp
      <3> QED BY <1>1, <1>7, <3>1
    <2>2. CASE r.to # 1
      <3>1. n = 1 /\ Locks(r)[1] = {r.user} BY <1>7, <2>2, LocksByOp
      <3> QED BY <1>1, <1>7, <2>2, <3>1
    <2> QED BY <2>1, <2>2
  <1>8. CASE r.op = "delete_handle"
    <2>1. n = 2 /\ Locks(r)[1] = {r.user} /\ Locks(r)[2] = CredentialRows(r.user)
      BY <1>8, LocksByOp
    <2> QED BY <1>1, <1>8, <2>1
  <1>9. CASE r.op = "delete_user"
    <2>1. n = 2 /\ Locks(r)[2] = {r.user} /\ Locks(r)[1] = CredentialRows(r.user)
      BY <1>9, LocksByOp
    <2> QED BY <1>1, <1>9, <2>1
  <1>10. CASE r.op = "save_settings"
    <2>1. /\ n = 3 /\ Locks(r)[1] = PasskeyRows
          /\ r.modes = {} => Locks(r)[2] = Users
          /\ "passkey_as_second_factor" \in r.modes => Locks(r)[3] = SystemRows
      BY <1>10, LocksByOp
    <2> QED BY <1>1, <1>10, <2>1
  <1>11. CASE r.op = "save_system"
    <2>1. /\ n = 2 /\ Locks(r)[1] = SystemRows
          /\ ("disable_user_pass_login" \in r.core \/ "enable_two_factor_auth" \notin r.core)
               => Locks(r)[2] = PasskeyRows
      BY <1>11, LocksByOp
    <2> QED BY <1>1, <1>11, <2>1
  <1>12. CASE r.op = "remove_stale"
    <2>1. /\ n = 2
          /\ Locks(r)[2] = {Owner[c] : c \in r.stale} \cup
                           {d \in Credentials : \E c \in r.stale : Owner[c] = Owner[d]}
      BY <1>12, LocksByOp
    <2> QED BY <1>1, <1>12, <2>1 DEF CredentialRows
  <1>13. CASE r.op = "idle" BY <1>13
  <1> HIDE DEF r
  <1> QED
    BY <1>2, <1>3, <1>4, <1>5, <1>6, <1>7, <1>8, <1>9, <1>10, <1>11, <1>12, <1>13 DEF r

\* Only w's own locks change when w begins, waits, or ends.
LEMMA HeldFrame ==
  ASSUME NEW w \in Workers, TypeOK,
         req' = [req EXCEPT ![w] = req'[w]], step' = [step EXCEPT ![w] = step'[w]]
  PROVE  /\ \A v \in Workers \ {w} : Held(v)' = Held(v)
         /\ Held(w)' = UNION {Locks(req'[w])[i] : i \in 1..step'[w]}
  BY DEF Held, TypeOK

\* A transaction that ends has changed nothing but rows it holds.
LEMMA EndFrame ==
  ASSUME TypeOK, MutualExclusion, SeenIsCurrent, NEW w \in Workers, End(w),
         \A x : x \notin Held(w) \cup SiteRps => (x \in Facts' <=> x \in Facts)
  PROVE  MutualExclusion' /\ SeenIsCurrent'
  <1>0. /\ req' = [req EXCEPT ![w] = req'[w]] /\ step' = [step EXCEPT ![w] = step'[w]]
        /\ step'[w] = 0
    BY DEF End, TypeOK
  <1>1. \A v \in Workers \ {w} : Held(v)' = Held(v) BY <1>0, HeldFrame
  <1>2. Held(w)' = {}
    <2>1. 1..0 = {} OBVIOUS
    <2> QED BY <1>0, <2>1, HeldFrame
  <1>3. MutualExclusion' BY <1>1, <1>2 DEF MutualExclusion
  <1>4. ASSUME NEW v \in Workers
        PROVE  seen'[v] \ SiteRps = (Held(v)' \cap Facts') \ SiteRps
    <2>1. CASE v = w BY <1>2, <2>1 DEF End, TypeOK
    <2>2. CASE v # w
      <3>1. seen'[v] = seen[v] BY <2>2 DEF End, TypeOK
      <3>2. Held(v)' = Held(v) BY <1>1, <2>2
      <3>3. Held(v) \cap Held(w) = {} BY <2>2 DEF MutualExclusion
      <3>4. seen[v] \ SiteRps = (Held(v) \cap Facts) \ SiteRps BY DEF SeenIsCurrent
      <3>5. \A x \in Held(v) \ SiteRps : x \in Facts' <=> x \in Facts BY <3>3
      <3> QED BY <3>1, <3>2, <3>4, <3>5
    <2> QED BY <2>1, <2>2
  <1> QED BY <1>3, <1>4 DEF SeenIsCurrent

\* The rows, by kind, and the RP IDs never share a name.
LEMMA RowsDisjoint ==
  /\ Users \cap Credentials = {} /\ Users \cap Modes = {} /\ Users \cap Switches = {}
  /\ Credentials \cap Modes = {} /\ Credentials \cap Switches = {} /\ Modes \cap Switches = {}
  /\ SiteRps \cap (Users \cup Credentials \cup Modes \cup Switches) = {}
  BY RowsAssumption DEF Modes, Switches

\* Every deciding transaction ends and writes rows it has locked, no others.
LEMMA CommitFrame ==
  ASSUME TypeOK, NEW w \in Workers, Commit(w)
  PROVE  /\ End(w)
         /\ \A x : x \notin Held(w) \cup SiteRps => (x \in Facts' <=> x \in Facts)
  <1>1. End(w) /\ step[w] = Len(Locks(req[w]))
    BY DEF Commit, Decides, Delete, Disable, Enable, Register, SetPasskeyOnly, SaveHandle,
           DeleteHandle, DeleteUser, SaveSettings, SaveSystem, RemoveStale
  <1>2. req[w] \in Requests \cup {Idle} BY DEF TypeOK
  <1>3. CASE Delete(w)
    <2>1. req[w].op = "delete" /\ req[w].cred \in Credentials
      BY <1>2, <1>3, RequestShape DEF Delete, Decides, RemovalRequests
    <2>2. req[w].cred \in Held(w) BY <1>1, <1>2, <2>1, HeldAtDecision DEF CredentialRows
    <2> QED BY <1>1, <1>3, <2>2 DEF Delete, Facts
  <1>4. CASE Disable(w)
    <2>1. req[w].op = "disable" /\ req[w].cred \in Credentials
      BY <1>2, <1>4, RequestShape DEF Disable, Decides, RemovalRequests
    <2>2. req[w].cred \in Held(w) BY <1>1, <1>2, <2>1, HeldAtDecision DEF CredentialRows
    <2> QED BY <1>1, <1>4, <2>2 DEF Disable, Facts
  <1>5. CASE Enable(w)
    <2>1. req[w].op = "enable" BY <1>5 DEF Enable, Decides
    <2>2. req[w].cred \in Held(w) BY <1>1, <1>2, <2>1, HeldAtDecision
    <2> QED BY <1>1, <1>5, <2>2 DEF Enable, Facts
  <1>6. CASE Register(w)
    <2>1. req[w].op = "register" /\ req[w].cred \in Credentials
      BY <1>2, <1>6, RequestShape DEF Register, Decides, RowRequests
    <2>2. req[w].cred \in Held(w) BY <1>1, <1>2, <2>1, HeldAtDecision DEF CredentialRows
    <2> QED BY <1>1, <1>6, <2>2 DEF Register, Facts
  <1>7. CASE SetPasskeyOnly(w)
    <2>1. req[w].user \in Held(w)
      BY <1>1, <1>2, <1>7, HeldAtDecision DEF SetPasskeyOnly, Decides
    <2> QED BY <1>1, <1>7, <2>1 DEF SetPasskeyOnly, Flag, Facts
  <1>8. CASE SaveHandle(w)
    <2>1. req[w].user \in Held(w)
      BY <1>1, <1>2, <1>8, HeldAtDecision DEF SaveHandle, Decides
    <2> QED BY <1>1, <1>8, <2>1 DEF SaveHandle, Flag, Facts
  <1>9. CASE DeleteHandle(w)
    <2>1. req[w].user \in Held(w)
      BY <1>1, <1>2, <1>9, HeldAtDecision DEF DeleteHandle, Decides
    <2> QED BY <1>1, <1>9, <2>1 DEF DeleteHandle, Flag, Facts
  <1>10. CASE DeleteUser(w)
    <2>1. {req[w].user} \cup CredentialRows(req[w].user) \subseteq Held(w)
      BY <1>1, <1>2, <1>10, HeldAtDecision DEF DeleteUser, Decides
    <2> QED BY <1>1, <1>10, <2>1 DEF DeleteUser, Flag, Facts
  <1>11. CASE SaveSettings(w)
    <2>1. PasskeyRows \subseteq Held(w) /\ req[w].modes \subseteq Modes
      BY <1>1, <1>2, <1>11, HeldAtDecision, RequestShape
      DEF SaveSettings, Decides, SettingsRequests
    <2> QED BY <1>1, <1>11, <2>1 DEF SaveSettings, Facts, PasskeyRows, TypeOK
  <1>12. CASE SaveSystem(w)
    <2>1. SystemRows \subseteq Held(w) /\ req[w].core \subseteq Switches
      BY <1>1, <1>2, <1>12, HeldAtDecision, RequestShape
      DEF SaveSystem, Decides, SystemRequests
    <2> QED BY <1>1, <1>12, <2>1 DEF SaveSystem, Facts, SystemRows, TypeOK
  <1>13. CASE RemoveStale(w)
    <2>1. req[w].op = "remove_stale" /\ req[w].stale \subseteq Credentials
      BY <1>2, <1>13, RequestShape DEF RemoveStale, Decides, StaleRequests
    <2>2. req[w].stale \subseteq Held(w)
      BY <1>1, <1>2, <2>1, HeldAtDecision DEF CredentialRows
    <2> QED BY <1>1, <1>13, <2>2 DEF RemoveStale, Facts
  <1> QED
    BY <1>1, <1>3, <1>4, <1>5, <1>6, <1>7, <1>8, <1>9, <1>10, <1>11, <1>12, <1>13 DEF Commit

\* Locks are exclusive and what they protect is read once: every step keeps it.
LEMMA LockingStep ==
  ASSUME TypeOK, MutualExclusion, SeenIsCurrent, [Next]_vars
  PROVE  MutualExclusion' /\ SeenIsCurrent'
  <1>1. ASSUME NEW w \in Workers, Start(w) PROVE MutualExclusion' /\ SeenIsCurrent'
    <2>1. PICK r \in Requests : Begin(w, r) BY <1>1, StartIsBegin
    <2>2. req[w] = Idle /\ req' = [req EXCEPT ![w] = r] /\ UNCHANGED <<tables, step, seen>>
      BY <2>1 DEF Begin
    <2>3. step[w] = 0
      <3>1. Len(Locks(Idle)) = 0 BY LocksByOp DEF Idle
      <3> QED BY <2>2, <3>1 DEF TypeOK
    <2>4. /\ req' = [req EXCEPT ![w] = req'[w]] /\ step' = [step EXCEPT ![w] = step'[w]]
          /\ step'[w] = 0
      BY <2>2, <2>3 DEF TypeOK
    <2>5. Held(w) = {} /\ Held(w)' = {}
      <3>1. 1..0 = {} OBVIOUS
      <3> QED BY <2>2, <2>3, <2>4, <3>1, HeldFrame DEF Held
    <2>6. \A v \in Workers : Held(v)' = Held(v) BY <2>2, <2>4, <2>5, HeldFrame
    <2> QED BY <2>2, <2>6 DEF MutualExclusion, SeenIsCurrent, Facts, tables
  <1>2. ASSUME NEW w \in Workers, Acquire(w) PROVE MutualExclusion' /\ SeenIsCurrent'
    <2> DEFINE next == Locks(req[w])[step[w] + 1]
    <2>1. /\ step' = [step EXCEPT ![w] = step'[w]] /\ step'[w] = step[w] + 1
          /\ req' = [req EXCEPT ![w] = req'[w]] /\ req'[w] = req[w]
          /\ seen' = [seen EXCEPT ![w] = seen[w] \cup (next \cap (Facts \cup {rp}))]
          /\ \A o \in Workers \ {w} : Held(o) \cap next = {}
          /\ UNCHANGED tables
      BY <1>2 DEF Acquire, Current, TypeOK
    <2>2. \A v \in Workers \ {w} : Held(v)' = Held(v) BY <2>1, HeldFrame
    <2>3. Held(w)' = Held(w) \cup next
      <3>1. Held(w)' = UNION {Locks(req[w])[i] : i \in 1..(step[w] + 1)} BY <2>1, HeldFrame
      <3>2. step[w] \in Nat BY DEF TypeOK
      <3>3. 1..(step[w] + 1) = (1..step[w]) \cup {step[w] + 1} BY <3>2
      <3> QED BY <3>1, <3>3 DEF Held
    <2>4. MutualExclusion' BY <2>1, <2>2, <2>3 DEF MutualExclusion
    <2>5. ASSUME NEW v \in Workers
          PROVE  seen'[v] \ SiteRps = (Held(v)' \cap Facts') \ SiteRps
      <3>1. Facts' = Facts BY <2>1 DEF Facts, tables
      <3>2. seen[v] \ SiteRps = (Held(v) \cap Facts) \ SiteRps BY DEF SeenIsCurrent
      <3>3. CASE v = w
        <4>1. seen'[w] = seen[w] \cup (next \cap (Facts \cup {rp})) BY <2>1 DEF TypeOK
        <4>2. rp \in SiteRps BY DEF TypeOK
        <4> QED BY <2>3, <3>1, <3>2, <3>3, <4>1, <4>2
      <3>4. CASE v # w BY <2>1, <2>2, <3>1, <3>2, <3>4 DEF TypeOK
      <3> QED BY <3>3, <3>4
    <2> QED BY <2>4, <2>5 DEF SeenIsCurrent
  <1>3. ASSUME NEW w \in Workers, Commit(w) PROVE MutualExclusion' /\ SeenIsCurrent'
    BY <1>3, CommitFrame, EndFrame
  <1>4. ASSUME NEW w \in Workers, Rollback(w) PROVE MutualExclusion' /\ SeenIsCurrent'
    BY <1>4, EndFrame DEF Rollback, Facts, tables
  <1>5. CASE EditSiteConfig BY <1>5 DEF EditSiteConfig, MutualExclusion, SeenIsCurrent, Held, Facts
  <1>6. CASE UNCHANGED vars BY <1>6 DEF vars, MutualExclusion, SeenIsCurrent, Held, Facts
  <1> QED BY <1>1, <1>2, <1>3, <1>4, <1>5, <1>6 DEF Next

-----------------------------------------------------------------------------
(* The floors between the two settings forms and the accounts' flags.      *)

\* What a transaction has read of the rows it holds, kind by kind.
LEMMA SeenByKind ==
  ASSUME TypeOK, SeenIsCurrent, NEW w \in Workers
  PROVE  /\ \A c \in Credentials : c \in Held(w) => (c \in seen[w] <=> c \in enabled)
         /\ \A u \in Users : u \in Held(w) => (u \in seen[w] <=> u \in passkeyOnly)
         /\ \A m \in Modes : m \in seen[w] => m \in modes
         /\ \A m \in Modes : m \in Held(w) => (m \in seen[w] <=> m \in modes)
         /\ \A s \in Switches : s \in Held(w) => (s \in seen[w] <=> s \in core)
  <1>1. seen[w] \ SiteRps = (Held(w) \cap Facts) \ SiteRps BY DEF SeenIsCurrent
  <1> QED BY <1>1, RowsDisjoint DEF Facts, TypeOK

\* Every commit keeps both settings floors.
LEMMA FloorsCommit ==
  ASSUME IInv, NEW w \in Workers, Commit(w)
  PROVE  ModeFloor' /\ SecondFactorFloor'
  <1>1. End(w) /\ step[w] = Len(Locks(req[w]))
    BY DEF Commit, Decides, Delete, Disable, Enable, Register, SetPasskeyOnly, SaveHandle,
           DeleteHandle, DeleteUser, SaveSettings, SaveSystem, RemoveStale
  <1>2. req[w] \in Requests \cup {Idle} BY DEF IInv, TypeOK
  <1> USE DEF IInv, ModeFloor, SecondFactorFloor
  <1>3. CASE Delete(w) BY <1>3 DEF Delete
  <1>4. CASE Disable(w) BY <1>4 DEF Disable
  <1>5. CASE Enable(w) BY <1>5 DEF Enable
  <1>6. CASE Register(w) BY <1>6 DEF Register
  <1>7. CASE SetPasskeyOnly(w)
    <2>1. req[w].to = 1 => modes # {}
      BY <1>7, SeenByKind DEF SetPasskeyOnly
    <2> QED BY <1>7, <2>1 DEF SetPasskeyOnly, Flag
  <1>8. CASE SaveHandle(w)
    <2>1. req[w].user \in Held(w) /\ req[w].user \in Users
      BY <1>1, <1>2, <1>8, HeldAtDecision, RequestShape
      DEF SaveHandle, Decides, FlagRequests
    <2>2. (req[w].to = 1 /\ req[w].user \notin passkeyOnly) => modes # {}
      BY <1>8, <2>1, SeenByKind DEF SaveHandle
    <2> QED BY <1>8, <2>2 DEF SaveHandle, Flag
  <1>9. CASE DeleteHandle(w) BY <1>9 DEF DeleteHandle, Flag
  <1>10. CASE DeleteUser(w) BY <1>10 DEF DeleteUser, Flag
  <1>11. CASE SaveSettings(w)
    <2>1. /\ req[w].modes = {} => Users \subseteq Held(w)
          /\ "passkey_as_second_factor" \in req[w].modes => Switches \subseteq Held(w)
      BY <1>1, <1>2, <1>11, HeldAtDecision DEF SaveSettings, Decides, SystemRows
    <2>2. req[w].modes = {} => passkeyOnly = {}
      BY <1>11, <2>1, SeenByKind DEF SaveSettings, TypeOK
    <2>3. "passkey_as_second_factor" \in req[w].modes =>
            /\ "enable_two_factor_auth" \in core
            /\ "login_with_passkey" \notin req[w].modes => "disable_user_pass_login" \notin core
      BY <1>11, <2>1, SeenByKind DEF SaveSettings, Switches
    <2> QED BY <1>11, <2>2, <2>3 DEF SaveSettings
  <1>12. CASE SaveSystem(w)
    <2>1. /\ Switches \subseteq Held(w)
          /\ ("disable_user_pass_login" \in req[w].core
                \/ "enable_two_factor_auth" \notin req[w].core) => Modes \subseteq Held(w)
      BY <1>1, <1>2, <1>12, HeldAtDecision DEF SaveSystem, Decides, SystemRows, PasskeyRows
    <2>2. ("disable_user_pass_login" \in req[w].core /\ "disable_user_pass_login" \notin core
           /\ "passkey_as_second_factor" \in modes) => "login_with_passkey" \in modes
      BY <1>12, <2>1, SeenByKind DEF SaveSystem, Modes, Switches
    <2>3. ("enable_two_factor_auth" \notin req[w].core /\ "enable_two_factor_auth" \in core)
            => "passkey_as_second_factor" \notin modes
      BY <1>12, <2>1, SeenByKind DEF SaveSystem, Modes, Switches
    <2> QED BY <1>12, <2>2, <2>3 DEF SaveSystem
  <1>13. CASE RemoveStale(w) BY <1>13 DEF RemoveStale
  <1> QED BY <1>3, <1>4, <1>5, <1>6, <1>7, <1>8, <1>9, <1>10, <1>11, <1>12, <1>13 DEF Commit

\* Nothing but a commit touches what the settings floors are about.
LEMMA TablesKept ==
  ASSUME [Next]_vars, \A w \in Workers : ~ Commit(w)
  PROVE  UNCHANGED <<stored, enabled, passkeyOnly, modes, core>>
  <1>1. ASSUME NEW w \in Workers, Start(w)
        PROVE UNCHANGED <<stored, enabled, passkeyOnly, modes, core>>
    BY <1>1 DEF Start, Begin, tables, BeginDelete, BeginDisable, BeginEnable, BeginRegister,
       BeginSetPasskeyOnly, BeginSaveHandle, BeginDeleteHandle, BeginDeleteUser,
       BeginSaveSettings, BeginSaveSystem, BeginRemoveStale
  <1>2. ASSUME NEW w \in Workers, Acquire(w) \/ Rollback(w)
        PROVE UNCHANGED <<stored, enabled, passkeyOnly, modes, core>>
    BY <1>2 DEF Acquire, Rollback, tables
  <1>3. CASE EditSiteConfig BY <1>3 DEF EditSiteConfig
  <1>4. CASE UNCHANGED vars BY <1>4 DEF vars
  <1> QED BY <1>1, <1>2, <1>3, <1>4 DEF Next

LEMMA InitIInv == Init => IInv
  <1> SUFFICES ASSUME Init PROVE IInv OBVIOUS
  <1>1. TypeOK BY InitType
  <1>2. \A w \in Workers : Held(w) = {}
    <2>1. 1..0 = {} OBVIOUS
    <2> QED BY <2>1 DEF Init, Held
  <1> QED
    BY <1>1, <1>2 DEF Init, IInv, MutualExclusion, SeenIsCurrent, ModeFloor, SecondFactorFloor

LEMMA NextIInv == IInv /\ [Next]_vars => IInv'
  <1> SUFFICES ASSUME IInv, [Next]_vars PROVE IInv' OBVIOUS
  <1>1. TypeOK' BY TypeStep DEF IInv
  <1>2. MutualExclusion' /\ SeenIsCurrent' BY LockingStep DEF IInv
  <1>3. ModeFloor' /\ SecondFactorFloor'
    <2>1. CASE \E w \in Workers : Commit(w) BY <2>1, FloorsCommit
    <2>2. CASE \A w \in Workers : ~ Commit(w)
      BY <2>2, TablesKept DEF IInv, ModeFloor, SecondFactorFloor
    <2> QED BY <2>1, <2>2
  <1> QED BY <1>1, <1>2, <1>3 DEF IInv

\* No overlap of settings saves and flag changes breaks a settings floor, for
\* any number of accounts, passkeys, RP IDs and overlapping requests.
THEOREM SettingsFloorsHold == Spec => []SettingsFloors
  <1>1. IInv => SettingsFloors BY DEF IInv, SettingsFloors
  <1> QED BY <1>1, InitIInv, NextIInv, PTL DEF Spec

-----------------------------------------------------------------------------
(* The floor of one account: its last usable passkey.                      *)

\* With an up-to-date RP ID and the user's rows locked, the census is exact.
LEMMA CensusIsUsable ==
  ASSUME TypeOK, SeenIsCurrent, NEW w \in Workers, NEW u \in Users,
         CredentialRows(u) \subseteq Held(w), req[w].site = rp
  PROVE  Census(w, u) = Usable(u)
  BY SeenByKind DEF Census, Usable, CredentialRows, TypeOK

\* A removal that its guard lets through.
LEMMA GuardedRemoval ==
  ASSUME TypeOK, SeenIsCurrent, NEW w \in Workers, NEW c \in Credentials,
         {Owner[c]} \cup CredentialRows(Owner[c]) \subseteq Held(w), req[w].site = rp,
         KeepsLoginMethod(w, c), enabled' = enabled \ {c},
         UNCHANGED <<passkeyOnly, rp>>
  PROVE  /\ \A u \in Users : FloorHolds(u) => FloorHolds(u)'
         /\ "disable_user_pass_login" \in req[w].core =>
              \A u \in Users : Usable(u) # {} => Usable(u)' # {}
  <1> DEFINE o == Owner[c]
  <1>0. o \in Users BY RowsAssumption
  <1>1. \A u \in Users : u # o => Usable(u)' = Usable(u) BY DEF Usable
  <1>2. Census(w, o) = Usable(o) BY <1>0, CensusIsUsable
  <1>3. o \in seen[w] <=> o \in passkeyOnly BY <1>0, SeenByKind
  <1>4. Usable(o)' = Usable(o) \ {c} BY DEF Usable
  <1>5. \/ Usable(o) # {} => Usable(o)' # {}
        \/ o \notin passkeyOnly /\ "disable_user_pass_login" \notin req[w].core
    <2>1. CASE c \notin Usable(o) BY <1>4, <2>1
    <2>2. CASE Usable(o) # {c} /\ c \in Usable(o) BY <1>4, <2>2
    <2>3. CASE o \notin passkeyOnly /\ "disable_user_pass_login" \notin req[w].core BY <2>3
    <2> QED BY <1>2, <1>3, <2>1, <2>2, <2>3 DEF KeepsLoginMethod
  <1>6. \A u \in Users : FloorHolds(u) => FloorHolds(u)'
    BY <1>1, <1>5 DEF FloorHolds
  <1>7. "disable_user_pass_login" \in req[w].core =>
          \A u \in Users : Usable(u) # {} => Usable(u)' # {}
    BY <1>1, <1>5
  <1> QED BY <1>6, <1>7

\* Bulk removal guards every row against the census less the rows it deletes.
LEMMA GuardedBulkRemoval ==
  ASSUME TypeOK, SeenIsCurrent, NEW w \in Workers, NEW gone \in SUBSET Credentials,
         \A c \in gone : {Owner[c]} \cup CredentialRows(Owner[c]) \subseteq Held(w),
         req[w].site = rp,
         \A c \in gone : \/ c \notin Census(w, Owner[c])
                         \/ ~ (Census(w, Owner[c]) \subseteq gone)
                         \/ /\ Owner[c] \notin seen[w]
                            /\ "disable_user_pass_login" \notin req[w].core,
         enabled' = enabled \ gone, UNCHANGED <<passkeyOnly, rp>>
  PROVE  /\ \A u \in Users : FloorHolds(u) => FloorHolds(u)'
         /\ "disable_user_pass_login" \in req[w].core =>
              \A u \in Users : Usable(u) # {} => Usable(u)' # {}
  <1>1. ASSUME NEW u \in Users
        PROVE  \/ Usable(u) # {} => Usable(u)' # {}
               \/ u \notin passkeyOnly /\ "disable_user_pass_login" \notin req[w].core
    <2>1. Usable(u)' = Usable(u) \ gone BY DEF Usable
    <2>2. CASE ~ (Usable(u) \subseteq gone) BY <2>1, <2>2
    <2>3. CASE Usable(u) \subseteq gone /\ Usable(u) # {}
      <3>1. PICK c \in Usable(u) : c \in gone BY <2>3
      <3>2. c \in Credentials /\ Owner[c] = u BY <3>1 DEF Usable, TypeOK
      <3>3. {u} \cup CredentialRows(u) \subseteq Held(w) BY <3>1, <3>2
      <3>4. Census(w, u) = Usable(u) BY <3>3, CensusIsUsable
      <3>5. u \notin seen[w] /\ "disable_user_pass_login" \notin req[w].core
        BY <2>3, <3>1, <3>2, <3>4
      <3> QED BY <3>3, <3>5, SeenByKind
    <2> QED BY <2>2, <2>3
  <1> QED BY <1>1 DEF FloorHolds

\* The guards of every commit, seen from the accounts.
LEMMA FloorCommit ==
  ASSUME IInv, NEW w \in Workers, Commit(w), RpSettled, rp' = rp
  PROVE  /\ \A u \in Users : FloorHolds(u) => FloorHolds(u)'
         /\ PasswordsOff => \A u \in Users : Usable(u) # {} =>
              Usable(u)' # {} \/ (req[w].op = "delete_user" /\ req[w].user = u)
  <1>1. End(w) /\ step[w] = Len(Locks(req[w]))
    BY DEF Commit, Decides, Delete, Disable, Enable, Register, SetPasskeyOnly, SaveHandle,
           DeleteHandle, DeleteUser, SaveSettings, SaveSystem, RemoveStale
  <1>2. req[w] \in Requests \cup {Idle} /\ TypeOK /\ SeenIsCurrent BY DEF IInv, TypeOK
  <1>3. CASE Delete(w)
    <2>1. req[w].op = "delete" /\ req[w] \in RemovalRequests
      BY <1>2, <1>3, RequestShape DEF Delete, Decides
    <2>2. req[w].cred \in Credentials /\ req[w].site = rp
      BY <2>1 DEF RemovalRequests, RpSettled
    <2>3. PasswordsOff => "disable_user_pass_login" \in req[w].core
      BY <2>1 DEF PasswordsOff
    <2>4. {Owner[req[w].cred]} \cup CredentialRows(Owner[req[w].cred]) \subseteq Held(w)
      BY <1>1, <1>2, <2>1, HeldAtDecision
    <2> QED BY <1>2, <1>3, <2>2, <2>3, <2>4, GuardedRemoval DEF Delete
  <1>4. CASE Disable(w)
    <2>1. req[w].op = "disable" /\ req[w] \in RemovalRequests
      BY <1>2, <1>4, RequestShape DEF Disable, Decides
    <2>2. req[w].cred \in Credentials /\ req[w].site = rp
      BY <2>1 DEF RemovalRequests, RpSettled
    <2>3. PasswordsOff => "disable_user_pass_login" \in req[w].core
      BY <2>1 DEF PasswordsOff
    <2>4. {Owner[req[w].cred]} \cup CredentialRows(Owner[req[w].cred]) \subseteq Held(w)
      BY <1>1, <1>2, <2>1, HeldAtDecision
    <2>5. CASE req[w].cred \in seen[w]
      BY <1>2, <1>4, <2>2, <2>3, <2>4, <2>5, GuardedRemoval DEF Disable
    <2>6. CASE req[w].cred \notin seen[w]
      <3>1. req[w].cred \notin enabled
        BY <1>2, <2>2, <2>4, <2>6, SeenByKind DEF CredentialRows
      <3> QED BY <1>4, <3>1 DEF Disable, FloorHolds, Usable
    <2> QED BY <2>5, <2>6
  <1>5. CASE Enable(w) BY <1>5 DEF Enable, FloorHolds, Usable
  <1>6. CASE Register(w) BY <1>6 DEF Register, FloorHolds, Usable
  <1>7. CASE SetPasskeyOnly(w)
    <2>1. req[w].op = "set_passkey_only" /\ req[w] \in FlagRequests
      BY <1>2, <1>7, RequestShape DEF SetPasskeyOnly, Decides
    <2>2. req[w].user \in Users /\ req[w].site = rp
      BY <2>1 DEF FlagRequests, RpSettled
    <2>3. CredentialRows(req[w].user) \subseteq Held(w)
      BY <1>1, <1>2, <2>1, HeldAtDecision
    <2>4. req[w].to = 1 => Usable(req[w].user) # {}
      BY <1>2, <1>7, <2>2, <2>3, CensusIsUsable DEF SetPasskeyOnly
    <2>5. \A u \in Users : Usable(u)' = Usable(u) BY <1>7 DEF SetPasskeyOnly, Usable
    <2> QED BY <1>7, <2>4, <2>5 DEF SetPasskeyOnly, Flag, FloorHolds
  <1>8. CASE SaveHandle(w)
    <2>1. req[w].op = "save_handle" /\ req[w] \in FlagRequests
      BY <1>2, <1>8, RequestShape DEF SaveHandle, Decides
    <2>2. req[w].user \in Users /\ req[w].site = rp
      BY <2>1 DEF FlagRequests, RpSettled
    <2>3. /\ req[w].user \in Held(w)
          /\ req[w].to = 1 => CredentialRows(req[w].user) \subseteq Held(w)
      BY <1>1, <1>2, <2>1, HeldAtDecision
    <2>4. (req[w].to = 1 /\ req[w].user \notin passkeyOnly) => Usable(req[w].user) # {}
      BY <1>2, <1>8, <2>2, <2>3, CensusIsUsable, SeenByKind DEF SaveHandle
    <2>5. \A u \in Users : Usable(u)' = Usable(u) BY <1>8 DEF SaveHandle, Usable
    <2> QED BY <1>8, <2>4, <2>5 DEF SaveHandle, Flag, FloorHolds
  <1>9. CASE DeleteHandle(w) BY <1>9 DEF DeleteHandle, Flag, FloorHolds, Usable
  <1>10. CASE DeleteUser(w)
    <2>1. req[w].op = "delete_user" BY <1>10 DEF DeleteUser, Decides
    <2>2. \A u \in Users : u # req[w].user => Usable(u)' = Usable(u)
      BY <1>10 DEF DeleteUser, Usable, CredentialRows
    <2> QED BY <1>10, <2>1, <2>2 DEF DeleteUser, Flag, FloorHolds
  <1>11. CASE SaveSettings(w) BY <1>11 DEF SaveSettings, FloorHolds, Usable
  <1>12. CASE SaveSystem(w) BY <1>12 DEF SaveSystem, FloorHolds, Usable
  <1>13. CASE RemoveStale(w)
    <2>1. req[w].op = "remove_stale" /\ req[w] \in StaleRequests
      BY <1>2, <1>13, RequestShape DEF RemoveStale, Decides
    <2>2. req[w].stale \subseteq Credentials /\ req[w].site = rp
      BY <2>1 DEF StaleRequests, RpSettled
    <2>3. PasswordsOff => "disable_user_pass_login" \in req[w].core
      BY <2>1 DEF PasswordsOff
    <2>4. \A c \in req[w].stale : {Owner[c]} \cup CredentialRows(Owner[c]) \subseteq Held(w)
      BY <1>1, <1>2, <2>1, HeldAtDecision
    <2>5. PICK gone \in SUBSET (req[w].stale \cap stored) :
            /\ \A c \in gone :
                 \/ c \notin Census(w, Owner[c])
                 \/ ~ (Census(w, Owner[c]) \subseteq gone)
                 \/ /\ Owner[c] \notin seen[w]
                    /\ "disable_user_pass_login" \notin req[w].core
            /\ enabled' = enabled \ gone
            /\ UNCHANGED passkeyOnly
      BY <1>13 DEF RemoveStale
    <2> QED BY <1>2, <2>2, <2>3, <2>4, <2>5, GuardedBulkRemoval
  <1> QED BY <1>3, <1>4, <1>5, <1>6, <1>7, <1>8, <1>9, <1>10, <1>11, <1>12, <1>13 DEF Commit

\* While the RP ID stands still, no overlap of requests takes the last usable
\* passkey of a passkey-only account, nor flags an account that has none.
THEOREM LoginFloorKept == Spec => FloorKept
  <1>1. IInv /\ [Next]_vars =>
          [RpSettled /\ rp' = rp => \A u \in Users : FloorHolds(u) => FloorHolds(u)']_vars
    <2> SUFFICES ASSUME IInv, [Next]_vars, RpSettled, rp' = rp, NEW u \in Users, FloorHolds(u)
                 PROVE  FloorHolds(u)'
      OBVIOUS
    <2>1. CASE \E w \in Workers : Commit(w) BY <2>1, FloorCommit
    <2>2. CASE \A w \in Workers : ~ Commit(w) BY <2>2, TablesKept DEF FloorHolds, Usable
    <2> QED BY <2>1, <2>2
  <1> QED BY <1>1, InitIInv, NextIInv, PTL DEF Spec, FloorKept

\* With passwords off, overlapping removals leave everybody a usable passkey.
THEOREM PasswordlessFloor == Spec => PasswordlessFloorKept
  <1>1. IInv /\ [Next]_vars =>
          [RpSettled /\ rp' = rp /\ PasswordsOff =>
             \A u \in Users : Usable(u) # {} =>
                \/ Usable(u)' # {}
                \/ \E w \in Workers : req[w].op = "delete_user" /\ req[w].user = u
                                       /\ req'[w] = Idle]_vars
    <2> SUFFICES ASSUME IInv, [Next]_vars, RpSettled, rp' = rp, PasswordsOff,
                        NEW u \in Users, Usable(u) # {}
                 PROVE  \/ Usable(u)' # {}
                        \/ \E w \in Workers : req[w].op = "delete_user" /\ req[w].user = u
                                              /\ req'[w] = Idle
      OBVIOUS
    <2>1. CASE \E w \in Workers : Commit(w)
      <3>1. PICK w \in Workers : Commit(w) BY <2>1
      <3>2. req'[w] = Idle BY <3>1, CommitFrame DEF IInv, End, TypeOK
      <3> QED BY <3>1, <3>2, FloorCommit
    <2>2. CASE \A w \in Workers : ~ Commit(w) BY <2>2, TablesKept DEF Usable
    <2> QED BY <2>1, <2>2
  <1> QED BY <1>1, InitIInv, NextIInv, PTL DEF Spec, PasswordlessFloorKept

-----------------------------------------------------------------------------
(* No circular wait.                                                       *)

FloorOps == {"delete", "register", "delete_handle"}
SiteOps == {"set_passkey_only", "save_settings", "remove_stale"}

\* The floor's own requests lock the handle, then its credentials.
LEMMA FloorLocksOf ==
  ASSUME NEW r \in Requests \cup {Idle}, r.op \in FloorOps
  PROVE  \E u \in Users : Locks(r) = <<{u}, CredentialRows(u)>>
  <1>1. CASE r.op \in {"delete", "register"}
    <2>1. r.cred \in Credentials
      BY <1>1, RequestShape DEF RemovalRequests, RowRequests
    <2>2. Owner[r.cred] \in Users /\ Locks(r) = <<{Owner[r.cred]}, CredentialRows(Owner[r.cred])>>
      BY <1>1, <2>1, LocksByOp, RowsAssumption
    <2> QED BY <2>2
  <1>2. CASE r.op = "delete_handle"
    <2>1. r.user \in Users BY <1>2, RequestShape DEF UserRequests
    <2>2. Locks(r) = <<{r.user}, CredentialRows(r.user)>> BY <1>2, LocksByOp
    <2> QED BY <2>1, <2>2
  <1> QED BY <1>1, <1>2 DEF FloorOps

\* Whoever holds a credential and takes its locks in order holds the handle of
\* its account as well: that is what the handle lock serialises.
LEMMA HandleWithCredential ==
  ASSUME TypeOK, NEW w \in Workers, req[w].op \in InOrder, NEW c \in Credentials, c \in Held(w)
  PROVE  Owner[c] \in Held(w)
  <1> DEFINE r == req[w]
  <1>1. r \in Requests \cup {Idle} /\ step[w] \in 0..3 /\ step[w] <= Len(Locks(r))
    BY DEF TypeOK
  <1>2. PICK i \in 1..step[w] : c \in Locks(r)[i]
    BY DEF Held
  <1>3. c \notin Users \cup PasskeyRows \cup SystemRows
    BY RowsAssumption DEF PasskeyRows, SystemRows
  <1>4. \A j \in 1..i : Locks(r)[j] \subseteq Held(w)
    BY <1>1, <1>2 DEF Held
  <1>5. CASE r.op \in FloorOps
    <2>1. PICK u \in Users : Locks(r) = <<{u}, CredentialRows(u)>>
      BY <1>1, <1>5, FloorLocksOf
    <2>2. i = 2 /\ Locks(r)[1] = {u} /\ c \in CredentialRows(u)
      BY <1>1, <1>2, <1>3, <2>1
    <2> QED BY <1>4, <2>2 DEF CredentialRows
  <1>6. CASE r.op = "set_passkey_only"
    <2>1. Locks(r) = <<PasskeyRows, {r.user}, CredentialRows(r.user)>> /\ r.user \in Users
      BY <1>1, <1>6, LocksByOp, RequestShape DEF FlagRequests
    <2>2. i = 3 /\ Locks(r)[2] = {r.user} /\ c \in CredentialRows(r.user)
      BY <1>1, <1>2, <1>3, <2>1
    <2> QED BY <1>4, <2>2 DEF CredentialRows
  <1>7. CASE r.op = "save_settings"
    <2>1. /\ Len(Locks(r)) = 3 /\ Locks(r)[1] = PasskeyRows
          /\ Locks(r)[2] \subseteq Users /\ Locks(r)[3] \subseteq SystemRows
      BY <1>7, LocksByOp
    <2> QED BY <1>1, <1>2, <1>3, <2>1
  <1>8. CASE r.op = "remove_stale"
    <2>1. /\ Len(Locks(r)) = 2 /\ Locks(r)[1] = PasskeyRows
          /\ Locks(r)[2] = {Owner[d] : d \in r.stale} \cup
                           {d \in Credentials : \E b \in r.stale : Owner[b] = Owner[d]}
          /\ r.stale \subseteq Credentials
      BY <1>1, <1>8, LocksByOp, RequestShape DEF StaleRequests
    <2>2. i = 2 /\ {Owner[d] : d \in r.stale} \subseteq Users
      BY <1>1, <1>2, <1>3, <2>1, RowsAssumption
    <2>3. \E b \in r.stale : Owner[b] = Owner[c]
      BY <1>2, <1>3, <2>1, <2>2
    <2> QED BY <1>4, <2>1, <2>2, <2>3
  <1> QED BY <1>5, <1>6, <1>7, <1>8 DEF InOrder, FloorOps

LEMMA HoldsNothing ==
  ASSUME NEW w \in Workers, step[w] = 0
  PROVE  Held(w) = {}
  BY DEF Held

\* Requests that start from the site's mode lock: one at a time is past it.
LEMMA SiteLockFirst ==
  ASSUME TypeOK, NEW w \in Workers, req[w].op \in SiteOps, step[w] # 0
  PROVE  "login_with_passkey" \in Held(w)
  <1>1. Len(Locks(req[w])) > 0 /\ Locks(req[w])[1] = PasskeyRows
    BY LocksByOp DEF SiteOps
  <1>2. 1 \in 1..step[w] BY DEF TypeOK
  <1> QED BY <1>1, <1>2 DEF Held, PasskeyRows, Modes

\* No deadlock among the requests that follow the lock order: of any that wait,
\* one waits for none of the others.  One that has its handle needs that
\* account's credentials only, which nobody holds without the handle; if there
\* is none, only the one past the site's mode lock holds anything
\* (lock_login_floor, _lock_settings_for_login_mode).
THEOREM LockOrderIsDeadlockFree == Spec => []NoCircularWait
  <1>1. ASSUME IInv PROVE NoCircularWait
    <2> SUFFICES ASSUME NEW ws \in SUBSET {w \in Workers : req[w].op \in InOrder}, ws # {}
                 PROVE  \E w \in ws : \A o \in ws \ {w} : ~ WaitsFor(w, o)
      BY DEF NoCircularWait
    <2>0. /\ TypeOK /\ MutualExclusion
          /\ \A w \in ws : w \in Workers /\ req[w].op \in InOrder
          /\ \A w \in ws : req[w].op \in FloorOps \/ req[w].op \in SiteOps
      BY <1>1 DEF IInv, InOrder, FloorOps, SiteOps
    <2>1. CASE \E w \in ws : req[w].op \in FloorOps /\ step[w] # 0
      <3>1. PICK w \in ws : req[w].op \in FloorOps /\ step[w] # 0 BY <2>1
      <3>2. PICK u \in Users : Locks(req[w]) = <<{u}, CredentialRows(u)>>
        BY <2>0, <3>1, FloorLocksOf DEF TypeOK
      <3>3. u \in Held(w)
        <4>1. 1 \in 1..step[w] BY <2>0, <3>1 DEF TypeOK
        <4> QED BY <3>2, <4>1 DEF Held
      <3>4. ASSUME NEW o \in ws \ {w}, WaitsFor(w, o) PROVE FALSE
        <4>1. step[w] = 1 /\ Held(o) \cap CredentialRows(u) # {}
          BY <2>0, <3>1, <3>2, <3>4, SMTT(30) DEF WaitsFor, TypeOK
        <4>2. PICK c \in Credentials : c \in Held(o) /\ Owner[c] = u
          BY <4>1 DEF CredentialRows
        <4>3. u \in Held(o) BY <2>0, <4>2, HandleWithCredential
        <4> QED BY <2>0, <3>3, <4>3 DEF MutualExclusion
      <3> QED BY <3>1, <3>4
    <2>2. CASE ~ \E w \in ws : req[w].op \in FloorOps /\ step[w] # 0
      <3>1. CASE \E w \in ws : step[w] # 0
        <4>1. PICK w \in ws : step[w] # 0 BY <3>1
        <4>2. ASSUME NEW o \in ws \ {w}, WaitsFor(w, o) PROVE FALSE
          <5>1. step[o] # 0 BY <2>0, <4>2, HoldsNothing DEF WaitsFor
          <5>2. /\ "login_with_passkey" \in Held(w)
                /\ "login_with_passkey" \in Held(o)
            BY <2>0, <2>2, <4>1, <5>1, SiteLockFirst
          <5> QED BY <2>0, <4>1, <5>2 DEF MutualExclusion
        <4> QED BY <4>1, <4>2
      <3>2. CASE \A w \in ws : step[w] = 0
        BY <2>0, <3>2, HoldsNothing DEF WaitsFor
      <3> QED BY <3>1, <3>2
    <2> QED BY <2>1, <2>2
  <1> QED BY <1>1, InitIInv, NextIInv, PTL DEF Spec
=============================================================================
