------------------------ MODULE CredentialArchiveProofs ------------------------
(* Proofs about CredentialArchive, for any accounts, passkeys, RP IDs and      *)
(* bounds.                                                                     *)
EXTENDS CredentialArchive, TLAPS

\* The handle of an account never comes back, not from a file either.
Numbered == \A h \in handles \cup file.handles : h.handle <= made

HandleOf(row, rows) == \E h \in rows : h.user = row.user /\ h.handle = row.uid

\* A file is as sound as the tables it was read from.
FileSound ==
    /\ \A a, b \in file.credentials : a.cred = b.cred => a = b
    /\ \A a, b \in file.handles : a.user = b.user \/ a.handle = b.handle => a = b
    /\ \A row \in file.credentials : HandleOf(row, file.handles) \/ row.cred \in severed

\* What is about to be dropped has been written to the file.
FileComplete ==
    console.at = "uninstall" =>
        \A row \in credentials : row \in file.credentials \/ row.cred \in touched

\* An import writes rows of the file, all of which it looks at.
FromFile ==
    /\ console.wrote.credentials \cup console.todo.credentials \subseteq file.credentials
    /\ console.wrote.handles \cup console.todo.handles \subseteq file.handles
    /\ console.at = "opened" => console.todo = file /\ console.rejected = {}

\* Nothing committed meanwhile collides with what it wrote.
Unique ==
    /\ \A row \in credentials, r \in console.wrote.credentials : row.cred # r.cred
    /\ \A h \in handles, g \in console.wrote.handles : h.user # g.user /\ h.handle # g.handle

\* Its snapshot is stale only where the site says so.
SeenKept ==
    /\ \A row \in console.seen.credentials : row \in credentials \/ row.cred \in touched
    /\ \A g \in console.seen.handles :
         \/ \E h \in handles : h.user = g.user /\ h.handle = g.handle
         \/ \A row \in OfUser(g.user, file.credentials) : row.cred \in severed

\* A passkey is written for an account whose handle is the file's.
Accepted == \A row \in console.wrote.credentials : ~ Rejected(row.user)

\* What it is done with is on the site, or rejected.
Restored ==
    console.at = "rows" =>
        /\ \A row \in file.credentials :
             row \in console.todo.credentials \cup console.rejected \cup Seen("credentials")
        /\ \A h \in file.handles :
             h \in console.todo.handles \/ Rejected(h.user) \/ OfUser(h.user, Seen("handles")) # {}

\* The locks an import holds keep true what it found for a passkey-only account.
FloorKept ==
    \A h \in console.wrote.handles : h.only =>
        /\ console.locked /\ mode
        /\ UsableUnder(console.seen.rp, h.user, credentials \cup console.wrote.credentials) # {}
LockTaken ==
    console.at = "rows" =>
        \A h \in console.todo.handles : h.only /\ OfUser(h.user, Seen("handles")) = {} => console.locked

\* Into empty tables.
RejectedFor(row) ==
    row.user \in console.seen.active => row \in file.credentials /\ row.cred \in severed
IntoEmpty ==
    console.at \in {"opened", "rows"} /\ ~ console.allow =>
        /\ console.seen.credentials = {} /\ console.seen.handles = {}
        /\ \A row \in console.rejected : RejectedFor(row)

ImportOK ==
    /\ FromFile /\ Unique /\ SeenKept /\ Accepted /\ Restored /\ FloorKept /\ LockTaken /\ IntoEmpty

IInv ==
    /\ TypeOK /\ CarriesHandle /\ Numbered /\ FileSound /\ FileComplete
    /\ Importing => ImportOK

-----------------------------------------------------------------------------
(* Shapes.                                                                 *)

LEMMA ImportShape ==
  ASSUME NEW q \in Imports
  PROVE  /\ q.at \in {"opened", "rows", "failed"} /\ q.allow \in BOOLEAN /\ q.locked \in BOOLEAN
         /\ q.seen \in Snapshots /\ q.wrote \in Rows /\ q.todo \in Rows
         /\ q.rejected \in SUBSET (CredentialRow \cup HandleRow)
         /\ q = [at |-> q.at, allow |-> q.allow, seen |-> q.seen, wrote |-> q.wrote,
                 locked |-> q.locked, todo |-> q.todo, rejected |-> q.rejected]
BY DEF Imports

LEMMA RowsShape ==
  ASSUME NEW r \in Rows
  PROVE  /\ r.credentials \in SUBSET CredentialRow /\ r.handles \in SUBSET HandleRow
         /\ r = [credentials |-> r.credentials, handles |-> r.handles]
         /\ DOMAIN r = {"credentials", "handles"}
         /\ r["credentials"] = r.credentials /\ r["handles"] = r.handles
BY DEF Rows

LEMMA RowsExcept ==
  ASSUME NEW r \in Rows, NEW S
  PROVE  /\ [r EXCEPT !["credentials"] = S] = [credentials |-> S, handles |-> r.handles]
         /\ [r EXCEPT !["handles"] = S] = [credentials |-> r.credentials, handles |-> S]
<1>1. PICK C, H : r = [credentials |-> C, handles |-> H]
  BY RowsShape
<1>2. r.credentials = C /\ r.handles = H
  BY <1>1
<1>3. [[credentials |-> C, handles |-> H] EXCEPT !["credentials"] = S] = [credentials |-> S, handles |-> H]
  OBVIOUS
<1>4. [[credentials |-> C, handles |-> H] EXCEPT !["handles"] = S] = [credentials |-> C, handles |-> S]
  OBVIOUS
<1>. QED
  BY <1>1, <1>2, <1>3, <1>4

\* What the console is doing.
LEMMA ConsoleShape ==
  ASSUME TypeOK
  PROVE  /\ Importing <=> console \in Imports
         /\ ~ Importing => console \in {Idle, [at |-> "uninstall"]}
         /\ console = Idle <=> console.at = "idle"
         /\ console.at = "failed" => Importing
         /\ Importing => console # Idle /\ console.at # "uninstall"
BY DEF TypeOK, Importing, Imports, Idle

\* The rows of both tables that an import reads.
LEMMA SeenShape ==
  /\ Seen("credentials") = console.seen.credentials \cup console.wrote.credentials
  /\ Seen("handles") = console.seen.handles \cup console.wrote.handles
BY DEF Seen

\* A request that goes on has no rows of its account to wait for.
LEMMA WaitsFor ==
  ASSUME TypeOK, Importing
  PROVE  /\ \A row \in console.wrote.credentials : Waits(row.user)
         /\ \A h \in console.wrote.handles : Waits(h.user)
<1>1. console.wrote \in Rows
  BY ConsoleShape, ImportShape
<1>. QED
  BY <1>1, RowsShape DEF Waits, OfUser

\* The record of an import after a step.
Import(at, wc, wh, tc, th, rejected) ==
    [at |-> at, allow |-> console.allow, seen |-> console.seen,
     wrote |-> [credentials |-> wc, handles |-> wh], locked |-> console.locked,
     todo |-> [credentials |-> tc, handles |-> th], rejected |-> rejected]

LEMMA DoneShape ==
  ASSUME console \in Imports, NEW row
  PROVE  /\ Done("credentials", row) =
              Import(console.at, console.wrote.credentials, console.wrote.handles,
                     console.todo.credentials \ {row}, console.todo.handles, console.rejected)
         /\ Done("handles", row) =
              Import(console.at, console.wrote.credentials, console.wrote.handles,
                     console.todo.credentials, console.todo.handles \ {row}, console.rejected)
<1>1. console.todo \in Rows /\ console.wrote \in Rows
  BY ImportShape
<1>2. console.wrote = [credentials |-> console.wrote.credentials, handles |-> console.wrote.handles]
  BY <1>1, RowsShape
<1>. DEFINE t == [console.todo EXCEPT !["credentials"] = @ \ {row}]
            u == [console.todo EXCEPT !["handles"] = @ \ {row}]
<1>3. /\ t = [credentials |-> console.todo.credentials \ {row}, handles |-> console.todo.handles]
      /\ u = [credentials |-> console.todo.credentials, handles |-> console.todo.handles \ {row}]
  BY <1>1, RowsShape, RowsExcept, ZenonT(60)
<1>4. Done("credentials", row) = [console EXCEPT !.todo = t]
      /\ Done("handles", row) = [console EXCEPT !.todo = u]
  BY DEF Done, Imports
<1>. HIDE DEF t, u
<1>. QED
  BY <1>2, <1>3, <1>4, ImportShape DEF Import

LEMMA RejectShape ==
  ASSUME console \in Imports, NEW row
  PROVE  /\ Reject("credentials", row) =
              Import(console.at, console.wrote.credentials, console.wrote.handles,
                     console.todo.credentials \ {row}, console.todo.handles, console.rejected \cup {row})
         /\ Reject("handles", row) =
              Import(console.at, console.wrote.credentials, console.wrote.handles,
                     console.todo.credentials, console.todo.handles \ {row}, console.rejected \cup {row})
<1>. DEFINE dc == Done("credentials", row)
            dh == Done("handles", row)
<1>1. /\ dc = Import(console.at, console.wrote.credentials, console.wrote.handles,
                     console.todo.credentials \ {row}, console.todo.handles, console.rejected)
      /\ dh = Import(console.at, console.wrote.credentials, console.wrote.handles,
                     console.todo.credentials, console.todo.handles \ {row}, console.rejected)
  BY DoneShape
<1>2. /\ Reject("credentials", row) = [dc EXCEPT !.rejected = @ \cup {row}]
      /\ Reject("handles", row) = [dh EXCEPT !.rejected = @ \cup {row}]
  BY DEF Reject
<1>. HIDE DEF dc, dh
<1>. QED
  BY <1>1, <1>2 DEF Import

LEMMA InsertShape ==
  ASSUME console \in Imports, NEW row
  PROVE  /\ Insert("credentials", row) =
              Import(console.at, console.wrote.credentials \cup {row}, console.wrote.handles,
                     console.todo.credentials \ {row}, console.todo.handles, console.rejected)
         /\ Insert("handles", row) =
              Import(console.at, console.wrote.credentials, console.wrote.handles \cup {row},
                     console.todo.credentials, console.todo.handles \ {row}, console.rejected)
<1>1. console.wrote \in Rows
  BY ImportShape
<1>. DEFINE dc == Done("credentials", row)
            dh == Done("handles", row)
            t == [console.wrote EXCEPT !["credentials"] = @ \cup {row}]
            u == [console.wrote EXCEPT !["handles"] = @ \cup {row}]
<1>2. /\ t = [credentials |-> console.wrote.credentials \cup {row}, handles |-> console.wrote.handles]
      /\ u = [credentials |-> console.wrote.credentials, handles |-> console.wrote.handles \cup {row}]
  BY <1>1, RowsShape, RowsExcept
<1>3. dc.wrote = console.wrote /\ dh.wrote = console.wrote
  BY <1>1, DoneShape, RowsShape DEF Import
<1>4. /\ Insert("credentials", row) = [dc EXCEPT !.wrote["credentials"] = @ \cup {row}]
      /\ Insert("handles", row) = [dh EXCEPT !.wrote["handles"] = @ \cup {row}]
  BY DEF Insert
<1>5. /\ dc = Import(console.at, console.wrote.credentials, console.wrote.handles,
                     console.todo.credentials \ {row}, console.todo.handles, console.rejected)
      /\ dh = Import(console.at, console.wrote.credentials, console.wrote.handles,
                     console.todo.credentials, console.todo.handles \ {row}, console.rejected)
  BY DoneShape
<1>. HIDE DEF dc, dh
<1>6. /\ [dc EXCEPT !.wrote["credentials"] = @ \cup {row}] = [dc EXCEPT !.wrote = t]
      /\ [dh EXCEPT !.wrote["handles"] = @ \cup {row}] = [dh EXCEPT !.wrote = u]
  BY <1>3
<1>. HIDE DEF t, u
<1>. QED
  BY <1>2, <1>4, <1>5, <1>6 DEF Import

LEMMA FailShape ==
  ASSUME console \in Imports
  PROVE  Fail = Import("failed", console.wrote.credentials, console.wrote.handles,
                       console.todo.credentials, console.todo.handles, console.rejected)
<1>1. console.todo \in Rows /\ console.wrote \in Rows
  BY ImportShape
<1>. QED
  BY <1>1, ImportShape, RowsShape DEF Fail, Import

\* The same, field by field.
Becomes(at, wc, wh, tc, th, rej) ==
    /\ console'.at = at /\ console'.allow = console.allow /\ console'.seen = console.seen
    /\ console'.locked = console.locked /\ console'.rejected = rej
    /\ console'.wrote.credentials = wc /\ console'.wrote.handles = wh
    /\ console'.todo.credentials = tc /\ console'.todo.handles = th
    /\ console' \in Imports

LEMMA ImportBecomes ==
  ASSUME console \in Imports, NEW at \in {"opened", "rows", "failed"},
         NEW wc \in SUBSET CredentialRow, NEW wh \in SUBSET HandleRow,
         NEW tc \in SUBSET CredentialRow, NEW th \in SUBSET HandleRow,
         NEW rej \in SUBSET (CredentialRow \cup HandleRow),
         console' = Import(at, wc, wh, tc, th, rej)
  PROVE  Becomes(at, wc, wh, tc, th, rej)
<1>1. [credentials |-> wc, handles |-> wh] \in Rows /\ [credentials |-> tc, handles |-> th] \in Rows
  BY DEF Rows
<1>2. console' \in Imports
  BY <1>1, ImportShape DEF Import, Imports
<1>. QED
  BY <1>2 DEF Becomes, Import

-----------------------------------------------------------------------------
(* What becomes of a row.                                                  *)

LEMMA CredentialOutcome ==
  ASSUME RestoreCredential
  PROVE  \E row \in console.todo.credentials :
           \/ /\ \/ Rejected(row.user)
                 \/ OfUser(row.user, file.handles \cup Seen("handles")) = {}
                 \/ \E r \in Seen("credentials") : r.cred = row.cred /\ r # row
              /\ console' = Reject("credentials", row)
           \/ row \in Seen("credentials") /\ console' = Done("credentials", row)
           \/ /\ ~ Rejected(row.user)
              /\ \A r \in credentials \cup Seen("credentials") : r.cred # row.cred
              /\ console' = Insert("credentials", row)
           \/ console' = Fail
<1>. PICK row \in console.todo.credentials :
       LET found == {r \in Seen("credentials") : r.cred = row.cred}
           handleless == OfUser(row.user, file.handles \cup Seen("handles")) = {}
           taken == \E r \in credentials : r.cred = row.cred
       IN  console' =
             CASE Rejected(row.user) \/ handleless -> Reject("credentials", row)
               [] ~ (Rejected(row.user) \/ handleless) /\ found # {} ->
                    IF Matches(row, found) THEN Done("credentials", row) ELSE Reject("credentials", row)
               [] OTHER -> IF taken THEN Fail ELSE Insert("credentials", row)
  BY DEF RestoreCredential
<1>. DEFINE found == {r \in Seen("credentials") : r.cred = row.cred}
            handleless == OfUser(row.user, file.handles \cup Seen("handles")) = {}
<1>1. CASE Rejected(row.user) \/ handleless
  <2>1. console' = Reject("credentials", row)
    BY <1>1
  <2>. QED
    BY <1>1, <2>1
<1>2. CASE ~ (Rejected(row.user) \/ handleless) /\ found # {}
  <2>1. console' = IF Matches(row, found) THEN Done("credentials", row) ELSE Reject("credentials", row)
    BY <1>2
  <2>. QED
    BY <1>2, <2>1 DEF Matches
<1>3. CASE ~ (Rejected(row.user) \/ handleless) /\ found = {}
  <2>1. console' = IF \E r \in credentials : r.cred = row.cred THEN Fail ELSE Insert("credentials", row)
    BY <1>3
  <2>. QED
    BY <1>3, <2>1
<1>. QED
  BY <1>1, <1>2, <1>3

LEMMA HandleOutcome ==
  ASSUME RestoreHandle
  PROVE  \E row \in console.todo.handles :
           \/ /\ \/ Rejected(row.user)
                 \/ \E h \in Seen("handles") : h.user = row.user /\ row \notin Seen("handles")
              /\ console' = Reject("handles", row)
           \/ /\ OfUser(row.user, Seen("handles")) # {}
              /\ console' = Done("handles", row)
           \/ /\ ~ Rejected(row.user) /\ OfUser(row.user, Seen("handles")) = {}
              /\ ~ Taken(row) /\ KeepsFloor(row)
              /\ console' = Insert("handles", row)
           \/ console' = Fail
<1>. PICK row \in console.todo.handles :
       LET found == OfUser(row.user, Seen("handles"))
       IN  console' =
             CASE Rejected(row.user) -> Reject("handles", row)
               [] ~ Rejected(row.user) /\ found # {} ->
                    IF row \in found THEN Done("handles", row) ELSE Reject("handles", row)
               [] OTHER -> IF Taken(row) \/ ~ KeepsFloor(row) THEN Fail ELSE Insert("handles", row)
  BY DEF RestoreHandle
<1>. DEFINE found == OfUser(row.user, Seen("handles"))
<1>1. CASE Rejected(row.user)
  <2>1. console' = Reject("handles", row)
    BY <1>1
  <2>. QED
    BY <1>1, <2>1
<1>2. CASE ~ Rejected(row.user) /\ found # {}
  <2>1. console' = IF row \in found THEN Done("handles", row) ELSE Reject("handles", row)
    BY <1>2
  <2>. QED
    BY <1>2, <2>1 DEF OfUser
<1>3. CASE ~ Rejected(row.user) /\ found = {}
  <2>1. console' = IF Taken(row) \/ ~ KeepsFloor(row) THEN Fail ELSE Insert("handles", row)
    BY <1>3
  <2>. QED
    BY <1>3, <2>1
<1>. QED
  BY <1>1, <1>2, <1>3

\* The row that a step is done with, in which table it is.
LostCredential(row) ==
    /\ row \in console.todo.credentials
    /\ \/ Rejected(row.user)
       \/ OfUser(row.user, file.handles \cup Seen("handles")) = {}
       \/ \E r \in Seen("credentials") : r.cred = row.cred /\ r # row
LostHandle(row) ==
    /\ row \in console.todo.handles
    /\ \/ Rejected(row.user)
       \/ \E h \in Seen("handles") : h.user = row.user /\ row \notin Seen("handles")
NewCredential(row) ==
    /\ row \in console.todo.credentials
    /\ ~ Rejected(row.user)
    /\ \A r \in credentials : r.cred # row.cred
NewHandle(row) ==
    /\ row \in console.todo.handles
    /\ OfUser(row.user, Seen("handles")) = {}
    /\ ~ Taken(row) /\ KeepsFloor(row)

LEMMA RestoreEffect ==
  ASSUME TypeOK, RestoreRow
  PROVE  /\ console \in Imports /\ console.at = "rows" /\ console'.at \in {"rows", "failed"}
         /\ console'.allow = console.allow /\ console'.seen = console.seen
         /\ console'.locked = console.locked
         /\ console.rejected \subseteq console'.rejected
         /\ \A row \in console'.rejected \ console.rejected : LostCredential(row) \/ LostHandle(row)
         /\ console.wrote.credentials \subseteq console'.wrote.credentials
         /\ \A row \in console'.wrote.credentials \ console.wrote.credentials : NewCredential(row)
         /\ \/ console'.wrote.handles = console.wrote.handles
            \/ \E row : NewHandle(row) /\ console'.wrote.handles = console.wrote.handles \cup {row}
         /\ console'.todo.credentials \subseteq console.todo.credentials
         /\ console'.todo.handles \subseteq console.todo.handles
         /\ \A row \in console.todo.credentials \ console'.todo.credentials :
              row \in console'.rejected \cup Seen("credentials") \cup console'.wrote.credentials
         /\ \A h \in console.todo.handles \ console'.todo.handles :
              Rejected(h.user) \/ OfUser(h.user, Seen("handles") \cup console'.wrote.handles) # {}
         /\ console' \in Imports
<1>1. console.at = "rows" /\ (RestoreCredential \/ RestoreHandle)
  BY DEF RestoreRow
<1>2. console \in Imports
  BY <1>1 DEF TypeOK
<1>3. /\ console.wrote.credentials \in SUBSET CredentialRow
      /\ console.wrote.handles \in SUBSET HandleRow
      /\ console.todo.credentials \in SUBSET CredentialRow
      /\ console.todo.handles \in SUBSET HandleRow
      /\ console.rejected \in SUBSET (CredentialRow \cup HandleRow)
  BY <1>2, ImportShape, RowsShape
<1>. DEFINE wc == console.wrote.credentials
            wh == console.wrote.handles
            tc == console.todo.credentials
            th == console.todo.handles
            rej == console.rejected
<1>4. CASE console' = Fail
  <2>1. console' = Import("failed", wc, wh, tc, th, rej)
    BY <1>2, <1>4, FailShape
  <2>2. Becomes("failed", wc, wh, tc, th, rej)
    BY <1>2, <1>3, <2>1, ImportBecomes
  <2>. QED
    BY <1>1, <1>2, <2>2 DEF Becomes
<1>5. ASSUME NEW row \in tc, LostCredential(row), console' = Reject("credentials", row)
      PROVE  Becomes("rows", wc, wh, tc \ {row}, th, rej \cup {row})
  <2>1. console' = Import("rows", wc, wh, tc \ {row}, th, rej \cup {row})
    BY <1>1, <1>2, <1>5, RejectShape
  <2>. QED
    BY <1>2, <1>3, <2>1, ImportBecomes
<1>6. ASSUME NEW row \in tc, console' = Done("credentials", row)
      PROVE  Becomes("rows", wc, wh, tc \ {row}, th, rej)
  <2>1. console' = Import("rows", wc, wh, tc \ {row}, th, rej)
    BY <1>1, <1>2, <1>6, DoneShape
  <2>. QED
    BY <1>2, <1>3, <2>1, ImportBecomes
<1>7. ASSUME NEW row \in tc, console' = Insert("credentials", row)
      PROVE  Becomes("rows", wc \cup {row}, wh, tc \ {row}, th, rej)
  <2>1. console' = Import("rows", wc \cup {row}, wh, tc \ {row}, th, rej)
    BY <1>1, <1>2, <1>7, InsertShape
  <2>. QED
    BY <1>2, <1>3, <2>1, ImportBecomes
<1>8. ASSUME NEW row \in th, console' = Reject("handles", row)
      PROVE  Becomes("rows", wc, wh, tc, th \ {row}, rej \cup {row})
  <2>1. console' = Import("rows", wc, wh, tc, th \ {row}, rej \cup {row})
    BY <1>1, <1>2, <1>8, RejectShape
  <2>. QED
    BY <1>2, <1>3, <2>1, ImportBecomes
<1>9. ASSUME NEW row \in th, console' = Done("handles", row)
      PROVE  Becomes("rows", wc, wh, tc, th \ {row}, rej)
  <2>1. console' = Import("rows", wc, wh, tc, th \ {row}, rej)
    BY <1>1, <1>2, <1>9, DoneShape
  <2>. QED
    BY <1>2, <1>3, <2>1, ImportBecomes
<1>10. ASSUME NEW row \in th, console' = Insert("handles", row)
       PROVE  Becomes("rows", wc, wh \cup {row}, tc, th \ {row}, rej)
  <2>1. console' = Import("rows", wc, wh \cup {row}, tc, th \ {row}, rej)
    BY <1>1, <1>2, <1>10, InsertShape
  <2>. QED
    BY <1>2, <1>3, <2>1, ImportBecomes
<1>11. CASE RestoreCredential /\ console' # Fail
  <2>. PICK row \in tc :
           \/ LostCredential(row) /\ console' = Reject("credentials", row)
           \/ row \in Seen("credentials") /\ console' = Done("credentials", row)
           \/ NewCredential(row) /\ console' = Insert("credentials", row)
    BY <1>11, CredentialOutcome DEF LostCredential, NewCredential
  <2>1. CASE LostCredential(row) /\ console' = Reject("credentials", row)
    BY <1>1, <1>2, <1>5, <2>1 DEF Becomes
  <2>2. CASE row \in Seen("credentials") /\ console' = Done("credentials", row)
    BY <1>1, <1>2, <1>6, <2>2 DEF Becomes
  <2>3. CASE NewCredential(row) /\ console' = Insert("credentials", row)
    BY <1>1, <1>2, <1>7, <2>3 DEF Becomes
  <2>. QED
    BY <2>1, <2>2, <2>3
<1>12. CASE RestoreHandle /\ console' # Fail
  <2>. PICK row \in th :
           \/ LostHandle(row) /\ console' = Reject("handles", row)
           \/ OfUser(row.user, Seen("handles")) # {} /\ console' = Done("handles", row)
           \/ NewHandle(row) /\ console' = Insert("handles", row)
    BY <1>12, HandleOutcome DEF LostHandle, NewHandle
  <2>1. CASE LostHandle(row) /\ console' = Reject("handles", row)
    <3>1. Rejected(row.user) \/ OfUser(row.user, Seen("handles") \cup console'.wrote.handles) # {}
      BY <2>1 DEF LostHandle, OfUser
    <3>. QED
      BY <1>1, <1>2, <1>8, <2>1, <3>1 DEF Becomes
  <2>2. CASE OfUser(row.user, Seen("handles")) # {} /\ console' = Done("handles", row)
    <3>1. OfUser(row.user, Seen("handles") \cup console'.wrote.handles) # {}
      BY <2>2 DEF OfUser
    <3>. QED
      BY <1>1, <1>2, <1>9, <2>2, <3>1 DEF Becomes
  <2>3. CASE NewHandle(row) /\ console' = Insert("handles", row)
    <3>1. console'.wrote.handles = wh \cup {row}
      BY <1>10, <2>3 DEF Becomes
    <3>2. OfUser(row.user, Seen("handles") \cup console'.wrote.handles) # {}
      BY <3>1 DEF OfUser
    <3>. QED
      BY <1>1, <1>2, <1>10, <2>3, <3>1, <3>2 DEF Becomes
  <2>. QED
    BY <2>1, <2>2, <2>3
<1>. QED
  BY <1>1, <1>4, <1>11, <1>12

-----------------------------------------------------------------------------
(* An import goes on.                                                      *)

LEMMA SeenNext ==
  /\ Seen("credentials")' = console'.seen.credentials \cup console'.wrote.credentials
  /\ Seen("handles")' = console'.seen.handles \cup console'.wrote.handles
BY DEF Seen

\* Whose rows are rejected does not change: the handles that are written are
\* those of the file, each the only one of its account.
LEMMA RejectedSame ==
  ASSUME FileSound, UNCHANGED file, console'.seen = console.seen,
         \/ console'.wrote.handles = console.wrote.handles
         \/ \E row \in file.handles : console'.wrote.handles = console.wrote.handles \cup {row}
  PROVE  \A u : Rejected(u)' <=> Rejected(u)
<1>. SUFFICES ASSUME NEW u PROVE Mismatched(u)' <=> Mismatched(u)
  BY DEF Rejected
<1>1. \A h, g \in file.handles : h.user = g.user \/ h.handle = g.handle => h = g
  BY DEF FileSound
<1>2. ASSUME NEW row \in file.handles, Seen("handles")' = Seen("handles") \cup {row}
      PROVE  Mismatched(u)' <=> Mismatched(u)
  BY <1>1, <1>2 DEF Mismatched, OfUser
<1>3. ASSUME Seen("handles")' = Seen("handles") PROVE Mismatched(u)' <=> Mismatched(u)
  BY <1>3 DEF Mismatched, OfUser
<1>. QED
  BY <1>2, <1>3, SeenShape, SeenNext

LEMMA RestoreKeeps ==
  ASSUME TypeOK, FileSound, Importing, ImportOK, RestoreRow
  PROVE  ImportOK'
<1>. USE DEF tables, settings
<1>0. UNCHANGED <<tables, settings, made, file, touched, severed>>
  BY DEF RestoreRow
<1>1. /\ console.at = "rows" /\ console'.at \in {"rows", "failed"}
      /\ console'.allow = console.allow /\ console'.seen = console.seen
      /\ console'.locked = console.locked
      /\ console.rejected \subseteq console'.rejected
      /\ \A row \in console'.rejected \ console.rejected : LostCredential(row) \/ LostHandle(row)
      /\ console.wrote.credentials \subseteq console'.wrote.credentials
      /\ \A row \in console'.wrote.credentials \ console.wrote.credentials : NewCredential(row)
      /\ \/ console'.wrote.handles = console.wrote.handles
         \/ \E row : NewHandle(row) /\ console'.wrote.handles = console.wrote.handles \cup {row}
      /\ console'.todo.credentials \subseteq console.todo.credentials
      /\ console'.todo.handles \subseteq console.todo.handles
  BY RestoreEffect
<1>2. /\ \A row \in console.todo.credentials \ console'.todo.credentials :
           row \in console'.rejected \cup Seen("credentials") \cup console'.wrote.credentials
      /\ \A h \in console.todo.handles \ console'.todo.handles :
           Rejected(h.user) \/ OfUser(h.user, Seen("handles") \cup console'.wrote.handles) # {}
  BY RestoreEffect
<1>3. /\ console.wrote.credentials \cup console.todo.credentials \subseteq file.credentials
      /\ console.wrote.handles \cup console.todo.handles \subseteq file.handles
  BY DEF ImportOK, FromFile
<1>4. console'.wrote.handles \subseteq file.handles /\ console'.wrote.credentials \subseteq file.credentials
  BY <1>1, <1>3 DEF NewHandle, NewCredential
<1>5. \A u : Rejected(u)' <=> Rejected(u)
  BY <1>0, <1>1, <1>3, RejectedSame DEF NewHandle
<1>6. /\ Seen("credentials") \subseteq Seen("credentials")'
      /\ Seen("handles")' = Seen("handles") \cup console'.wrote.handles
  BY <1>1, SeenShape, SeenNext
<1>7. FromFile'
  BY <1>0, <1>1, <1>3, <1>4 DEF FromFile
<1>8. Unique'
  <2>1. \A row \in credentials, r \in console'.wrote.credentials : row.cred # r.cred
    BY <1>1 DEF ImportOK, Unique, NewCredential
  <2>2. \A h \in handles, g \in console'.wrote.handles : h.user # g.user /\ h.handle # g.handle
    <3>1. ASSUME NEW row, NewHandle(row), NEW h \in handles
          PROVE  h.user # row.user /\ h.handle # row.handle
      BY <3>1 DEF NewHandle, Taken
    <3>. QED
      BY <1>1, <3>1 DEF ImportOK, Unique
  <2>. QED
    BY <1>0, <2>1, <2>2 DEF Unique
<1>9. SeenKept'
  BY <1>0, <1>1 DEF ImportOK, SeenKept, OfUser
<1>10. Accepted'
  BY <1>1, <1>5 DEF ImportOK, Accepted, NewCredential
<1>11. Restored'
  <2>. SUFFICES ASSUME console'.at = "rows"
       PROVE  /\ \A row \in file.credentials :
                   row \in console'.todo.credentials \cup console'.rejected \cup Seen("credentials")'
              /\ \A h \in file.handles :
                   h \in console'.todo.handles \/ Rejected(h.user) \/ OfUser(h.user, Seen("handles")') # {}
    BY <1>0, <1>5 DEF Restored
  <2>1. ASSUME NEW row \in file.credentials
        PROVE  row \in console'.todo.credentials \cup console'.rejected \cup Seen("credentials")'
    <3>1. row \in console.todo.credentials \cup console.rejected \cup Seen("credentials")
      BY <1>1 DEF ImportOK, Restored
    <3>. QED
      BY <1>1, <1>2, <1>6, <3>1, SeenNext
  <2>2. ASSUME NEW h \in file.handles
        PROVE  h \in console'.todo.handles \/ Rejected(h.user) \/ OfUser(h.user, Seen("handles")') # {}
    <3>1. h \in console.todo.handles \/ Rejected(h.user) \/ OfUser(h.user, Seen("handles")) # {}
      BY <1>1 DEF ImportOK, Restored
    <3>2. OfUser(h.user, Seen("handles")) # {} => OfUser(h.user, Seen("handles")') # {}
      BY <1>6 DEF OfUser
    <3>. QED
      BY <1>2, <1>6, <3>1, <3>2
  <2>. QED
    BY <2>1, <2>2
<1>12. FloorKept'
  <2>1. ASSUME NEW h, console.locked, mode, h.only,
               UsableUnder(console.seen.rp, h.user, credentials \cup console.wrote.credentials) # {}
        PROVE  /\ console'.locked /\ mode'
               /\ UsableUnder(console'.seen.rp, h.user, credentials' \cup console'.wrote.credentials) # {}
    BY <1>0, <1>1, <2>1 DEF UsableUnder, OfUser
  <2>2. ASSUME NEW row, NewHandle(row), row.only
        PROVE  /\ console.locked /\ mode
               /\ UsableUnder(console.seen.rp, row.user, credentials \cup console.wrote.credentials) # {}
    BY <1>1, <2>2 DEF NewHandle, KeepsFloor, ImportOK, LockTaken
  <2>3. ASSUME NEW h \in console.wrote.handles, h.only
        PROVE  /\ console.locked /\ mode
               /\ UsableUnder(console.seen.rp, h.user, credentials \cup console.wrote.credentials) # {}
    BY <2>3 DEF ImportOK, FloorKept
  <2>4. ASSUME NEW h \in console'.wrote.handles, h.only
        PROVE  /\ console.locked /\ mode
               /\ UsableUnder(console.seen.rp, h.user, credentials \cup console.wrote.credentials) # {}
    BY <1>1, <2>2, <2>3, <2>4
  <2>. QED
    BY <2>1, <2>4 DEF FloorKept
<1>13. LockTaken'
  <2>1. \A h : OfUser(h.user, Seen("handles")') = {} => OfUser(h.user, Seen("handles")) = {}
    BY <1>6 DEF OfUser
  <2>. QED
    BY <1>1, <2>1 DEF ImportOK, LockTaken
<1>14. IntoEmpty'
  <2>. SUFFICES ASSUME ~ console.allow, NEW row \in console'.rejected, row.user \in console.seen.active
       PROVE  row \in file.credentials /\ row.cred \in severed
    BY <1>0, <1>1 DEF ImportOK, IntoEmpty, RejectedFor
  <2>1. Seen("credentials") \subseteq file.credentials /\ Seen("handles") \subseteq file.handles
    BY <1>1, <1>3, SeenShape DEF ImportOK, IntoEmpty
  <2>2. ~ Rejected(row.user)
    BY <2>1 DEF Rejected, Mismatched, OfUser, FileSound
  <2>3. CASE row \in console.rejected
    BY <1>1, <2>3 DEF ImportOK, IntoEmpty, RejectedFor
  <2>4. ASSUME LostCredential(row) PROVE row \in file.credentials /\ row.cred \in severed
    <3>1. row \in file.credentials
      BY <1>3, <2>4 DEF LostCredential
    <3>2. ~ HandleOf(row, file.handles)
      BY <2>1, <2>2, <2>4, <3>1 DEF LostCredential, OfUser, HandleOf, FileSound
    <3>. QED
      BY <3>1, <3>2 DEF FileSound
  <2>5. ~ LostHandle(row)
    <3>. SUFFICES ASSUME LostHandle(row) PROVE FALSE
      OBVIOUS
    <3>1. PICK h \in Seen("handles") : h.user = row.user /\ row \notin Seen("handles")
      BY <2>2 DEF LostHandle
    <3>2. row \in file.handles /\ h \in file.handles
      BY <1>3, <2>1 DEF LostHandle
    <3>. QED
      BY <3>1, <3>2 DEF FileSound
  <2>. QED
    BY <1>1, <2>3, <2>4, <2>5
<1>. QED
  BY <1>7, <1>8, <1>9, <1>10, <1>11, <1>12, <1>13, <1>14 DEF ImportOK

\* The settings check, under the lock if an account becomes passkey-only.
LEMMA RefuseEffect ==
  ASSUME TypeOK, RefusePasskeyOnlyWithoutLoginMode
  PROVE  /\ console \in Imports /\ console.at = "opened" /\ console'.at \in {"rows", "failed"}
         /\ console'.allow = console.allow /\ console'.seen = console.seen
         /\ console'.rejected = console.rejected
         /\ console'.wrote = console.wrote /\ console'.todo = console.todo
         /\ console'.locked = (console.locked \/ BecomePasskeyOnly # {})
         /\ console' \in Imports
<1>. DEFINE at == IF BecomePasskeyOnly # {} /\ ~ mode THEN "failed" ELSE "rows"
            locked == console.locked \/ BecomePasskeyOnly # {}
<1>1. /\ console.at = "opened"
      /\ console' = [console EXCEPT !.at = at, !.locked = @ \/ BecomePasskeyOnly # {}]
  BY DEF RefusePasskeyOnlyWithoutLoginMode
<1>2. console \in Imports
  BY <1>1 DEF TypeOK
<1>3. console' = [[console EXCEPT !.at = at] EXCEPT !.locked = locked]
  BY <1>1, <1>2 DEF Imports
<1>4. at \in {"rows", "failed"} /\ locked \in BOOLEAN
  BY <1>2, ImportShape
<1>. HIDE DEF at, locked
<1>5. console' = [at |-> at, allow |-> console.allow, seen |-> console.seen, wrote |-> console.wrote,
                  locked |-> locked, todo |-> console.todo, rejected |-> console.rejected]
  <2>. DEFINE c == [console EXCEPT !.at = at]
  <2>1. c = [at |-> at, allow |-> console.allow, seen |-> console.seen, wrote |-> console.wrote,
             locked |-> console.locked, todo |-> console.todo, rejected |-> console.rejected]
    BY <1>2, ImportShape
  <2>2. console' = [c EXCEPT !.locked = locked]
    BY <1>3
  <2>. HIDE DEF c
  <2>. QED
    BY <2>1, <2>2
<1>6. console' \in Imports
  BY <1>2, <1>4, <1>5, ImportShape DEF Imports
<1>. QED
  BY <1>1, <1>2, <1>4, <1>5, <1>6 DEF locked

LEMMA RefuseKeeps ==
  ASSUME TypeOK, FileSound, Importing, ImportOK, RefusePasskeyOnlyWithoutLoginMode
  PROVE  ImportOK'
<1>. USE DEF tables, settings
<1>0. UNCHANGED <<tables, settings, made, file, touched, severed>>
  BY DEF RefusePasskeyOnlyWithoutLoginMode
<1>1. /\ console.at = "opened" /\ console'.at \in {"rows", "failed"}
      /\ console'.allow = console.allow /\ console'.seen = console.seen
      /\ console'.rejected = console.rejected
      /\ console'.wrote = console.wrote /\ console'.todo = console.todo
      /\ console'.locked = (console.locked \/ BecomePasskeyOnly # {})
  BY RefuseEffect
<1>2. console.todo = file
  BY <1>1 DEF ImportOK, FromFile
<1>3. Seen("credentials")' = Seen("credentials") /\ Seen("handles")' = Seen("handles")
  BY <1>1, SeenShape, SeenNext
<1>4. \A u : Rejected(u)' <=> Rejected(u)
  BY <1>0, <1>1, RejectedSame
<1>5. FromFile' /\ Unique' /\ SeenKept'
  BY <1>0, <1>1 DEF ImportOK, FromFile, Unique, SeenKept, OfUser
<1>6. Accepted'
  BY <1>1, <1>4 DEF ImportOK, Accepted
<1>7. Restored'
  BY <1>0, <1>1, <1>2 DEF Restored
<1>8. FloorKept'
  <2>1. ASSUME NEW h \in console.wrote.handles, h.only
        PROVE  /\ console.locked /\ mode
               /\ UsableUnder(console.seen.rp, h.user, credentials \cup console.wrote.credentials) # {}
    BY <2>1 DEF ImportOK, FloorKept
  <2>2. console.locked => console'.locked
    BY <1>1
  <2>. QED
    BY <1>0, <1>1, <2>1, <2>2 DEF FloorKept, UsableUnder, OfUser
<1>9. LockTaken'
  BY <1>1, <1>2, <1>3 DEF LockTaken, BecomePasskeyOnly
<1>10. IntoEmpty'
  BY <1>0, <1>1 DEF ImportOK, IntoEmpty, RejectedFor
<1>. QED
  BY <1>5, <1>6, <1>7, <1>8, <1>9, <1>10 DEF ImportOK

\* An import begins, in a new transaction or in the one that failed.
LEMMA BeginEffect ==
  ASSUME TypeOK, NEW allow \in BOOLEAN, BeginImport(allow)
  PROVE  /\ console' \in Imports /\ console'.at \in {"opened", "failed"} /\ console'.allow = allow
         /\ console'.todo = file /\ console'.rejected = {}
         /\ \/ /\ console = Idle /\ touched' = {}
               /\ console'.seen = Snapshot
               /\ console'.wrote.credentials = {} /\ console'.wrote.handles = {}
            \/ /\ Importing /\ UNCHANGED touched /\ console'.locked = console.locked
               /\ console'.seen = console.seen /\ console'.wrote = console.wrote
         /\ console'.at = "opened" /\ ~ allow =>
              console'.seen.credentials = {} /\ console'.seen.handles = {}
<1>. DEFINE open == IF console = Idle THEN [seen |-> Snapshot, wrote |-> NoFile, locked |-> FALSE]
                    ELSE console
            empty == \A table \in DOMAIN open.wrote : open.seen[table] \cup open.wrote[table] = {}
            at == IF allow \/ empty THEN "opened" ELSE "failed"
<1>1. /\ console.at \in {"idle", "failed"}
      /\ console' = [at |-> at, allow |-> allow,
                     seen |-> open.seen, wrote |-> open.wrote, locked |-> open.locked,
                     todo |-> file, rejected |-> {}]
      /\ touched' = IF console = Idle THEN {} ELSE touched
  BY DEF BeginImport
<1>2. console = Idle \/ (console # Idle /\ Importing /\ console \in Imports)
  BY <1>1, ConsoleShape
<1>3. open.seen \in Snapshots /\ open.wrote \in Rows /\ open.locked \in BOOLEAN
  <2>1. CASE console = Idle
    <3>1. open = [seen |-> Snapshot, wrote |-> NoFile, locked |-> FALSE]
      BY <2>1
    <3>2. Snapshot \in Snapshots /\ NoFile \in Rows
      BY DEF Snapshot, Snapshots, NoFile, Rows, TypeOK
    <3>. HIDE DEF open
    <3>. QED
      BY <3>1, <3>2
  <2>2. CASE console # Idle
    BY <1>2, <2>2, ImportShape
  <2>. QED
    BY <2>1, <2>2
<1>4. at \in {"opened", "failed"} /\ file \in Rows
  BY DEF TypeOK
<1>5. at = "opened" /\ ~ allow => open.seen.credentials = {} /\ open.seen.handles = {}
  <2>. SUFFICES ASSUME empty PROVE open.seen.credentials = {} /\ open.seen.handles = {}
    OBVIOUS
  <2>. HIDE DEF open
  <2>1. DOMAIN open.wrote = {"credentials", "handles"}
    BY <1>3, RowsShape
  <2>2. open.seen["credentials"] = {} /\ open.seen["handles"] = {}
    BY <2>1
  <2>. QED
    BY <1>3, <2>2 DEF Snapshots
<1>6. \/ console = Idle /\ open.seen = Snapshot /\ open.wrote = NoFile
      \/ console # Idle /\ open = console
  OBVIOUS
<1>. HIDE DEF open, at
<1>7. console' \in Imports
  BY <1>1, <1>3, <1>4 DEF Imports
<1>. QED
  BY <1>1, <1>2, <1>4, <1>5, <1>6, <1>7 DEF NoFile

LEMMA BeginKeeps ==
  ASSUME TypeOK, FileSound, Importing => ImportOK, NEW allow \in BOOLEAN, BeginImport(allow)
  PROVE  ImportOK'
<1>. USE DEF tables, settings
<1>0. UNCHANGED <<tables, settings, made, file, severed>>
  BY DEF BeginImport
<1>1. /\ console'.at \in {"opened", "failed"} /\ console'.allow = allow
      /\ console'.todo = file /\ console'.rejected = {}
      /\ console'.at = "opened" /\ ~ allow =>
              console'.seen.credentials = {} /\ console'.seen.handles = {}
  BY BeginEffect
<1>2. Restored' /\ LockTaken'
  BY <1>1 DEF Restored, LockTaken
<1>3. IntoEmpty'
  BY <1>1 DEF IntoEmpty
<1>4. CASE /\ console = Idle /\ console'.seen = Snapshot
           /\ console'.wrote.credentials = {} /\ console'.wrote.handles = {}
  <2>1. FromFile' /\ Unique' /\ Accepted' /\ FloorKept'
    BY <1>0, <1>1, <1>4 DEF FromFile, Unique, Accepted, FloorKept
  <2>2. SeenKept'
    BY <1>0, <1>4 DEF SeenKept, Snapshot
  <2>. QED
    BY <1>2, <1>3, <2>1, <2>2 DEF ImportOK
<1>5. CASE /\ Importing /\ UNCHANGED touched /\ console'.locked = console.locked
           /\ console'.seen = console.seen /\ console'.wrote = console.wrote
  <2>1. \A u : Rejected(u)' <=> Rejected(u)
    BY <1>0, <1>5, RejectedSame
  <2>2. Unique' /\ SeenKept' /\ FloorKept'
    BY <1>0, <1>5 DEF ImportOK, Unique, SeenKept, FloorKept, UsableUnder, OfUser
  <2>3. Accepted'
    BY <1>5, <2>1 DEF ImportOK, Accepted
  <2>4. FromFile'
    BY <1>0, <1>1, <1>5 DEF ImportOK, FromFile
  <2>. QED
    BY <1>2, <1>3, <2>2, <2>3, <2>4 DEF ImportOK
<1>. QED
  BY <1>4, <1>5, BeginEffect

-----------------------------------------------------------------------------
(* The site goes on.                                                       *)

\* What requests may do to an import under way.
Harmless ==
    /\ UNCHANGED <<file, console>>
    /\ touched \subseteq touched' /\ severed \subseteq severed'
    /\ \A row \in credentials : row \in credentials' \/ (row.cred \in touched' /\ ~ Waits(row.user))
    /\ \A row \in credentials' :
         \/ \E r \in credentials : r.cred = row.cred
         \/ \A r \in console.wrote.credentials : row.cred # r.cred
    /\ \A h \in handles' :
         \/ \E g \in handles : g.user = h.user /\ g.handle = h.handle
         \/ \A g \in console.wrote.handles : h.user # g.user /\ h.handle # g.handle
    /\ \A g \in handles :
         \/ \E h \in handles' : h.user = g.user /\ h.handle = g.handle
         \/ \A row \in OfUser(g.user, file.credentials) : row.cred \in severed'
    /\ SettingsLocked => UNCHANGED mode

LEMMA SiteKeeps ==
  ASSUME TypeOK, Importing, ImportOK, Harmless
  PROVE  ImportOK'
<1>. USE DEF Harmless
<1>1. /\ Seen("credentials")' = Seen("credentials") /\ Seen("handles")' = Seen("handles")
      /\ \A u : Rejected(u)' <=> Rejected(u)
  BY DEF Seen, Rejected, Mismatched, OfUser
<1>2. FromFile' /\ Accepted'
  BY <1>1 DEF ImportOK, FromFile, Accepted
<1>3. Restored' /\ LockTaken'
  BY <1>1 DEF ImportOK, Restored, LockTaken
<1>4. Unique'
  <2>1. \A row \in credentials', r \in console.wrote.credentials : row.cred # r.cred
    BY DEF ImportOK, Unique
  <2>2. \A h \in handles', g \in console.wrote.handles : h.user # g.user /\ h.handle # g.handle
    BY DEF ImportOK, Unique
  <2>. QED
    BY <2>1, <2>2 DEF Unique
<1>5. SeenKept'
  <2>1. \A row \in console.seen.credentials : row \in credentials' \/ row.cred \in touched'
    BY DEF ImportOK, SeenKept
  <2>2. ASSUME NEW g \in console.seen.handles
        PROVE  \/ \E h \in handles' : h.user = g.user /\ h.handle = g.handle
               \/ \A row \in OfUser(g.user, file.credentials) : row.cred \in severed'
    <3>1. CASE \A row \in OfUser(g.user, file.credentials) : row.cred \in severed
      BY <3>1
    <3>2. CASE \E h \in handles : h.user = g.user /\ h.handle = g.handle
      <4>1. PICK h \in handles : h.user = g.user /\ h.handle = g.handle
        BY <3>2
      <4>2. \/ \E k \in handles' : k.user = h.user /\ k.handle = h.handle
            \/ \A row \in OfUser(h.user, file.credentials) : row.cred \in severed'
        OBVIOUS
      <4>. QED
        BY <4>1, <4>2
    <3>. QED
      BY <3>1, <3>2 DEF ImportOK, SeenKept
  <2>. QED
    BY <2>1, <2>2 DEF SeenKept, OfUser
<1>6. FloorKept'
  <2>. SUFFICES ASSUME NEW h \in console.wrote.handles, h.only
       PROVE  /\ console.locked /\ mode'
              /\ UsableUnder(console.seen.rp, h.user, credentials' \cup console.wrote.credentials) # {}
    BY DEF FloorKept, UsableUnder, OfUser
  <2>1. /\ console.locked /\ mode
        /\ UsableUnder(console.seen.rp, h.user, credentials \cup console.wrote.credentials) # {}
    BY DEF ImportOK, FloorKept
  <2>2. Waits(h.user) /\ SettingsLocked
    BY <2>1, WaitsFor DEF SettingsLocked
  <2>3. PICK row \in credentials \cup console.wrote.credentials :
           row.user = h.user /\ row.enabled /\ row.rp = console.seen.rp
    BY <2>1 DEF UsableUnder, OfUser
  <2>4. row \in credentials' \cup console.wrote.credentials
    BY <2>2, <2>3
  <2>. QED
    BY <2>1, <2>2, <2>3, <2>4 DEF UsableUnder, OfUser
<1>7. IntoEmpty'
  BY DEF ImportOK, IntoEmpty, RejectedFor
<1>. QED
  BY <1>2, <1>3, <1>4, <1>5, <1>6, <1>7 DEF ImportOK

\* The account's rows are not in the way of a request that goes on.
LEMMA NotWaiting ==
  ASSUME TypeOK, NEW u, ~ Waits(u), Importing
  PROVE  /\ \A row \in console.wrote.credentials : row.user # u
         /\ \A h \in console.wrote.handles : h.user # u
BY WaitsFor

\* The tables after a request: typed and unique, as are the other variables.
Tables ==
    /\ credentials \subseteq CredentialRow /\ handles \subseteq HandleRow
    /\ \A a, b \in credentials : a.cred = b.cred => a = b
    /\ \A a, b \in handles : a.user = b.user \/ a.handle = b.handle => a = b
Others ==
    /\ installed \in BOOLEAN /\ mode \in BOOLEAN /\ rp \in Rps
    /\ active \subseteq Users /\ ways \subseteq {"password", "alternate"} /\ moving \in Changes
    /\ made \in 0..MaxHandles /\ commands \in 0..MaxCommands
    /\ file \in Rows /\ touched \subseteq Credentials /\ severed \subseteq Credentials
    /\ console \in Imports \cup [at : {"idle", "uninstall"}]

LEMMA TypeParts == (TypeOK <=> Tables /\ Others) /\ (TypeOK' <=> Tables' /\ Others')
BY DEF TypeOK, Tables, Others

\* Passkeys and handles as the site keeps them.
Site0 == TypeOK /\ CarriesHandle /\ Numbered /\ FileSound /\ FileComplete

\* Steps of the site that leave the tables alone.
LEMMA TablesSame ==
  ASSUME Site0, UNCHANGED <<tables, file, severed>>, made <= made',
         made' \in Nat, Others',
         console'.at = "uninstall" => console.at = "uninstall" /\ touched \subseteq touched'
  PROVE  Site0'
<1>. USE DEF tables
<1>1. TypeOK'
  BY TypeParts DEF Site0, Tables
<1>2. CarriesHandle' /\ FileSound'
  BY DEF Site0, CarriesHandle, FileSound, HandleOf
<1>3. Numbered'
  <2>1. \A h \in handles \cup file.handles : h.handle \in Nat
    BY DEF Site0, TypeOK, HandleRow, Rows, Handles
  <2>2. made \in Nat
    BY DEF Site0, TypeOK
  <2>. QED
    BY <2>1, <2>2 DEF Site0, Numbered
<1>4. FileComplete'
  BY DEF Site0, FileComplete
<1>. QED
  BY <1>1, <1>2, <1>3, <1>4 DEF Site0

LEMMA TouchShape ==
  ASSUME TypeOK, NEW c, Touch(c)
  PROVE  touched \subseteq touched' /\ (console # Idle => c \in touched')
BY DEF Touch

\* A passkey that signs in, is disabled or enabled stays the account's, with
\* its handle.
LEMMA ChangeEffect ==
  ASSUME TypeOK, ChangeCredential
  PROVE  \E row \in credentials :
           /\ ~ Waits(row.user) /\ Touch(row.cred)
           /\ \/ credentials' = credentials \ {row}
              \/ \E new \in CredentialRow :
                   /\ new.cred = row.cred /\ new.user = row.user /\ new.uid = row.uid
                   /\ credentials' = (credentials \ {row}) \cup {new}
<1>1. PICK row \in credentials :
        /\ ~ Waits(row.user) /\ Touch(row.cred)
        /\ \/ /\ row.count < MaxCount
              /\ credentials' = (credentials \ {row}) \cup {[row EXCEPT !.count = @ + 1]}
           \/ credentials' = credentials \ {row}
           \/ credentials' = (credentials \ {row}) \cup {[row EXCEPT !.enabled = ~ @]}
  BY DEF ChangeCredential
<1>2. row \in CredentialRow
  BY DEF TypeOK
<1>3. row = [cred |-> row.cred, user |-> row.user, enabled |-> row.enabled, rp |-> row.rp,
             uid |-> row.uid, count |-> row.count]
      /\ row.enabled \in BOOLEAN /\ row.count \in 0..MaxCount /\ row.cred \in Credentials
      /\ row.user \in Users /\ row.rp \in Rps /\ row.uid \in Handles
  BY <1>2 DEF CredentialRow
<1>4. CASE row.count < MaxCount /\ credentials' = (credentials \ {row}) \cup {[row EXCEPT !.count = @ + 1]}
  <2>. DEFINE new == [row EXCEPT !.count = @ + 1]
  <2>1. new = [cred |-> row.cred, user |-> row.user, enabled |-> row.enabled, rp |-> row.rp,
               uid |-> row.uid, count |-> row.count + 1]
    BY <1>3
  <2>2. row.count + 1 \in 0..MaxCount
    BY <1>3, <1>4, ArchiveAssumption
  <2>3. credentials' = (credentials \ {row}) \cup {new}
    BY <1>4
  <2>. HIDE DEF new
  <2>4. /\ new \in CredentialRow
        /\ new.cred = row.cred /\ new.user = row.user /\ new.uid = row.uid
    BY <1>3, <2>1, <2>2 DEF CredentialRow
  <2>. QED
    BY <1>1, <2>3, <2>4
<1>5. CASE credentials' = (credentials \ {row}) \cup {[row EXCEPT !.enabled = ~ @]}
  <2>. DEFINE new == [row EXCEPT !.enabled = ~ @]
  <2>1. new = [cred |-> row.cred, user |-> row.user, enabled |-> ~ row.enabled, rp |-> row.rp,
               uid |-> row.uid, count |-> row.count]
    BY <1>3
  <2>2. (~ row.enabled) \in BOOLEAN
    OBVIOUS
  <2>3. credentials' = (credentials \ {row}) \cup {new}
    BY <1>5
  <2>. HIDE DEF new
  <2>4. /\ new \in CredentialRow
        /\ new.cred = row.cred /\ new.user = row.user /\ new.uid = row.uid
    BY <1>3, <2>1, <2>2 DEF CredentialRow
  <2>. QED
    BY <1>1, <2>3, <2>4
<1>. QED
  BY <1>1, <1>4, <1>5

LEMMA ChangeStep ==
  ASSUME IInv, ChangeCredential
  PROVE  IInv'
<1>. USE DEF settings
<1>0. TypeOK /\ UNCHANGED <<installed, handles, settings, made, file, console, commands, severed>>
  BY DEF IInv, ChangeCredential
<1>1. PICK row \in credentials :
        /\ ~ Waits(row.user) /\ Touch(row.cred)
        /\ \/ credentials' = credentials \ {row}
           \/ \E new \in CredentialRow :
                   /\ new.cred = row.cred /\ new.user = row.user /\ new.uid = row.uid
                   /\ credentials' = (credentials \ {row}) \cup {new}
  BY <1>0, ChangeEffect
<1>2. /\ \A r \in credentials' : \E c \in credentials :
           c.cred = r.cred /\ c.user = r.user /\ c.uid = r.uid
      /\ \A r \in credentials' : r \in credentials \/ r.cred = row.cred
      /\ \A r \in credentials : r \in credentials' \/ r = row
      /\ credentials' \subseteq CredentialRow
  BY <1>0, <1>1 DEF TypeOK
<1>3. \A a, b \in credentials' : a.cred = b.cred => a = b
  BY <1>0, <1>1 DEF TypeOK
<1>4. touched \subseteq touched' /\ (console # Idle => row.cred \in touched') /\ touched' \subseteq Credentials
  <2>1. row.cred \in Credentials
    BY <1>0 DEF TypeOK, CredentialRow
  <2>. QED
    BY <1>0, <1>1, <2>1, TouchShape DEF Touch, TypeOK
<1>5. TypeOK'
  BY <1>0, <1>2, <1>3, <1>4 DEF TypeOK
<1>6. CarriesHandle'
  BY <1>0, <1>2 DEF IInv, CarriesHandle
<1>7. Numbered' /\ FileSound'
  BY <1>0 DEF IInv, Numbered, FileSound, HandleOf
<1>8. FileComplete'
  BY <1>0, <1>2, <1>4, ConsoleShape DEF IInv, FileComplete, Idle
<1>9. Importing' => ImportOK'
  <2>. SUFFICES ASSUME Importing PROVE ImportOK'
    BY <1>0 DEF Importing
  <2>1. console # Idle
    BY <1>0, ConsoleShape
  <2>2. Harmless
    BY <1>0, <1>1, <1>2, <1>4, <2>1 DEF Harmless
  <2>. QED
    BY <1>0, <2>2, SiteKeeps DEF IInv
<1>. QED
  BY <1>5, <1>6, <1>7, <1>8, <1>9 DEF IInv

LEMMA OnlyEffect ==
  ASSUME TypeOK, SetPasskeyOnly
  PROVE  /\ UNCHANGED <<installed, credentials, settings, made, file, console, commands, touched, severed>>
         /\ handles' \subseteq HandleRow
         /\ \E h \in handles : \E new \in HandleRow :
              /\ new.user = h.user /\ new.handle = h.handle
              /\ handles' = (handles \ {h}) \cup {new}
<1>1. PICK h \in handles : handles' = (handles \ {h}) \cup {[h EXCEPT !.only = ~ @]}
  BY DEF SetPasskeyOnly
<1>2. h \in HandleRow
  BY DEF TypeOK
<1>. DEFINE new == [h EXCEPT !.only = ~ @]
<1>3. new = [user |-> h.user, handle |-> h.handle, only |-> ~ h.only]
  BY <1>2 DEF HandleRow
<1>4. (~ h.only) \in BOOLEAN /\ handles' = (handles \ {h}) \cup {new}
  BY <1>1
<1>. HIDE DEF new
<1>5. new \in HandleRow /\ new.user = h.user /\ new.handle = h.handle
  BY <1>2, <1>3, <1>4 DEF HandleRow
<1>. QED
  BY <1>4, <1>5 DEF SetPasskeyOnly, TypeOK

LEMMA OnlyStep ==
  ASSUME IInv, SetPasskeyOnly
  PROVE  IInv'
<1>. USE DEF settings
<1>0. TypeOK /\ UNCHANGED <<installed, credentials, settings, made, file, console, commands, touched, severed>>
      /\ handles' \subseteq HandleRow
  BY OnlyEffect DEF IInv
<1>1. PICK h \in handles, new \in HandleRow :
        /\ new.user = h.user /\ new.handle = h.handle
        /\ handles' = (handles \ {h}) \cup {new}
  BY <1>0, OnlyEffect
<1>2. /\ \A k \in handles' : \E g \in handles : g.user = k.user /\ g.handle = k.handle
      /\ \A k \in handles : \E g \in handles' : g.user = k.user /\ g.handle = k.handle
  BY <1>1
<1>3. \A a, b \in handles' : a.user = b.user \/ a.handle = b.handle => a = b
  BY <1>0, <1>1 DEF TypeOK
<1>4. TypeOK'
  BY <1>0, <1>3 DEF TypeOK
<1>5. CarriesHandle'
  <2>. SUFFICES ASSUME NEW row \in credentials, row.cred \notin severed
       PROVE  \E k \in handles' : k.user = row.user /\ k.handle = row.uid
    BY <1>0 DEF CarriesHandle
  <2>1. \E g \in handles : g.user = row.user /\ g.handle = row.uid
    BY DEF IInv, CarriesHandle
  <2>. QED
    BY <1>2, <2>1
<1>6. Numbered'
  BY <1>0, <1>2 DEF IInv, Numbered
<1>7. FileSound' /\ FileComplete'
  BY <1>0 DEF IInv, FileSound, FileComplete, HandleOf
<1>8. Importing' => ImportOK'
  <2>. SUFFICES ASSUME Importing PROVE ImportOK'
    BY <1>0 DEF Importing
  <2>1. Harmless
    BY <1>0, <1>2 DEF Harmless
  <2>. QED
    BY <1>0, <2>1, SiteKeeps DEF IInv
<1>. QED
  BY <1>4, <1>5, <1>6, <1>7, <1>8 DEF IInv

\* The account's handle goes; its passkeys are gone, or go with it.
LEMMA ForgetStep ==
  ASSUME IInv, NEW u \in Users, Forget(u),
         credentials' = credentials \ OfUser(u, credentials),
         UNCHANGED <<mode, made, file, console>>, Others'
  PROVE  IInv'
<1>0. TypeOK
  BY DEF IInv
<1>1. /\ ~ Waits(u)
      /\ handles' = handles \ OfUser(u, handles)
      /\ touched' = IF console = Idle THEN touched
                    ELSE touched \cup {row.cred : row \in OfUser(u, credentials)}
      /\ severed' = IF Importing THEN severed \cup {row.cred : row \in OfUser(u, file.credentials)}
                    ELSE severed
  BY DEF Forget
<1>2. /\ touched \subseteq touched' /\ severed \subseteq severed'
      /\ console # Idle => \A row \in credentials : row.user = u => row.cred \in touched'
      /\ Importing => \A row \in OfUser(u, file.credentials) : row.cred \in severed'
  BY <1>1 DEF OfUser
<1>3. /\ \A h \in handles : h \in handles' \/ h.user = u
      /\ handles' \subseteq handles /\ credentials' \subseteq credentials
      /\ \A row \in credentials : row \in credentials' <=> row.user # u
  BY <1>1 DEF OfUser
<1>4. TypeOK'
  <2>1. Tables'
    BY <1>0, <1>3 DEF TypeOK, Tables
  <2>. QED
    BY <2>1, TypeParts
<1>5. CarriesHandle'
  <2>. SUFFICES ASSUME NEW row \in credentials', row.cred \notin severed'
       PROVE  \E h \in handles' : h.user = row.user /\ h.handle = row.uid
    BY DEF CarriesHandle
  <2>1. row \in credentials /\ row.user # u /\ row.cred \notin severed
    BY <1>2, <1>3
  <2>2. PICK h \in handles : h.user = row.user /\ h.handle = row.uid
    BY <2>1 DEF IInv, CarriesHandle
  <2>. QED
    BY <1>3, <2>1, <2>2
<1>6. Numbered' /\ FileSound'
  BY <1>2, <1>3 DEF IInv, Numbered, FileSound, HandleOf
<1>7. FileComplete'
  BY <1>0, <1>2, <1>3 DEF IInv, FileComplete
<1>8. Importing' => ImportOK'
  <2>. SUFFICES ASSUME Importing PROVE ImportOK'
    BY DEF Importing
  <2>1. console # Idle
    BY <1>0, ConsoleShape
  <2>2. \A row \in credentials : row \in credentials' \/ (row.cred \in touched' /\ ~ Waits(row.user))
    BY <1>1, <1>2, <1>3, <2>1
  <2>3. \A g \in handles :
          \/ \E h \in handles' : h.user = g.user /\ h.handle = g.handle
          \/ \A row \in OfUser(g.user, file.credentials) : row.cred \in severed'
    BY <1>2, <1>3
  <2>4. Harmless
    BY <1>2, <1>3, <2>2, <2>3 DEF Harmless
  <2>. QED
    BY <1>0, <2>4, SiteKeeps DEF IInv
<1>. QED
  BY <1>4, <1>5, <1>6, <1>7, <1>8 DEF IInv

LEMMA ForgetType ==
  ASSUME TypeOK, NEW u, Forget(u)
  PROVE  touched' \subseteq Credentials /\ severed' \subseteq Credentials
<1>1. \A row \in credentials \cup file.credentials : row.cred \in Credentials
  <2>1. credentials \cup file.credentials \subseteq CredentialRow
    BY RowsShape DEF TypeOK
  <2>. QED
    BY <2>1 DEF CredentialRow
<1>. QED
  BY <1>1 DEF Forget, OfUser, TypeOK

LEMMA ForgetSteps ==
  ASSUME IInv, NEW u \in Users, TrashHandle(u) \/ DeleteUser(u)
  PROVE  IInv'
<1>. USE DEF settings
<1>0. TypeOK
  BY DEF IInv
<1>1. CASE TrashHandle(u)
  <2>1. /\ Forget(u) /\ OfUser(u, credentials) = {}
        /\ UNCHANGED <<installed, credentials, settings, made, file, console, commands>>
    BY <1>1 DEF TrashHandle
  <2>2. Others'
    BY <1>0, <2>1, ForgetType DEF TypeOK, Others
  <2>. QED
    BY <2>1, <2>2, ForgetStep
<1>2. CASE DeleteUser(u)
  <2>1. /\ Forget(u) /\ credentials' = credentials \ OfUser(u, credentials)
        /\ active' = active \ {u}
        /\ UNCHANGED <<installed, mode, rp, ways, moving, made, file, console, commands>>
    BY <1>2 DEF DeleteUser
  <2>2. Others'
    BY <1>0, <2>1, ForgetType DEF TypeOK, Others
  <2>. QED
    BY <2>1, <2>2, ForgetStep
<1>. QED
  BY <1>1, <1>2

\* Accounts, settings and the app, the tables aside.
LEMMA SettingsStep ==
  ASSUME IInv, \/ Install \/ SaveSettings \/ \E u \in Users : ToggleUser(u)
  PROVE  IInv'
<1>. USE DEF settings, tables
<1>0. TypeOK
  BY DEF IInv
<1>1. /\ UNCHANGED <<tables, made, file, console, commands, touched, severed>>
      /\ SettingsLocked => UNCHANGED mode
  BY DEF Install, SaveSettings, ToggleUser
<1>2. Others'
  <2>1. CASE Install
    BY <1>0, <2>1 DEF Install, TypeOK, Others
  <2>2. CASE SaveSettings
    <3>1. mode' \in BOOLEAN /\ rp' \in Rps /\ UNCHANGED <<installed, active, ways, moving>>
      BY <1>0, <2>2 DEF SaveSettings, TypeOK
    <3>. QED
      BY <1>0, <1>1, <3>1 DEF TypeOK, Others
  <2>3. ASSUME NEW u \in Users, ToggleUser(u) PROVE Others'
    <3>1. active' \subseteq Users /\ UNCHANGED <<installed, mode, rp, ways, moving>>
      BY <1>0, <2>3 DEF ToggleUser, TypeOK
    <3>. QED
      BY <1>0, <1>1, <3>1 DEF TypeOK, Others
  <2>. QED
    BY <2>1, <2>2, <2>3
<1>3. Site0'
  <2>1. made \in Nat
    BY <1>0 DEF TypeOK
  <2>. QED
    BY <1>1, <1>2, <2>1, TablesSame DEF IInv, Site0
<1>4. Importing' => ImportOK'
  <2>. SUFFICES ASSUME Importing PROVE ImportOK'
    BY <1>1 DEF Importing
  <2>1. Harmless
    BY <1>1 DEF Harmless
  <2>. QED
    BY <1>0, <2>1, SiteKeeps DEF IInv
<1>. QED
  BY <1>3, <1>4 DEF IInv, Site0

\* A registration: a fresh identifier, under the account's handle or a new one.
LEMMA RegisterStep ==
  ASSUME IInv, NEW u \in Users, NEW c \in Credentials, Register(u, c)
  PROVE  IInv'
<1>. USE DEF settings
<1>. DEFINE new == OfUser(u, handles) = {}
            uid == IF new THEN made + 1 ELSE (CHOOSE h \in OfUser(u, handles) : TRUE).handle
            row == [cred |-> c, user |-> u, enabled |-> TRUE, rp |-> rp, uid |-> uid, count |-> 0]
            made1 == [user |-> u, handle |-> uid, only |-> FALSE]
<1>0. TypeOK /\ made \in 0..MaxHandles /\ MaxHandles \in Nat /\ MaxCount \in Nat
  BY ArchiveAssumption DEF IInv, TypeOK
<1>1. /\ ~ Waits(u)
      /\ \A r \in credentials : r.cred # c
      /\ Importing => \A r \in console.wrote.credentials : r.cred # c
      /\ new => made < MaxHandles
      /\ made' = IF new THEN made + 1 ELSE made
      /\ handles' = IF new THEN handles \cup {made1} ELSE handles
      /\ credentials' = credentials \cup {row}
      /\ Touch(c)
      /\ UNCHANGED <<installed, settings, file, console, commands, severed>>
  BY DEF Register
<1>2. uid \in Handles /\ (~ new => \E h \in handles : h.user = u /\ h.handle = uid)
  <2>1. CASE new
    BY <1>0, <1>1, <2>1 DEF Handles
  <2>2. CASE ~ new
    <3>1. PICK h \in OfUser(u, handles) : h = CHOOSE k \in OfUser(u, handles) : TRUE
      BY <2>2
    <3>2. h \in handles /\ h.user = u /\ uid = h.handle
      BY <2>2, <3>1 DEF OfUser
    <3>. QED
      BY <1>0, <2>2, <3>2 DEF TypeOK, HandleRow
  <2>. QED
    BY <2>1, <2>2
<1>3. rp \in Rps /\ 0 \in 0..MaxCount
  BY <1>0 DEF TypeOK
<1>. HIDE DEF uid
<1>4. /\ row \in CredentialRow /\ row.cred = c /\ row.user = u /\ row.uid = uid
      /\ made1 \in HandleRow /\ made1.user = u /\ made1.handle = uid
  BY <1>2, <1>3 DEF CredentialRow, HandleRow
<1>5. touched \subseteq touched' /\ (console # Idle => c \in touched') /\ touched' \subseteq Credentials
  BY <1>0, <1>1, TouchShape DEF Touch, TypeOK
<1>6. \A h \in handles \cup file.handles : h.handle \in Nat /\ h.handle <= made
  <2>1. \A h \in handles \cup file.handles : h.handle \in Handles
    BY <1>0, RowsShape DEF TypeOK, HandleRow
  <2>. QED
    BY <2>1 DEF IInv, Numbered, Handles
<1>7. new => \A h \in handles \cup file.handles : h.handle # uid
  BY <1>0, <1>6 DEF uid
<1>8. new => \A h \in handles : h.user # u
  BY DEF OfUser
<1>. HIDE DEF row, made1, new
<1>9. TypeOK'
  <2>1. Tables'
    BY <1>0, <1>1, <1>4, <1>7, <1>8 DEF TypeOK, Tables
  <2>2. made' \in 0..MaxHandles
    BY <1>0, <1>1
  <2>3. Others'
    BY <1>0, <1>1, <1>5, <2>2 DEF TypeOK, Others
  <2>. QED
    BY <2>1, <2>3, TypeParts
<1>10. CarriesHandle'
  <2>1. ASSUME NEW r \in credentials
        PROVE  \/ \E h \in handles' : h.user = r.user /\ h.handle = r.uid
               \/ r.cred \in severed'
    BY <1>1 DEF IInv, CarriesHandle
  <2>2. \E h \in handles' : h.user = row.user /\ h.handle = row.uid
    BY <1>1, <1>2, <1>4
  <2>. QED
    BY <1>1, <2>1, <2>2 DEF CarriesHandle
<1>11. Numbered'
  <2>1. uid = made + 1 \/ ~ new
    BY DEF uid
  <2>2. \A h \in handles \cup file.handles : h.handle <= made'
    BY <1>0, <1>1, <1>6
  <2>3. new => made1.handle <= made'
    BY <1>0, <1>1, <1>4, <2>1
  <2>. QED
    BY <1>1, <2>2, <2>3 DEF Numbered
<1>12. FileSound'
  BY <1>1 DEF IInv, FileSound, HandleOf
<1>13. FileComplete'
  <2>. SUFFICES ASSUME console.at = "uninstall", NEW r \in credentials'
       PROVE  r \in file.credentials \/ r.cred \in touched'
    BY <1>1 DEF FileComplete
  <2>1. console # Idle
    BY DEF Idle
  <2>. QED
    BY <1>1, <1>4, <1>5, <2>1 DEF IInv, FileComplete
<1>14. Importing' => ImportOK'
  <2>. SUFFICES ASSUME Importing PROVE ImportOK'
    BY <1>1 DEF Importing
  <2>1. \A r \in credentials' :
          \/ \E s \in credentials : s.cred = r.cred
          \/ \A s \in console.wrote.credentials : r.cred # s.cred
    BY <1>1, <1>4
  <2>2. \A h \in handles' :
          \/ \E g \in handles : g.user = h.user /\ g.handle = h.handle
          \/ \A g \in console.wrote.handles : h.user # g.user /\ h.handle # g.handle
    <3>1. new => \A g \in console.wrote.handles : u # g.user /\ uid # g.handle
      BY <1>0, <1>1, <1>7, NotWaiting DEF IInv, ImportOK, FromFile
    <3>. QED
      BY <1>1, <1>4, <3>1
  <2>3. Harmless
    BY <1>1, <1>5, <2>1, <2>2 DEF Harmless
  <2>. QED
    BY <1>0, <2>3, SiteKeeps DEF IInv
<1>. QED
  BY <1>9, <1>10, <1>11, <1>12, <1>13, <1>14 DEF IInv

-----------------------------------------------------------------------------
(* The console goes on.                                                    *)

\* A file is written; with an uninstall, of the tables that will go.
LEMMA ExportStep ==
  ASSUME IInv, ExportCredentials \/ BeforeUninstall
  PROVE  IInv'
<1>. USE DEF tables, settings
<1>0. TypeOK
  BY DEF IInv
<1>1. /\ console = Idle /\ console' \in {Idle, [at |-> "uninstall"]}
      /\ file' \in {file, Exportable}
      /\ console' # Idle => file' = Exportable \/ Exportable = NoFile
      /\ touched' \in {touched, {}}
      /\ UNCHANGED <<installed, tables, settings, made, severed>>
      /\ commands < MaxCommands /\ commands' = commands + 1
  BY DEF ExportCredentials, BeforeUninstall, Command
<1>2. Exportable.credentials = credentials /\ Exportable.handles = handles /\ Exportable \in Rows
  BY <1>0 DEF Exportable, Rows, TypeOK
<1>3. file'.credentials \in {file.credentials, credentials} /\ file'.handles \in {file.handles, handles}
      /\ (file' = file \/ (file'.credentials = credentials /\ file'.handles = handles))
  BY <1>1, <1>2
<1>4. TypeOK'
  <2>1. Tables'
    BY <1>0, <1>1 DEF TypeOK, Tables
  <2>2. commands' \in 0..MaxCommands
    BY <1>0, <1>1, ArchiveAssumption DEF TypeOK
  <2>3. Others'
    BY <1>0, <1>1, <1>2, <2>2 DEF TypeOK, Others, Idle
  <2>. QED
    BY <2>1, <2>3, TypeParts
<1>5. CarriesHandle' /\ Numbered'
  BY <1>1, <1>3 DEF IInv, CarriesHandle, Numbered
<1>6. FileSound'
  <2>1. CASE file' = file
    BY <1>1, <2>1 DEF IInv, FileSound, HandleOf
  <2>2. CASE file'.credentials = credentials /\ file'.handles = handles
    BY <1>0, <1>1, <2>2 DEF IInv, FileSound, HandleOf, CarriesHandle, TypeOK
  <2>. QED
    BY <1>3, <2>1, <2>2
<1>7. FileComplete'
  <2>1. CASE console' = Idle
    BY <2>1 DEF FileComplete, Idle
  <2>2. CASE Exportable = NoFile
    BY <1>1, <1>2, <2>2 DEF FileComplete, NoFile
  <2>3. CASE file' = Exportable
    BY <1>1, <1>2, <2>3 DEF FileComplete
  <2>. QED
    BY <1>1, <2>1, <2>2, <2>3
<1>8. ~ Importing'
  BY <1>1 DEF Importing, Idle
<1>. QED
  BY <1>4, <1>5, <1>6, <1>7, <1>8 DEF IInv

\* The tables go, or a transaction does.
LEMMA EndStep ==
  ASSUME IInv, DropTables \/ Rollback
  PROVE  IInv'
<1>. USE DEF tables, settings
<1>0. TypeOK
  BY DEF IInv
<1>1. /\ console' = Idle /\ UNCHANGED <<made, file, touched, severed>>
      /\ UNCHANGED tables \/ (credentials' = {} /\ handles' = {})
  BY DEF DropTables, Rollback
<1>2. Others'
  <2>1. CASE DropTables
    <3>1. installed' = FALSE /\ mode' = FALSE /\ rp' \in Rps /\ UNCHANGED <<active, ways, moving, commands>>
      BY <2>1 DEF DropTables
    <3>. QED
      BY <1>0, <1>1, <3>1 DEF TypeOK, Others, Idle
  <2>2. CASE Rollback
    BY <1>0, <1>1, <2>2 DEF Rollback, TypeOK, Others, Idle
  <2>. QED
    BY <2>1, <2>2
<1>3. TypeOK'
  <2>1. Tables'
    BY <1>0, <1>1 DEF TypeOK, Tables
  <2>. QED
    BY <1>2, <2>1, TypeParts
<1>4. CarriesHandle' /\ Numbered' /\ FileSound'
  BY <1>1 DEF IInv, CarriesHandle, Numbered, FileSound, HandleOf
<1>5. FileComplete' /\ ~ Importing'
  BY <1>1 DEF FileComplete, Importing, Idle
<1>. QED
  BY <1>3, <1>4, <1>5 DEF IInv

\* An import begins or goes on; nothing of it is committed.
LEMMA ImportStep ==
  ASSUME IInv,
         \/ \E allow \in BOOLEAN : BeginImport(allow)
         \/ RefusePasskeyOnlyWithoutLoginMode \/ RestoreRow
  PROVE  IInv'
<1>. USE DEF tables, settings
<1>0. TypeOK /\ FileSound /\ (Importing => ImportOK) /\ Site0
  BY DEF IInv, Site0
<1>1. /\ UNCHANGED <<installed, tables, settings, made, file, severed>>
      /\ console' \in Imports /\ touched' \subseteq Credentials
      /\ commands' \in 0..MaxCommands
      /\ ImportOK'
  <2>1. CASE RefusePasskeyOnlyWithoutLoginMode
    <3>1. Importing
      BY <1>0, <2>1, RefuseEffect, ConsoleShape
    <3>. QED
      BY <1>0, <2>1, <3>1, RefuseEffect, RefuseKeeps DEF RefusePasskeyOnlyWithoutLoginMode, TypeOK
  <2>2. CASE RestoreRow
    <3>1. Importing
      BY <1>0, <2>2, RestoreEffect, ConsoleShape
    <3>. QED
      BY <1>0, <2>2, <3>1, RestoreEffect, RestoreKeeps DEF RestoreRow, TypeOK
  <2>3. ASSUME NEW allow \in BOOLEAN, BeginImport(allow)
        PROVE  /\ UNCHANGED <<installed, tables, settings, made, file, severed>>
               /\ console' \in Imports /\ touched' \subseteq Credentials
               /\ commands' \in 0..MaxCommands
               /\ ImportOK'
    <3>1. UNCHANGED <<installed, tables, settings, made, file, severed>>
          /\ commands < MaxCommands /\ commands' = commands + 1
          /\ touched' \in {touched, {}}
      BY <2>3 DEF BeginImport, Command
    <3>2. commands' \in 0..MaxCommands /\ touched' \subseteq Credentials
      BY <1>0, <3>1, ArchiveAssumption DEF TypeOK
    <3>. QED
      BY <1>0, <2>3, <3>1, <3>2, BeginEffect, BeginKeeps
  <2>. QED
    BY <2>1, <2>2, <2>3
<1>2. Others'
  BY <1>0, <1>1 DEF TypeOK, Others
<1>3. Site0'
  <2>1. made \in Nat /\ console'.at # "uninstall"
    BY <1>0, <1>1 DEF TypeOK, Imports
  <2>. QED
    BY <1>0, <1>1, <1>2, <2>1, TablesSame
<1>. QED
  BY <1>1, <1>3 DEF IInv, Site0

\* What an import commits: the handles of the file, and passkeys under them.
LEMMA CommitStep ==
  ASSUME IInv, CommitImport
  PROVE  IInv'
<1>. USE DEF tables, settings
<1>0. TypeOK
  BY DEF IInv
<1>1. /\ console.at = "rows" /\ console.todo = NoFile /\ console' = Idle
      /\ credentials' = credentials \cup console.wrote.credentials
      /\ handles' = handles \cup console.wrote.handles
      /\ UNCHANGED <<installed, settings, made, file, commands, touched, severed>>
  BY DEF CommitImport
<1>2. Importing /\ console \in Imports /\ ImportOK
  BY <1>0, <1>1, ConsoleShape DEF IInv, Importing
<1>3. /\ console.wrote.credentials \subseteq CredentialRow /\ console.wrote.handles \subseteq HandleRow
      /\ console.wrote.credentials \subseteq file.credentials /\ console.wrote.handles \subseteq file.handles
  BY <1>2, ImportShape, RowsShape DEF ImportOK, FromFile
<1>4. TypeOK'
  <2>1. \A a, b \in credentials' : a.cred = b.cred => a = b
    BY <1>0, <1>1, <1>2, <1>3 DEF TypeOK, ImportOK, Unique, IInv, FileSound
  <2>2. \A a, b \in handles' : a.user = b.user \/ a.handle = b.handle => a = b
    BY <1>0, <1>1, <1>2, <1>3 DEF TypeOK, ImportOK, Unique, IInv, FileSound
  <2>3. Tables'
    BY <1>0, <1>1, <1>3, <2>1, <2>2 DEF TypeOK, Tables
  <2>4. Others'
    BY <1>0, <1>1 DEF TypeOK, Others, Idle
  <2>. QED
    BY <2>3, <2>4, TypeParts
<1>5. CarriesHandle'
  <2>. SUFFICES ASSUME NEW row \in console.wrote.credentials, row.cred \notin severed
       PROVE  \E h \in handles' : h.user = row.user /\ h.handle = row.uid
    <3>1. ASSUME NEW row \in credentials
          PROVE  (\E h \in handles' : h.user = row.user /\ h.handle = row.uid) \/ row.cred \in severed
      BY <1>1 DEF IInv, CarriesHandle
    <3>. QED
      BY <1>1, <3>1 DEF CarriesHandle
  <2>1. row \in file.credentials /\ ~ Rejected(row.user)
    BY <1>2, <1>3 DEF ImportOK, Accepted
  <2>2. PICK h \in file.handles : h.user = row.user /\ h.handle = row.uid
    BY <2>1 DEF IInv, FileSound, HandleOf
  <2>3. h \notin console.todo.handles
    BY <1>1 DEF NoFile
  <2>4. PICK g \in Seen("handles") : g.user = row.user
    BY <1>1, <1>2, <2>1, <2>2, <2>3 DEF ImportOK, Restored, OfUser
  <2>5. g.handle = row.uid
    BY <2>1, <2>2, <2>4 DEF Rejected, Mismatched, OfUser
  <2>6. CASE g \in console.wrote.handles
    BY <1>1, <2>4, <2>5, <2>6
  <2>7. CASE g \in console.seen.handles
    <3>1. row \in OfUser(g.user, file.credentials)
      BY <2>1, <2>4 DEF OfUser
    <3>2. PICK k \in handles : k.user = g.user /\ k.handle = g.handle
      BY <1>2, <2>7, <3>1 DEF ImportOK, SeenKept
    <3>. QED
      BY <1>1, <2>4, <2>5, <3>2
  <2>. QED
    BY <2>4, <2>6, <2>7, SeenShape
<1>6. Numbered'
  BY <1>1, <1>3 DEF IInv, Numbered
<1>7. FileSound'
  BY <1>1 DEF IInv, FileSound, HandleOf
<1>8. FileComplete' /\ ~ Importing'
  BY <1>1 DEF FileComplete, Importing, Idle
<1>. QED
  BY <1>4, <1>5, <1>6, <1>7, <1>8 DEF IInv

-----------------------------------------------------------------------------
(* The invariant.                                                          *)

LEMMA IInvInit == Init => IInv
<1>. SUFFICES ASSUME Init PROVE IInv
  OBVIOUS
<1>1. NoFile.credentials = {} /\ NoFile.handles = {} /\ NoFile \in Rows
  BY DEF NoFile, Rows
<1>2. /\ credentials = {} /\ handles = {} /\ file = NoFile /\ console = Idle
      /\ installed = TRUE /\ active = Users /\ mode = TRUE /\ rp \in Rps
      /\ ways \in SUBSET {"password", "alternate"} /\ moving \in Changes
      /\ made \in 0..MaxHandles /\ commands = 0 /\ touched = {} /\ severed = {}
  BY DEF Init
<1>3. TypeOK
  BY <1>1, <1>2, ArchiveAssumption DEF TypeOK, Idle
<1>4. CarriesHandle /\ Numbered /\ FileSound
  BY <1>1, <1>2 DEF CarriesHandle, Numbered, FileSound
<1>5. FileComplete /\ ~ Importing
  BY <1>2 DEF FileComplete, Importing, Idle
<1>. QED
  BY <1>3, <1>4, <1>5 DEF IInv

LEMMA IInvStep == IInv /\ [Next]_vars => IInv'
<1>. SUFFICES ASSUME IInv, [Next]_vars PROVE IInv'
  OBVIOUS
<1>1. CASE Console
  BY <1>1, ExportStep, EndStep, ImportStep, CommitStep DEF Console
<1>2. CASE Site
  BY <1>2, SettingsStep, ChangeStep, OnlyStep, ForgetSteps, RegisterStep DEF Site
<1>3. CASE UNCHANGED vars
  <2>. USE DEF vars, tables, settings
  <2>1. TypeOK' /\ CarriesHandle' /\ Numbered' /\ FileSound' /\ FileComplete'
    BY <1>3 DEF IInv, TypeOK, CarriesHandle, Numbered, FileSound, FileComplete, HandleOf
  <2>2. Importing' => ImportOK'
    <3>. SUFFICES ASSUME Importing PROVE ImportOK'
      BY <1>3 DEF Importing
    <3>1. Harmless
      BY <1>3 DEF Harmless
    <3>. QED
      BY <3>1, SiteKeeps DEF IInv
  <2>. QED
    BY <2>1, <2>2 DEF IInv
<1>. QED
  BY <1>1, <1>2, <1>3 DEF Next

LEMMA IInvHolds == Spec => []IInv
BY IInvInit, IInvStep, PTL DEF Spec

-----------------------------------------------------------------------------
(* Results.                                                                *)

\* Every reachable state is well typed, and no identifier, account or handle is
\* twice in a table, whatever an import and the site insert at once (the unique
\* indexes of both tables, _restore_credential).
THEOREM TypeCorrect == Spec => []TypeOK
<1>1. IInv => TypeOK
  BY DEF IInv
<1>. QED
  BY <1>1, IInvHolds, PTL

\* Whatever is exported, dropped, registered and imported, a passkey carries the
\* handle of its account, unless its account or handle was deleted while an
\* import was under way (import_credentials, has_matching_user_handle).
THEOREM HandleCarried == Spec => []CarriesHandle
<1>1. IInv => CarriesHandle
  BY DEF IInv
<1>. QED
  BY <1>1, IInvHolds, PTL

\* What an uninstall drops is in the file, and what a committed import does not
\* report as rejected is on the site as exported (before_uninstall,
\* import_credentials).
THEOREM NothingLostUnreported == Spec => ArchiveIsComplete
<1>. DEFINE Kept ==
       /\ Drops => \A row \in credentials : row \in file.credentials \/ row.cred \in touched
       /\ CommitImport =>
            /\ \A row \in file.credentials \ console.rejected :
                 row \in credentials' \/ row.cred \in touched
            /\ ~ console.allow =>
                 \A row \in console.rejected :
                   row.user \in console.seen.active =>
                     row \in file.credentials /\ row.cred \in severed
<1>1. ASSUME IInv, Next, Drops
      PROVE  \A row \in credentials : row \in file.credentials \/ row.cred \in touched
  <2>. USE DEF settings, Drops
  <2>1. console.at = "uninstall"
    <3>1. ASSUME installed' = installed PROVE FALSE
      BY <1>1, <3>1
    <3>2. ~ Install
      BY <1>1 DEF Install
    <3>3. ~ Console \/ DropTables
      BY <3>1 DEF Console, ExportCredentials, BeforeUninstall, BeginImport,
                  RefusePasskeyOnlyWithoutLoginMode, RestoreRow, CommitImport, Rollback
    <3>4. ~ Site
      BY <3>1, <3>2 DEF Site, ChangeCredential, SetPasskeyOnly, SaveSettings, TrashHandle, DeleteUser,
                        ToggleUser, Register
    <3>. QED
      BY <1>1, <3>3, <3>4 DEF Next, DropTables
  <2>. QED
    BY <1>1, <2>1 DEF IInv, FileComplete
<1>2. ASSUME IInv, CommitImport
      PROVE  /\ \A row \in file.credentials \ console.rejected :
                  row \in credentials' \/ row.cred \in touched
             /\ ~ console.allow =>
                  \A row \in console.rejected :
                    row.user \in console.seen.active =>
                      row \in file.credentials /\ row.cred \in severed
  <2>1. /\ console.at = "rows" /\ console.todo = NoFile
        /\ credentials' = credentials \cup console.wrote.credentials
    BY <1>2 DEF CommitImport
  <2>2. ImportOK
    BY <1>2, <2>1 DEF IInv, Importing
  <2>3. console.todo.credentials = {}
    BY <2>1 DEF NoFile
  <2>4. \A row \in file.credentials \ console.rejected : row \in Seen("credentials")
    BY <2>1, <2>2, <2>3 DEF ImportOK, Restored
  <2>. QED
    BY <2>1, <2>2, <2>4, SeenShape DEF ImportOK, SeenKept, IntoEmpty, RejectedFor
<1>3. ASSUME IInv, [Next]_vars PROVE [Kept]_vars
  BY <1>1, <1>2, <1>3
<1>4. ArchiveIsComplete <=> [][Kept]_vars
  BY DEF ArchiveIsComplete
<1>. HIDE DEF Kept
<1>. QED
  BY <1>3, <1>4, IInvHolds, PTL DEF Spec

\* An account that an import makes passkey-only has a login mode that is on and
\* a passkey that is usable under the RP ID that the import found
\* (_enforce_credential_floor, _refuse_passkey_only_without_login_mode).
THEOREM FloorImported == Spec => RestoredCanSignIn
<1>. DEFINE Can ==
       CommitImport => \A h \in handles' \ handles : h.only =>
         mode /\ UsableUnder(console.seen.rp, h.user, credentials') # {}
<1>1. ASSUME IInv, CommitImport, NEW h \in handles' \ handles, h.only
      PROVE  mode /\ UsableUnder(console.seen.rp, h.user, credentials') # {}
  <2>1. /\ console.at = "rows" /\ h \in console.wrote.handles
        /\ credentials' = credentials \cup console.wrote.credentials
    BY <1>1 DEF CommitImport
  <2>2. ImportOK
    BY <1>1, <2>1 DEF IInv, Importing
  <2>. QED
    BY <1>1, <2>1, <2>2 DEF ImportOK, FloorKept
<1>2. ASSUME IInv, [Next]_vars PROVE [Can]_vars
  BY <1>1, <1>2
<1>3. RestoredCanSignIn <=> [][Can]_vars
  BY DEF RestoredCanSignIn
<1>. HIDE DEF Can
<1>. QED
  BY <1>2, <1>3, IInvHolds, PTL DEF Spec
=============================================================================
