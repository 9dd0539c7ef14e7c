------------------------- MODULE EnrollmentCadence -------------------------
(***************************************************************************)
(* The per-user enrolment state the app keeps as DefaultValue rows: prompts *)
(* shown and the opt-out (record_nudge), grace logins spent                 *)
(* (record_enforcement "defer"), and the day-long marker of the advisory    *)
(* mailed to administrators (record_enforcement "incapable").               *)
(*                                                                         *)
(* Every endpoint reads a row, changes it and writes it back. It reads the  *)
(* verdict from the snapshot its transaction opened with, claims the        *)
(* session's one defer in Redis, then takes the lock on the User row and    *)
(* reads the row again before it folds the event in and commits.            *)
(***************************************************************************)
EXTENDS Naturals, FiniteSets

CONSTANTS Users,         \* names of accounts
          Sids, Workers,
          GRACE,         \* passkey_enforce_grace_logins
          MaxShown,      \* bound: prompts a user's row may reach before no new one starts
          MaxLapses,     \* bound: how often a session's claim may expire or be flushed
          MaxMoves       \* bound: accounts deleted, created, renamed and merged

Free == "free"

ASSUME CadenceAssumption ==
    /\ IsFiniteSet(Workers) /\ Free \notin Workers
    /\ {GRACE, MaxShown, MaxLapses, MaxMoves} \subseteq Nat

Events == {"shown", "declined", "opt_out", "defer", "incapable"}

Idle == [op |-> "idle"]

VARIABLES
    nudge,      \* the {user}_passkey_nudge row: [declines, optOut]
    grace,      \* the {user}_passkey_enforce row: grace_used
    notified,   \* users whose incapable marker is younger than the window
    excused,    \* users out of enforcement's reach: exempt, or with a usable passkey
    policy,     \* what the enforce rung asks of the others: "off", or on with the incapable
                \* policy "degrade" or "notify" (Block + Notify Admin)
    userOf,     \* the user each session is signed in as; never changes
    asked,      \* the events sessions report; never changes
    accounts,   \* the names that have a User row
    moves,      \* how many more accounts may be deleted, created, renamed or merged
    lock,       \* the worker holding each User row
    claims,     \* sessions whose defer is claimed in Redis
    req,        \* the request each worker serves
    shown, opted, deferred,  \* history: events committed; deferred since the last grace reset
    spent,      \* history: grace logins each session has spent
    lapses,     \* history: claims that expired or were flushed, by session
    mailed,     \* history: advisories mailed within the user's present window
    passed      \* history: renames and merges so far

rows == <<nudge, grace, notified>>
inputs == <<userOf, asked, excused, policy>>
names == <<accounts, moves, passed>>
history == <<shown, opted, deferred, spent, mailed>>
vars == <<rows, inputs, names, lock, claims, req, history, lapses>>

NudgeEvents == asked \cap {"shown", "declined", "opt_out"}

\* The row an event is folded into, as a transaction would read it now.
RowOf(u, event) ==
    CASE event \in NudgeEvents -> nudge[u]
      [] event = "defer"       -> grace[u]
      [] event = "incapable"   -> {u} \cap notified

\* build_enforcement.
Verdict(u) ==
    CASE policy = "off" \/ u \in excused -> "none"
      [] grace[u] < GRACE                -> "grace"
      [] OTHER                           -> "blocking"

\* record_enforcement acts on a defer in grace only, and on an incapable device while the
\* administrators are to hear of it.
\* Mutant: a defer is honoured whatever the verdict is.
ActsOnAny(u, event) == Verdict(u) # "none" /\ (event = "incapable" => policy = "notify")
ActsOn(u, event) ==
    \/ event = "defer" /\ Verdict(u) = "grace"
    \/ event = "incapable" /\ Verdict(u) # "none" /\ policy = "notify"

(***************************************************************************)
(* The endpoints. A request that has nothing to do changes nothing.         *)
(***************************************************************************)
Serve(w, s, event, phase) ==
    /\ req[w] = Idle
    /\ req' = [req EXCEPT ![w] = [op |-> phase, event |-> event, sid |-> s, 
                                     row |-> RowOf(userOf[s], event)]]

\* passkey.record_nudge: every known event is folded, whatever the cadence says now.
RecordNudge(w) == \E s \in Sids, event \in NudgeEvents :
    /\ userOf[s] \in accounts
    /\ event = "shown" => nudge[userOf[s]].declines < MaxShown
    /\ Serve(w, s, event, "wait")
    /\ UNCHANGED <<rows, inputs, names, lock, claims, history, lapses>>

\* passkey.record_enforcement up to the verdict.
RecordEnforcement(w) == \E s \in Sids, event \in asked \ NudgeEvents :
    /\ userOf[s] \in accounts
    /\ ActsOn(userOf[s], event)
    /\ Serve(w, s, event, IF event = "defer" THEN "claim" ELSE "wait")
    /\ UNCHANGED <<rows, inputs, names, lock, claims, history, lapses>>

\* state.claim_enforcement_defer: SET NX. The session that claimed already is answered
\* with its state.
\* Mutant: a repeated defer of the session is counted again.
ClaimByRead(w) ==
    /\ req[w].op = "claim"
    /\ claims' = claims \cup {req[w].sid}
    /\ req' = [req EXCEPT ![w].op = "wait"]
    /\ UNCHANGED <<rows, inputs, names, lock, history, lapses>>
Claim(w) ==
    /\ req[w].op = "claim"
    /\ claims' = claims \cup {req[w].sid}
    /\ req' = [req EXCEPT ![w] = IF req[w].sid \in claims THEN Idle ELSE [@ EXCEPT !.op = "wait"]]
    /\ UNCHANGED <<rows, inputs, names, lock, history, lapses>>

\* _lock_state, and the two locking reads of record_enforcement_incapable: the rows read
\* under the lock replace what the snapshot showed. Nobody looks whether there is a User
\* row; where it is gone the reads lock the gap, and all but one of the writers of it fail.
\* Mutant: the fold starts from the row the request read before it waited for the lock.
LoadSnapshot(w, u) == req[w].row
Load(w, u) == RowOf(u, req[w].event)
\* Mutant: the read does not wait for the lock.
LockPlain(w) ==
    /\ req[w].op = "wait"
    /\ LET u == userOf[req[w].sid]
       IN  /\ lock' = [lock EXCEPT ![u] = w]
           /\ req' = [req EXCEPT ![w].op = "locked", ![w].row = Load(w, u)]
    /\ UNCHANGED <<rows, inputs, names, claims, history, lapses>>
Lock(w) ==
    /\ req[w].op = "wait"
    /\ LET u == userOf[req[w].sid]
       IN  /\ lock[u] = Free
           /\ lock' = [lock EXCEPT ![u] = w]
           /\ req' = [req EXCEPT ![w].op = "locked", ![w].row = Load(w, u)]
    /\ UNCHANGED <<rows, inputs, names, claims, history, lapses>>

Release(w) ==
    /\ req' = [req EXCEPT ![w] = Idle]
    /\ lock' = [u \in Users |-> IF lock[u] = w THEN Free ELSE lock[u]]

Holds(w, events) == req[w].op = "locked" /\ req[w].event \in events

NoNudge == [declines |-> 0, optOut |-> FALSE]

\* record_nudge_event. "declined" only moves the cooldown anchor, which no property reads.
Fold(row, event) ==
    [declines |-> IF event = "shown" THEN row.declines + 1 ELSE row.declines,
     optOut   |-> row.optOut \/ event = "opt_out"]
RecordNudgeEvent(w) ==
    LET u == userOf[req[w].sid]
        event == req[w].event
    IN  /\ Holds(w, NudgeEvents)
        /\ nudge' = [nudge EXCEPT ![u] = Fold(req[w].row, event)]
        /\ shown' = [shown EXCEPT ![u] = IF event = "shown" THEN @ + 1 ELSE @]
        /\ opted' = IF event = "opt_out" THEN opted \cup {u} ELSE opted
        /\ Release(w)
        /\ UNCHANGED <<grace, notified, inputs, names, claims, deferred, spent, mailed, lapses>>

\* record_enforcement_defer: the budget is not looked at again.
RecordEnforcementDefer(w) ==
    LET s == req[w].sid
        u == userOf[s]
    IN  /\ Holds(w, {"defer"})
        /\ grace' = [grace EXCEPT ![u] = req[w].row + 1]
        /\ deferred' = [deferred EXCEPT ![u] = @ + 1]
        /\ spent' = [spent EXCEPT ![s] = @ + 1]
        /\ Release(w)
        /\ UNCHANGED <<nudge, notified, inputs, names, claims, shown, opted, mailed, lapses>>

\* record_enforcement_incapable: mail and marker commit together, or there is neither (no
\* System Manager with a mailbox, a failing mail queue, an advisory within the window).
RecordEnforcementIncapable(w) ==
    LET u == userOf[req[w].sid]
    IN  /\ Holds(w, {"incapable"})
        /\ \/ UNCHANGED <<notified, mailed>>
           \/ /\ req[w].row = {}
              /\ notified' = notified \cup {u}
              /\ mailed' = [mailed EXCEPT ![u] = @ + 1]
        /\ Release(w)
        /\ UNCHANGED <<nudge, grace, inputs, names, claims, shown, opted, deferred, spent, lapses>>

\* A request that fails (a lock wait that times out, a lost connection): its transaction is
\* undone, its Redis claim is not.
Rollback(w) ==
    /\ req[w] # Idle
    /\ Release(w)
    /\ UNCHANGED <<rows, inputs, names, claims, history, lapses>>

(***************************************************************************)
(* Administrators and the passing of time.                                  *)
(***************************************************************************)
\* reset_enforcement_grace deletes the row, and waits for a writer that has it locked.
ResetEnforcementGrace(u) ==
    /\ u \in accounts /\ grace[u] > 0
    /\ lock[u] = Free
    /\ grace' = [grace EXCEPT ![u] = 0]
    /\ deferred' = [deferred EXCEPT ![u] = 0]
    /\ UNCHANGED <<nudge, notified, inputs, names, lock, claims, req, shown, opted, spent, mailed, lapses>>

\* set_user_exemption in both directions; a first passkey is registered, the last one goes.
Excuse(u) ==
    /\ u \in accounts
    /\ excused' = IF u \in excused THEN excused \ {u} ELSE excused \cup {u}
    /\ UNCHANGED <<rows, userOf, asked, policy, names, lock, claims, req, history, lapses>>

\* A settings save, the start date, recovery.disable_enforcement.
SetPolicy == \E p \in {"off", "degrade", "notify"} :
    /\ p # policy
    /\ policy' = p
    /\ UNCHANGED <<rows, userOf, asked, excused, names, lock, claims, req, history, lapses>>

\* The claim's thirty days pass, or Redis is flushed.
LapseClaim(s) ==
    /\ s \in claims
    /\ lapses[s] < MaxLapses
    /\ claims' = claims \ {s}
    /\ lapses' = [lapses EXCEPT ![s] = @ + 1]
    /\ UNCHANGED <<rows, inputs, names, lock, req, history>>

\* INCAPABLE_NOTIFY_WINDOW_SEC pass since the last advisory.
LapseNotice(u) ==
    /\ u \in notified
    /\ notified' = notified \ {u}
    /\ mailed' = [mailed EXCEPT ![u] = 0]
    /\ UNCHANGED <<nudge, grace, inputs, names, lock, claims, req, shown, opted, deferred, spent, lapses>>

NothingLeft(u) == nudge[u] = NoNudge /\ grace[u] = 0 /\ u \notin notified \cup excused

\* The User row is gone with its session and its rows; a request under way is not.
\* Mutant: the cascade leaves the enforcement row.
ClearUserStateButGrace(u) ==
    /\ nudge' = [nudge EXCEPT ![u] = NoNudge]
    /\ notified' = notified \ {u} /\ excused' = excused \ {u}
    /\ UNCHANGED grace
ClearUserState(u) ==
    /\ nudge' = [nudge EXCEPT ![u] = NoNudge]
    /\ grace' = [grace EXCEPT ![u] = 0]
    /\ notified' = notified \ {u} /\ excused' = excused \ {u}

DeleteUser(u) ==
    /\ moves > 0 /\ u \in accounts /\ lock[u] = Free
    /\ accounts' = accounts \ {u} /\ moves' = moves - 1 /\ UNCHANGED passed
    /\ ClearUserState(u)
    /\ shown' = [shown EXCEPT ![u] = 0] /\ deferred' = [deferred EXCEPT ![u] = 0]
    /\ mailed' = [mailed EXCEPT ![u] = 0] /\ opted' = opted \ {u}
    /\ UNCHANGED <<userOf, asked, policy, lock, claims, req, spent, lapses>>

\* A new account under a free name waits for whoever has locked the gap.
CreateUser(u) ==
    /\ moves > 0 /\ u \notin accounts /\ lock[u] = Free
    /\ accounts' = accounts \cup {u} /\ moves' = moves - 1 /\ UNCHANGED passed
    /\ UNCHANGED <<rows, inputs, lock, claims, req, history, lapses>>

\* rename_user_state: the rows move, and a merge keeps those the target has. (A row with
\* nothing but a cooldown anchor counts as none.)
\* Mutants: the rows of the old name replace the target's; they are copied.
ReplacedRow(f, none, old, new) == [f EXCEPT ![new] = f[old], ![old] = none]
CopiedRow(f, none, old, new) == [f EXCEPT ![new] = IF @ = none THEN f[old] ELSE @]
MovedRow(f, none, old, new) ==
    [f EXCEPT ![new] = IF @ = none THEN f[old] ELSE @, ![old] = none]
MovedName(names_, old, new) ==
    (names_ \ {old}) \cup {u \in {new} : old \in names_}

\* A rename to another's name is a merge; to a name with rows left over it is left out.
RenameUser(old, new) ==
    /\ moves > 0 /\ old \in accounts /\ old # new
    /\ lock[old] = Free /\ lock[new] = Free
    /\ new \in accounts \/ NothingLeft(new)
    /\ accounts' = MovedName(accounts, old, new) /\ moves' = moves - 1 /\ passed' = passed + 1
    /\ nudge' = MovedRow(nudge, NoNudge, old, new)
    /\ grace' = MovedRow(grace, 0, old, new)
    /\ excused' = MovedName(excused, old, new)
    /\ shown' = [shown EXCEPT ![new] = IF nudge[new] = NoNudge THEN shown[old] ELSE @, ![old] = 0]
    /\ opted' = IF nudge[new] = NoNudge THEN MovedName(opted, old, new) ELSE opted \ {old}
    /\ deferred' = [deferred EXCEPT ![new] = IF grace[new] = 0 THEN deferred[old] ELSE @, ![old] = 0]
    /\ \E stale \in BOOLEAN :   \* the target's marker may be older than the window
         LET moved == IF stale THEN notified \ {old} ELSE MovedName(notified, old, new)
         IN  /\ new \notin accounts => ~ stale
             /\ notified' = moved
             /\ mailed' = [mailed EXCEPT ![new] = IF new \in moved \ notified THEN mailed[old] ELSE @,
                                        ![old] = 0]
    /\ UNCHANGED <<userOf, asked, policy, lock, claims, req, spent, lapses>>

Init ==
    /\ nudge = [u \in Users |-> NoNudge]
    /\ grace = [u \in Users |-> 0]
    /\ notified = {} /\ excused = {}
    /\ policy = "notify"
    /\ userOf \in [Sids -> Users] /\ asked \in SUBSET Events
    /\ accounts \in SUBSET Users /\ moves \in 0..MaxMoves /\ passed = 0
    /\ lock = [u \in Users |-> Free]
    /\ claims = {}
    /\ req = [w \in Workers |-> Idle]
    /\ shown = [u \in Users |-> 0] /\ opted = {}
    /\ deferred = [u \in Users |-> 0] /\ spent = [s \in Sids |-> 0]
    /\ lapses = [s \in Sids |-> 0]
    /\ mailed = [u \in Users |-> 0]

Endpoint(w) ==
    \/ RecordNudge(w) \/ RecordEnforcement(w) \/ Claim(w) \/ Lock(w)
    \/ RecordNudgeEvent(w) \/ RecordEnforcementDefer(w) \/ RecordEnforcementIncapable(w)
    \/ Rollback(w)

Next ==
    \/ \E w \in Workers : Endpoint(w)
    \/ \E u \in Users : ResetEnforcementGrace(u) \/ Excuse(u) \/ LapseNotice(u)
    \/ \E u \in Users : DeleteUser(u) \/ CreateUser(u) \/ \E new \in Users : RenameUser(u, new)
    \/ \E s \in Sids : LapseClaim(s)
    \/ SetPolicy

Spec == Init /\ [][Next]_vars

(***************************************************************************)
(* Properties.                                                              *)
(***************************************************************************)
NudgeRows == [declines : Nat, optOut : BOOLEAN]
Requests ==
    [op : {"wait", "locked"}, event : NudgeEvents, sid : Sids, row : NudgeRows]
    \cup [op : {"claim", "wait", "locked"}, event : asked \cap {"defer"}, sid : Sids, row : Nat]
    \cup [op : {"wait", "locked"}, event : asked \cap {"incapable"}, sid : Sids,
          row : SUBSET Users]

\* Types, and who holds what: a User row is locked by the one request that has read it.
TypeOK ==
    /\ nudge \in [Users -> NudgeRows]
    /\ grace \in [Users -> Nat]
    /\ UNION {notified, excused, opted, accounts} \subseteq Users
    /\ userOf \in [Sids -> Users] /\ asked \subseteq Events /\ {moves, passed} \subseteq Nat
    /\ policy \in {"off", "degrade", "notify"}
    /\ claims \subseteq Sids
    /\ req \in [Workers -> Requests \cup {Idle}]
    /\ lock \in [Users -> Workers \cup {Free}]
    /\ {shown, deferred, mailed} \subseteq [Users -> Nat]
    /\ {spent, lapses} \subseteq [Sids -> Nat]
    /\ \A w \in Workers : req[w].op = "locked" <=> \E u \in Users : lock[u] = w

\* Whatever two tabs, browsers and workers do at once, no event is lost: every committed
\* prompt and every committed defer since the last reset is counted once, and a committed
\* opt-out is never forgotten (boot.record_nudge_event, record_enforcement_defer).
NothingLost == \A u \in Users :
    /\ nudge[u].declines = shown[u]
    /\ grace[u] = deferred[u]
    /\ u \in opted => nudge[u].optOut

\* A session spends at most one grace login for as long as its claim lives, whatever is
\* retried, rolled back, or reset by an administrator in between (claim_enforcement_defer).
OneDeferPerSession == \A s \in Sids : spent[s] <= 1 + lapses[s]

\* Administrators get at most one advisory per user and window, and the window never opens
\* without one, so that a site that had no recipient tries again.
OneAdvisoryPerWindow == \A u \in Users : mailed[u] = IF u \in notified THEN 1 ELSE 0

\* What a request does once, retries and second tabs included.
NothingTwice == OneDeferPerSession /\ OneAdvisoryPerWindow

\* The verdict and the account are read before the lock. So defers under way may exceed the
\* budget, again where the row is handed to another account with defers under way, and events
\* under way may leave rows for a name that is gone, to be inherited by its next owner: by no
\* more than the workers can be serving at that moment.
Left(u) ==
    nudge[u].declines + grace[u] + Cardinality({u} \cap notified)
    + IF nudge[u].optOut THEN 1 ELSE 0
OnlyInFlightSlips == \A u \in Users :
    /\ grace[u] # 0 => grace[u] < GRACE + Cardinality(Workers) * (1 + passed)
    /\ u \notin accounts => Left(u) <= Cardinality(Workers) /\ u \notin excused

\* The documented budget: a user defers the prompt at most GRACE times before it blocks.
GraceBudgetKept == \A u \in Users : grace[u] <= GRACE
=============================================================================
