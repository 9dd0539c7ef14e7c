--------------------------- MODULE ConfirmationGrants ---------------------------
(***************************************************************************)
(* Confirming an action: sudo windows, single-use grants and the password  *)
(* throttle.                                                               *)
(*                                                                         *)
(* A protected call answers 401; the client confirms with a passkey (two   *)
(* requests that meet in a single-use ceremony) or with the password, gets *)
(* a grant and repeats the call with it.  Each of the requests may land on *)
(* another worker, which may run another release of the protecting app.    *)
(***************************************************************************)
EXTENDS Naturals, Sequences

CONSTANTS
    Users, Credentials, Sids, Workers, Payloads,
    Owner,              \* the account of a credential
    UserOf,             \* the account of a session
    Impersonated,       \* sessions in which somebody else acts as the user
    Asked,              \* the actions users confirm in this instance
    Changes,            \* sets of what else moves; one set in a behaviour
    MaxGestures,        \* bound: confirmations begun
    MaxCalls,           \* bound: protected calls that run
    MaxEpochs,          \* bound: resets of the throttle
    PASSWORD_LIMIT      \* state.PASSWORD_FAILURE_LIMIT

\* "manage" and "passkey_only" are built in; "pay" is another app's action.
Actions == {"manage", "passkey_only", "pay"}

\* The releases of that app: the old one lets a password or a sudo window
\* confirm "pay", the new one does not.
Releases == {"old", "new"}

Logins == {"password", "passkey", "external"}     \* _classify_login_method
FullSudo == {"password", "passkey", "reauth"}       \* FULL_SUDO_METHODS
Gestures == 1..MaxGestures
Epochs == 0..MaxEpochs

ASSUME GrantAssumption ==
    /\ Owner \in [Credentials -> Users] /\ UserOf \in [Sids -> Users]
    /\ Impersonated \subseteq Sids
    /\ Asked \subseteq Actions
    /\ {MaxGestures, MaxCalls, MaxEpochs} \subseteq Nat /\ PASSWORD_LIMIT \in Nat \ {0}

VARIABLES
    live,           \* sessions that are signed in
    over,           \* sessions that were; a sid is never used again
    window,         \* Redis: the sudo window of each session, by its class
    usable,         \* enabled credentials for the current RP ID
    uv,             \* credentials with uv_initialized = 1
    noPasswords,    \* core's disable_user_pass_login
    moving,         \* what else moves, one set of Changes
    records,        \* Redis: confirm ceremonies and grants by id
    claims,         \* Redis: password attempts claimed
    code,           \* the release each worker has imported, or "absent"
    shared,         \* Redis: the release whose policy was published last
    req,            \* the request each worker serves
    begun,          \* what each gesture was begun for
    done,           \* the protected actions that ran
    proofs,         \* what each session has shown: "password", "passkey"
    epoch,          \* resets of each user's throttle so far
    guesses         \* wrong passwords tried per user, by the epoch that claimed the attempt

account == <<live, over, usable, noPasswords, moving>>
policies == <<code, shared>>
history == <<begun, done, proofs, epoch, guesses>>
vars == <<account, window, uv, records, claims, policies, req, history>>

Gone == [type |-> "gone"]
None == "none"
Idle == [op |-> "idle"]

\* Ids are random: a new record never replaces a live one.
Ids == 1..(MaxGestures + 1)
Fresh == CHOOSE id \in Ids : records[id] = Gone
Store(record) == records' = [records EXCEPT ![Fresh] = record]

\* The sessions that may confirm or call: refuse_impersonated_session.
Callers == live \ Impersonated
Holds(u) == \E c \in usable : Owner[c] = u

\* What the release v says of action a: allow_password_fallback and, declared
\* alike here, allow_sudo_window.
Lenient(v, a) == a = "manage" \/ (a = "pay" /\ v = "old")

\* get_action_policy: the worker's own, the shared one, or fail closed.
PolicyOf(w, a) ==
    IF code[w] # "absent" THEN code[w] ELSE IF shared # "absent" THEN shared ELSE "new"

Run(w, s, a, p, via, g) ==
    done' = Append(done, [sid |-> s, action |-> a, payload |-> p, via |-> via, gesture |-> g,
                          under |-> code[w]])

\* set_window, keyed by the session.
\* Mutant: keyed by the user.
SetWindowOfUser(s, class) ==
    window' = [t \in Sids |-> IF UserOf[t] = UserOf[s] THEN class ELSE window[t]]
SetWindow(s, class) == window' = [window EXCEPT ![s] = class]

Begin(s, a, p) == begun' = Append(begun, [sid |-> s, action |-> a, payload |-> p])
Earn(s, what) == proofs' = [proofs EXCEPT ![s] = @ \cup {what}]

-----------------------------------------------------------------------------
(* Sessions and their windows.                                             *)

\* seed_sudo_window: a new session has a window of the class of its login.
SignIn(s, class) ==
    /\ s \notin live \cup over
    /\ s \in Impersonated => class = "external"
    /\ live' = live \cup {s}
    /\ SetWindow(s, class)
    /\ proofs' = [proofs EXCEPT ![s] = {class} \ {"external"}]
    /\ UNCHANGED <<over, usable, noPasswords, moving, uv, records, claims, policies, req,
                   begun, done, epoch, guesses>>

\* clear_sudo_window; a confirmation still running may write the window again.
SignOut(s) ==
    /\ "sign_out" \in moving /\ s \in live
    /\ live' = live \ {s} /\ over' = over \cup {s}
    /\ window' = [window EXCEPT ![s] = None]
    /\ UNCHANGED <<usable, noPasswords, moving, uv, records, claims, policies, req, history>>

\* TTLs and evictions; the throttle's takes its count with it.
ExpireWindow(s) ==
    /\ "expiry" \in moving /\ window[s] # None
    /\ window' = [window EXCEPT ![s] = None]
    /\ UNCHANGED <<account, uv, records, claims, policies, req, history>>

Expire(id) ==
    /\ "expiry" \in moving /\ records[id] # Gone
    /\ records' = [records EXCEPT ![id] = Gone]
    /\ UNCHANGED <<account, window, uv, claims, policies, req, history>>

ResetThrottle(u) ==
    /\ claims' = [claims EXCEPT ![u] = 0]
    /\ epoch' = [epoch EXCEPT ![u] = @ + 1]

ExpireClaims(u) ==
    /\ "expiry" \in moving /\ claims[u] # 0 /\ epoch[u] < MaxEpochs
    /\ ResetThrottle(u)
    /\ UNCHANGED <<account, window, uv, records, policies, req, begun, done, proofs, guesses>>

-----------------------------------------------------------------------------
(* Confirming with a passkey.                                              *)

BeginConfirmation(s, a, p) ==
    /\ s \in Callers /\ Len(begun) < MaxGestures
    /\ Begin(s, a, p)
    /\ Store([type |-> "confirm", sid |-> s, action |-> a, payload |-> p,
              allow |-> {c \in usable : Owner[c] = UserOf[s]}, gesture |-> Len(begun) + 1])
    /\ UNCHANGED <<account, window, uv, claims, policies, req, done, proofs, epoch, guesses>>

\* verify_confirmation consumes the ceremony before it looks whose it is.
ConsumeConfirmation(w) == \E id \in Ids, s \in Callers :
    /\ req[w] = Idle
    /\ records[id].type = "confirm"
    /\ records' = [records EXCEPT ![id] = Gone]
    /\ req' = IF records[id].sid = s
              THEN [req EXCEPT ![w] = [op |-> "confirm", rec |-> records[id]]] ELSE req
    /\ UNCHANGED <<account, window, uv, claims, policies, history>>

End(w) == req' = [req EXCEPT ![w] = Idle]

\* uv_initialized may only be set behind a password shown in this session.
\* Mutant: any full-sudo window will do.
MayFlipSudo(s) == window[s] \in FullSudo
MayFlip(s) == window[s] \in {"password", "reauth"}

\* The assertion is good, its UV bit set, its row locked and enabled: a grant,
\* and for "manage" the sudo window that the management endpoints check.
PassConfirmation(w) == \E c \in Credentials :
    LET r == req[w].rec
    IN  /\ req[w].op = "confirm"
        /\ c \in r.allow \cap usable
        /\ c \in uv \/ MayFlip(r.sid)
        /\ uv' = uv \cup {c}
        /\ Earn(r.sid, "passkey")
        /\ Store([type |-> "grant", sid |-> r.sid, action |-> r.action, payload |-> r.payload,
                  method |-> "passkey", gesture |-> r.gesture])
        /\ IF r.action = "manage" THEN SetWindow(r.sid, "passkey") ELSE UNCHANGED window
        /\ End(w)
        /\ UNCHANGED <<account, claims, policies, begun, done, epoch, guesses>>

-----------------------------------------------------------------------------
(* Confirming with the password.                                           *)

\* The limit-th attempt passes, the next is refused before the password is
\* looked at.
\* Mutant: compares before it counts.
TooManyLate(u) == claims[u] > PASSWORD_LIMIT
TooMany(u) == claims[u] + 1 > PASSWORD_LIMIT

\* reauth_password, until the password is checked: with an action it is one
\* more gesture, without one it only opens the window.
ClaimAttempt(w) == \E s \in Callers, a \in Asked \cup {None}, p \in Payloads :
    LET u == UserOf[s]
    IN  /\ req[w] = Idle
        /\ ~ (noPasswords /\ Holds(u))
        /\ ~ TooMany(u)
        /\ claims' = [claims EXCEPT ![u] = @ + 1]
        /\ a # None => Len(begun) < MaxGestures
        /\ begun' = IF a = None THEN begun
                    ELSE Append(begun, [sid |-> s, action |-> a, payload |-> p])
        /\ req' = [req EXCEPT ![w] = [op |-> "reauth", sid |-> s, action |-> a, payload |-> p,
                                      gesture |-> Len(begun'), epoch |-> epoch[u]]]
        /\ UNCHANGED <<account, window, uv, records, policies, done, proofs, epoch, guesses>>

WrongPassword(w) ==
    LET u == UserOf[req[w].sid]
    IN  /\ req[w].op = "reauth"
        /\ guesses' = [guesses EXCEPT ![u][req[w].epoch] = @ + 1]
        /\ End(w)
        /\ UNCHANGED <<account, window, uv, records, claims, policies, begun, done, proofs, epoch>>

\* The right password clears the throttle even where the action refuses it.
RightPassword(w) ==
    LET s == req[w].sid
        a == req[w].action
        granted == a # None /\ Lenient(PolicyOf(w, a), a)
    IN  /\ req[w].op = "reauth"
        /\ epoch[UserOf[s]] < MaxEpochs
        /\ ResetThrottle(UserOf[s])
        /\ Earn(s, "password")
        /\ IF granted
           THEN Store([type |-> "grant", sid |-> s, action |-> a, payload |-> req[w].payload,
                       method |-> "password", gesture |-> req[w].gesture])
           ELSE UNCHANGED records
        /\ IF a = None \/ (granted /\ a = "manage")
           THEN SetWindow(s, "reauth") ELSE UNCHANGED window
        /\ End(w)
        /\ UNCHANGED <<account, uv, policies, begun, done, guesses>>

\* Refused, timed out, or its worker died: what it consumed is gone.
Abandon(w) ==
    /\ req[w] # Idle
    /\ End(w)
    /\ UNCHANGED <<account, window, uv, records, claims, policies, history>>

-----------------------------------------------------------------------------
(* The protected call.                                                     *)

\* consume_action_grant: the grant is for this very session, action and call.
\* Mutants: leaves the bound arguments out; leaves the session out.
MatchesAnySession(g, s, a, p) == g.action = a /\ g.payload = p
MatchesAction(g, s, a, p) == g.sid = s /\ g.action = a
Matches(g, s, a, p) == g.sid = s /\ g.action = a /\ g.payload = p

\* Mutant: looks at the token and deletes it only when the call succeeds.
SpendOnMatch(id, s, a, p) == records' = records
Spend(id, s, a, p) == records' = [records EXCEPT ![id] = Gone]

\* Mutant: the policy that was published last decides.
DecidesShared(w, a) == Lenient(shared, a)
Decides(w, a) == Lenient(code[w], a)

\* A call with a token: what it names is spent whether or not it matches; a
\* match of a refused method ends the call, otherwise a sudo window may do.
CallWithGrant(w, s, a, p) == \E id \in Ids :
    LET g == records[id]
        match == Matches(g, s, a, p)
    IN  /\ g.type = "grant"
        /\ Spend(id, s, a, p)
        /\ \/ /\ match /\ (g.method = "passkey" \/ Decides(w, a))
              /\ Run(w, s, a, p, g.method, g.gesture)
           \/ /\ match /\ g.method = "password" /\ ~ Decides(w, a)
              /\ UNCHANGED done
           \/ /\ ~ match
              /\ IF Decides(w, a) /\ window[s] \in FullSudo
                 THEN Run(w, s, a, p, "sudo", 0) ELSE UNCHANGED done

CallWithWindow(w, s, a, p) ==
    /\ Decides(w, a) /\ window[s] \in FullSudo
    /\ Run(w, s, a, p, "sudo", 0)
    /\ UNCHANGED records

\* passkey_protected runs in a worker that has imported the app and publishes
\* its policy first, if it can; set_passkey_only_login is built in and strict.
Call(w) == \E s \in Callers, a \in Asked \ {"manage"}, p \in Payloads :
    /\ Len(done) < MaxCalls
    /\ a = "pay" => code[w] # "absent"
    /\ shared' \in {shared} \cup (IF a = "pay" THEN {code[w]} ELSE {})
    /\ CallWithGrant(w, s, a, p) \/ CallWithWindow(w, s, a, p)
    /\ UNCHANGED <<account, window, uv, claims, code, req, begun, proofs, epoch, guesses>>

-----------------------------------------------------------------------------
(* Everything else that moves.                                             *)

\* A worker restarts, or imports the app's module, of either release.
Deploy(w) == \E v \in Releases \cup {"absent"} :
    /\ "deploy" \in moving /\ code[w] # v /\ req[w] = Idle
    /\ code' = [code EXCEPT ![w] = v]
    /\ UNCHANGED <<account, window, uv, records, claims, shared, req, history>>

ExpirePolicy ==
    /\ "expiry" \in moving /\ shared # "absent"
    /\ shared' = "absent"
    /\ UNCHANGED <<account, window, uv, records, claims, code, req, history>>

ToggleCredential(c) ==
    /\ "credential" \in moving
    /\ usable' = (usable \ {c}) \cup ({c} \ usable)
    /\ UNCHANGED <<live, over, noPasswords, moving, window, uv, records, claims, policies, req, history>>

TogglePasswords ==
    /\ "passwords" \in moving
    /\ noPasswords' = ~ noPasswords
    /\ UNCHANGED <<live, over, usable, moving, window, uv, records, claims, policies, req, history>>

Init ==
    /\ moving \in Changes
    /\ live = {} /\ over \in SUBSET Sids /\ window = [s \in Sids |-> None]
    /\ usable = Credentials /\ uv \in SUBSET Credentials
    /\ noPasswords = FALSE
    /\ records = [id \in Ids |-> Gone]
    /\ claims = [u \in Users |-> 0] /\ epoch = [u \in Users |-> 0]
    /\ code \in [Workers -> IF "deploy" \in moving THEN Releases \cup {"absent"} ELSE {"new"}]
    /\ shared = "absent"
    /\ req = [w \in Workers |-> Idle]
    /\ begun = << >> /\ done = << >> /\ proofs = [s \in Sids |-> {}]
    /\ guesses = [u \in Users |-> [e \in Epochs |-> 0]]

Serve(w) ==
    \/ ConsumeConfirmation(w) \/ PassConfirmation(w)
    \/ ClaimAttempt(w) \/ WrongPassword(w) \/ RightPassword(w)
    \/ Abandon(w) \/ Call(w)

Next ==
    \/ \E s \in Sids : SignOut(s) \/ ExpireWindow(s) \/ \E k \in Logins : SignIn(s, k)
    \/ \E s \in Sids, a \in Asked, p \in Payloads : BeginConfirmation(s, a, p)
    \/ \E w \in Workers : Serve(w) \/ Deploy(w)
    \/ \E id \in Ids : Expire(id)
    \/ \E u \in Users : ExpireClaims(u)
    \/ \E c \in Credentials : ToggleCredential(c)
    \/ TogglePasswords \/ ExpirePolicy

Spec == Init /\ [][Next]_vars

-----------------------------------------------------------------------------
(* Properties.                                                             *)

Calls == [sid : Sids, action : Actions, payload : Payloads]

RecordType ==
    {Gone}
    \cup [type : {"confirm"}, sid : Sids, action : Actions, payload : Payloads,
          allow : SUBSET Credentials, gesture : Gestures]
    \cup [type : {"grant"}, sid : Sids, action : Actions, payload : Payloads,
          method : {"password", "passkey"}, gesture : Gestures]

RunType == [sid : Sids, action : Actions, payload : Payloads, via : {"password", "passkey", "sudo"},
            gesture : 0..MaxGestures, under : Releases \cup {"absent"}]

ReqType ==
    {Idle}
    \cup [op : {"confirm"}, rec : {r \in RecordType : r.type = "confirm"}]
    \cup [op : {"reauth"}, sid : Sids, action : Actions, payload : Payloads, gesture : Gestures,
          epoch : Epochs]
    \cup [op : {"reauth"}, sid : Sids, action : {None}, payload : Payloads,
          gesture : 0..MaxGestures, epoch : Epochs]

\* Every variable has its shape, and no more attempts are claimed than the
\* limit lets through.
TypeOK ==
    /\ live \subseteq Sids /\ over \subseteq Sids
    /\ window \in [Sids -> FullSudo \cup {"external", None}]
    /\ usable \subseteq Credentials /\ uv \subseteq Credentials /\ noPasswords \in BOOLEAN
    /\ moving \in Changes
    /\ records \in [Ids -> RecordType]
    /\ claims \in [Users -> 0..PASSWORD_LIMIT]
    /\ code \in [Workers -> Releases \cup {"absent"}] /\ shared \in Releases \cup {"absent"}
    /\ req \in [Workers -> ReqType]
    /\ begun \in Seq(Calls) /\ Len(begun) <= MaxGestures /\ done \in Seq(RunType)
    /\ proofs \in [Sids -> SUBSET {"password", "passkey"}]
    /\ epoch \in [Users -> Epochs] /\ guesses \in [Users -> [Epochs -> Nat]]

\* One gesture authorizes one call: whatever the workers, retries and
\* mismatched calls that see its ceremony or its grant
\* (state.consume_ceremony, state.consume_grant).
OneGestureOneAction == \A i, j \in DOMAIN done :
    i # j /\ done[i].gesture # 0 => done[i].gesture # done[j].gesture

\* A call that a gesture authorized is the call the user confirmed, in the
\* session they confirmed it in, arguments included, although begin, verify
\* and call are three requests (mint_action_grant, consume_action_grant).
ActsAsConfirmed == \A i \in DOMAIN done : done[i].gesture # 0 =>
    begun[done[i].gesture] =
        [sid |-> done[i].sid, action |-> done[i].action, payload |-> done[i].payload]

\* A password or a sudo window runs a method only where the release that runs
\* it allows that, whatever another release published, minted or was asked
\* (confirm.py, "the security boundary stays the consumer").
ConsumerDecides == \A i \in DOMAIN done :
    done[i].via \in {"password", "sudo"} => Lenient(done[i].under, done[i].action)

\* A full sudo window stands for a factor shown in that session, and one of a
\* password class for the password itself: an external login never turns into
\* one, nor one session's proof into another's (set_window).
WindowIsEarned == \A s \in Sids :
    /\ window[s] \in FullSudo => proofs[s] # {}
    /\ window[s] \in {"password", "reauth"} => "password" \in proofs[s]

\* A credential that never verified its user counts as a factor only after
\* the password was shown in the confirming session (verify_confirmation's
\* uv_initialized flip).
UvFlipNeedsPassword ==
    [][\A w \in Workers : uv' # uv /\ req'[w] # req[w] =>
            "password" \in proofs[req[w].rec.sid]]_vars

\* Of the attempts claimed between two resets of a user's throttle at most
\* PASSWORD_LIMIT turn out wrong, however the requests overlap
\* (state.claim_password_attempt before check_password); one that is claimed
\* before a reset and looked at after it counts for the time before.
ThrottleHolds == \A u \in Users, e \in Epochs : guesses[u][e] <= PASSWORD_LIMIT

-----------------------------------------------------------------------------
(* What it implements.                                                     *)

\* The records there are, the workers with a gesture in their hands, and what
\* such a worker knows of it.
Stored == {id \in Ids : records[id] # Gone}
Working == {w \in Workers : req[w].op = "confirm" \/ (req[w].op = "reauth" /\ req[w].action # None)}
Claim(w) == IF req[w].op = "confirm" THEN req[w].rec ELSE req[w]

\* A ceremony, a grant, a request or a call, as the authorisation it carries.
Carries(r) ==
    [id |-> r.gesture, terms |-> [sid |-> r.sid, action |-> r.action, payload |-> r.payload]]
Pending == {Carries(records[id]) : id \in Stored} \cup {Carries(Claim(w)) : w \in Working}
Authorised == {i \in DOMAIN done : done[i].gesture # 0}
Used == [i \in Authorised |-> Carries(done[i])]

Single == INSTANCE SingleUse
    WITH Terms <- Calls, begun <- Len(begun), pending <- Pending, used <- Used

\* One gesture authorizes one call, the one the user confirmed, in the session
\* they confirmed it in, arguments included: whatever workers, retries and
\* mismatched calls see its ceremony or its grant, and although begin, verify and
\* call are three requests (mint_action_grant, consume_action_grant).
ImplementsSingleUse == Single!Spec
=============================================================================
