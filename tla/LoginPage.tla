------------------------------- MODULE LoginPage -------------------------------
(***************************************************************************)
(* Signing in with a passkey, as the login page drives it: autofill        *)
(* ("conditional") and button ("modal") calls of navigator.credentials     *)
(* .get(), the verify_login requests they lead to, and the begin_login     *)
(* requests that replace a ceremony, each of which ends whenever it likes. *)
(*                                                                         *)
(* A step is one task of the page: an event, or a settled promise with the *)
(* reaction registered on it.  The answer to begin_login has a reaction    *)
(* for each caller that shares it; they follow it, one step each, before   *)
(* anything else.  `page' is the script's own state; what the script calls *)
(* meanwhile (get(), fetch) it only adds to.                               *)
(*                                                                         *)
(* Its formulas are called PageInit, PageNext and so on, because a module  *)
(* of proofs extends this module along with EnforcementPreview.            *)
(***************************************************************************)
EXTENDS Naturals, Sequences

CONSTANTS
    MaxBegins,      \* bound: ceremonies handed out
    MaxDeeds        \* bound: clicks, passkeys picked, passwords sent, page restores

ASSUME PageAssumption == {MaxBegins, MaxDeeds} \subseteq Nat

VARIABLES
    page,           \* the script's state
    autofill,       \* conditional UI is available
    verifies,       \* verify_login requests under way
    setup,          \* the uv-setup dialog: none, open, or sent
    begins,         \* ceremonies handed out
    used,           \* ceremonies the server has consumed
    deeds,          \* what the user did so far
    auto,           \* history: automatic re-begins since the last deed
    overtaken,      \* history: the user acted while an earlier attempt was under way
    silent          \* history: a conditional ceremony was re-armed after it expired

server == <<begins, used>>
history == <<auto, overtaken, silent>>
pageVars == <<page, autofill, verifies, setup, server, deeds, history>>

MaxRearm == 1

-----------------------------------------------------------------------------
(* The script's functions, from page to page.                              *)

\* LOGIN_TRANSITIONS; verifying stands for verifying_slow as well, failed for
\* unsupported, removed for stale.
Failures == {"cancelled", "removed", "failed"}
Legal == [idle      |-> {"waiting", "verifying"},
          waiting   |-> {"verifying", "idle"} \cup Failures,
          verifying |-> {"waiting", "success", "idle"} \cup Failures,
          success   |-> {},
          cancelled |-> {"idle", "waiting", "verifying"},
          removed   |-> {"idle", "waiting", "verifying"},
          failed    |-> {"idle", "waiting", "verifying"}]

\* applyLoginStatus: an illegal target stays put.
To(next, p) == [p EXCEPT !.status = IF next \in Legal[@] THEN next ELSE @]

MarkSpent(state, p) == [p EXCEPT !.spent = @ \/ state = p.state]
MarkRearm(p) == [p EXCEPT !.rearms = @ + 1]
Adopt(state, p) == [p EXCEPT !.state = state, !.spent = FALSE, !.aged = FALSE, !.rearms = 0]

\* The aborted call settles after the task; see Task.
AbortConditional(p) ==
    [p EXCEPT !.gets = {g \in @ : g.n # p.held}, !.held = 0, !.aborted = @ \/ p.held # 0]

\* The end of a task, when no caller's reaction is due.  The reaction of an
\* aborted call forgets whatever conditional call is held by then.
Task(p) ==
    IF p.due = <<>> /\ p.aborted THEN [p EXCEPT !.held = 0, !.aborted = FALSE] ELSE p

\* navigator.credentials.get()
Get(kind, p) ==
    [p EXCEPT !.calls = @ + 1,
              !.gets = @ \cup {[n |-> p.calls + 1, kind |-> kind, state |-> p.state]}]

StartConditional(p) ==
    LET q == Get("conditional", AbortConditional(p))
    IN  IF autofill /\ ~ p.busy THEN [q EXCEPT !.held = q.calls] ELSE p

\* rebegin: whoever comes while one is under way shares it.
Rebegin(caller, p) == [p EXCEPT !.callers = Append(@, caller)]

\* modalGet and its proceed.
\* Mutant: leaves a conditional call open.
ProceedLeaving(p) ==
    IF p.busy THEN p ELSE To("waiting", Get("modal", [p EXCEPT !.busy = TRUE]))
Proceed(p) ==
    IF p.busy THEN p
    ELSE To("waiting", Get("modal", AbortConditional([p EXCEPT !.busy = TRUE])))
\* Mutant: only the clock is looked at.
NeedsPreModalRebeginByClock(p) == p.aged
NeedsPreModalRebegin(p) == p.spent \/ p.aged
ModalGet(p) == IF NeedsPreModalRebegin(p) THEN Rebegin("click", p) ELSE Proceed(p)

CanRearm(p) == p.rearms < MaxRearm
RearmAfterVisibleFailure(p) == IF CanRearm(p) THEN Rebegin("rearm", p) ELSE p

\* What each caller of rebegin does with a ceremony, and without one.
\* Mutant: an automatic re-arm costs nothing.
ResumeUncounted(p, caller) ==
    CASE caller \in {"click", "expired_modal"} -> ModalGet(p)
      [] OTHER -> StartConditional(p)
Resume(p, caller) ==
    CASE caller = "click"         -> Proceed(p)
      [] caller = "restore"       -> StartConditional(p)
      [] caller = "expired_modal" -> ModalGet(MarkRearm(p))
      [] OTHER                    -> StartConditional(MarkRearm(p))
Refuse(p) ==
    IF \E i \in DOMAIN p.callers : p.callers[i] \in {"expired_modal", "expired_conditional"}
    THEN To("failed", p) ELSE p

Automatic == {"rearm", "expired_modal", "expired_conditional"}
\* A re-begin that this step sends by itself, for what the user did before.
CountAuto ==
    auto' = IF page.callers = <<>> /\ page'.callers # <<>> /\ page'.callers[1] \in Automatic
            THEN auto + 1 ELSE auto
Deed == deeds < MaxDeeds /\ deeds' = deeds + 1 /\ auto' = 0

\* An attempt that has not been answered.
Underway == verifies # {} \/ setup # "none" \/ page.busy \/ page.gets # {} \/ page.callers # <<>>

-----------------------------------------------------------------------------
(* What the user does.                                                     *)

\* onButtonClick
Click ==
    /\ Deed /\ ~ page.busy
    /\ page' = Task(ModalGet(AbortConditional(page)))
    /\ overtaken' = (overtaken \/ verifies # {} \/ setup # "none")
    /\ UNCHANGED <<autofill, verifies, setup, server, silent>>

\* runVerify
RunVerify(g, p) ==
    /\ page' = To("verifying", MarkSpent(g.state, p))
    /\ verifies' = verifies \cup {[n |-> g.n, state |-> g.state, source |-> g.kind]}

SettledGet(g) ==
    LET rest == [page EXCEPT !.gets = @ \ {g}]
    IN  IF g.kind = "modal" THEN [rest EXCEPT !.busy = FALSE] ELSE [rest EXCEPT !.held = 0]

PickPasskey == \E g \in page.gets :
    /\ Deed
    /\ RunVerify(g, SettledGet(g))
    /\ UNCHANGED <<autofill, setup, server, overtaken, silent>>

\* onPageShow of a page the browser had kept.
PageShow ==
    /\ Deed
    /\ page' = Task(Rebegin("restore",
                 MarkSpent(page.state, [AbortConditional(page) EXCEPT !.busy = FALSE])))
    /\ overtaken' = (overtaken \/ Underway)
    /\ UNCHANGED <<autofill, verifies, setup, server, silent>>

\* The password of the uv-setup dialog; "Not now".
SendPassword ==
    /\ Deed /\ setup = "open"
    /\ setup' = "sent"
    /\ UNCHANGED <<page, autofill, verifies, server, overtaken, silent>>
CloseSetup ==
    /\ setup = "open" /\ setup' = "none"
    /\ UNCHANGED <<page, autofill, verifies, server, deeds, history>>

-----------------------------------------------------------------------------
(* What settles.                                                           *)

\* Cancelled, timed out, or refused by the browser.
GetFails(g) ==
    /\ page' =
         IF g.kind = "modal"
         THEN RearmAfterVisibleFailure(To("cancelled", MarkSpent(g.state, SettledGet(g))))
         ELSE MarkSpent(g.state, SettledGet(g))
    /\ CountAuto
    /\ UNCHANGED <<autofill, verifies, setup, server, deeds, overtaken, silent>>

\* handleFirstFactor401 and finishVerify.
Expired(source) == IF source = "modal" THEN "expired_modal" ELSE "expired_conditional"
\* Mutant: an untyped failure is left to core's handler.
AfterUnfinished(answer, source, p) ==
    CASE answer = "expired" ->
           IF CanRearm(p) THEN Rebegin(Expired(source), p) ELSE To("failed", p)
      [] answer = "unknown"  -> RearmAfterVisibleFailure(To("removed", p))
      [] answer = "typed"    -> RearmAfterVisibleFailure(To("failed", p))
      [] answer = "uv_setup" -> To("idle", p)
      [] OTHER               -> p
After(answer, source, p) ==
    CASE answer = "expired" ->
           IF CanRearm(p) THEN Rebegin(Expired(source), p) ELSE To("failed", p)
      [] answer = "unknown"  -> RearmAfterVisibleFailure(To("removed", p))
      [] answer = "typed"    -> RearmAfterVisibleFailure(To("failed", p))
      [] answer = "uv_setup" -> To("idle", p)
      [] OTHER               -> IF p.status \in {"waiting", "verifying"} THEN To("failed", p) ELSE p

Refused(v) == \E answer \in {"expired", "unknown", "typed", "uv_setup", "other"} :
    /\ answer \in {"unknown", "uv_setup"} => v.state \notin used
    /\ page' = After(answer, v.source, page)
    /\ setup' = IF answer = "uv_setup" THEN "open" ELSE setup
    /\ silent' = (silent \/ (answer = "expired" /\ v.source = "conditional" /\ CanRearm(page)))

Accepted(v) ==
    /\ v.state \notin used
    /\ page' = To("success", page)
    /\ UNCHANGED <<setup, silent>>

VerifyAnswered(v) ==
    /\ verifies' = verifies \ {v}
    /\ Refused(v) \/ Accepted(v)
    /\ used' = used \cup {v.state}
    /\ CountAuto
    /\ UNCHANGED <<autofill, begins, deeds, overtaken>>

\* The answer to begin_login.  Of a refusal each caller makes the same.
RebeginAnswered ==
    /\ page.callers # <<>>
    /\ \/ /\ begins < MaxBegins
          /\ begins' = begins + 1
          /\ page' = Adopt(begins + 1, [page EXCEPT !.due = page.callers, !.callers = <<>>])
       \/ /\ UNCHANGED begins
          /\ page' = [Refuse(page) EXCEPT !.callers = <<>>]
    /\ UNCHANGED <<autofill, verifies, setup, used, deeds, history>>

\* Callers react to a new ceremony in the order they came.
React ==
    /\ page.due # <<>>
    /\ page' = Task(Resume([page EXCEPT !.due = Tail(@)], Head(page.due)))
    /\ UNCHANGED <<autofill, verifies, setup, server, deeds, history>>

\* complete_uv_setup
SetupAnswered ==
    /\ setup = "sent"
    /\ \/ setup' = "none" /\ UNCHANGED page
       \/ setup' = "open" /\ UNCHANGED page
       \/ setup' = "none" /\ page' = Rebegin("restore", To("failed", page))
    /\ UNCHANGED <<autofill, verifies, server, deeds, history>>

\* Less than PRE_MODAL_REBEGIN_MARGIN_MS are left.
Age ==
    /\ ~ page.aged
    /\ page' = [page EXCEPT !.aged = TRUE]
    /\ UNCHANGED <<autofill, verifies, setup, server, deeds, history>>

\* start() has adopted the first ceremony and started conditional UI.
Blank == [state |-> 1, spent |-> FALSE, aged |-> FALSE, rearms |-> 0, status |-> "idle",
          held |-> 0, aborted |-> FALSE, busy |-> FALSE, callers |-> <<>>, due |-> <<>>,
          gets |-> {}, calls |-> 0]

PageInit ==
    /\ autofill \in BOOLEAN
    /\ page = StartConditional(Blank)
    /\ verifies = {} /\ setup = "none" /\ begins = 1 /\ used = {} /\ deeds = 0
    /\ auto = 0 /\ overtaken = FALSE /\ silent = FALSE

ModalFails == \E g \in page.gets : g.kind = "modal" /\ GetFails(g)
Answered == \E v \in verifies : VerifyAnswered(v)

\* The events, and the promises that settle by themselves.
Event ==
    \/ Click \/ PickPasskey \/ PageShow \/ SendPassword \/ CloseSetup
    \/ \E g \in page.gets : GetFails(g)
    \/ Answered \/ RebeginAnswered \/ SetupAnswered \/ Age

\* No reaction is due.
Free == page.due = <<>>

PageNext == React \/ (Free /\ Event)

\* A request is answered or fails; the browser ends a dialog by its timeout;
\* reactions run.
PageFairness ==
    /\ WF_pageVars(Free /\ Answered) /\ WF_pageVars(Free /\ RebeginAnswered) /\ WF_pageVars(Free /\ ModalFails)
    /\ WF_pageVars(React)

PageSpec == PageInit /\ [][PageNext]_pageVars /\ PageFairness

-----------------------------------------------------------------------------
(* What must hold.                                                         *)

\* One call of the browser's at a time, and the script knows which: the
\* conditional call it can abort, the modal one it counts as busy; and what it
\* re-begins by itself for one deed of the user is one ceremony.  (Comments at
\* "Chromium rejects overlapping requests", "bounded, never a loop".)
OneRequest == \A g, h \in page.gets : g = h
ConditionalIsHeld == \A g \in page.gets : g.kind = "conditional" => page.held = g.n
ModalIsBusy == \A g \in page.gets : g.kind = "modal" => page.busy
NeverALoop == auto <= 1

\* It takes a second attempt during the first to break this; see the README.
Orderly == ~ overtaken => OneRequest /\ ConditionalIsHeld /\ ModalIsBusy /\ NeverALoop

\* The user is asked for a gesture only on the newest ceremony, long enough
\* before it expires, and never on one that was sent to be verified: one
\* gesture, not two failures.
GestureIsFresh ==
    [][\A g \in page'.gets : g.kind = "modal" /\ g.n > page.calls =>
         /\ g.state = begins' /\ ~ page'.aged
         /\ g.state \notin used \cup {v.state : v \in verifies}]_pageVars

\* "must not leave 'Verifying...' up": whatever becomes of the requests, the
\* page says in the end how the attempt went; but not when the ceremony of an
\* autofill attempt had expired, which is re-armed without a word.
InProgress == page.status \in {"waiting", "verifying"}
ProgressEnds == InProgress ~> ~ InProgress \/ silent

=============================================================================
