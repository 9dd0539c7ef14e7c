------------------------------- MODULE SingleUse -------------------------------
(***************************************************************************)
(* What the records in Redis promise together (state.py, "exactly one      *)
(* caller wins across workers"): what was begun may be used once, for what *)
(* it was begun for, or be lost; whichever records, tokens and requests    *)
(* carry it from one leg of its protocol to the next.                      *)
(***************************************************************************)
EXTENDS Naturals

CONSTANT Terms      \* what an authorisation can be for

VARIABLES
    begun,          \* authorisations begun so far
    pending,        \* those that may still be used
    used            \* the uses there were, each with what it was a use of

vars == <<begun, pending, used>>

Authorisation(id, terms) == [id |-> id, terms |-> terms]

Init == begun \in Nat /\ pending = {} /\ used = << >>

\* Nothing is used under a label twice.
Note(a) == \E label \in DOMAIN used' \ DOMAIN used :
    used' = [l \in DOMAIN used \cup {label} |-> IF l = label THEN a ELSE used[l]]

\* Begun for a later leg; or refused or used at once, where there is none.
Issue(a) ==
    \/ pending' = pending \cup {a} /\ UNCHANGED used
    \/ UNCHANGED pending /\ (Note(a) \/ UNCHANGED used)

Begin ==
    /\ begun' = begun + 1
    /\ \E terms \in Terms : Issue(Authorisation(begun + 1, terms))

Use(a) ==
    /\ pending' = pending \ {a}
    /\ Note(a)
    /\ UNCHANGED begun

\* Expired, evicted, presented where it does not belong, or in the hands of a
\* request that fails.
Lose(a) ==
    /\ pending' = pending \ {a}
    /\ UNCHANGED <<begun, used>>

Next ==
    \/ Begin
    \/ \E a \in pending : Use(a) \/ Lose(a)

Spec == Init /\ [][Next]_vars
=============================================================================
