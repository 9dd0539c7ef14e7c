----------------------------- MODULE PreviewBoard -----------------------------
(***************************************************************************)
(* What the settings form promises about the cached enforcement preview    *)
(* (docs/configuration.md, "The enforcement preview counts users in the    *)
(* background"): per policy it shows the count of one scan, a scan begun   *)
(* earlier never replaces a later one, and once the cache is cleared only  *)
(* scans begun since then are shown.                                       *)
(***************************************************************************)
EXTENDS Naturals

CONSTANT Policies

VARIABLES
    begun,      \* scans begun so far
    floor,      \* how many of them were begun before the last clear
    shown       \* the scan whose count each policy shows, 0: not counted yet

vars == <<begun, floor, shown>>

Init == begun = 0 /\ floor = 0 /\ shown = [p \in Policies |-> 0]

Begin == begun' = begun + 1 /\ UNCHANGED <<floor, shown>>

Show(p) == \E scan \in (floor + 1)..begun :
    /\ scan >= shown[p]
    /\ shown' = [shown EXCEPT ![p] = scan]
    /\ UNCHANGED <<begun, floor>>

Clear ==
    /\ floor' = begun
    /\ shown' = [p \in Policies |-> 0]
    /\ UNCHANGED begun

Next == Begin \/ Clear \/ \E p \in Policies : Show(p)

Spec == Init /\ [][Next]_vars
=============================================================================
