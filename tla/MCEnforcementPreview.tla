------------------------- MODULE MCEnforcementPreview -------------------------
(* A small instance of EnforcementPreview for TLC. *)
EXTENDS EnforcementPreview

CONSTANTS pA, pB, j1, j2, j3
=============================================================================
