----------------------------- MODULE MCLoginPage -----------------------------
(* The instance of LoginPage for TLC: the module, with the bounds of its cfg. *)
EXTENDS LoginPage
=============================================================================
