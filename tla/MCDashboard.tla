---------------------------- MODULE MCDashboard ----------------------------
(* Dashboard on small instances; no symmetry, for it hides cycles. *)
EXTENDS Dashboard
=============================================================================
