-------------------------- MODULE MCTokenRotation --------------------------
(* TokenRotation on small instances. *)
EXTENDS TokenRotation, TLC

\* Call keys and handlers are interchangeable (for safety properties).
Symmetry == Permutations(CallKeys) \cup Permutations(Writers)
=============================================================================
