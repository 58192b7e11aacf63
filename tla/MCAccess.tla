------------------------------ MODULE MCAccess ------------------------------
(* Access on small instances. *)
EXTENDS Access, TLC

\* Accounts, call keys and groups are interchangeable.
Symmetry == Permutations(Accounts) \cup Permutations(CallKeys) \cup Permutations(Groups)
=============================================================================
