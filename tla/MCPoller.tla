------------------------------ MODULE MCPoller ------------------------------
(* Poller on small instances. *)
EXTENDS Poller, TLC

\* Upstreams, items and slots are interchangeable: Init, Next and the safety
\* properties name no element of these sets.
Symmetry == Permutations(Upstreams) \cup Permutations(Keys)
                \cup Permutations(Runs) \cup Permutations(Requests)
=============================================================================
