--------------------------- MODULE MCJobLifecycle ---------------------------
(* Instances of JobLifecycle for TLC. *)
EXTENDS JobRefinement, TLC

CONSTANTS r1, r2, q1, q2, p1, p2

Symmetry == Permutations(Runs) \cup Permutations(Requests)
==============================================================================
