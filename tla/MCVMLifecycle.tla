--------------------------- MODULE MCVMLifecycle ----------------------------
(* VMLifecycle for TLC: pids and sessions are interchangeable.              *)
EXTENDS VMLifecycle, TLC

Symmetry == Permutations(Pids) \cup Permutations(Sessions)
=============================================================================
