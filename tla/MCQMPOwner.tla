----------------------------- MODULE MCQMPOwner -----------------------------
(* QMPOwner instantiated for TLC. *)
EXTENDS QMPOwner, TLC

Symmetry == Permutations(Callers)
=============================================================================
