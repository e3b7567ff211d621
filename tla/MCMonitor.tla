------------------------------ MODULE MCMonitor ------------------------------
(* Small instances of SessionMonitor for TLC. *)
EXTENDS SessionMonitor, TLC

CONSTANTS g1, g2

Symmetry == Permutations(Gens)
=============================================================================
