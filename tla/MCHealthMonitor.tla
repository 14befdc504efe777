--------------------------- MODULE MCHealthMonitor ---------------------------
(* Small instances of HealthMonitor.                                       *)
EXTENDS HealthMonitor, TLC

Symmetry == Permutations(Workers) \union Permutations(Incidents)
=============================================================================
