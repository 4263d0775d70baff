----------------------------- MODULE MCSafeAgent -----------------------------
(* Small instances of SafeAgent for TLC. *)
EXTENDS SafeAgent, TLC

Symmetry == Permutations(Procs)
=============================================================================
