---------------------------- MODULE MCController ----------------------------
(* Instances of the controller for TLC. *)
EXTENDS Controller, TLC

Interchangeable == Permutations(Procs)
=============================================================================
