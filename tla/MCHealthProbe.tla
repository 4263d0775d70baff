---------------------------- MODULE MCHealthProbe ----------------------------
(* Small instances of HealthProbe for TLC. *)
EXTENDS HealthProbe
=============================================================================
