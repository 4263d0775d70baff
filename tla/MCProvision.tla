------------------------------ MODULE MCProvision ------------------------------
(* Instances of provisioning for TLC. *)
EXTENDS Provision

CONSTANTS p1, p2

\* A command beside the responder, and two commands that race.
MCTeams == {{p1, Agent}, {p1, p2}}
================================================================================
