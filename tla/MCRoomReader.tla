----------------------------- MODULE MCRoomReader -----------------------------
(* Instances of the polling loop for TLC. *)
EXTENDS RoomReader
=============================================================================
