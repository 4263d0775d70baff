---------------------------- MODULE MCWorkReceipt ----------------------------
(* Instances of the work receipts for TLC. *)
EXTENDS WorkReceipt, TLC

Interchangeable ==
    Permutations(Procs) \cup Permutations(Contents) \cup Permutations(Streams)
    \cup Permutations(Revisions)
=============================================================================
