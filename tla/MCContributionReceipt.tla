------------------------ MODULE MCContributionReceipt ------------------------
(* Instances of the contribution receipts for TLC. *)
EXTENDS ContributionReceipt, TLC

Interchangeable == Permutations(Checks) \cup Permutations(Contexts)
=============================================================================
