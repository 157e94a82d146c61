----------------------------- MODULE MCPublish -----------------------------
(* Small instances of Publish for TLC. *)
EXTENDS Publish, TLC

(* The rows of a run in the order they are staged, and as sorted() has them. *)
StagingOrder == <<"observations", "versions">>
SortedOrder == <<"observations", "versions">>

RunSymmetry == Permutations(Runs)
=============================================================================
