------------------------------ MODULE MCShards ------------------------------
(***************************************************************************)
(* An instance of ShardStore for TLC.                                      *)
(***************************************************************************)
EXTENDS ShardStore, TLC

RequestSymmetry == Permutations(Requests) \cup Permutations(Contents)
=============================================================================
