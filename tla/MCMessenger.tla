---------------------------- MODULE MCMessenger -----------------------------
(* Instances of Messenger: a peer that answers and a read-only one. *)
EXTENDS Messenger, TLC

QuerySymmetry == Permutations(Query)
=============================================================================
