------------------------------ MODULE MCBucket ------------------------------
(***************************************************************************)
(* Instances of Bucket for TLC: identifiers of three bits, own_id 000, so  *)
(* that a chain of three buckets can form, and node sets chosen so that    *)
(* every bucket can fill up.  Bits are written most significant first.     *)
(***************************************************************************)
EXTENDS Bucket, TLC

Id(b0, b1, b2) == (0 :> b0) @@ (1 :> b1) @@ (2 :> b2)

Self == Id(0, 0, 0)

N(id) == [id |-> id, addr |-> 1]

(* Three nodes for bucket 1, which holds two, so that a split can be       *)
(* crowded out; two of them fill the last bucket.                          *)
NearNodes == {N(Id(0, 1, 0)), N(Id(0, 0, 1)), N(Self)}

TaskSymmetry == Permutations(Task)
=============================================================================
