---------------------------- MODULE MCBucketFile ----------------------------
(* Three-bit identifiers and own_id 000, as in MCBucket. *)
EXTENDS BucketFile

Id(b0, b1, b2) == (0 :> b0) @@ (1 :> b1) @@ (2 :> b2)

Self == Id(0, 0, 0)

N(id) == [id |-> id, addr |-> 1]

(* Three nodes for the buckets after the first, so that two splits occur. *)
NearNodes == {N(Id(0, 1, 0)), N(Id(0, 0, 1)), N(Self)}

(* An id of the middle bucket: the lookup of it walks past the first bucket, *)
(* begins with the second one, fills up from the third and then the first.   *)
Targets == {Id(0, 1, 0)}
=============================================================================
