------------------------------ MODULE MCRouter ------------------------------
(***************************************************************************)
(* Three-bit identifiers and own_id 000: three nodes for the first bucket  *)
(* and two for the second, own_id, which belongs in none, and an id that   *)
(* comes back with another address.                                        *)
(***************************************************************************)
EXTENDS Router

Id(b0, b1, b2) == (0 :> b0) @@ (1 :> b1) @@ (2 :> b2)

Self == Id(0, 0, 0)

N(id) == [id |-> id, addr |-> 1]

SomeNodes ==
    {N(Id(1, 0, 0)), N(Id(1, 0, 1)), N(Id(1, 1, 1)), N(Id(0, 1, 0)), N(Id(0, 1, 1)),
     N(Self), [id |-> Id(0, 1, 0), addr |-> 2]}

(* Two nodes that share two bits with own_id, so that in buckets of one    *)
(* node every add of the second splits, down to the last bucket.           *)
NearestNodes == {N(Id(0, 0, 1)), N(Self)}

NoIds == {}

AllIds == U160Type
=============================================================================
