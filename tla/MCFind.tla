------------------------------- MODULE MCFind -------------------------------
(* Three-bit identifiers; the target is 000, so that an id is its distance. *)
EXTENDS Find, TLC

Id(b0, b1, b2) == (0 :> b0) @@ (1 :> b1) @@ (2 :> b2)

Goal == Id(0, 0, 0)

N(id, addr) == [id |-> id, addr |-> addr]

Misplaced == N(Id(0, 1, 1), 4)

(* One node whose id does not fit its address, one id that is reported     *)
(* with two addresses, and two ids that are reported with the same one.    *)
SomeNodes ==
    {N(Id(0, 0, 1), 1), N(Id(0, 1, 0), 2), N(Id(0, 1, 0), 5), Misplaced,
     N(Id(1, 0, 0), 3), N(Id(1, 1, 0), 3)}

(* A reported node, and one nobody reports, at an address nobody asks. *)
SomeOrigins == {N(Id(0, 1, 0), 2), N(Id(1, 1, 1), 6)}

(* The first bit is the checksum, the last one is r. *)
SomeCrc(ip, r) == [i \in {0} |-> IF ip \in {3, 4} THEN 1 ELSE 0]
=============================================================================
