------------------------------ MODULE MCSweep -------------------------------
(* Three-bit identifiers, some with two addresses. *)
EXTENDS Sweep, TLC

Id(b0, b1, b2) == (0 :> b0) @@ (1 :> b1) @@ (2 :> b2)

N(id, addr) == [id |-> id, addr |-> addr]

(* A node at the low end, and far above it two close together, the lower   *)
(* one known with two addresses.                                           *)
SomeNodes == {N(Id(0, 0, 0), 1), N(Id(1, 0, 0), 1), N(Id(1, 0, 0), 2), N(Id(1, 0, 1), 1)}

Neighbour == Id(0, 0, 1)
=============================================================================
