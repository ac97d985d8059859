-------------------------------- MODULE U160 --------------------------------
(***************************************************************************)
(* The 160-bit identifiers of src/src/u160.rs: node ids, info hashes and   *)
(* search targets.  An identifier is the vector of its bits, bit 0 being   *)
(* the most significant one, as get_bit numbers them.  MaxBit is 159 in    *)
(* the program; the definitions and the proofs hold for every width.       *)
(***************************************************************************)
EXTENDS Integers

CONSTANT MaxBit   \* index of the least significant bit

ASSUME MaxBitAssumption == MaxBit \in Nat

Bit == 0 .. MaxBit

U160Type == [Bit -> {0, 1}]

(* Distance is exclusive or, bit by bit. *)
Distance(a, b) == [i \in Bit |-> IF a[i] = b[i] THEN 0 ELSE 1]

(* get_bit: indices past the last bit read as false. *)
GetBit(a, i) == i \in Bit /\ a[i] = 1

(* The derived order compares msbytes, then lsbytes: big-endian order. *)
Less(a, b) ==
    \E i \in Bit : a[i] < b[i] /\ \A j \in 0 .. (i - 1) : a[j] = b[j]
=============================================================================
