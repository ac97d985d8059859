------------------------------ MODULE U160Limbs -----------------------------
(***************************************************************************)
(* U160 of src/src/u160.rs as the program stores it: a u128 with the more  *)
(* significant bits and a u32 with the less significant ones, and the      *)
(* operators written limb by limb.  A word is the vector of its bits, the  *)
(* most significant one first; the operators on words are those of Rust.   *)
(* Bits is the identifier a pair of limbs stands for, as in U160.          *)
(***************************************************************************)
EXTENDS Integers

Id == INSTANCE U160 WITH MaxBit <- 159

Word(w) == [0 .. (w - 1) -> {0, 1}]

(* msbytes and lsbytes *)
Limbs == [ms : Word(128), ls : Word(32)]

(* from_be_bytes and to_be_bytes keep the bits in their order. *)
ToBits(a) == [i \in 0 .. 159 |-> IF i < 128 THEN a.ms[i] ELSE a.ls[i - 128]]

FromBits(v) == [ms |-> [i \in 0 .. 127 |-> v[i]], ls |-> [i \in 0 .. 31 |-> v[i + 128]]]

-----------------------------------------------------------------------------
(* Words of w bits *)

XorWord(w, x, y) == [i \in 0 .. (w - 1) |-> IF x[i] = y[i] THEN 0 ELSE 1]

AndWord(w, x, y) == [i \in 0 .. (w - 1) |-> IF x[i] = 1 /\ y[i] = 1 THEN 1 ELSE 0]

OrWord(w, x, y) == [i \in 0 .. (w - 1) |-> IF x[i] = 1 \/ y[i] = 1 THEN 1 ELSE 0]

NotWord(w, x) == [i \in 0 .. (w - 1) |-> 1 - x[i]]

(* << and >>, defined for a shift of less than w only. *)
ShlWord(w, x, k) == [i \in 0 .. (w - 1) |-> IF i + k < w THEN x[i + k] ELSE 0]

ShrWord(w, x, k) == [i \in 0 .. (w - 1) |-> IF i >= k THEN x[i - k] ELSE 0]

One(w) == [i \in 0 .. (w - 1) |-> IF i = w - 1 THEN 1 ELSE 0]

Zero(w) == [i \in 0 .. (w - 1) |-> 0]

LessWord(w, x, y) ==
    \E i \in 0 .. (w - 1) : x[i] < y[i] /\ \A j \in 0 .. (i - 1) : x[j] = y[j]

(* x as u32 and x as u128 *)
AsU32(x) == [i \in 0 .. 31 |-> x[i + 96]]

AsU128(x) == [i \in 0 .. 127 |-> IF i < 96 THEN 0 ELSE x[i - 96]]

-----------------------------------------------------------------------------
(* The operators of U160 *)

BitXor(a, b) == [ms |-> XorWord(128, a.ms, b.ms), ls |-> XorWord(32, a.ls, b.ls)]

BitAnd(a, b) == [ms |-> AndWord(128, a.ms, b.ms), ls |-> AndWord(32, a.ls, b.ls)]

BitOr(a, b) == [ms |-> OrWord(128, a.ms, b.ms), ls |-> OrWord(32, a.ls, b.ls)]

Not(a) == [ms |-> NotWord(128, a.ms), ls |-> NotWord(32, a.ls)]

(* min and max *)
MinId == [ms |-> Zero(128), ls |-> Zero(32)]

MaxId == Not(MinId)

(* get_bit: a mask picks the bit. *)
TestBit(a, i) ==
    IF i >= 160 THEN FALSE
    ELSE IF i >= 128
         THEN AndWord(32, ShlWord(32, One(32), 31 - (i - 128)), a.ls) # Zero(32)
         ELSE AndWord(128, ShlWord(128, One(128), 127 - i), a.ms) # Zero(128)

(* The derived order: msbytes first. *)
LessLimbs(a, b) ==
    LessWord(128, a.ms, b.ms) \/ (a.ms = b.ms /\ LessWord(32, a.ls, b.ls))

AtMost(k, n) == IF k <= n THEN k ELSE n

(* overflow of shr: what msbytes gives to lsbytes. *)
CarryDown(x, rhs) ==
    LET msshift == AtMost(rhs, 127)
        msremain == rhs - msshift
    IN  AsU32(ShrWord(128, ShrWord(128, ShlWord(128, x, 127 - msshift), msremain), 95))

Shr(a, rhs) ==
    [ms |-> IF rhs > 127 THEN Zero(128) ELSE ShrWord(128, a.ms, rhs),
     ls |-> OrWord(32, IF rhs > 31 THEN Zero(32) ELSE ShrWord(32, a.ls, rhs),
                       CarryDown(a.ms, rhs))]

(* overflow of shl: what lsbytes gives to msbytes. *)
CarryUp(x, rhs) ==
    LET lsshift == AtMost(rhs, 31)
        lsremain == rhs - lsshift
    IN  IF lsshift = 0 \/ lsremain > 127 THEN Zero(128)
        ELSE ShlWord(128, AsU128(ShrWord(32, x, 32 - lsshift)), lsremain)

Shl(a, rhs) ==
    [ms |-> OrWord(128, IF rhs > 127 THEN Zero(128) ELSE ShlWord(128, a.ms, rhs),
                        CarryUp(a.ls, rhs)),
     ls |-> IF rhs > 31 THEN Zero(32) ELSE ShlWord(32, a.ls, rhs)]

-----------------------------------------------------------------------------
(* Identifiers that fit an address (BEP 42): pfx is the checksum of the    *)
(* address and r, rnd the two random words.                                *)

Mask(w, S) == [i \in 0 .. (w - 1) |-> IF i \in S THEN 1 ELSE 0]

FromIpWithR(pfx, r, rnd) ==
    [ms |-> OrWord(128, AndWord(128, rnd.ms, Mask(128, 21 .. 127)),
                        ShlWord(128, AsU128(AndWord(32, pfx, Mask(32, 0 .. 20))), 96)),
     ls |-> OrWord(32, AndWord(32, rnd.ls, Mask(32, 0 .. 28)), AndWord(32, r, Mask(32, 29 .. 31)))]

Filter == [ms |-> Mask(128, 0 .. 20), ls |-> Mask(32, 29 .. 31)]

(* validate: crc is the checksum of the address as a function of r. *)
ValidateLimbs(a, crc, rnd) ==
    LET r == AndWord(32, a.ls, Mask(32, 29 .. 31))
    IN  BitAnd(a, Filter) = BitAnd(FromIpWithR(crc[r], r, rnd), Filter)

(* next_highest of infohash_sweep, and the id a node is asked about. *)
NextHighest == [ms |-> Mask(128, 21 .. 127), ls |-> Mask(32, 0 .. 31)]

SampleTarget(a) == BitOr(a, NextHighest)

-----------------------------------------------------------------------------
(* Shifts of the 160 bits as a whole. *)
ShrBits(v, k) == [i \in 0 .. 159 |-> IF i >= k THEN v[i - k] ELSE 0]

ShlBits(v, k) == [i \in 0 .. 159 |-> IF i + k < 160 THEN v[i + k] ELSE 0]
=============================================================================
