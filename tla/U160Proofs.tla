----------------------------- MODULE U160Proofs -----------------------------
(***************************************************************************)
(* The two limbs of U160Limbs implement the bit vectors of U160: what the  *)
(* other modules assume of identifiers holds of the representation that    *)
(* the program uses, at its real width.                                    *)
(***************************************************************************)
EXTENDS U160Limbs, TLAPS

(* The limbs are words, and stand for an identifier. *)
LEMMA LimbType ==
    ASSUME NEW a \in Limbs
    PROVE  a.ms \in [0 .. 127 -> {0, 1}] /\ a.ls \in [0 .. 31 -> {0, 1}]
BY DEF Limbs, Word

(* Picking a bit with a mask. *)
LEMMA MaskPicks ==
    ASSUME NEW w \in {32, 128}, NEW x \in [0 .. (w - 1) -> {0, 1}], NEW i \in 0 .. (w - 1)
    PROVE  AndWord(w, ShlWord(w, One(w), w - 1 - i), x) # Zero(w) <=> x[i] = 1
<1> DEFINE m == AndWord(w, ShlWord(w, One(w), w - 1 - i), x)
<1>1. \A j \in 0 .. (w - 1) : ShlWord(w, One(w), w - 1 - i)[j] = IF j = i THEN 1 ELSE 0
  BY DEF ShlWord, One
<1>2. \A j \in 0 .. (w - 1) : m[j] = IF j = i /\ x[j] = 1 THEN 1 ELSE 0
  BY <1>1 DEF AndWord
<1>3. m = [j \in 0 .. (w - 1) |-> IF j = i /\ x[j] = 1 THEN 1 ELSE 0]
  BY <1>1 DEF AndWord
<1>4. Zero(w) = [j \in 0 .. (w - 1) |-> 0]
  BY DEF Zero
<1>5. x[i] = 1 => m[i] # Zero(w)[i]
  BY <1>2, <1>4
<1>6. x[i] # 1 => m = Zero(w)
  BY <1>3, <1>4
<1> QED BY <1>5, <1>6

(* Two limbs stand for an identifier. *)
LEMMA BitsType ==
    ASSUME NEW a \in Limbs
    PROVE  ToBits(a) \in Id!U160Type
BY DEF ToBits, Limbs, Word, Id!U160Type, Id!Bit

(* bitxor on the limbs is the distance of the identifiers. *)
THEOREM DistanceByLimbs ==
    ASSUME NEW a \in Limbs, NEW b \in Limbs
    PROVE  /\ BitXor(a, b) \in Limbs
           /\ ToBits(BitXor(a, b)) = Id!Distance(ToBits(a), ToBits(b))
<1>1. BitXor(a, b) \in Limbs
  BY DEF BitXor, XorWord, Limbs, Word
<1>2. ToBits(BitXor(a, b)) = Id!Distance(ToBits(a), ToBits(b))
  BY DEF BitXor, XorWord, Limbs, Word, ToBits, Id!Distance, Id!Bit
<1> QED BY <1>1, <1>2

(* The word x of w bits, with the word of zeros and the word of ones. *)
WordBetween(w, z, x, o) ==
    \A i \in 0 .. (w - 1) : z[i] = 0 /\ x[i] \in {0, 1} /\ o[i] = 1

(* Xor with the word of ones is not, and no word is below the word of      *)
(* zeros or above the word of ones.                                        *)
LEMMA WordExtremes ==
    ASSUME NEW w \in Nat, NEW x, NEW o, NEW z, WordBetween(w, z, x, o)
    PROVE  /\ XorWord(w, x, o) = NotWord(w, x)
           /\ ~LessWord(w, x, z) /\ ~LessWord(w, o, x)
<1>1. \A i \in 0 .. (w - 1) : (IF x[i] = o[i] THEN 0 ELSE 1) = 1 - x[i]
  <2> TAKE i \in 0 .. (w - 1)
  <2>1. o[i] = 1 /\ (x[i] = 0 \/ x[i] = 1)
    BY DEF WordBetween
  <2>2. QED
    BY <2>1
<1>2. \A i \in 0 .. (w - 1) : ~(x[i] < z[i]) /\ ~(o[i] < x[i])
  <2> TAKE i \in 0 .. (w - 1)
  <2>1. o[i] = 1 /\ z[i] = 0 /\ (x[i] = 0 \/ x[i] = 1)
    BY DEF WordBetween
  <2>2. QED
    BY <2>1
<1>3. XorWord(w, x, o) = NotWord(w, x)
  BY <1>1, Zenon DEF XorWord, NotWord
<1> QED BY <1>2, <1>3, Zenon DEF LessWord

(* No id is below min or above max, and the two are the farthest apart.    *)
THEOREM Extremes ==
    ASSUME NEW a \in Limbs
    PROVE  /\ BitXor(MinId, MaxId) = MaxId /\ BitXor(a, a) = MinId
           /\ ~LessLimbs(a, MinId) /\ ~LessLimbs(MaxId, a)
           /\ BitXor(a, MaxId) = Not(a)
<1>1. a.ms \in [0 .. 127 -> {0, 1}] /\ a.ls \in [0 .. 31 -> {0, 1}]
  BY LimbType
<1>2. BitXor(MinId, MaxId) = MaxId /\ BitXor(a, a) = MinId
  BY DEF BitXor, XorWord, MaxId, MinId, Not, NotWord, Zero
<1>3. /\ MinId = [ms |-> [i \in 0 .. 127 |-> 0], ls |-> [i \in 0 .. 31 |-> 0]]
      /\ MaxId = [ms |-> [i \in 0 .. 127 |-> 1], ls |-> [i \in 0 .. 31 |-> 1]]
  BY DEF MaxId, MinId, Not, NotWord, Zero
<1>4. (\A i \in 0 .. 127 : a.ms[i] \in {0, 1}) /\ \A i \in 0 .. 31 : a.ls[i] \in {0, 1}
  BY <1>1
<1>min. (\A i \in 0 .. 127 : MinId.ms[i] = 0) /\ \A i \in 0 .. 31 : MinId.ls[i] = 0
  BY <1>3
<1>max. (\A i \in 0 .. 127 : MaxId.ms[i] = 1) /\ \A i \in 0 .. 31 : MaxId.ls[i] = 1
  BY <1>3
<1>5. /\ XorWord(128, a.ms, MaxId.ms) = NotWord(128, a.ms)
      /\ ~LessWord(128, a.ms, MinId.ms) /\ ~LessWord(128, MaxId.ms, a.ms)
  <2>1. WordBetween(128, MinId.ms, a.ms, MaxId.ms)
    BY <1>min, <1>max, <1>4 DEF WordBetween
  <2>2. QED
    BY <2>1, WordExtremes
<1>6. /\ XorWord(32, a.ls, MaxId.ls) = NotWord(32, a.ls)
      /\ ~LessWord(32, a.ls, MinId.ls) /\ ~LessWord(32, MaxId.ls, a.ls)
  <2>1. WordBetween(32, MinId.ls, a.ls, MaxId.ls)
    BY <1>min, <1>max, <1>4 DEF WordBetween
  <2>2. QED
    BY <2>1, WordExtremes
<1>7. BitXor(a, MaxId) = Not(a)
  BY <1>5, <1>6 DEF BitXor, Not
<1> QED BY <1>2, <1>5, <1>6, <1>7 DEF LessLimbs

(* get_bit reads the bit of its index, and none past the last one. *)
THEOREM GetBitByLimbs ==
    ASSUME NEW a \in Limbs, NEW i \in 0 .. 255
    PROVE  TestBit(a, i) <=> Id!GetBit(ToBits(a), i)
<1>1. a.ms \in [0 .. 127 -> {0, 1}] /\ a.ls \in [0 .. 31 -> {0, 1}]
  BY LimbType
<1>2. CASE i >= 160
  BY <1>2 DEF TestBit, Id!GetBit, Id!Bit
<1>3. CASE i >= 128 /\ i < 160
  <2>1. TestBit(a, i) <=> AndWord(32, ShlWord(32, One(32), 32 - 1 - (i - 128)), a.ls) # Zero(32)
    BY <1>3 DEF TestBit
  <2>2. i - 128 \in 0 .. (32 - 1) /\ a.ls \in [0 .. (32 - 1) -> {0, 1}]
    BY <1>1, <1>3
  <2>3. TestBit(a, i) <=> a.ls[i - 128] = 1
    BY <2>1, <2>2, MaskPicks
  <2>4. i \in Id!Bit /\ ToBits(a)[i] = a.ls[i - 128]
    BY <1>3 DEF ToBits, Id!Bit
  <2> QED BY <2>3, <2>4 DEF Id!GetBit
<1>4. CASE i < 128
  <2>1. TestBit(a, i) <=> AndWord(128, ShlWord(128, One(128), 128 - 1 - i), a.ms) # Zero(128)
    BY <1>4 DEF TestBit
  <2>2. i \in 0 .. (128 - 1) /\ a.ms \in [0 .. (128 - 1) -> {0, 1}]
    BY <1>1, <1>4
  <2>3. TestBit(a, i) <=> a.ms[i] = 1
    BY <2>1, <2>2, MaskPicks
  <2>4. i \in Id!Bit /\ ToBits(a)[i] = a.ms[i]
    BY <1>4 DEF ToBits, Id!Bit
  <2> QED BY <2>3, <2>4 DEF Id!GetBit
<1> QED BY <1>2, <1>3, <1>4

(* The derived order of the struct is the order of the 160-bit numbers. *)
THEOREM OrderByLimbs ==
    ASSUME NEW a \in Limbs, NEW b \in Limbs
    PROVE  LessLimbs(a, b) <=> Id!Less(ToBits(a), ToBits(b))
<1>1. ASSUME LessWord(128, a.ms, b.ms) PROVE Id!Less(ToBits(a), ToBits(b))
  <2>1. PICK i \in 0 .. (128 - 1) :
            a.ms[i] < b.ms[i] /\ \A j \in 0 .. (i - 1) : a.ms[j] = b.ms[j]
    BY <1>1, Zenon DEF LessWord
  <2>2. i \in Id!Bit /\ ToBits(a)[i] < ToBits(b)[i]
    BY <2>1 DEF Id!Bit, ToBits
  <2>3. \A j \in 0 .. (i - 1) : ToBits(a)[j] = ToBits(b)[j]
    BY <2>1 DEF ToBits
  <2> QED BY <2>2, <2>3 DEF Id!Less
<1>2. ASSUME a.ms = b.ms, LessWord(32, a.ls, b.ls)
      PROVE  Id!Less(ToBits(a), ToBits(b))
  <2>1. PICK i \in 0 .. (32 - 1) :
            a.ls[i] < b.ls[i] /\ \A j \in 0 .. (i - 1) : a.ls[j] = b.ls[j]
    BY <1>2, Zenon DEF LessWord
  <2>2. i + 128 \in Id!Bit /\ ToBits(a)[i + 128] < ToBits(b)[i + 128]
    BY <2>1 DEF Id!Bit, ToBits
  <2>3. \A j \in 0 .. (i + 128 - 1) : ToBits(a)[j] = ToBits(b)[j]
    BY <1>2, <2>1, SMTT(30) DEF ToBits
  <2> QED BY <2>2, <2>3 DEF Id!Less
<1>3. ASSUME Id!Less(ToBits(a), ToBits(b)) PROVE LessLimbs(a, b)
  <2>1. PICK i \in 0 .. 159 : /\ ToBits(a)[i] < ToBits(b)[i]
                              /\ \A j \in 0 .. (i - 1) : ToBits(a)[j] = ToBits(b)[j]
    BY <1>3, ZenonT(30) DEF Id!Less, Id!Bit
  <2>2. CASE i < 128
    <3>1. i \in 0 .. (128 - 1) /\ a.ms[i] < b.ms[i]
      BY <2>1, <2>2 DEF ToBits
    <3>2. \A j \in 0 .. (i - 1) : a.ms[j] = b.ms[j]
      <4> TAKE j \in 0 .. (i - 1)
      <4>1. ToBits(a)[j] = ToBits(b)[j]
        BY <2>1
      <4> QED BY <4>1, <2>2 DEF ToBits
    <3>3. LessWord(128, a.ms, b.ms)
      BY <3>1, <3>2, Zenon DEF LessWord
    <3> QED BY <3>3 DEF LessLimbs
  <2>3. CASE i >= 128
    <3>1. \A j \in 0 .. 127 : a.ms[j] = b.ms[j]
      <4> TAKE j \in 0 .. 127
      <4>1. j \in 0 .. (i - 1)
        BY <2>3
      <4>2. ToBits(a)[j] = ToBits(b)[j]
        BY <2>1, <4>1
      <4> QED BY <4>2 DEF ToBits
    <3>2. a.ms = b.ms
      BY <3>1 DEF Limbs, Word
    <3>3. \A j \in 0 .. (i - 128 - 1) : a.ls[j] = b.ls[j]
      <4> TAKE j \in 0 .. (i - 128 - 1)
      <4>1. j + 128 \in 0 .. (i - 1)
        BY <2>3
      <4>2. ToBits(a)[j + 128] = ToBits(b)[j + 128]
        BY <2>1, <4>1
      <4> QED BY <4>2, <2>3 DEF ToBits
    <3>4. a.ls[i - 128] < b.ls[i - 128]
      BY <2>1, <2>3 DEF ToBits
    <3> QED BY <2>3, <3>2, <3>3, <3>4 DEF LessLimbs, LessWord
  <2> QED BY <2>2, <2>3
<1> QED BY <1>1, <1>2, <1>3 DEF LessLimbs

(* from_be_bytes undoes to_be_bytes. *)
LEMMA BytesRoundTrip ==
    ASSUME NEW a \in Limbs
    PROVE  FromBits(ToBits(a)) = a
<1>1. FromBits(ToBits(a)).ms = a.ms
  BY DEF FromBits, ToBits, Limbs, Word
<1>2. FromBits(ToBits(a)).ls = a.ls
  BY DEF FromBits, ToBits, Limbs, Word
<1>3. a = [ms |-> a.ms, ls |-> a.ls]
  BY DEF Limbs
<1> QED BY <1>1, <1>2, <1>3 DEF FromBits

(* The bits of a shifted word.  The index p of the source bit is a name of *)
(* its own, so that a use need not compute it.                             *)
LEMMA ShlAt ==
    /\ \A x : \A k, p \in Int : \A i \in 0 .. 127 :
           p = i + k => ShlWord(128, x, k)[i] = IF p < 128 THEN x[p] ELSE 0
    /\ \A x : \A k, p \in Int : \A i \in 0 .. 31 :
           p = i + k => ShlWord(32, x, k)[i] = IF p < 32 THEN x[p] ELSE 0
BY DEF ShlWord

LEMMA ShrAt ==
    /\ \A x : \A k, p \in Int : \A i \in 0 .. 127 :
           p = i - k => ShrWord(128, x, k)[i] = IF p >= 0 THEN x[p] ELSE 0
    /\ \A x : \A k, p \in Int : \A i \in 0 .. 31 :
           p = i - k => ShrWord(32, x, k)[i] = IF p >= 0 THEN x[p] ELSE 0
BY DEF ShrWord

(* What >> puts into the lower limb from the upper one. *)
LEMMA CarryDownAt ==
    \A x : \A k, p \in Int : \A i \in 0 .. 31 :
        k \in 0 .. 254 /\ p = i + 128 - k =>
            CarryDown(x, k)[i] = IF p >= 0 /\ p < 128 THEN x[p] ELSE 0
<1> SUFFICES ASSUME NEW x, NEW k \in 0 .. 254, NEW i \in 0 .. 31, NEW p \in Int, p = i + 128 - k
             PROVE  CarryDown(x, k)[i] = IF p >= 0 /\ p < 128 THEN x[p] ELSE 0
  BY ZenonT(30)
<1> DEFINE s == AtMost(k, 127)
           y == ShlWord(128, x, 127 - s)
           z == ShrWord(128, y, k - s)
<1>1. s \in 0 .. 127 /\ s <= k /\ (s < k => s = 127) /\ 127 - s \in Int /\ k - s \in Int
  BY DEF AtMost
<1>2. CarryDown(x, k) = AsU32(ShrWord(128, z, 95))
  BY DEF CarryDown
<1> HIDE DEF s
<1>3. PICK q \in Int : q = (i + 1) - (k - s)
  BY <1>1
<1>4. p = q + (127 - s) /\ q <= 32
  BY <1>1, <1>3
<1>5. z[i + 1] = IF q >= 0 THEN y[q] ELSE 0
  <2>1. i + 1 \in 0 .. 127
    OBVIOUS
  <2> HIDE DEF y
  <2> QED BY <2>1, <1>1, <1>3, ShrAt DEF z
<1>6. q >= 0 => y[q] = IF p < 128 THEN x[p] ELSE 0
  <2> HAVE q >= 0
  <2>1. q \in 0 .. 127
    BY <1>4
  <2> QED BY <2>1, <1>1, <1>4, ShlAt DEF y
<1> HIDE DEF y, z
<1>7. AsU32(ShrWord(128, z, 95))[i] = z[i + 1]
  <2>1. AsU32(ShrWord(128, z, 95))[i] = ShrWord(128, z, 95)[i + 96]
    BY DEF AsU32
  <2>2. i + 96 \in 0 .. 127 /\ i + 1 = (i + 96) - 95 /\ i + 1 \in Int /\ i + 1 >= 0
    OBVIOUS
  <2>3. ShrWord(128, z, 95)[i + 96] = z[i + 1]
    BY <2>2, ShrAt
  <2> QED BY <2>1, <2>3
<1>8. z[i + 1] = IF p >= 0 /\ p < 128 THEN x[p] ELSE 0
  BY <1>1, <1>3, <1>4, <1>5, <1>6
<1> QED BY <1>2, <1>7, <1>8, SMTT(30)

(* >> by less than 255 shifts the 160 bits as a whole.  By 255 the shift   *)
(* of msbytes by msremain = 128 overflows.                                 *)
THEOREM ShrByLimbs ==
    ASSUME NEW a \in Limbs, NEW rhs \in 0 .. 254, NEW i \in 0 .. 159
    PROVE  ToBits(Shr(a, rhs))[i] = ShrBits(ToBits(a), rhs)[i]
<1>1. PICK x, y : a.ms = x /\ a.ls = y
  OBVIOUS
<1>t. x \in [0 .. 127 -> {0, 1}] /\ y \in [0 .. 31 -> {0, 1}]
  BY <1>1, LimbType
<1>2. PICK p \in Int : p = i - rhs
  OBVIOUS
<1>3. ShrBits(ToBits(a), rhs)[i] = IF p >= 0 THEN ToBits(a)[p] ELSE 0
  BY <1>2 DEF ShrBits
<1>4. PICK q \in Int : q = p - 128
  OBVIOUS
<1>5. p >= 0 => ToBits(a)[p] = IF p < 128 THEN x[p] ELSE y[q]
  <2>1. p >= 0 => p \in 0 .. 159
    BY <1>2
  <2> QED BY <2>1, <1>1, <1>4 DEF ToBits
<1>6. CASE i < 128
  <2> DEFINE m == IF rhs > 127 THEN Zero(128) ELSE ShrWord(128, x, rhs)
  <2>1. i \in 0 .. 127 /\ rhs \in Int
    BY <1>6
  <2>2. ToBits(Shr(a, rhs))[i] = m[i]
    BY <1>1, <1>6 DEF ToBits, Shr
  <2>3. Zero(128)[i] = 0
    BY <2>1 DEF Zero
  <2>4. ShrWord(128, x, rhs)[i] = IF p >= 0 THEN x[p] ELSE 0
    BY <2>1, <1>2, ShrAt, SMTT(30)
  <2> QED BY <2>1, <2>2, <2>3, <2>4, <1>2, <1>3, <1>5
<1>7. CASE i >= 128
  <2> DEFINE o == CarryDown(x, rhs)
             l == IF rhs > 31 THEN Zero(32) ELSE ShrWord(32, y, rhs)
  <2>1. PICK j \in 0 .. 31 : j = i - 128
    BY <1>7
  <2>2. p = j + 128 - rhs /\ q = j - rhs /\ rhs \in Int
    BY <2>1, <1>2, <1>4
  <2>3. o[j] = IF p >= 0 /\ p < 128 THEN x[p] ELSE 0
    BY <2>2, CarryDownAt
  <2>4. l[j] = IF q >= 0 THEN y[q] ELSE 0
    <3>1. Zero(32)[j] = 0
      BY DEF Zero
    <3>2. ShrWord(32, y, rhs)[j] = IF q >= 0 THEN y[q] ELSE 0
      BY <2>2, ShrAt
    <3> QED BY <3>1, <3>2, <2>2
  <2>5. Shr(a, rhs).ls = OrWord(32, l, o)
    BY <1>1 DEF Shr
  <2> HIDE DEF l, o
  <2>6. ToBits(Shr(a, rhs))[i] = OrWord(32, l, o)[j]
    BY <2>1, <2>5, <1>7 DEF ToBits
  <2>7. OrWord(32, l, o)[j] = IF l[j] = 1 \/ o[j] = 1 THEN 1 ELSE 0
    BY DEF OrWord
  <2>8. p \in 0 .. 127 => x[p] \in {0, 1}
    BY <1>t
  <2>9. q \in 0 .. 31 => y[q] \in {0, 1}
    BY <1>t
  <2> QED BY <2>3, <2>4, <2>6, <2>7, <2>8, <2>9, <1>2, <1>3, <1>4, <1>5
<1> QED BY <1>6, <1>7

(* << by less than 32 shifts the 160 bits as a whole; by 32 and more it    *)
(* clears the bit that comes from the last bit of lsbytes.                 *)
THEOREM ShlByLimbs ==
    ASSUME NEW a \in Limbs, NEW rhs \in 0 .. 255, NEW i \in 0 .. 159
    PROVE  ToBits(Shl(a, rhs))[i] =
               IF rhs >= 32 /\ i + rhs = 159 THEN 0 ELSE ShlBits(ToBits(a), rhs)[i]
<1>1. PICK x, y : a.ms = x /\ a.ls = y
  OBVIOUS
<1>t. x \in [0 .. 127 -> {0, 1}] /\ y \in [0 .. 31 -> {0, 1}]
  BY <1>1, LimbType
<1>2. PICK p \in Int : p = i + rhs
  OBVIOUS
<1>3. PICK q \in Int : q = p - 128
  OBVIOUS
<1>4. ShlBits(ToBits(a), rhs)[i] = IF p < 160 THEN ToBits(a)[p] ELSE 0
  BY <1>2 DEF ShlBits
<1>5. p < 160 => ToBits(a)[p] = IF p < 128 THEN x[p] ELSE y[q]
  <2>1. p < 160 => p \in 0 .. 159
    BY <1>2
  <2> QED BY <2>1, <1>1, <1>3 DEF ToBits
<1>6. CASE i >= 128
  <2> DEFINE l == IF rhs > 31 THEN Zero(32) ELSE ShlWord(32, y, rhs)
  <2>1. PICK j \in 0 .. 31 : j = i - 128
    BY <1>6
  <2>2. ToBits(Shl(a, rhs))[i] = l[j]
    BY <1>1, <1>6, <2>1 DEF ToBits, Shl
  <2>3. q = j + rhs /\ rhs \in Int
    BY <2>1, <1>2, <1>3
  <2>4. Zero(32)[j] = 0
    BY DEF Zero
  <2>5. ShlWord(32, y, rhs)[j] = IF q < 32 THEN y[q] ELSE 0
    BY <2>3, ShlAt
  <2> QED BY <2>2, <2>3, <2>4, <2>5, <1>2, <1>3, <1>4, <1>5, <1>6
<1>7. CASE i < 128
  <2> DEFINE o == CarryUp(y, rhs)
             m == IF rhs > 127 THEN Zero(128) ELSE ShlWord(128, x, rhs)
  <2>1. i \in 0 .. 127 /\ q = i + rhs - 128 /\ rhs \in Int
    BY <1>2, <1>3, <1>7
  <2>2. o[i] = IF q >= 0 /\ (q < 31 \/ (q = 31 /\ rhs < 32)) THEN y[q] ELSE 0
    <3> DEFINE s == AtMost(rhs, 31)
               u == ShrWord(32, y, 32 - s)
               z == AsU128(u)
    <3>1. s \in 0 .. 31 /\ s <= rhs /\ (s < rhs => s = 31) /\ 32 - s \in Int /\ rhs - s \in Int
      BY DEF AtMost
    <3>2. o = IF s = 0 \/ rhs - s > 127 THEN Zero(128) ELSE ShlWord(128, z, rhs - s)
      BY DEF CarryUp
    <3> HIDE DEF o, s
    <3>3. CASE s = 0 \/ rhs - s > 127
      <4>1. o[i] = 0
        BY <2>1, <3>2, <3>3 DEF Zero
      <4>2. ~(q >= 0 /\ (q < 31 \/ (q = 31 /\ rhs < 32)))
        BY <2>1, <3>1, <3>3
      <4> QED BY <4>1, <4>2
    <3>4. CASE ~(s = 0 \/ rhs - s > 127)
      <4>1. PICK c \in Int : c = i + (rhs - s)
        BY <3>1
      <4>2. PICK d \in Int : d = c - 96
        OBVIOUS
      <4>3. ShlWord(128, z, rhs - s)[i] = IF c < 128 THEN z[c] ELSE 0
        <5> HIDE DEF z
        <5> QED BY <2>1, <3>1, <4>1, ShlAt, SMTT(30)
      <4>4. c < 128 => z[c] = IF c < 96 THEN 0 ELSE u[d]
        <5> HIDE DEF u
        <5>1. c >= 0
          BY <3>1, <4>1
        <5> QED BY <5>1, <4>2 DEF AsU128
      <4>5. c < 128 /\ c >= 96 => u[d] = IF q >= 0 THEN y[q] ELSE 0
        <5> HAVE c < 128 /\ c >= 96
        <5>1. d \in 0 .. 31 /\ q = d - (32 - s)
          BY <2>1, <3>1, <4>1, <4>2
        <5> QED BY <5>1, <3>1, ShrAt DEF u
      <4> HIDE DEF u, z
      <4> QED BY <2>1, <3>1, <3>2, <3>4, <4>1, <4>2, <4>3, <4>4, <4>5
    <3> QED BY <3>3, <3>4
  <2>3. m[i] = IF p < 128 THEN x[p] ELSE 0
    <3>1. Zero(128)[i] = 0
      BY <2>1 DEF Zero
    <3>2. ShlWord(128, x, rhs)[i] = IF p < 128 THEN x[p] ELSE 0
      BY <2>1, <1>2, ShlAt, SMTT(30)
    <3> QED BY <3>1, <3>2, <1>2, <2>1
  <2>4. Shl(a, rhs).ms = OrWord(128, m, o)
    BY <1>1 DEF Shl
  <2> HIDE DEF m, o
  <2>5. ToBits(Shl(a, rhs))[i] = OrWord(128, m, o)[i]
    BY <2>1, <2>4 DEF ToBits
  <2>6. OrWord(128, m, o)[i] = IF m[i] = 1 \/ o[i] = 1 THEN 1 ELSE 0
    BY <2>1 DEF OrWord
  <2>7. p \in 0 .. 127 => x[p] \in {0, 1}
    BY <1>t
  <2>8. q \in 0 .. 31 => y[q] \in {0, 1}
    BY <1>t
  <2> QED BY <2>2, <2>3, <2>5, <2>6, <2>7, <2>8, <1>2, <1>3, <1>4, <1>5
<1> QED BY <1>6, <1>7

(* The bits that the mask of validate compares are the first 21 and the    *)
(* last 3.                                                                 *)
THEOREM FilterByLimbs ==
    ASSUME NEW a \in Limbs, NEW b \in Limbs
    PROVE  BitAnd(a, Filter) = BitAnd(b, Filter) <=>
               /\ \A i \in 0 .. 20 : a.ms[i] = b.ms[i]
               /\ \A i \in 29 .. 31 : a.ls[i] = b.ls[i]
<1>1. /\ a.ms \in [0 .. 127 -> {0, 1}] /\ a.ls \in [0 .. 31 -> {0, 1}]
      /\ b.ms \in [0 .. 127 -> {0, 1}] /\ b.ls \in [0 .. 31 -> {0, 1}]
  BY LimbType
<1> DEFINE m(x) == [i \in 0 .. 127 |-> IF i <= 20 /\ x[i] = 1 THEN 1 ELSE 0]
           l(x) == [i \in 0 .. 31 |-> IF i >= 29 /\ x[i] = 1 THEN 1 ELSE 0]
<1>2. \A x : AndWord(128, x, Mask(128, 0 .. 20)) = m(x)
  BY DEF AndWord, Mask
<1>3. \A x : AndWord(32, x, Mask(32, 29 .. 31)) = l(x)
  BY DEF AndWord, Mask
<1>4. BitAnd(a, Filter) = BitAnd(b, Filter) <=> m(a.ms) = m(b.ms) /\ l(a.ls) = l(b.ls)
  <2>1. BitAnd(a, Filter) = BitAnd(b, Filter) <=>
            /\ AndWord(128, a.ms, Mask(128, 0 .. 20)) = AndWord(128, b.ms, Mask(128, 0 .. 20))
            /\ AndWord(32, a.ls, Mask(32, 29 .. 31)) = AndWord(32, b.ls, Mask(32, 29 .. 31))
    BY DEF BitAnd, Filter
  <2> HIDE DEF m, l
  <2> QED BY <1>2, <1>3, <2>1
<1>5. m(a.ms) = m(b.ms) <=> \A i \in 0 .. 20 : a.ms[i] = b.ms[i]
  <2>1. ASSUME m(a.ms) = m(b.ms), NEW i \in 0 .. 20 PROVE a.ms[i] = b.ms[i]
    <3>1. m(a.ms)[i] = m(b.ms)[i] /\ i \in 0 .. 127
      BY <2>1
    <3>2. a.ms[i] \in {0, 1} /\ b.ms[i] \in {0, 1}
      BY <1>1
    <3> QED BY <3>1, <3>2
  <2>2. ASSUME \A i \in 0 .. 20 : a.ms[i] = b.ms[i] PROVE m(a.ms) = m(b.ms)
    BY <2>2
  <2> QED BY <2>1, <2>2
<1>6. l(a.ls) = l(b.ls) <=> \A i \in 29 .. 31 : a.ls[i] = b.ls[i]
  <2>1. ASSUME l(a.ls) = l(b.ls), NEW i \in 29 .. 31 PROVE a.ls[i] = b.ls[i]
    <3>1. l(a.ls)[i] = l(b.ls)[i] /\ i \in 0 .. 31
      BY <2>1
    <3>2. a.ls[i] \in {0, 1} /\ b.ls[i] \in {0, 1}
      BY <1>1
    <3> QED BY <3>1, <3>2
  <2>2. ASSUME \A i \in 29 .. 31 : a.ls[i] = b.ls[i] PROVE l(a.ls) = l(b.ls)
    BY <2>2
  <2> QED BY <2>1, <2>2
<1> QED BY <1>4, <1>5, <1>6

(* from_ip_with_r puts 21 bits of the checksum first and 3 bits of r last. *)
LEMMA FromIpBits ==
    ASSUME NEW pfx \in Word(32), NEW r \in Word(32), NEW rnd \in Limbs
    PROVE  /\ FromIpWithR(pfx, r, rnd) \in Limbs
           /\ \A i \in 0 .. 20 : FromIpWithR(pfx, r, rnd).ms[i] = pfx[i]
           /\ \A i \in 29 .. 31 : FromIpWithR(pfx, r, rnd).ls[i] = r[i]
<1> DEFINE f == FromIpWithR(pfx, r, rnd)
           x == AsU128(AndWord(32, pfx, Mask(32, 0 .. 20)))
           y == ShlWord(128, x, 96)
<1>1. f \in Limbs
  BY DEF FromIpWithR, OrWord, Limbs, Word
<1>2. \A i \in 0 .. 20 : f.ms[i] = pfx[i]
  <2> TAKE i \in 0 .. 20
  <2>1. x[i + 96] = IF pfx[i] = 1 THEN 1 ELSE 0
    BY DEF AsU128, AndWord, Mask
  <2>2. y[i] = x[i + 96]
    <3> HIDE DEF x
    <3> QED BY DEF ShlWord
  <2> HIDE DEF x, y
  <2>3. AndWord(128, rnd.ms, Mask(128, 21 .. 127))[i] = 0
    BY DEF AndWord, Mask
  <2>4. f.ms[i] = IF AndWord(128, rnd.ms, Mask(128, 21 .. 127))[i] = 1 \/ y[i] = 1 THEN 1 ELSE 0
    BY DEF FromIpWithR, OrWord, y, x
  <2>5. pfx[i] \in {0, 1}
    BY DEF Word
  <2> QED BY <2>1, <2>2, <2>3, <2>4, <2>5
<1>3. \A i \in 29 .. 31 : f.ls[i] = r[i]
  <2> TAKE i \in 29 .. 31
  <2>1. f.ls[i] = IF r[i] = 1 THEN 1 ELSE 0
    BY DEF FromIpWithR, OrWord, AndWord, Mask
  <2>2. r[i] \in {0, 1}
    BY DEF Word
  <2> QED BY <2>1, <2>2
<1> QED BY <1>1, <1>2, <1>3

(* An id that from_ip makes passes validate for the same address, whatever *)
(* random bits the two calls draw.                                         *)
THEOREM OwnIdValid ==
    ASSUME NEW crc \in [Word(32) -> Word(32)], NEW rnd \in Limbs, NEW other \in Limbs,
           NEW r \in Word(32), AndWord(32, r, Mask(32, 29 .. 31)) = r
    PROVE  ValidateLimbs(FromIpWithR(crc[r], r, rnd), crc, other)
<1> DEFINE a == FromIpWithR(crc[r], r, rnd)
           q == AndWord(32, a.ls, Mask(32, 29 .. 31))
<1>1. crc[r] \in Word(32)
  OBVIOUS
<1>2. a \in Limbs /\ (\A i \in 0 .. 20 : a.ms[i] = crc[r][i]) /\ \A i \in 29 .. 31 : a.ls[i] = r[i]
  BY <1>1, FromIpBits
<1> HIDE DEF a
<1>3. q = r
  <2>1. q = [i \in 0 .. 31 |-> IF i >= 29 /\ a.ls[i] = 1 THEN 1 ELSE 0]
    BY DEF AndWord, Mask
  <2>2. r = [i \in 0 .. 31 |-> IF i >= 29 /\ r[i] = 1 THEN 1 ELSE 0]
    BY DEF AndWord, Mask
  <2>3. \A i \in 0 .. 31 : i >= 29 => a.ls[i] = r[i]
    BY <1>2
  <2>4. [i \in 0 .. 31 |-> IF i >= 29 /\ a.ls[i] = 1 THEN 1 ELSE 0] =
        [i \in 0 .. 31 |-> IF i >= 29 /\ r[i] = 1 THEN 1 ELSE 0]
    BY <2>3
  <2> QED BY <2>1, <2>2, <2>4, Zenon
<1> DEFINE b == FromIpWithR(crc[r], r, other)
<1>4. b \in Limbs /\ (\A i \in 0 .. 20 : b.ms[i] = crc[r][i]) /\ \A i \in 29 .. 31 : b.ls[i] = r[i]
  BY <1>1, FromIpBits
<1> HIDE DEF b
<1>5. BitAnd(a, Filter) = BitAnd(b, Filter)
  <2>1. (\A i \in 0 .. 20 : a.ms[i] = b.ms[i]) /\ \A i \in 29 .. 31 : a.ls[i] = b.ls[i]
    BY <1>2, <1>4, Zenon
  <2> QED BY <2>1, <1>2, <1>4, FilterByLimbs
<1> QED BY <1>3, <1>5 DEF ValidateLimbs, a, b
(* n.id | next_highest, the id that infohash_sweep asks a node about, is   *)
(* the highest one that agrees with the node in the first 21 bits: no      *)
(* id below it is skipped and none above it is asked for.                  *)
THEOREM SampleTargetHighest ==
    ASSUME NEW a \in Limbs, NEW b \in Limbs
    PROVE  /\ SampleTarget(a) \in Limbs
           /\ \A i \in 0 .. 20 : SampleTarget(a).ms[i] = a.ms[i]
           /\ (\A i \in 0 .. 20 : b.ms[i] = a.ms[i]) => ~LessLimbs(SampleTarget(a), b)
<1> DEFINE t == SampleTarget(a)
<1>1. /\ a.ms \in [0 .. 127 -> {0, 1}] /\ a.ls \in [0 .. 31 -> {0, 1}]
      /\ b.ms \in [0 .. 127 -> {0, 1}] /\ b.ls \in [0 .. 31 -> {0, 1}]
  BY LimbType
<1>2. t \in Limbs
  BY DEF SampleTarget, BitOr, OrWord, Limbs, Word
<1>3. /\ \A i \in 0 .. 127 : t.ms[i] = IF i >= 21 THEN 1 ELSE a.ms[i]
      /\ \A i \in 0 .. 31 : t.ls[i] = 1
  BY <1>1 DEF SampleTarget, BitOr, OrWord, NextHighest, Mask
<1> HIDE DEF t
<1>4. ASSUME \A i \in 0 .. 20 : b.ms[i] = a.ms[i] PROVE ~LessLimbs(t, b)
  <2>1. \A i \in 0 .. 127 : ~(t.ms[i] < b.ms[i])
    <3> TAKE i \in 0 .. 127
    <3>1. b.ms[i] \in {0, 1}
      BY <1>1
    <3>2. CASE i >= 21
      BY <3>1, <3>2, <1>3
    <3>3. CASE i \in 0 .. 20
      <4>1. t.ms[i] = b.ms[i]
        BY <3>3, <1>3, <1>4
      <4> QED BY <4>1, <3>1
    <3> QED BY <3>2, <3>3
  <2>2. \A i \in 0 .. 31 : ~(t.ls[i] < b.ls[i])
    BY <1>1, <1>3
  <2>3. ~LessWord(128, t.ms, b.ms)
    <3> SUFFICES ASSUME NEW i \in 0 .. (128 - 1), t.ms[i] < b.ms[i] PROVE FALSE
      BY Zenon DEF LessWord
    <3> QED BY <2>1, i \in 0 .. 127
  <2>4. ~LessWord(32, t.ls, b.ls)
    <3> SUFFICES ASSUME NEW i \in 0 .. (32 - 1), t.ls[i] < b.ls[i] PROVE FALSE
      BY Zenon DEF LessWord
    <3> QED BY <2>2
  <2> QED BY <2>3, <2>4 DEF LessLimbs
<1>5. \A i \in 0 .. 20 : t.ms[i] = a.ms[i]
  BY <1>3
<1> QED BY <1>2, <1>4, <1>5 DEF t
=============================================================================
