---------------------------- MODULE BucketProofs ----------------------------
(***************************************************************************)
(* Safety of the chain of buckets, for every width of the identifiers,     *)
(* every k_size, every set of nodes and every set of tasks.                *)
(***************************************************************************)
EXTENDS BucketLookup, SequenceTheorems, FiniteSetTheorems, TLAPS

-----------------------------------------------------------------------------
(* Sequences and identifiers *)

(* Vec::remove takes one element out and keeps the order of the others. *)
LEMMA RemoveAtLemma ==
    ASSUME NEW S, NEW s \in Seq(S), NEW p \in 1 .. Len(s)
    PROVE  /\ RemoveAt(s, p) \in Seq(S)
           /\ Len(RemoveAt(s, p)) = Len(s) - 1
           /\ \A q \in 1 .. (Len(s) - 1) :
                 RemoveAt(s, p)[q] = IF q < p THEN s[q] ELSE s[q + 1]
<1> DEFINE a == SubSeq(s, 1, p - 1)
           b == SubSeq(s, p + 1, Len(s))
<1>1. /\ a \in Seq(S) /\ Len(a) = p - 1
      /\ \A q \in 1 .. (p - 1) : a[q] = s[q]
  BY SubSeqProperties
<1>2. /\ b \in Seq(S) /\ Len(b) = Len(s) - p
      /\ \A q \in 1 .. (Len(s) - p) : b[q] = s[p + q]
  BY SubSeqProperties
<1>3. RemoveAt(s, p) = a \o b
  BY DEF RemoveAt
<1> HIDE DEF a, b
<1>4. Len(s) \in Nat
  BY LenProperties
<1>5. /\ a \o b \in Seq(S)
      /\ Len(a \o b) = Len(a) + Len(b)
      /\ \A q \in 1 .. (Len(a) + Len(b)) :
            (a \o b)[q] = IF q <= Len(a) THEN a[q] ELSE b[q - Len(a)]
  BY <1>1, <1>2, ConcatProperties
<1>6. ASSUME NEW q \in 1 .. (Len(s) - 1)
      PROVE  (a \o b)[q] = IF q < p THEN s[q] ELSE s[q + 1]
  BY <1>1, <1>2, <1>4, <1>5
<1>7. QED
  BY <1>1, <1>2, <1>3, <1>4, <1>5, <1>6

(* Vec::swap_remove fills the gap with the last element. *)
LEMMA SwapRemoveLemma ==
    ASSUME NEW S, NEW s \in Seq(S), NEW p \in 1 .. Len(s)
    PROVE  /\ SwapRemove(s, p) \in Seq(S)
           /\ Len(SwapRemove(s, p)) = Len(s) - 1
           /\ \A q \in 1 .. (Len(s) - 1) :
                 SwapRemove(s, p)[q] = IF q = p THEN s[Len(s)] ELSE s[q]
<1> DEFINE r == [s EXCEPT ![p] = s[Len(s)]]
<1>1. r \in Seq(S) /\ Len(r) = Len(s)
  BY ExceptSeq, ElementOfSeq, LenProperties
<1>2. \A q \in 1 .. Len(s) : r[q] = IF q = p THEN s[Len(s)] ELSE s[q]
  BY LenProperties
<1>3. SwapRemove(s, p) = SubSeq(r, 1, Len(r) - 1)
  BY <1>1 DEF SwapRemove, Front, ReplaceAt, Last
<1> HIDE DEF r
<1>4. Len(s) \in Nat /\ Len(s) >= 1
  BY LenProperties
<1>5. QED
  BY <1>1, <1>2, <1>3, <1>4, SubSeqProperties

(* belongs_here asks whether bit bucket_index of the id differs. *)
LEMMA BelongsLemma ==
    ASSUME NEW i \in Index, NEW id \in U160Type
    PROVE  BelongsHere(i, id) <=> id[i] # OwnId[i]
  BY DEF BelongsHere, GetBit, Distance, Index, MAX_BUCKET_INDEX, Bit

(* An id that does not belong in a bucket shares one more bit of prefix. *)
LEMMA PrefixLemma ==
    ASSUME NEW i \in Index, NEW id \in U160Type,
           SharesPrefix(i, id), ~BelongsHere(i, id)
    PROVE  SharesPrefix(i + 1, id)
  BY BelongsLemma, MaxBitAssumption DEF SharesPrefix, Index, MAX_BUCKET_INDEX

-----------------------------------------------------------------------------
(* add_or_update *)

(* The bump moves position k to the end, L, and permutes the positions. *)
LEMMA BumpLemma ==
    ASSUME NEW L \in Nat, NEW k \in 1 .. L, NEW p \in 1 .. L, NEW q \in 1 .. L,
           (IF p = L THEN k ELSE IF p < k THEN p ELSE p + 1)
             = (IF q = L THEN k ELSE IF q < k THEN q ELSE q + 1)
    PROVE  p = q
  OBVIOUS

DistinctIds(s) == \A p, q \in DOMAIN s : s[p].id = s[q].id => p = q

(* add_or_update keeps a bucket within k_size and its ids distinct, and    *)
(* stores nothing but what was there and the new node.                     *)
LEMMA AddOrUpdateLemma ==
    ASSUME NEW s \in Seq(Node), DistinctIds(s), Len(s) <= KSize, NEW n \in Node
    PROVE  LET r == AddOrUpdate(s, n)
           IN  /\ r \in Seq(Node)
               /\ DistinctIds(r)
               /\ Len(r) <= KSize
               /\ \A q \in DOMAIN r : r[q] = n \/ \E p \in DOMAIN s : r[q] = s[p]
<1> DEFINE P == {p \in 1 .. Len(s) : s[p].id = n.id}
           r == AddOrUpdate(s, n)
<1>0. Len(s) \in Nat /\ DOMAIN s = 1 .. Len(s)
  BY LenProperties
<1>1. CASE P = {}
  <2>1. r = IF Len(s) < KSize THEN Append(s, n) ELSE s
    BY <1>1 DEF AddOrUpdate, LastPosition, SelectLastInSeq
  <2>2. CASE Len(s) < KSize
    <3>1. /\ r \in Seq(Node) /\ Len(r) = Len(s) + 1
          /\ r[Len(s) + 1] = n
          /\ \A q \in 1 .. Len(s) : r[q] = s[q]
          /\ DOMAIN r = 1 .. (Len(s) + 1)
      BY <2>1, <2>2, AppendProperties, LenProperties
    <3> HIDE DEF r
    <3>2. \A q \in 1 .. Len(s) : s[q].id # n.id
      BY <1>1
    <3>3. ASSUME NEW p \in DOMAIN r, NEW q \in DOMAIN r, r[p].id = r[q].id
          PROVE  p = q
      <4>1. CASE p \in 1 .. Len(s) /\ q \in 1 .. Len(s)
        BY <1>0, <3>1, <3>3, <4>1 DEF DistinctIds
      <4>2. CASE p = Len(s) + 1 \/ q = Len(s) + 1
        BY <1>0, <3>1, <3>2, <3>3, <4>2
      <4>3. QED
        BY <1>0, <3>1, <4>1, <4>2
    <3>4. \A q \in DOMAIN r : r[q] = n \/ \E p \in DOMAIN s : r[q] = s[p]
      BY <1>0, <3>1
    <3>5. Len(r) <= KSize
      BY <1>0, <2>2, <3>1, KSizeAssumption
    <3>6. QED
      BY <3>1, <3>3, <3>4, <3>5 DEF DistinctIds, r
  <2>3. CASE ~(Len(s) < KSize)
    BY <2>1, <2>3
  <2>4. QED
    BY <2>2, <2>3
<1>2. CASE P # {}
  <2>1. PICK k \in P : TRUE
    BY <1>2
  <2>2. P = {k}
    BY <1>0, <2>1 DEF DistinctIds
  <2>3. Max(P) = k
    BY <2>2, <2>1 DEF Max
  <2>4. LastPosition(s, n.id) = k
    BY <1>2, <2>3 DEF LastPosition, SelectLastInSeq
  <2>5. k \in 1 .. Len(s) /\ s[k] \in Node
    BY <2>1, ElementOfSeq
  <2>6. r = Append(RemoveAt(s, k), s[k])
    BY <2>4, <2>5 DEF AddOrUpdate
  <2> DEFINE a == RemoveAt(s, k)
  <2>7. /\ a \in Seq(Node) /\ Len(a) = Len(s) - 1
        /\ \A q \in 1 .. (Len(s) - 1) : a[q] = IF q < k THEN s[q] ELSE s[q + 1]
    BY <2>5, RemoveAtLemma
  <2> HIDE DEF a, P
  <2>8. /\ r \in Seq(Node) /\ Len(r) = Len(s)
        /\ r[Len(s)] = s[k]
        /\ \A q \in 1 .. (Len(s) - 1) : r[q] = a[q]
        /\ DOMAIN r = 1 .. Len(s)
    BY <2>5, <2>6, <2>7, <1>0, AppendProperties, LenProperties DEF a
  <2> HIDE DEF r
  <2> DEFINE from(q) == IF q = Len(s) THEN k ELSE IF q < k THEN q ELSE q + 1
  <2>9. \A q \in 1 .. Len(s) : from(q) \in 1 .. Len(s) /\ r[q] = s[from(q)]
    BY <1>0, <2>5, <2>7, <2>8, SMTT(30)
  <2>10. ASSUME NEW p \in 1 .. Len(s), NEW q \in 1 .. Len(s), from(p) = from(q)
         PROVE  p = q
    BY <1>0, <2>5, <2>10, BumpLemma, ZenonT(30)
  <2> HIDE DEF from
  <2>11. DistinctIds(r)
    BY <1>0, <2>8, <2>9, <2>10 DEF DistinctIds
  <2>12. QED
    BY <1>0, <2>8, <2>9, <2>11 DEF r
<1>3. QED
  BY <1>1, <1>2

(* position finds nothing or a place that holds the id. *)
LEMMA FirstPositionLemma ==
    ASSUME NEW s \in Seq(Node), DistinctIds(s), NEW id, FirstPosition(s, id) # 0
    PROVE  FirstPosition(s, id) \in 1 .. Len(s)
<1> DEFINE P == {p \in 1 .. Len(s) : s[p].id = id}
<1>1. P # {} /\ FirstPosition(s, id) = Min(P)
  BY DEF FirstPosition, SelectInSeq
<1>2. PICK k \in P : TRUE
  BY <1>1
<1>3. P = {k}
  BY <1>2, LenProperties DEF DistinctIds
<1>4. Min(P) = k
  BY <1>2, <1>3 DEF Min
<1>5. QED
  BY <1>1, <1>2, <1>4

(* Vec::remove and swap_remove keep the ids of a bucket distinct. *)
LEMMA ShrinkLemma ==
    ASSUME NEW s \in Seq(Node), DistinctIds(s), NEW p \in 1 .. Len(s),
           NEW r \in {RemoveAt(s, p), SwapRemove(s, p)}
    PROVE  /\ r \in Seq(Node) /\ DistinctIds(r) /\ Len(r) <= Len(s)
           /\ \A q \in DOMAIN r : \E k \in DOMAIN s : r[q] = s[k]
<1>1. Len(s) \in Nat /\ DOMAIN s = 1 .. Len(s)
  BY LenProperties
<1>2. CASE r = RemoveAt(s, p)
  <2>1. /\ r \in Seq(Node) /\ Len(r) = Len(s) - 1
        /\ \A q \in 1 .. (Len(s) - 1) : r[q] = IF q < p THEN s[q] ELSE s[q + 1]
    BY <1>2, RemoveAtLemma
  <2>2. DOMAIN r = 1 .. (Len(s) - 1)
    BY <2>1, LenProperties
  <2>3. DistinctIds(r)
    <3>1. SUFFICES ASSUME NEW a \in 1 .. (Len(s) - 1), NEW b \in 1 .. (Len(s) - 1),
                          r[a].id = r[b].id
                   PROVE  a = b
      BY <2>2 DEF DistinctIds
    <3>2. CASE a < p /\ b < p
      <4>1. r[a] = s[a] /\ r[b] = s[b]
        BY <2>1, <3>2
      <4>2. a \in DOMAIN s /\ b \in DOMAIN s
        BY <1>1
      <4>3. QED
        BY <3>1, <4>1, <4>2 DEF DistinctIds
    <3>3. CASE a < p /\ ~(b < p)
      <4>1. r[a] = s[a] /\ r[b] = s[b + 1]
        BY <2>1, <3>3
      <4>2. a # b + 1 /\ a \in DOMAIN s /\ b + 1 \in DOMAIN s
        BY <1>1, <3>3
      <4>3. QED
        BY <3>1, <4>1, <4>2 DEF DistinctIds
    <3>4. CASE ~(a < p) /\ b < p
      <4>1. r[a] = s[a + 1] /\ r[b] = s[b]
        BY <2>1, <3>4
      <4>2. b # a + 1 /\ b \in DOMAIN s /\ a + 1 \in DOMAIN s
        BY <1>1, <3>4
      <4>3. QED
        BY <3>1, <4>1, <4>2 DEF DistinctIds
    <3>5. CASE ~(a < p) /\ ~(b < p)
      <4>1. r[a] = s[a + 1] /\ r[b] = s[b + 1]
        BY <2>1, <3>5
      <4>2. b + 1 \in DOMAIN s /\ a + 1 \in DOMAIN s
        BY <1>1
      <4>3. a + 1 = b + 1
        BY <3>1, <4>1, <4>2 DEF DistinctIds
      <4>4. QED
        BY <4>3, <1>1
    <3>6. QED
      BY <3>2, <3>3, <3>4, <3>5
  <2>4. \A q \in DOMAIN r : \E k \in DOMAIN s : r[q] = s[k]
    BY <1>1, <2>1, <2>2
  <2>5. QED
    BY <1>1, <2>1, <2>3, <2>4
<1>3. CASE r = SwapRemove(s, p)
  <2>1. /\ r \in Seq(Node) /\ Len(r) = Len(s) - 1
        /\ \A q \in 1 .. (Len(s) - 1) : r[q] = IF q = p THEN s[Len(s)] ELSE s[q]
    BY <1>3, SwapRemoveLemma
  <2>2. DOMAIN r = 1 .. (Len(s) - 1)
    BY <2>1, LenProperties
  <2>3. DistinctIds(r)
    BY <1>1, <2>1, <2>2 DEF DistinctIds
  <2>4. \A q \in DOMAIN r : \E k \in DOMAIN s : r[q] = s[k]
    BY <1>1, <2>1, <2>2
  <2>5. QED
    BY <1>1, <2>1, <2>3, <2>4
<1>4. QED
  BY <1>2, <1>3

-----------------------------------------------------------------------------
(* The inductive invariant *)

(* Each part alone is not inductive: a tail call stays inside the chain    *)
(* because only a bucket with a successor makes one (ChainOK), a position  *)
(* found in a bucket is unique because ids are distinct, and the one task  *)
(* that moves nodes is the one that set the OnceCell (LockOrder).          *)
IInv ==
    /\ TypeOK
    /\ Capacity
    /\ DistinctInBucket
    /\ RangeOK
    /\ ChainOK
    /\ LockOrder

(* Bucket::root establishes the invariant. *)
LEMMA InitIInv == Init => IInv
<1> SUFFICES ASSUME Init PROVE IInv
  OBVIOUS
<1> USE DEF Init
<1>1. TypeOK
  BY EmptySeq, NodeAssumption DEF TypeOK, Labels, Outcomes, NoArg
<1>2. Capacity
  BY KSizeAssumption, EmptySeq DEF Capacity
<1>3. DistinctInBucket /\ RangeOK
  BY EmptySeq DEF DistinctInBucket, RangeOK
<1>4. ChainOK
  BY MaxBitAssumption DEF ChainOK, Index, MAX_BUCKET_INDEX
<1>5. LockOrder
  BY DEF LockOrder
<1>6. QED
  BY <1>1, <1>2, <1>3, <1>4, <1>5 DEF IInv

(* A frame moves to another label; the OnceCell of its bucket may be set.  *)
(* Only the task that sets it, or has set it, may hold the write guard.    *)
LEMMA GotoStep ==
    ASSUME IInv, NEW t \in Task, NEW i \in Index, NEW l \in Labels \ {"ret"},
           pc[t][i] # "ret", \A j \in Index : j > i => pc[t][j] = "ret",
           Goto(t, i, l), nodes' = nodes,
           \/ next_bucket' = next_bucket
           \/ i # MAX_BUCKET_INDEX /\ next_bucket' = [next_bucket EXCEPT ![i] = TRUE],
           l \in {"lock_nodes", "migrate"} =>
               /\ next_bucket'[i]
               /\ \A u \in Task : u # t => pc[u][i] \notin {"lock_nodes", "migrate"}
    PROVE  IInv'
<1> USE DEF IInv
<1>1. /\ pc' \in [Task -> [Index -> Labels]]
      /\ \A u \in Task, j \in Index :
            pc'[u][j] = IF u = t /\ j = i THEN l ELSE pc[u][j]
      /\ arg' = arg /\ outcome' = outcome
  BY DEF Goto, TypeOK
<1>2. /\ next_bucket' \in [Index -> BOOLEAN]
      /\ \A j \in Index : next_bucket[j] => next_bucket'[j]
      /\ \A j \in Index : j # i => next_bucket'[j] = next_bucket[j]
      /\ i = MAX_BUCKET_INDEX => next_bucket' = next_bucket
  BY DEF TypeOK
<1>3. TypeOK'
  BY <1>1, <1>2 DEF TypeOK
<1>4. Capacity' /\ DistinctInBucket'
  BY DEF Capacity, DistinctInBucket
<1>5. RangeOK'
  BY <1>1 DEF RangeOK, SharesPrefix
<1>6. ChainOK'
  <2>1. ~next_bucket'[MAX_BUCKET_INDEX]
    <3>1. MAX_BUCKET_INDEX \in Index /\ ~next_bucket[MAX_BUCKET_INDEX]
      BY MaxBitAssumption DEF ChainOK, Index, MAX_BUCKET_INDEX
    <3>2. next_bucket'[MAX_BUCKET_INDEX] = next_bucket[MAX_BUCKET_INDEX]
      BY <1>2, <3>1
    <3>3. QED
      BY <3>1, <3>2
  <2>2. \A u \in Task, j \in Index :
          pc'[u][j] \in {"lock_nodes", "migrate"} => next_bucket'[j]
    BY <1>1, <1>2 DEF ChainOK
  <2>3. ASSUME NEW j \in Index, j > 0, ~next_bucket'[j - 1]
        PROVE  ~next_bucket'[j] /\ nodes'[j] = <<>> /\ \A u \in Task : pc'[u][j] = "ret"
    <3>1. j - 1 \in Index /\ ~next_bucket[j - 1]
      BY <1>2, <2>3, MaxBitAssumption DEF Index, MAX_BUCKET_INDEX
    <3>2. ~next_bucket[j] /\ nodes[j] = <<>> /\ \A u \in Task : pc[u][j] = "ret"
      BY <2>3, <3>1 DEF ChainOK
    <3>3. j # i
      BY <3>2
    <3>4. QED
      BY <1>1, <1>2, <3>2, <3>3
  <2>4. QED
    BY <2>1, <2>2, <2>3 DEF ChainOK
<1>7. LockOrder'
  BY <1>1 DEF LockOrder, Index
<1>8. QED
  BY <1>3, <1>4, <1>5, <1>6, <1>7

(* What may be left in bucket i: as many nodes as fit, with distinct ids   *)
(* that share the prefix of the bucket.                                    *)
Fits(i, s) ==
    /\ s \in Seq(Node)
    /\ DistinctIds(s)
    /\ Len(s) <= KSize
    /\ \A p \in DOMAIN s : SharesPrefix(i, s[p].id)

(* The invariant says so of every bucket. *)
LEMMA IInvFits ==
    ASSUME IInv
    PROVE  \A i \in Index : Fits(i, nodes[i])
  BY DEF IInv, TypeOK, Capacity, DistinctInBucket, RangeOK, Fits, DistinctIds

(* A frame returns, and its bucket is left with s. *)
LEMMA ReturnStep ==
    ASSUME IInv, NEW t \in Task, NEW i \in Index, NEW s, Fits(i, s),
           pc[t][i] # "ret",
           Return(t, i), nodes' = [nodes EXCEPT ![i] = s], next_bucket' = next_bucket
    PROVE  IInv'
<1> USE DEF IInv
<1>1. /\ pc' \in [Task -> [Index -> Labels]]
      /\ \A u \in Task, j \in Index :
            pc'[u][j] = IF u = t /\ j = i THEN "ret" ELSE pc[u][j]
      /\ arg' \in [Task -> [Index -> Node \cup {NoArg}]]
      /\ \A u \in Task, j \in Index :
            arg'[u][j] = IF u = t /\ j = i THEN NoArg ELSE arg[u][j]
      /\ outcome' \in [Task -> Outcomes]
  BY DEF Return, TypeOK, Labels, Outcomes
<1>2. /\ nodes' \in [Index -> Seq(Node)]
      /\ \A j \in Index : nodes'[j] = IF j = i THEN s ELSE nodes[j]
  BY DEF TypeOK, Fits
<1>3. TypeOK'
  BY <1>1, <1>2 DEF TypeOK
<1>4. Capacity' /\ DistinctInBucket'
  BY <1>2 DEF Capacity, DistinctInBucket, Fits, DistinctIds
<1>5. RangeOK'
  <2>1. ASSUME NEW j \in Index, NEW p \in DOMAIN nodes'[j]
        PROVE  SharesPrefix(j, nodes'[j][p].id)
    BY <1>2, <2>1 DEF RangeOK, Fits
  <2>2. ASSUME NEW j \in Index, NEW u \in Task, pc'[u][j] # "ret"
        PROVE  SharesPrefix(j, arg'[u][j].id)
    BY <1>1, <2>2, ZenonT(30) DEF RangeOK
  <2>3. QED
    BY <2>1, <2>2 DEF RangeOK, SharesPrefix
<1>6. ChainOK'
  <2>1. ~next_bucket'[MAX_BUCKET_INDEX]
    BY DEF ChainOK
  <2>2. \A u \in Task, j \in Index :
          pc'[u][j] \in {"lock_nodes", "migrate"} => next_bucket'[j]
    <3> SUFFICES ASSUME NEW u \in Task, NEW j \in Index,
                        pc'[u][j] \in {"lock_nodes", "migrate"}
                 PROVE  next_bucket'[j]
      OBVIOUS
    <3>1. pc[u][j] \in {"lock_nodes", "migrate"}
      BY <1>1
    <3>2. QED
      BY <3>1 DEF ChainOK
  <2>3. ASSUME NEW j \in Index, j > 0, ~next_bucket'[j - 1]
        PROVE  ~next_bucket'[j] /\ nodes'[j] = <<>> /\ \A u \in Task : pc'[u][j] = "ret"
    <3>1. ~next_bucket[j] /\ nodes[j] = <<>> /\ \A u \in Task : pc[u][j] = "ret"
      BY <2>3 DEF ChainOK
    <3>2. QED
      BY <1>1, <1>2, <3>1, ZenonT(30)
  <2>4. QED
    BY <2>1, <2>2, <2>3 DEF ChainOK
<1>7. LockOrder'
  BY <1>1, SMTT(30) DEF LockOrder, Index
<1>8. QED
  BY <1>3, <1>4, <1>5, <1>6, <1>7

(* The call in the next bucket replaces the frame of a bucket where the    *)
(* node does not belong.                                                   *)
LEMMA TailCallStep ==
    ASSUME IInv, NEW t \in Task, NEW i \in Index, NEW l \in {"add", "remove"},
           pc[t][i] # "ret", \A j \in Index : j > i => pc[t][j] = "ret",
           next_bucket[i], ~BelongsHere(i, arg[t][i].id),
           TailCall(t, i, l), nodes' = nodes, next_bucket' = next_bucket
    PROVE  IInv'
<1> USE DEF IInv
<1>0. i + 1 \in Index /\ arg[t][i] \in Node /\ arg[t][i] # NoArg
  BY MaxBitAssumption DEF ChainOK, TypeOK, Index, MAX_BUCKET_INDEX
<1>1. /\ pc' \in [Task -> [Index -> Labels]]
      /\ \A u \in Task, j \in Index :
            pc'[u][j] = IF u = t /\ j = i + 1 THEN l
                        ELSE IF u = t /\ j = i THEN "ret" ELSE pc[u][j]
  BY <1>0 DEF TailCall, TypeOK, Labels, Index
<1>2. /\ arg' \in [Task -> [Index -> Node \cup {NoArg}]]
      /\ \A u \in Task, j \in Index :
            arg'[u][j] = IF u = t /\ j = i + 1 THEN arg[t][i]
                         ELSE IF u = t /\ j = i THEN NoArg ELSE arg[u][j]
      /\ outcome' = outcome
  BY <1>0 DEF TailCall, TypeOK, Index
<1>3. TypeOK'
  BY <1>0, <1>1, <1>2 DEF TypeOK
<1>4. Capacity' /\ DistinctInBucket'
  BY DEF Capacity, DistinctInBucket
<1>5. SharesPrefix(i + 1, arg[t][i].id)
  BY <1>0, PrefixLemma, NodeAssumption DEF RangeOK
<1>6. RangeOK'
  BY <1>1, <1>2, <1>5 DEF RangeOK, SharesPrefix
<1>7. ChainOK'
  <2>1. ~next_bucket'[MAX_BUCKET_INDEX]
    BY DEF ChainOK
  <2>2. \A u \in Task, j \in Index :
          pc'[u][j] \in {"lock_nodes", "migrate"} => next_bucket'[j]
    BY <1>1 DEF ChainOK
  <2>3. ASSUME NEW j \in Index, j > 0, ~next_bucket'[j - 1]
        PROVE  ~next_bucket'[j] /\ nodes'[j] = <<>> /\ \A u \in Task : pc'[u][j] = "ret"
    <3>1. ~next_bucket[j] /\ nodes[j] = <<>> /\ \A u \in Task : pc[u][j] = "ret"
      BY <2>3 DEF ChainOK
    <3>2. j # i + 1
      BY <2>3 DEF Index
    <3>3. QED
      BY <1>1, <3>1, <3>2
  <2>4. QED
    BY <2>1, <2>2, <2>3 DEF ChainOK
<1>8. LockOrder'
  BY <1>0, <1>1 DEF LockOrder, Index
<1>9. QED
  BY <1>3, <1>4, <1>6, <1>7, <1>8

(* unwrap of None: the frames of the task disappear. *)
LEMMA PanicStep ==
    ASSUME IInv, NEW t \in Task, Panic(t), nodes' = nodes, next_bucket' = next_bucket
    PROVE  IInv'
<1> USE DEF IInv
<1>1. /\ pc' \in [Task -> [Index -> Labels]]
      /\ \A u \in Task, j \in Index : pc'[u][j] = IF u = t THEN "ret" ELSE pc[u][j]
      /\ arg' \in [Task -> [Index -> Node \cup {NoArg}]]
      /\ \A u \in Task, j \in Index : arg'[u][j] = IF u = t THEN NoArg ELSE arg[u][j]
      /\ outcome' \in [Task -> Outcomes]
  BY DEF Panic, TypeOK, Labels, Outcomes
<1>2. TypeOK'
  BY <1>1 DEF TypeOK
<1>3. Capacity' /\ DistinctInBucket'
  BY DEF Capacity, DistinctInBucket
<1>4. RangeOK'
  <2>1. \A j \in Index : \A p \in DOMAIN nodes'[j] : SharesPrefix(j, nodes'[j][p].id)
    BY <1>1 DEF RangeOK
  <2>2. ASSUME NEW j \in Index, NEW u \in Task, pc'[u][j] # "ret"
        PROVE  SharesPrefix(j, arg'[u][j].id)
    BY <1>1, <2>2 DEF RangeOK
  <2>3. QED
    BY <2>1, <2>2 DEF RangeOK, SharesPrefix
<1>5. ChainOK'
  <2>1. ~next_bucket'[MAX_BUCKET_INDEX]
    BY <1>1 DEF ChainOK
  <2>2. \A u \in Task, j \in Index :
          pc'[u][j] \in {"lock_nodes", "migrate"} => next_bucket'[j]
    BY <1>1, SMTT(30) DEF ChainOK
  <2>3. ASSUME NEW j \in Index, j > 0, ~next_bucket'[j - 1]
        PROVE  ~next_bucket'[j] /\ nodes'[j] = <<>> /\ \A u \in Task : pc'[u][j] = "ret"
    <3>1. ~next_bucket[j] /\ nodes[j] = <<>> /\ \A u \in Task : pc[u][j] = "ret"
      BY <1>1, <2>3 DEF ChainOK
    <3>2. QED
      BY <1>1, <2>3, <3>1 DEF Index
  <2>4. QED
    BY <2>1, <2>2, <2>3 DEF ChainOK
<1>6. LockOrder'
  <2>1. ASSUME NEW u \in Task, NEW j \in Index, NEW k \in Index,
               pc'[u][j] # "ret", pc'[u][k] # "ret", j < k
        PROVE  pc'[u][j] = "migrate"
    <3>1. u # t
      BY <1>1, <2>1
    <3>2. pc'[u][j] = pc[u][j] /\ pc'[u][k] = pc[u][k]
      BY <1>1, <3>1
    <3>3. QED
      BY <2>1, <3>2 DEF LockOrder
  <2>2. ASSUME NEW u \in Task, NEW v \in Task, NEW j \in Index,
               {pc'[u][j], pc'[v][j]} \subseteq {"lock_nodes", "migrate"}
        PROVE  u = v
    <3>1. u # t /\ v # t
      BY <1>1, <2>2
    <3>2. pc'[u][j] = pc[u][j] /\ pc'[v][j] = pc[v][j]
      BY <1>1, <3>1
    <3>3. QED
      BY <2>2, <3>2 DEF LockOrder
  <2>3. QED
    BY <2>1, <2>2 DEF LockOrder
<1>7. QED
  BY <1>2, <1>3, <1>4, <1>5, <1>6

(* A task calls add or remove on the root bucket. *)
LEMMA StartStep ==
    ASSUME IInv, NEW t \in Task, NEW n \in Node, NEW l \in {"add", "remove"},
           Start(t, l, n)
    PROVE  IInv'
<1> USE DEF IInv
<1>0. 0 \in Index /\ \A j \in Index : pc[t][j] = "ret"
  BY MaxBitAssumption DEF Start, Idle, Index, MAX_BUCKET_INDEX
<1>1. /\ pc' \in [Task -> [Index -> Labels]]
      /\ \A u \in Task, j \in Index :
            pc'[u][j] = IF u = t /\ j = 0 THEN l ELSE pc[u][j]
      /\ arg' \in [Task -> [Index -> Node \cup {NoArg}]]
      /\ \A u \in Task, j \in Index :
            arg'[u][j] = IF u = t /\ j = 0 THEN n ELSE arg[u][j]
      /\ outcome' \in [Task -> Outcomes]
      /\ nodes' = nodes /\ next_bucket' = next_bucket
  BY <1>0 DEF Start, TypeOK, Labels, Outcomes
<1>2. TypeOK'
  <2>1. n # NoArg /\ l # "ret"
    BY NodeAssumption
  <2>2. \A u \in Task, j \in Index : pc'[u][j] = "ret" <=> arg'[u][j] = NoArg
    <3> SUFFICES ASSUME NEW u \in Task, NEW j \in Index
                 PROVE  pc'[u][j] = "ret" <=> arg'[u][j] = NoArg
      OBVIOUS
    <3>1. CASE u = t /\ j = 0
      BY <1>1, <2>1, <3>1
    <3>2. CASE ~(u = t /\ j = 0)
      <4>1. pc'[u][j] = pc[u][j] /\ arg'[u][j] = arg[u][j]
        BY <1>1, <3>2
      <4>2. QED
        BY <4>1 DEF TypeOK
    <3>3. QED
      BY <3>1, <3>2
  <2>3. QED
    BY <1>1, <2>2 DEF TypeOK
<1>3. Capacity' /\ DistinctInBucket'
  BY <1>1 DEF Capacity, DistinctInBucket
<1>4. RangeOK'
  <2>1. \A j \in Index : \A p \in DOMAIN nodes'[j] : SharesPrefix(j, nodes'[j][p].id)
    BY <1>1 DEF RangeOK
  <2>2. ASSUME NEW j \in Index, NEW u \in Task, pc'[u][j] # "ret"
        PROVE  SharesPrefix(j, arg'[u][j].id)
    <3>1. CASE u = t /\ j = 0
      BY <1>1, <3>1, MaxBitAssumption DEF SharesPrefix, Index, MAX_BUCKET_INDEX
    <3>2. CASE ~(u = t /\ j = 0)
      <4>1. pc'[u][j] = pc[u][j] /\ arg'[u][j] = arg[u][j]
        BY <1>1, <3>2
      <4>2. QED
        BY <2>2, <4>1 DEF RangeOK
    <3>3. QED
      BY <3>1, <3>2
  <2>3. QED
    BY <2>1, <2>2 DEF RangeOK, SharesPrefix
<1>5. ChainOK'
  <2>1. ~next_bucket'[MAX_BUCKET_INDEX]
    BY <1>1 DEF ChainOK
  <2>2. \A u \in Task, j \in Index :
          pc'[u][j] \in {"lock_nodes", "migrate"} => next_bucket'[j]
    BY <1>1 DEF ChainOK
  <2>3. ASSUME NEW j \in Index, j > 0, ~next_bucket'[j - 1]
        PROVE  ~next_bucket'[j] /\ nodes'[j] = <<>> /\ \A u \in Task : pc'[u][j] = "ret"
    <3>1. ~next_bucket[j] /\ nodes[j] = <<>> /\ \A u \in Task : pc[u][j] = "ret"
      BY <1>1, <2>3 DEF ChainOK
    <3>2. QED
      BY <1>1, <2>3, <3>1 DEF Index
  <2>4. QED
    BY <2>1, <2>2, <2>3 DEF ChainOK
<1>6. LockOrder'
  <2>1. ASSUME NEW u \in Task, NEW j \in Index, NEW k \in Index,
               pc'[u][j] # "ret", pc'[u][k] # "ret", j < k
        PROVE  pc'[u][j] = "migrate"
    <3>1. u # t
      BY <1>0, <1>1, <2>1 DEF Index
    <3>2. pc'[u][j] = pc[u][j] /\ pc'[u][k] = pc[u][k]
      BY <1>1, <3>1
    <3>3. QED
      BY <2>1, <3>2 DEF LockOrder
  <2>2. ASSUME NEW u \in Task, NEW v \in Task, NEW j \in Index,
               {pc'[u][j], pc'[v][j]} \subseteq {"lock_nodes", "migrate"}
        PROVE  u = v
    <3>1. pc'[t][j] \notin {"lock_nodes", "migrate"}
      BY <1>0, <1>1
    <3>2. u # t /\ v # t
      BY <2>2, <3>1
    <3>3. pc'[u][j] = pc[u][j] /\ pc'[v][j] = pc[v][j]
      BY <1>1, <3>2
    <3>4. QED
      BY <2>2, <3>3 DEF LockOrder
  <2>3. QED
    BY <2>1, <2>2 DEF LockOrder
<1>7. QED
  BY <1>2, <1>3, <1>4, <1>5, <1>6

(* A split takes a misfit out and calls add in the next bucket. *)
LEMMA MigrateOneStep ==
    ASSUME IInv, NEW t \in Task, NEW i \in Index, MigrateOne(t, i)
    PROVE  IInv'
<1> USE DEF IInv
<1>1. /\ pc[t][i] = "migrate"
      /\ \A j \in Index : j > i => pc[t][j] = "ret"
      /\ next_bucket' = next_bucket /\ outcome' = outcome
  BY DEF MigrateOne, At
<1>2. PICK p \in Misfits(i) :
          /\ nodes' = [nodes EXCEPT ![i] = SwapRemove(@, p)]
          /\ pc' = [pc EXCEPT ![t][i + 1] = "add"]
          /\ arg' = [arg EXCEPT ![t][i + 1] = nodes[i][p]]
  BY DEF MigrateOne
<1> DEFINE n == nodes[i][p]
           s == SwapRemove(nodes[i], p)
<1>3. i + 1 \in Index /\ next_bucket[i]
  BY <1>1, MaxBitAssumption DEF ChainOK, Index, MAX_BUCKET_INDEX
<1>4. Fits(i, nodes[i])
  BY IInvFits
<1>5. /\ p \in 1 .. Len(nodes[i]) /\ p \in DOMAIN nodes[i]
      /\ n \in Node /\ n # NoArg /\ ~BelongsHere(i, n.id)
  BY <1>4, LenProperties, ElementOfSeq, NodeAssumption DEF Misfits, Fits
<1>6. SharesPrefix(i + 1, n.id)
  BY <1>5, PrefixLemma, NodeAssumption DEF RangeOK
<1>7. Fits(i, s)
  <2>1. /\ s \in Seq(Node) /\ DistinctIds(s) /\ Len(s) <= Len(nodes[i])
        /\ \A q \in DOMAIN s : \E k \in DOMAIN nodes[i] : s[q] = nodes[i][k]
    BY <1>4, <1>5, ShrinkLemma DEF Fits
  <2>2. Len(s) \in Nat /\ Len(nodes[i]) \in Nat /\ KSize \in Nat
    BY <2>1, <1>4, LenProperties, KSizeAssumption DEF Fits
  <2> HIDE DEF s
  <2>3. QED
    BY <1>4, <2>1, <2>2 DEF Fits
<1>8. /\ pc' \in [Task -> [Index -> Labels]]
      /\ \A u \in Task, j \in Index :
            pc'[u][j] = IF u = t /\ j = i + 1 THEN "add" ELSE pc[u][j]
  BY <1>2, <1>3 DEF TypeOK, Labels
<1>9. /\ arg' \in [Task -> [Index -> Node \cup {NoArg}]]
      /\ \A u \in Task, j \in Index :
            arg'[u][j] = IF u = t /\ j = i + 1 THEN n ELSE arg[u][j]
  BY <1>2, <1>3, <1>5 DEF TypeOK
<1>10. nodes' = [nodes EXCEPT ![i] = s]
  BY <1>2
<1> HIDE DEF n, s
<1>11. /\ nodes' \in [Index -> Seq(Node)]
       /\ \A j \in Index : nodes'[j] = IF j = i THEN s ELSE nodes[j]
  BY <1>7, <1>10 DEF TypeOK, Fits
<1>12. TypeOK'
  <2>1. \A u \in Task, j \in Index : pc'[u][j] = "ret" <=> arg'[u][j] = NoArg
    <3> SUFFICES ASSUME NEW u \in Task, NEW j \in Index
                 PROVE  pc'[u][j] = "ret" <=> arg'[u][j] = NoArg
      OBVIOUS
    <3>1. CASE u = t /\ j = i + 1
      BY <1>5, <1>8, <1>9, <3>1
    <3>2. CASE ~(u = t /\ j = i + 1)
      <4>1. pc'[u][j] = pc[u][j] /\ arg'[u][j] = arg[u][j]
        BY <1>8, <1>9, <3>2
      <4>2. QED
        BY <4>1 DEF TypeOK
    <3>3. QED
      BY <3>1, <3>2
  <2>2. QED
    BY <1>1, <1>8, <1>9, <1>11, <2>1 DEF TypeOK
<1>13. Capacity' /\ DistinctInBucket'
  BY <1>7, <1>11 DEF Capacity, DistinctInBucket, Fits, DistinctIds
<1>14. RangeOK'
  <2>1. ASSUME NEW j \in Index, NEW k \in DOMAIN nodes'[j]
        PROVE  SharesPrefix(j, nodes'[j][k].id)
    BY <1>7, <1>11, <2>1 DEF RangeOK, Fits
  <2>2. ASSUME NEW j \in Index, NEW u \in Task, pc'[u][j] # "ret"
        PROVE  SharesPrefix(j, arg'[u][j].id)
    BY <1>6, <1>8, <1>9, <2>2 DEF RangeOK
  <2>3. QED
    BY <2>1, <2>2 DEF RangeOK, SharesPrefix
<1>15. ChainOK'
  <2>1. ~next_bucket'[MAX_BUCKET_INDEX]
    BY <1>1 DEF ChainOK
  <2>2. \A u \in Task, j \in Index :
          pc'[u][j] \in {"lock_nodes", "migrate"} => next_bucket'[j]
    BY <1>1, <1>8 DEF ChainOK
  <2>3. ASSUME NEW j \in Index, j > 0, ~next_bucket'[j - 1]
        PROVE  ~next_bucket'[j] /\ nodes'[j] = <<>> /\ \A u \in Task : pc'[u][j] = "ret"
    <3>1. ~next_bucket[j] /\ nodes[j] = <<>> /\ \A u \in Task : pc[u][j] = "ret"
      BY <1>1, <2>3 DEF ChainOK
    <3>2. j # i /\ j # i + 1
      BY <1>1, <1>3, <2>3, <3>1 DEF Index
    <3>3. QED
      BY <1>1, <1>8, <1>11, <3>1, <3>2
  <2>4. QED
    BY <2>1, <2>2, <2>3 DEF ChainOK
<1>16. LockOrder'
  BY <1>1, <1>3, <1>8 DEF LockOrder, Index
<1>17. QED
  BY <1>12, <1>13, <1>14, <1>15, <1>16

(* add_or_update on a bucket, or nothing at all, leaves what fits there. *)
LEMMA WriteStep ==
    ASSUME IInv, NEW t \in Task, NEW i \in Index, Write(t, i)
    PROVE  IInv'
<1> DEFINE n == arg[t][i]
           s == AddOrUpdate(nodes[i], n)
<1>1. /\ pc[t][i] # "ret" /\ Return(t, i) /\ next_bucket' = next_bucket
      /\ nodes' = [nodes EXCEPT ![i] = s]
  BY DEF Write, At
<1>2. n \in Node /\ SharesPrefix(i, n.id)
  BY <1>1 DEF IInv, TypeOK, RangeOK
<1>3. Fits(i, nodes[i])
  BY IInvFits
<1>4. /\ s \in Seq(Node) /\ DistinctIds(s) /\ Len(s) <= KSize
      /\ \A q \in DOMAIN s : s[q] = n \/ \E p \in DOMAIN nodes[i] : s[q] = nodes[i][p]
  BY <1>2, <1>3, AddOrUpdateLemma DEF Fits
<1> HIDE DEF n, s
<1>5. Fits(i, s)
  BY <1>2, <1>3, <1>4 DEF Fits
<1>6. QED
  BY <1>1, <1>5, ReturnStep

(* remove takes out the node it finds, or nothing. *)
LEMMA RemoveWriteStep ==
    ASSUME IInv, NEW t \in Task, NEW i \in Index, RemoveWrite(t, i)
    PROVE  IInv'
<1> DEFINE p == FirstPosition(nodes[i], arg[t][i].id)
           s == RemoveAt(nodes[i], p)
<1>1. pc[t][i] # "ret" /\ Return(t, i) /\ next_bucket' = next_bucket
  BY DEF RemoveWrite, At
<1>2. Fits(i, nodes[i])
  BY IInvFits
<1>3. CASE p # 0 /\ nodes' = [nodes EXCEPT ![i] = s]
  <2>1. p \in 1 .. Len(nodes[i])
    BY <1>2, <1>3, FirstPositionLemma DEF Fits
  <2>2. /\ s \in Seq(Node) /\ DistinctIds(s) /\ Len(s) <= Len(nodes[i])
        /\ \A q \in DOMAIN s : \E k \in DOMAIN nodes[i] : s[q] = nodes[i][k]
    BY <1>2, <2>1, ShrinkLemma DEF Fits
  <2>3. Len(s) \in Nat /\ Len(nodes[i]) \in Nat /\ KSize \in Nat
    BY <2>2, <1>2, LenProperties, KSizeAssumption DEF Fits
  <2> HIDE DEF p, s
  <2>4. Fits(i, s)
    BY <1>2, <2>2, <2>3 DEF Fits
  <2>5. QED
    BY <1>1, <1>3, <2>4, ReturnStep
<1>4. CASE nodes' = nodes
  <2>1. nodes' = [nodes EXCEPT ![i] = nodes[i]]
    BY <1>4 DEF IInv, TypeOK
  <2>2. QED
    BY <1>1, <1>2, <2>1, ReturnStep
<1>5. QED
  BY <1>3, <1>4 DEF RemoveWrite

(* make_next_bucket elects at most one task to move the nodes. *)
LEMMA MakeNextBucketStep ==
    ASSUME IInv, NEW t \in Task, NEW i \in Index, MakeNextBucket(t, i)
    PROVE  IInv'
<1>1. /\ pc[t][i] # "ret" /\ \A j \in Index : j > i => pc[t][j] = "ret"
      /\ nodes' = nodes
  BY DEF MakeNextBucket, At
<1>2. CASE Return(t, i) /\ next_bucket' = next_bucket
  <2>1. nodes' = [nodes EXCEPT ![i] = nodes[i]]
    BY <1>1 DEF IInv, TypeOK
  <2>2. Fits(i, nodes[i])
    BY IInvFits
  <2>3. QED
    BY <1>1, <1>2, <2>1, <2>2, ReturnStep
<1>3. CASE Goto(t, i, "place") /\ next_bucket' = next_bucket
  BY <1>1, <1>3, GotoStep DEF Labels
<1>4. CASE /\ i # MAX_BUCKET_INDEX /\ ~next_bucket[i] /\ Goto(t, i, "lock_nodes")
           /\ next_bucket' = [next_bucket EXCEPT ![i] = TRUE]
  <2>1. next_bucket'[i]
    BY <1>4 DEF IInv, TypeOK
  <2>2. \A u \in Task : pc[u][i] \notin {"lock_nodes", "migrate"}
    BY <1>4 DEF IInv, ChainOK
  <2>3. QED
    BY <1>1, <1>4, <2>1, <2>2, GotoStep DEF Labels
<1>5. QED
  BY <1>2, <1>3, <1>4 DEF MakeNextBucket

(* The write guard passes to the task that set the OnceCell. *)
LEMMA LockNodesStep ==
    ASSUME IInv, NEW t \in Task, NEW i \in Index, LockNodes(t, i)
    PROVE  IInv'
<1>1. /\ pc[t][i] = "lock_nodes" /\ \A j \in Index : j > i => pc[t][j] = "ret"
      /\ nodes' = nodes /\ next_bucket' = next_bucket /\ Goto(t, i, "migrate")
  BY DEF LockNodes, At
<1>2. next_bucket'[i]
  BY <1>1 DEF IInv, ChainOK
<1>3. \A u \in Task : u # t => pc[u][i] \notin {"lock_nodes", "migrate"}
  BY <1>1 DEF IInv, LockOrder
<1>4. QED
  BY <1>1, <1>2, <1>3, GotoStep DEF Labels

(* The labels of add and remove where nothing but the frame changes. *)
LEMMA MoveStep ==
    ASSUME IInv, NEW t \in Task, NEW i \in Index,
           \/ AddCheckNext(t, i) \/ AddCheckLen(t, i)
           \/ FullCheckNext(t, i) \/ FullCheckLen(t, i)
           \/ MigrateDone(t, i)
    PROVE  IInv'
<1>1. /\ pc[t][i] # "ret" /\ \A j \in Index : j > i => pc[t][j] = "ret"
      /\ nodes' = nodes /\ next_bucket' = next_bucket
  BY DEF AddCheckNext, AddCheckLen, FullCheckNext, FullCheckLen, MigrateDone, At
<1>2. PICK l \in {"place", "add_len", "write", "full", "full_len", "make_next"} :
          Goto(t, i, l)
  BY DEF AddCheckNext, AddCheckLen, FullCheckNext, FullCheckLen, MigrateDone
<1>3. QED
  BY <1>1, <1>2, GotoStep DEF Labels

(* belongs_here decides where add goes on, or that unwrap panics. *)
LEMMA PlaceStep ==
    ASSUME IInv, NEW t \in Task, NEW i \in Index, Place(t, i)
    PROVE  IInv'
<1>1. /\ pc[t][i] # "ret" /\ \A j \in Index : j > i => pc[t][j] = "ret"
      /\ nodes' = nodes /\ next_bucket' = next_bucket
  BY DEF Place, At
<1>2. CASE Goto(t, i, "write")
  BY <1>1, <1>2, GotoStep DEF Labels
<1>3. CASE ~BelongsHere(i, arg[t][i].id) /\ next_bucket[i] /\ TailCall(t, i, "add")
  BY <1>1, <1>3, TailCallStep
<1>4. CASE Panic(t)
  BY <1>1, <1>4, PanicStep
<1>5. QED
  BY <1>2, <1>3, <1>4 DEF Place

(* remove stops in a bucket, or goes on in the next one. *)
LEMMA RemoveRouteStep ==
    ASSUME IInv, NEW t \in Task, NEW i \in Index, RemoveRoute(t, i)
    PROVE  IInv'
<1>1. /\ pc[t][i] # "ret" /\ \A j \in Index : j > i => pc[t][j] = "ret"
      /\ nodes' = nodes /\ next_bucket' = next_bucket
  BY DEF RemoveRoute, At
<1>2. CASE Goto(t, i, "remove_write")
  BY <1>1, <1>2, GotoStep DEF Labels
<1>3. CASE ~StopsHere(i, arg[t][i].id) /\ TailCall(t, i, "remove")
  BY <1>1, <1>3, TailCallStep DEF StopsHere
<1>4. QED
  BY <1>2, <1>3 DEF RemoveRoute

-----------------------------------------------------------------------------
(* Theorems *)

(* Every step of every task preserves the invariant. *)
LEMMA NextIInv == IInv /\ [Next]_vars => IInv'
<1> SUFFICES ASSUME IInv, [Next]_vars PROVE IInv'
  OBVIOUS
<1>1. ASSUME NEW t \in Task, NEW n \in Node, StartAdd(t, n) \/ StartRemove(t, n)
      PROVE  IInv'
  BY <1>1, StartStep DEF StartAdd, StartRemove
<1>2. ASSUME NEW t \in Task, NEW i \in Index, Step(t, i)
      PROVE  IInv'
  BY <1>2, MoveStep, PlaceStep, WriteStep, MakeNextBucketStep, LockNodesStep,
     MigrateOneStep, RemoveRouteStep, RemoveWriteStep DEF Step
<1>3. CASE UNCHANGED vars
  BY <1>3 DEF IInv, vars, TypeOK, Capacity, DistinctInBucket, RangeOK, SharesPrefix,
              ChainOK, LockOrder
<1>4. QED
  BY <1>1, <1>2, <1>3 DEF Next

(* The invariant holds throughout. *)
LEMMA IInvAlways == Spec => []IInv
  BY InitIInv, NextIInv, PTL DEF Spec

(* The chain keeps the types of its state: no tail call or nested call of  *)
(* add, remove and make_next_bucket leaves the range of bucket indices,    *)
(* and a frame has an argument exactly while it exists.                    *)
THEOREM TypeCorrect == Spec => []TypeOK
  BY IInvAlways, PTL DEF IInv

(* No interleaving of adds, splits and removes overfills a bucket, though  *)
(* add checks len() under one lock and pushes under another.               *)
THEOREM CapacityCorrect == Spec => []Capacity
  BY IInvAlways, PTL DEF IInv

(* No interleaving of add_or_update, swap_remove and remove stores an id   *)
(* twice in a bucket.                                                      *)
THEOREM DistinctCorrect == Spec => []DistinctInBucket
  BY IInvAlways, PTL DEF IInv

(* No interleaving of add and make_next_bucket puts a node in a bucket     *)
(* beyond the prefix that its id shares with own_id.                       *)
THEOREM RangeCorrect == Spec => []RangeOK
  BY IInvAlways, PTL DEF IInv

(* The chain grows in order and no one uses a bucket that does not exist,  *)
(* whichever task sets next_bucket first.                                  *)
THEOREM ChainCorrect == Spec => []ChainOK
  BY IInvAlways, PTL DEF IInv

(* One task at a time moves the nodes of a bucket, and make_next_bucket    *)
(* takes its write guards in the order of the chain.                       *)
THEOREM LockOrderCorrect == Spec => []LockOrder
  BY IInvAlways, PTL DEF IInv

-----------------------------------------------------------------------------
(* Adds alone never panic *)

(* While a bucket has no successor, adds only let it grow: who found it    *)
(* full finds it full again, so the unwrap is reached after a split only.  *)
AddsOnly ==
    \A t \in Task, i \in Index :
        /\ pc[t][i] \notin {"remove", "remove_write"}
        /\ pc[t][i] = "place" => next_bucket[i]
        /\ pc[t][i] \in {"full", "full_len", "make_next"} =>
               next_bucket[i] \/ Len(nodes[i]) = KSize

(* A bucket without successor that is full stays full under add_or_update. *)
LEMMA AddOrUpdateFull ==
    ASSUME NEW s \in Seq(Node), DistinctIds(s), Len(s) = KSize, NEW n \in Node
    PROVE  Len(AddOrUpdate(s, n)) = KSize
<1>1. CASE LastPosition(s, n.id) = 0
  BY <1>1, KSizeAssumption DEF AddOrUpdate
<1>2. CASE LastPosition(s, n.id) # 0
  <2> DEFINE P == {p \in 1 .. Len(s) : s[p].id = n.id}
             k == LastPosition(s, n.id)
  <2>1. P # {} /\ k = Max(P)
    BY <1>2 DEF LastPosition, SelectLastInSeq
  <2>2. PICK p \in P : TRUE
    BY <2>1
  <2>3. P = {p}
    BY <2>2, LenProperties DEF DistinctIds
  <2>4. k \in 1 .. Len(s)
    BY <2>1, <2>2, <2>3 DEF Max
  <2>5. AddOrUpdate(s, n) = Append(RemoveAt(s, k), s[k])
    BY <1>2 DEF AddOrUpdate
  <2> HIDE DEF k, P
  <2>6. /\ RemoveAt(s, k) \in Seq(Node) /\ Len(RemoveAt(s, k)) = Len(s) - 1
        /\ s[k] \in Node
    BY <2>4, RemoveAtLemma, ElementOfSeq
  <2>7. QED
    BY <2>5, <2>6, AppendProperties, KSizeAssumption
<1>3. QED
  BY <1>1, <1>2

AddsInv == IInv /\ AddsOnly /\ NoPanic

(* A frame moves to a label that the bucket it is in allows. *)
LEMMA AddsGoto ==
    ASSUME AddsInv, IInv', NEW t \in Task, NEW i \in Index, NEW l \in Labels,
           Goto(t, i, l), nodes' = nodes,
           \A j \in Index : next_bucket[j] => next_bucket'[j],
           l \notin {"remove", "remove_write"},
           l = "place" => next_bucket'[i],
           l \in {"full", "full_len", "make_next"} =>
               next_bucket'[i] \/ Len(nodes[i]) = KSize
    PROVE  AddsInv'
<1>1. /\ \A u \in Task, j \in Index :
            pc'[u][j] = IF u = t /\ j = i THEN l ELSE pc[u][j]
      /\ outcome' = outcome
  BY DEF Goto, AddsInv, IInv, TypeOK
<1>2. AddsOnly'
  BY <1>1 DEF AddsInv, AddsOnly
<1>3. QED
  BY <1>1, <1>2 DEF AddsInv, NoPanic

(* Every step that adds alone can lead to keeps it so. *)
LEMMA AddsStep ==
    ASSUME AddsInv, NEW t \in Task, NEW i \in Index, Step(t, i), IInv'
    PROVE  AddsInv'
<1>0. IInv /\ AddsOnly /\ NoPanic /\ TypeOK
  BY DEF AddsInv, IInv
<1>1. CASE AddCheckNext(t, i) \/ FullCheckNext(t, i)
  <2>1. PICK l \in {"place", "add_len", "full_len"} :
          /\ Goto(t, i, l) /\ nodes' = nodes /\ next_bucket' = next_bucket
          /\ l = "place" => next_bucket[i]
          /\ l = "full_len" => pc[t][i] = "full"
    BY <1>1 DEF AddCheckNext, FullCheckNext, At
  <2>2. l = "full_len" => next_bucket[i] \/ Len(nodes[i]) = KSize
    BY <1>0, <2>1 DEF AddsOnly
  <2>3. QED
    BY <2>1, <2>2, AddsGoto DEF Labels
<1>2. CASE AddCheckLen(t, i)
  <2>1. PICK l \in {"write", "full"} :
          /\ Goto(t, i, l) /\ nodes' = nodes /\ next_bucket' = next_bucket
          /\ l = "full" => ~(Len(nodes[i]) < KSize)
    BY <1>2 DEF AddCheckLen
  <2>2. Len(nodes[i]) \in Nat /\ Len(nodes[i]) <= KSize /\ KSize \in Nat
    BY <1>0, LenProperties, KSizeAssumption DEF IInv, TypeOK, Capacity
  <2>3. l = "full" => Len(nodes[i]) = KSize
    BY <2>1, <2>2
  <2>4. QED
    BY <2>1, <2>3, AddsGoto DEF Labels
<1>3. CASE FullCheckLen(t, i)
  <2>1. PICK l \in {"make_next", "place"} :
          /\ Goto(t, i, l) /\ nodes' = nodes /\ next_bucket' = next_bucket
          /\ l = "make_next" => Len(nodes[i]) = KSize
          /\ l = "place" => Len(nodes[i]) # KSize
          /\ pc[t][i] = "full_len"
    BY <1>3 DEF FullCheckLen, At
  <2>2. l = "place" => next_bucket[i]
    BY <1>0, <2>1 DEF AddsOnly
  <2>3. QED
    BY <2>1, <2>2, AddsGoto DEF Labels
<1>4. CASE Place(t, i)
  <2>1. next_bucket[i] /\ nodes' = nodes /\ next_bucket' = next_bucket
    BY <1>0, <1>4 DEF Place, At, AddsOnly
  <2>2. CASE Goto(t, i, "write")
    <3>1. QED
      BY <2>1, <2>2, AddsGoto DEF Labels
  <2>3. CASE TailCall(t, i, "add")
    <3>1. i + 1 \in Index
      BY <1>0, <2>1, MaxBitAssumption DEF IInv, ChainOK, Index, MAX_BUCKET_INDEX
    <3>2. /\ \A u \in Task, j \in Index :
                pc'[u][j] \in {"ret", "add", pc[u][j]}
          /\ outcome' = outcome
      BY <1>0, <2>3, <3>1 DEF TailCall, TypeOK, Index
    <3>3. QED
      BY <1>0, <2>1, <3>2 DEF AddsInv, AddsOnly, NoPanic
  <2>4. QED
    BY <1>4, <2>1, <2>2, <2>3 DEF Place
<1>5. CASE Write(t, i)
  <2>1. /\ nodes' = [nodes EXCEPT ![i] = AddOrUpdate(@, arg[t][i])]
        /\ next_bucket' = next_bucket /\ Return(t, i) /\ pc[t][i] # "ret"
    BY <1>5 DEF Write, At
  <2>2. /\ \A u \in Task, j \in Index : pc'[u][j] \in {"ret", pc[u][j]}
        /\ \A u \in Task : outcome'[u] \in {"ok", outcome[u]}
    BY <1>0, <2>1 DEF Return, TypeOK
  <2>3. arg[t][i] \in Node /\ Fits(i, nodes[i])
    BY <1>0, <2>1, IInvFits DEF TypeOK
  <2>4. Len(nodes[i]) = KSize => Len(nodes'[i]) = KSize
    BY <1>0, <2>1, <2>3, AddOrUpdateFull DEF Fits, TypeOK
  <2>5. \A j \in Index : Len(nodes[j]) = KSize => Len(nodes'[j]) = KSize
    BY <1>0, <2>1, <2>4 DEF TypeOK
  <2>6. QED
    BY <1>0, <2>1, <2>2, <2>5 DEF AddsInv, AddsOnly, NoPanic
<1>6. CASE MakeNextBucket(t, i)
  <2>1. /\ nodes' = nodes
        /\ \A j \in Index : next_bucket[j] => next_bucket'[j]
    BY <1>0, <1>6 DEF MakeNextBucket, TypeOK
  <2>2. CASE Return(t, i)
    <3>1. /\ \A u \in Task, j \in Index : pc'[u][j] \in {"ret", pc[u][j]}
          /\ \A u \in Task : outcome'[u] \in {"ok", outcome[u]}
      BY <1>0, <2>2 DEF Return, TypeOK
    <3>2. QED
      BY <1>0, <2>1, <3>1 DEF AddsInv, AddsOnly, NoPanic
  <2>3. CASE (next_bucket[i] /\ Goto(t, i, "place")) \/ Goto(t, i, "lock_nodes")
    <3>1. QED
      BY <2>1, <2>3, AddsGoto DEF Labels
  <2>4. QED
    BY <1>6, <2>2, <2>3 DEF MakeNextBucket
<1>7. CASE LockNodes(t, i) \/ MigrateDone(t, i)
  <2>1. PICK l \in {"migrate", "place"} :
          /\ Goto(t, i, l) /\ nodes' = nodes /\ next_bucket' = next_bucket
          /\ pc[t][i] \in {"lock_nodes", "migrate"}
    BY <1>7 DEF LockNodes, MigrateDone, At
  <2>2. next_bucket[i]
    BY <1>0, <2>1 DEF IInv, ChainOK
  <2>3. QED
    BY <2>1, <2>2, AddsGoto DEF Labels
<1>8. CASE MigrateOne(t, i)
  <2>1. /\ pc[t][i] = "migrate" /\ next_bucket' = next_bucket /\ outcome' = outcome
        /\ pc' = [pc EXCEPT ![t][i + 1] = "add"]
    BY <1>8 DEF MigrateOne, At
  <2>2. next_bucket[i]
    BY <1>0, <2>1 DEF IInv, ChainOK
  <2>3. \A j \in Index : j # i => nodes'[j] = nodes[j]
    BY <1>0, <1>8 DEF MigrateOne, TypeOK
  <2>4. \A u \in Task, j \in Index : pc'[u][j] \in {"add", pc[u][j]}
    BY <1>0, <2>1 DEF TypeOK
  <2>5. QED
    BY <1>0, <2>1, <2>2, <2>3, <2>4 DEF AddsInv, AddsOnly, NoPanic
<1>9. ~RemoveRoute(t, i) /\ ~RemoveWrite(t, i)
  BY <1>0 DEF RemoveRoute, RemoveWrite, At, AddsOnly
<1>10. QED
  BY <1>1, <1>2, <1>3, <1>4, <1>5, <1>6, <1>7, <1>8, <1>9 DEF Step

(* While no one removes, next_bucket.get().unwrap() in add never panics,   *)
(* however many tasks add at once: it takes a remove between the two reads *)
(* of len() to reach it with the OnceCell unset.                           *)
THEOREM AddsNeverPanic == AddOnlySpec => []NoPanic
<1>1. Init => AddsInv
  <2> SUFFICES ASSUME Init PROVE AddsInv
    OBVIOUS
  <2>1. AddsOnly /\ NoPanic
    BY DEF Init, AddsOnly, NoPanic
  <2>2. QED
    BY <2>1, InitIInv DEF AddsInv
<1>2. AddsInv /\ [AddOnlyNext]_vars => AddsInv'
  <2> SUFFICES ASSUME AddsInv, [AddOnlyNext]_vars PROVE AddsInv'
    OBVIOUS
  <2>1. IInv'
    BY NextIInv DEF AddsInv, AddOnlyNext, Next
  <2>2. ASSUME NEW t \in Task, NEW n \in Node, StartAdd(t, n)
        PROVE  AddsInv'
    <3>1. /\ nodes' = nodes /\ next_bucket' = next_bucket
          /\ \A u \in Task, j \in Index : pc'[u][j] \in {"add", pc[u][j]}
          /\ \A u \in Task : outcome'[u] \in {"ok", outcome[u]}
      BY <2>2 DEF StartAdd, Start, AddsInv, IInv, TypeOK
    <3>2. QED
      BY <2>1, <3>1 DEF AddsInv, AddsOnly, NoPanic
  <2>3. ASSUME NEW t \in Task, NEW i \in Index, Step(t, i)
        PROVE  AddsInv'
    BY <2>1, <2>3, AddsStep
  <2>4. CASE UNCHANGED vars
    BY <2>1, <2>4 DEF AddsInv, AddsOnly, NoPanic, vars
  <2>5. QED
    BY <2>2, <2>3, <2>4 DEF AddOnlyNext
<1>3. QED
  BY <1>1, <1>2, PTL DEF AddOnlySpec, AddsInv

-----------------------------------------------------------------------------
(* What the steps of a frame do to each frame *)

LEMMA GotoEffect ==
    ASSUME TypeOK, NEW t \in Task, NEW i \in Index, NEW l, Goto(t, i, l)
    PROVE  /\ \A u \in Task, j \in Index :
                 pc'[u][j] = IF u = t /\ j = i THEN l ELSE pc[u][j]
           /\ arg' = arg /\ outcome' = outcome
  BY DEF Goto, TypeOK

LEMMA ReturnEffect ==
    ASSUME TypeOK, NEW t \in Task, NEW i \in Index, Return(t, i)
    PROVE  /\ \A u \in Task, j \in Index :
                 /\ pc'[u][j] = IF u = t /\ j = i THEN "ret" ELSE pc[u][j]
                 /\ arg'[u][j] = IF u = t /\ j = i THEN NoArg ELSE arg[u][j]
           /\ \A u \in Task : outcome'[u] = IF u = t THEN "ok" ELSE outcome[u]
  BY DEF Return, TypeOK

LEMMA TailCallEffect ==
    ASSUME TypeOK, NEW t \in Task, NEW i \in Index, NEW l, i + 1 \in Index,
           TailCall(t, i, l)
    PROVE  /\ \A u \in Task, j \in Index :
                 /\ pc'[u][j] = IF u = t /\ j = i + 1 THEN l
                                ELSE IF u = t /\ j = i THEN "ret" ELSE pc[u][j]
                 /\ arg'[u][j] = IF u = t /\ j = i + 1 THEN arg[t][i]
                                 ELSE IF u = t /\ j = i THEN NoArg ELSE arg[u][j]
           /\ outcome' = outcome
  BY DEF TailCall, TypeOK, Index

LEMMA PanicEffect ==
    ASSUME TypeOK, NEW t \in Task, Panic(t)
    PROVE  /\ \A u \in Task, j \in Index :
                 /\ pc'[u][j] = IF u = t THEN "ret" ELSE pc[u][j]
                 /\ arg'[u][j] = IF u = t THEN NoArg ELSE arg[u][j]
           /\ \A u \in Task : outcome'[u] = IF u = t THEN "panic" ELSE outcome[u]
  BY DEF Panic, TypeOK

LEMMA StartEffect ==
    ASSUME TypeOK, NEW t \in Task, NEW l, NEW n, Start(t, l, n)
    PROVE  /\ 0 \in Index
           /\ \A u \in Task, j \in Index :
                 /\ pc'[u][j] = IF u = t /\ j = 0 THEN l ELSE pc[u][j]
                 /\ arg'[u][j] = IF u = t /\ j = 0 THEN n ELSE arg[u][j]
           /\ \A u \in Task : outcome'[u] = IF u = t THEN "ok" ELSE outcome[u]
           /\ nodes' = nodes /\ next_bucket' = next_bucket
           /\ \A j \in Index : pc[t][j] = "ret"
<1>1. 0 \in Index
  BY MaxBitAssumption DEF Index, MAX_BUCKET_INDEX
<1>2. QED
  BY <1>1 DEF Start, Idle, TypeOK

LEMMA MigrateEffect ==
    ASSUME IInv, NEW t \in Task, NEW i \in Index, MigrateOne(t, i)
    PROVE  /\ i + 1 \in Index /\ next_bucket' = next_bucket /\ outcome' = outcome
           /\ \E p \in DOMAIN nodes[i] :
                 /\ ~BelongsHere(i, nodes[i][p].id)
                 /\ nodes' = [nodes EXCEPT ![i] = SwapRemove(nodes[i], p)]
                 /\ \A u \in Task, j \in Index :
                       /\ pc'[u][j] = IF u = t /\ j = i + 1 THEN "add" ELSE pc[u][j]
                       /\ arg'[u][j] = IF u = t /\ j = i + 1 THEN nodes[i][p]
                                       ELSE arg[u][j]
<1>1. i + 1 \in Index
  BY MaxBitAssumption DEF MigrateOne, At, IInv, ChainOK, Index, MAX_BUCKET_INDEX
<1>2. PICK p \in Misfits(i) :
          /\ nodes' = [nodes EXCEPT ![i] = SwapRemove(@, p)]
          /\ pc' = [pc EXCEPT ![t][i + 1] = "add"]
          /\ arg' = [arg EXCEPT ![t][i + 1] = nodes[i][p]]
  BY DEF MigrateOne
<1>3. p \in DOMAIN nodes[i] /\ ~BelongsHere(i, nodes[i][p].id)
  BY <1>2 DEF Misfits
<1>4. \A u \in Task, j \in Index :
         /\ pc'[u][j] = IF u = t /\ j = i + 1 THEN "add" ELSE pc[u][j]
         /\ arg'[u][j] = IF u = t /\ j = i + 1 THEN nodes[i][p] ELSE arg[u][j]
  BY <1>1, <1>2 DEF IInv, TypeOK
<1>5. QED
  BY <1>1, <1>2, <1>3, <1>4 DEF MigrateOne

(* A tail call is made in a bucket that has a successor. *)
LEMMA NextInIndex ==
    ASSUME IInv, NEW i \in Index, next_bucket[i]
    PROVE  i + 1 \in Index
  BY MaxBitAssumption DEF IInv, ChainOK, Index, MAX_BUCKET_INDEX

(* What a bucket holds after its nodes were changed in one place. *)
LEMMA NodesEffect ==
    ASSUME IInv, NEW i \in Index, NEW s, nodes' = [nodes EXCEPT ![i] = s]
    PROVE  \A j \in Index : nodes'[j] = IF j = i THEN s ELSE nodes[j]
  BY DEF IInv, TypeOK

(* Of buckets after one without successor, the first with a successor      *)
(* would come after one that has none: there is no such bucket.            *)
LEMMA NoneAfter ==
    ASSUME IInv, NEW j \in Index, ~next_bucket[j], NEW k \in Index, j < k
    PROVE  nodes[k] = <<>> /\ ~next_bucket[k]
<1> DEFINE S == {x \in Index : j <= x /\ next_bucket[x]}
           Below == {0 .. x : x \in S}
<1>0. Index \subseteq Nat /\ j \in Nat /\ k \in Nat /\ MAX_BUCKET_INDEX \in Nat
  BY MaxBitAssumption DEF Index, MAX_BUCKET_INDEX
<1>1. SUFFICES S = {}
  <2>1. k - 1 \in Index /\ j <= k - 1 /\ k > 0
    BY <1>0 DEF Index
  <2>2. ~next_bucket[k - 1]
    BY <1>1, <2>1
  <2>3. ~next_bucket[k]
    BY <1>0, <1>1
  <2>4. QED
    BY <2>1, <2>2, <2>3 DEF IInv, ChainOK
<1>2. SUFFICES ASSUME S # {} PROVE FALSE
  OBVIOUS
<1>3. Below \subseteq FiniteSubsetsOf(Index) /\ Below # {}
  <2>1. \A x \in S : (0 .. x) \in SUBSET Index /\ x \in Int
    BY <1>0 DEF Index
  <2>2. \A x \in S : IsFiniteSet(0 .. x)
    BY <2>1, FS_Interval
  <2>3. QED
    BY <1>2, <2>1, <2>2 DEF FiniteSubsetsOf
<1> HIDE DEF Below
<1>4. PICK m \in Below : \A y \in Below : ~(<<y, m>> \in StrictSubsetOrdering(Index))
  BY <1>3, FS_StrictSubsetOrderingWellFounded, WFMin
<1>5. PICK x \in S : m = 0 .. x
  BY DEF Below
<1>6. x \in Index /\ j < x /\ next_bucket[x]
  BY <1>0, <1>5
<1>7. x - 1 \in Index /\ j <= x - 1 /\ x > 0
  BY <1>0, <1>6 DEF Index
<1>8. next_bucket[x - 1]
  BY <1>6, <1>7 DEF IInv, ChainOK
<1>9. (0 .. (x - 1)) \in Below
  BY <1>7, <1>8 DEF Below
<1>10. /\ (0 .. (x - 1)) \in SUBSET Index /\ (0 .. x) \in SUBSET Index
       /\ (0 .. (x - 1)) \subseteq (0 .. x) /\ (0 .. (x - 1)) # (0 .. x)
  <2>1. x \in 0 .. x /\ x \notin 0 .. (x - 1)
    BY <1>0, <1>6
  <2>2. QED
    BY <1>0, <1>6, <2>1 DEF Index
<1>11. <<0 .. (x - 1), m>> \in StrictSubsetOrdering(Index)
  BY <1>5, <1>10 DEF StrictSubsetOrdering
<1>12. QED
  BY <1>4, <1>9, <1>11

-----------------------------------------------------------------------------
(* A lookup *)

(* Iterator::take *)
LEMMA TakeLemma ==
    ASSUME NEW s \in Seq(Node), NEW k \in Nat
    PROVE  /\ Take(s, k) \in Seq(Node)
           /\ Len(Take(s, k)) = IF k < Len(s) THEN k ELSE Len(s)
           /\ \A q \in DOMAIN Take(s, k) : q \in DOMAIN s /\ Take(s, k)[q] = s[q]
<1> DEFINE m == IF k < Len(s) THEN k ELSE Len(s)
<1>1. Len(s) \in Nat /\ m \in Nat /\ m <= Len(s) /\ DOMAIN s = 1 .. Len(s)
  BY LenProperties
<1>2. Take(s, k) = SubSeq(s, 1, m)
  BY DEF Take
<1>3. \A q \in 1 .. m : q \in 1 .. Len(s)
  BY <1>1
<1> HIDE DEF m
<1>4. /\ SubSeq(s, 1, m) \in Seq(Node) /\ Len(SubSeq(s, 1, m)) = m
      /\ \A q \in 1 .. m : SubSeq(s, 1, m)[q] = s[q]
  BY <1>1, <1>3, SubSeqProperties
<1>5. DOMAIN SubSeq(s, 1, m) = 1 .. m
  BY <1>4, LenProperties
<1>6. QED
  BY <1>1, <1>2, <1>3, <1>4, <1>5 DEF m

(* k_nearest.extend fills the gap and no more. *)
LEMMA FillLemma ==
    ASSUME NEW a \in Seq(Node), Len(a) <= KSize, NEW s \in Seq(Node),
           NEW r, r = a \o Take(s, KSize - Len(a))
    PROVE  r \in Seq(Node) /\ Len(r) <= KSize
<1>1. Len(a) \in Nat /\ KSize \in Nat /\ KSize - Len(a) \in Nat
  BY LenProperties, KSizeAssumption
<1>2. Take(s, KSize - Len(a)) \in Seq(Node) /\ Len(Take(s, KSize - Len(a))) <= KSize - Len(a)
  BY <1>1, TakeLemma, LenProperties
<1>3. r \in Seq(Node) /\ Len(r) = Len(a) + Len(Take(s, KSize - Len(a)))
  BY <1>2, ConcatProperties
<1>4. QED
  BY <1>1, <1>2, <1>3, LenProperties

(* The two parts of a list that was extended. *)
LEMMA ConcatAt ==
    ASSUME NEW a \in Seq(Node), NEW z \in Seq(Node), NEW r, r = a \o z
    PROVE  /\ r \in Seq(Node)
           /\ Len(r) = Len(a) + Len(z) /\ DOMAIN r = 1 .. (Len(a) + Len(z))
           /\ \A q \in 1 .. Len(a) : r[q] = a[q]
           /\ \A q \in 1 .. Len(z) : r[Len(a) + q] = z[q]
<1>0. Len(a) \in Nat /\ Len(z) \in Nat
  BY LenProperties
<1>1. /\ r \in Seq(Node) /\ Len(r) = Len(a) + Len(z)
      /\ \A q \in 1 .. Len(a) + Len(z) :
            r[q] = IF q <= Len(a) THEN a[q] ELSE z[q - Len(a)]
  <2>1. /\ (a \o z) \in Seq(Node) /\ Len(a \o z) = Len(a) + Len(z)
        /\ \A q \in 1 .. Len(a) + Len(z) :
              (a \o z)[q] = IF q <= Len(a) THEN a[q] ELSE z[q - Len(a)]
    BY ConcatProperties, Zenon
  <2>2. QED
    BY <2>1, Zenon
<1>2. \A q \in 1 .. Len(z) : /\ Len(a) + q \in 1 .. Len(a) + Len(z) /\ ~(Len(a) + q <= Len(a))
                             /\ Len(a) + q - Len(a) = q
  BY <1>0
<1>3. \A q \in 1 .. Len(a) : q \in 1 .. Len(a) + Len(z) /\ q <= Len(a)
  BY <1>0
<1>4. QED
  BY <1>1, <1>2, <1>3, LenProperties

(* What extend with take leaves in k_nearest: all of both, or k_size. *)
LEMMA FilledLemma ==
    ASSUME NEW a \in Seq(Node), Len(a) <= KSize, NEW s \in Seq(Node),
           NEW r, r = a \o Take(s, KSize - Len(a))
    PROVE  /\ \A n \in Range(a) : n \in Range(r)
           /\ Len(r) = KSize \/ \A n \in Range(s) : n \in Range(r)
           /\ Len(a) = KSize \/ Len(s) = KSize => Len(r) = KSize
<1> DEFINE g == KSize - Len(a)
           z == Take(s, g)
<1>1. /\ Len(a) \in Nat /\ Len(s) \in Nat /\ KSize \in Nat /\ g \in Nat
      /\ DOMAIN a = 1 .. Len(a) /\ DOMAIN s = 1 .. Len(s)
  BY LenProperties, KSizeAssumption
<1>2. /\ z \in Seq(Node) /\ Len(z) = IF g < Len(s) THEN g ELSE Len(s)
      /\ \A q \in DOMAIN z : q \in DOMAIN s /\ z[q] = s[q]
  BY <1>1, TakeLemma
<1>3. g = KSize - Len(a) /\ r = a \o z /\ DOMAIN z = 1 .. Len(z)
  BY <1>2, LenProperties
<1> HIDE DEF g, z
<1>4. /\ Len(r) = Len(a) + Len(z) /\ DOMAIN r = 1 .. (Len(a) + Len(z))
      /\ \A q \in 1 .. Len(a) : r[q] = a[q]
      /\ \A q \in 1 .. Len(z) : r[Len(a) + q] = z[q]
  <2>1. z \in Seq(Node) /\ r = a \o z
    BY <1>2, <1>3
  <2>2. QED
    BY ONLY a \in Seq(Node), <2>1, ConcatAt
<1>5. ASSUME NEW n \in Range(a) PROVE n \in Range(r)
  <2>1. PICK q \in 1 .. Len(a) : a[q] = n
    BY <1>1, <1>5 DEF Range
  <2>2. q \in DOMAIN r
    BY <1>1, <1>2, <1>4
  <2>3. QED
    BY <1>4, <2>1, <2>2 DEF Range
<1>6. ASSUME Len(r) # KSize, NEW n \in Range(s) PROVE n \in Range(r)
  <2>1. PICK q \in 1 .. Len(s) : s[q] = n
    BY <1>1, <1>6 DEF Range
  <2>2. Len(z) = Len(s)
    BY <1>1, <1>2, <1>3, <1>4, <1>6
  <2>3. q \in 1 .. Len(z) /\ Len(a) + q \in 1 .. (Len(a) + Len(z))
    BY <1>1, <2>1, <2>2
  <2>4. z[q] = n
    BY <1>2, <1>3, <2>1, <2>3, ZenonT(30)
  <2>5. Len(a) + q \in DOMAIN r /\ r[Len(a) + q] = n
    BY <1>4, <2>3, <2>4
  <2>6. QED
    BY <2>5 DEF Range
<1>7. Len(a) = KSize \/ Len(s) = KSize => Len(r) = KSize
  <2>1. Len(r) = Len(a) + Len(z) /\ Len(z) = IF KSize - Len(a) < Len(s) THEN KSize - Len(a) ELSE Len(s)
    BY <1>2, <1>3, <1>4
  <2>2. \A x, y, k \in Nat : x <= k /\ (x = k \/ y = k) =>
           x + (IF k - x < y THEN k - x ELSE y) = k
    OBVIOUS
  <2>3. QED
    BY <1>1, <2>1, <2>2, ZenonT(30)
<1>8. QED
  BY <1>5, <1>6, <1>7

LookupOK ==
    /\ target \in Target \cup {NoArg}
    /\ lpc \in [Index -> LLabels]
    /\ acc \in [Index -> Seq(Node)]
    /\ \A i \in Index : Len(acc[i]) <= KSize
    /\ stable \subseteq Node

(* Each step of a lookup keeps it within k_size. *)
LEMMA LookupStepOK ==
    ASSUME IInv, LookupOK, NEW i \in Index, LookupStep(i)
    PROVE  LookupOK'
<1>0. 0 \in Index /\ Len(<<>>) <= KSize /\ <<>> \in Seq(Node)
  BY MaxBitAssumption, KSizeAssumption, EmptySeq DEF Index, MAX_BUCKET_INDEX
<1>1. CASE LookupFirst(i) \/ LookupRest(i)
  <2>1. CASE /\ UNCHANGED <<target, acc, stable>>
             /\ \E l, k \in LLabels : lpc' = [lpc EXCEPT ![i] = l, ![i + 1] = k]
             /\ i + 1 \in Index
    BY <2>1 DEF LookupOK
  <2>2. CASE /\ UNCHANGED <<target, acc, stable>>
             /\ \E l \in LLabels : lpc' = [lpc EXCEPT ![i] = l]
    BY <2>2 DEF LookupOK
  <2>3. next_bucket[i] => i + 1 \in Index
    BY MaxBitAssumption DEF IInv, ChainOK, Index, MAX_BUCKET_INDEX
  <2>4. QED
    BY <1>1, <2>1, <2>2, <2>3 DEF LookupFirst, LookupRest, LLabels
<1>2. CASE LookupOwn(i)
  <2>1. nodes[i] \in Seq(Node) /\ acc[i] \in Seq(Node) /\ Len(acc[i]) <= KSize
    BY DEF IInv, TypeOK, LookupOK
  <2> DEFINE r == acc[i] \o Take(nodes[i], KSize - Len(acc[i]))
  <2>2. acc' = [acc EXCEPT ![i] = r] /\ r = acc[i] \o Take(nodes[i], KSize - Len(acc[i]))
    BY <1>2 DEF LookupOwn, Gap
  <2> HIDE DEF r
  <2>3. r \in Seq(Node) /\ Len(r) <= KSize
    BY <2>1, <2>2, FillLemma
  <2>4. /\ acc' \in [Index -> Seq(Node)] /\ \A j \in Index : Len(acc'[j]) <= KSize
    BY <2>2, <2>3 DEF LookupOK
  <2>5. QED
    BY <1>2, <2>4 DEF LookupOwn, LookupOK, LLabels
<1>3. CASE LookupReturn(i)
  <2>1. CASE i = 0
    BY <1>0, <1>3, <2>1 DEF LookupReturn, LookupOK, LLabels
  <2>2. CASE i > 0
    <3>0. i - 1 \in Index /\ i - 1 # i /\ i # 0
      BY <2>2, MaxBitAssumption DEF Index, MAX_BUCKET_INDEX
    <3>1. acc[i] \in Seq(Node) /\ acc[i - 1] \in Seq(Node) /\ Len(acc[i - 1]) <= KSize
      BY <3>0 DEF LookupOK
    <3>2. CASE lpc[i - 1] = "first"
      <4>1. /\ target' = target /\ stable' = stable
            /\ lpc' = [lpc EXCEPT ![i] = "ret", ![i - 1] = "own"]
            /\ acc' = [acc EXCEPT ![i] = <<>>, ![i - 1] = acc[i]]
        BY <1>3, <2>2, <3>2 DEF LookupReturn
      <4>2. QED
        BY <1>0, <3>0, <4>1 DEF LookupOK, LLabels
    <3>3. CASE lpc[i - 1] = "tail"
      <4> DEFINE r == acc[i - 1] \o Take(acc[i], KSize - Len(acc[i - 1]))
      <4>1. /\ target' = target /\ stable' = stable
            /\ lpc' = [lpc EXCEPT ![i] = "ret", ![i - 1] = "done"]
            /\ acc' = [acc EXCEPT ![i] = <<>>, ![i - 1] = r]
            /\ r = acc[i - 1] \o Take(acc[i], KSize - Len(acc[i - 1]))
        BY <1>3, <2>2, <3>0, <3>3 DEF LookupReturn, Gap, LookupOK
      <4> HIDE DEF r
      <4>2. r \in Seq(Node) /\ Len(r) <= KSize
        BY <3>1, <4>1, FillLemma
      <4>3. QED
        BY <1>0, <3>0, <4>1, <4>2 DEF LookupOK, LLabels
    <3>4. QED
      BY <1>3, <3>0, <3>2, <3>3 DEF LookupReturn
  <2>3. QED
    BY <2>1, <2>2, MaxBitAssumption DEF Index
<1>4. QED
  BY <1>1, <1>2, <1>3 DEF LookupStep

LEMMA ReadsOK ==
    ASSUME IInv, LookupOK, Reads
    PROVE  LookupOK'
<1>0. 0 \in Index
  BY MaxBitAssumption DEF Index, MAX_BUCKET_INDEX
<1>1. ASSUME NEW id \in Target, LookupStart(id) PROVE LookupOK'
  BY <1>0, <1>1 DEF LookupStart, LookupOK, LLabels, Steady
<1>2. QED
  BY <1>1, LookupStepOK DEF Reads
=============================================================================
