---------------------------- MODULE RouterProofs ----------------------------
(***************************************************************************)
(* What the router and its ban list make of the chain of buckets: what is  *)
(* forgotten, what a ban achieves while other requests run, and what holds *)
(* when requests come one at a time.                                       *)
(***************************************************************************)
EXTENDS Router, BucketProofs

-----------------------------------------------------------------------------
(* What a bucket keeps *)

LEMMA NotLast ==
    ASSUME NEW n \in Nat, NEW q \in 1 .. n, q # n
    PROVE  q \in 1 .. (n - 1)
  OBVIOUS

(* Vec::remove and swap_remove lose one element. *)
LEMMA ShrinkKeeps ==
    ASSUME NEW s \in Seq(Node), NEW p \in DOMAIN s,
           NEW r \in {RemoveAt(s, p), SwapRemove(s, p)}
    PROVE  \A q \in DOMAIN s : q # p => \E k \in DOMAIN r : r[k] = s[q]
<1>1. Len(s) \in Nat /\ DOMAIN s = 1 .. Len(s) /\ p \in 1 .. Len(s)
  BY LenProperties
<1> SUFFICES ASSUME NEW q \in 1 .. Len(s), q # p PROVE \E k \in DOMAIN r : r[k] = s[q]
  BY <1>1
<1>2. CASE r = RemoveAt(s, p)
  <2>1. /\ r \in Seq(Node) /\ Len(r) = Len(s) - 1
        /\ \A k \in 1 .. (Len(s) - 1) : r[k] = IF k < p THEN s[k] ELSE s[k + 1]
    BY <1>1, <1>2, RemoveAtLemma, ZenonT(30)
  <2>2. DOMAIN r = 1 .. (Len(s) - 1)
    BY <2>1, LenProperties
  <2>3. CASE q < p
    <3>1. q \in 1 .. (Len(s) - 1) /\ r[q] = s[q]
      BY <1>1, <2>1, <2>3
    <3>2. QED
      BY <2>2, <3>1
  <2>4. CASE p < q
    <3>1. q - 1 \in 1 .. (Len(s) - 1) /\ ~(q - 1 < p) /\ (q - 1) + 1 = q
      BY <1>1, <2>4
    <3>2. r[q - 1] = s[q]
      BY <2>1, <3>1, SMTT(30)
    <3>3. QED
      BY <2>2, <3>1, <3>2
  <2>5. QED
    BY <1>1, <2>3, <2>4, SMTT(30)
<1>3. CASE r = SwapRemove(s, p)
  <2>1. /\ r \in Seq(Node) /\ Len(r) = Len(s) - 1
        /\ \A k \in 1 .. (Len(s) - 1) : r[k] = IF k = p THEN s[Len(s)] ELSE s[k]
    BY <1>1, <1>3, SwapRemoveLemma, ZenonT(30)
  <2>2. DOMAIN r = 1 .. (Len(s) - 1)
    BY <2>1, LenProperties
  <2>3. CASE q = Len(s)
    <3>1. p \in 1 .. (Len(s) - 1) /\ r[p] = s[q]
      BY <1>1, <2>1, <2>3
    <3>2. QED
      BY <2>2, <3>1
  <2>4. CASE q # Len(s)
    <3>1. q \in 1 .. (Len(s) - 1)
      BY <1>1, <2>4, NotLast
    <3>2. r[q] = s[q]
      BY <2>1, <3>1
    <3>3. QED
      BY <2>2, <3>1, <3>2
  <2>5. QED
    BY <2>3, <2>4
<1>4. QED
  BY <1>2, <1>3

(* add_or_update forgets nothing, and knows the new id unless it is full. *)
LEMMA AddOrUpdateKeeps ==
    ASSUME NEW s \in Seq(Node), DistinctIds(s), Len(s) <= KSize, NEW n \in Node,
           NEW r, r = AddOrUpdate(s, n)
    PROVE  /\ \A q \in DOMAIN s : \E k \in DOMAIN r : r[k] = s[q]
           /\ (\E k \in DOMAIN r : r[k].id = n.id) \/ Len(s) = KSize
<1> DEFINE P == {p \in 1 .. Len(s) : s[p].id = n.id}
<1>0. Len(s) \in Nat /\ DOMAIN s = 1 .. Len(s)
  BY LenProperties
<1>1. CASE P = {}
  <2>1. r = IF Len(s) < KSize THEN Append(s, n) ELSE s
    BY <1>1 DEF AddOrUpdate, LastPosition, SelectLastInSeq
  <2>2. CASE Len(s) < KSize
    <3>1. /\ DOMAIN r = 1 .. (Len(s) + 1) /\ r[Len(s) + 1] = n
          /\ \A q \in 1 .. Len(s) : r[q] = s[q]
      BY <2>1, <2>2, AppendProperties, LenProperties
    <3>2. Len(s) + 1 \in DOMAIN r /\ \A q \in 1 .. Len(s) : q \in DOMAIN r
      BY <1>0, <3>1
    <3>3. QED
      BY <1>0, <3>1, <3>2
  <2>3. CASE ~(Len(s) < KSize)
    <3>1. KSize \in Nat /\ Len(s) \in Nat /\ Len(s) <= KSize /\ ~(Len(s) < KSize)
      BY <1>0, <2>3, KSizeAssumption
    <3>2. Len(s) = KSize
      BY <3>1
    <3>3. QED
      BY <2>1, <2>3, <3>2
  <2>4. QED
    BY <2>2, <2>3
<1>2. CASE P # {}
  <2>1. PICK k \in P : TRUE
    BY <1>2
  <2>2. P = {k}
    BY <1>0, <2>1 DEF DistinctIds
  <2>3. LastPosition(s, n.id) = k
    BY <2>1, <2>2 DEF LastPosition, SelectLastInSeq, Max
  <2>4. k \in 1 .. Len(s) /\ s[k] \in Node /\ s[k].id = n.id
    BY <2>1, ElementOfSeq
  <2>5. r = Append(RemoveAt(s, k), s[k])
    BY <2>3, <2>4 DEF AddOrUpdate
  <2> DEFINE a == RemoveAt(s, k)
  <2>6. a \in Seq(Node)
    BY <2>4, RemoveAtLemma
  <2>7. a \in {RemoveAt(s, k), SwapRemove(s, k)} /\ k \in DOMAIN s
    BY <1>0, <2>4
  <2> HIDE DEF a, P
  <2>11. \A q \in DOMAIN s : q # k => \E j \in DOMAIN a : a[j] = s[q]
    BY <2>7, ShrinkKeeps
  <2>8. /\ DOMAIN r = 1 .. (Len(a) + 1) /\ r[Len(a) + 1] = s[k]
        /\ \A q \in DOMAIN a : r[q] = a[q] /\ q \in DOMAIN r
        /\ Len(a) + 1 \in DOMAIN r
    BY <2>4, <2>5, <2>6, AppendProperties, LenProperties DEF a
  <2>9. ASSUME NEW q \in DOMAIN s PROVE \E j \in DOMAIN r : r[j] = s[q]
    BY <2>8, <2>11
  <2>10. QED
    BY <2>4, <2>8, <2>9
<1>3. QED
  BY <1>1, <1>2

-----------------------------------------------------------------------------
(* What the table forgets *)

(* A task that has frames has not panicked since it got them. *)
Running == \A t \in Task, i \in Index : pc[t][i] # "ret" => outcome[t] = "ok"

(* The four ways to forget an id that Retention lists. *)
Forgotten(id) ==
    \E t \in Task, i \in Index :
        /\ arg[t][i] # NoArg /\ arg[t][i].id = id
        /\ \/ pc[t][i] = "remove_write"
           \/ pc[t][i] = "write" /\ Len(nodes[i]) = KSize
           \/ pc[t][i] = "make_next" /\ i = MAX_BUCKET_INDEX
           \/ outcome'[t] = "panic" /\ outcome[t] # "panic"

(* A frame that goes on keeps its node; a split that goes on has nothing   *)
(* under way.                                                              *)
LEMMA GotoKnown ==
    ASSUME IInv, NEW t \in Task, NEW i \in Index, NEW l, l # "ret",
           pc[t][i] # "ret", \A j \in Index : j > i => pc[t][j] = "ret",
           Goto(t, i, l), nodes' = nodes, NEW id, Known(id)
    PROVE  Known(id)'
<1>1. CASE InBuckets(id)
  BY <1>1 DEF Known, InBuckets
<1>2. CASE InTransit(id)
  <2>1. PICK u \in Task, a \in Index, b \in Index :
           a < b /\ pc[u][a] = "migrate" /\ pc[u][b] # "ret" /\ arg[u][b].id = id
    BY <1>2 DEF InTransit
  <2>2. ~(u = t /\ a = i)
    BY <2>1
  <2>3. pc'[u][a] = "migrate" /\ pc'[u][b] # "ret" /\ arg'[u][b].id = id
    BY <2>1, <2>2, GotoEffect DEF IInv
  <2>4. QED
    BY <2>1, <2>3 DEF Known, InTransit
<1>3. QED
  BY <1>1, <1>2 DEF Known

(* The node of the frame that returns is the only one it can lose. *)
LEMMA ReturnTransit ==
    ASSUME IInv, NEW t \in Task, NEW i \in Index, pc[t][i] \notin {"ret", "migrate"},
           Return(t, i), NEW id, InTransit(id), arg[t][i].id # id
    PROVE  Known(id)'
<1>1. PICK u \in Task, a \in Index, b \in Index :
         a < b /\ pc[u][a] = "migrate" /\ pc[u][b] # "ret" /\ arg[u][b].id = id
  BY DEF InTransit
<1>2. pc'[u][a] = "migrate" /\ pc'[u][b] # "ret" /\ arg'[u][b].id = id
  BY <1>1, ReturnEffect DEF IInv
<1>3. QED
  BY <1>1, <1>2 DEF Known, InTransit

(* The node moves to the next bucket with the call. *)
LEMMA TailCallKnown ==
    ASSUME IInv, NEW t \in Task, NEW i \in Index, NEW l, l # "ret",
           pc[t][i] \notin {"ret", "migrate"}, next_bucket[i],
           \A j \in Index : j > i => pc[t][j] = "ret",
           TailCall(t, i, l), nodes' = nodes, NEW id, Known(id)
    PROVE  Known(id)'
<1>1. CASE InBuckets(id)
  BY <1>1 DEF Known, InBuckets
<1>2. CASE InTransit(id)
  <2>0. i + 1 \in Index /\ i + 1 > i /\ i \in Int
    BY NextInIndex DEF Index
  <2>1. PICK u \in Task, a \in Index, b \in Index :
           a < b /\ pc[u][a] = "migrate" /\ pc[u][b] # "ret" /\ arg[u][b].id = id
    BY <1>2 DEF InTransit
  <2>2. u = t => a # i /\ a # i + 1 /\ b # i + 1
    BY <2>0, <2>1
  <2>3. pc'[u][a] = "migrate"
    <3>1. \A v \in Task, j \in Index :
             pc'[v][j] = IF v = t /\ j = i + 1 THEN l
                         ELSE IF v = t /\ j = i THEN "ret" ELSE pc[v][j]
      BY <2>0, TailCallEffect DEF IInv, Index
    <3>2. pc'[u][a] = pc[u][a]
      BY <2>2, <3>1
    <3>3. QED
      BY <2>1, <3>2
  <2>4. CASE u = t /\ b = i
    <3>1. pc'[u][i + 1] # "ret" /\ arg'[u][i + 1].id = id /\ a < i + 1
      BY <2>0, <2>1, <2>4, TailCallEffect DEF IInv, Index
    <3>2. QED
      BY <2>0, <2>3, <3>1 DEF Known, InTransit
  <2>5. CASE ~(u = t /\ b = i)
    <3>1. \A v \in Task, j \in Index : ~(v = t /\ j \in {i, i + 1}) =>
             pc'[v][j] = pc[v][j] /\ arg'[v][j] = arg[v][j]
      BY <2>0, TailCallEffect DEF IInv
    <3>2. pc'[u][b] = pc[u][b] /\ arg'[u][b] = arg[u][b]
      BY <2>2, <2>5, <3>1
    <3>3. QED
      BY <2>1, <2>3, <3>2 DEF Known, InTransit
  <2>6. QED
    BY <2>4, <2>5
<1>3. QED
  BY <1>1, <1>2 DEF Known

LEMMA WriteForgets ==
    ASSUME IInv, NEW t \in Task, NEW i \in Index, Write(t, i),
           NEW id, Known(id), ~Known(id)'
    PROVE  Forgotten(id)
<1> DEFINE n == arg[t][i]
           r == AddOrUpdate(nodes[i], n)
<1>1. /\ pc[t][i] = "write" /\ Return(t, i) /\ nodes' = [nodes EXCEPT ![i] = r]
  BY DEF Write, At
<1>2. n \in Node /\ n # NoArg /\ Fits(i, nodes[i])
  BY <1>1, IInvFits, NodeAssumption DEF IInv, TypeOK
<1>9. r = AddOrUpdate(nodes[i], n)
  OBVIOUS
<1> HIDE DEF r
<1>3. /\ \A q \in DOMAIN nodes[i] : \E k \in DOMAIN r : r[k] = nodes[i][q]
      /\ (\E k \in DOMAIN r : r[k].id = n.id) \/ Len(nodes[i]) = KSize
  BY <1>2, <1>9, AddOrUpdateKeeps DEF Fits
<1>4. \A j \in Index : nodes'[j] = IF j = i THEN r ELSE nodes[j]
  BY <1>1, NodesEffect
<1>5. ~InBuckets(id)
  <2>1. SUFFICES ASSUME InBuckets(id) PROVE InBuckets(id)'
    BY DEF Known
  <2>2. PICK j \in Index : \E p \in DOMAIN nodes[j] : nodes[j][p].id = id
    BY <2>1 DEF InBuckets
  <2>3. \E k \in DOMAIN nodes'[j] : nodes'[j][k].id = id
    BY <1>3, <1>4, <2>2
  <2>4. QED
    BY <2>3 DEF InBuckets
<1>6. n.id = id
  BY <1>1, <1>5, ReturnTransit DEF Known
<1>7. Len(nodes[i]) = KSize
  <2>1. SUFFICES ASSUME NEW k \in DOMAIN r, r[k].id = n.id PROVE InBuckets(id)'
    BY <1>3 DEF Known
  <2>2. k \in DOMAIN nodes'[i] /\ nodes'[i][k].id = id
    BY <1>4, <1>6, <2>1
  <2>3. QED
    BY <2>2 DEF InBuckets
<1>8. QED
  BY <1>1, <1>2, <1>6, <1>7 DEF Forgotten

LEMMA RemoveForgets ==
    ASSUME IInv, NEW t \in Task, NEW i \in Index, RemoveWrite(t, i),
           NEW id, Known(id), ~Known(id)'
    PROVE  Forgotten(id)
<1> DEFINE p == FirstPosition(nodes[i], arg[t][i].id)
<1>1. pc[t][i] = "remove_write" /\ Return(t, i)
  BY DEF RemoveWrite, At
<1>2. arg[t][i] # NoArg /\ Fits(i, nodes[i])
  BY <1>1, IInvFits DEF IInv, TypeOK
<1>3. SUFFICES ASSUME arg[t][i].id # id PROVE FALSE
  BY <1>1, <1>2 DEF Forgotten
<1>4. InBuckets(id)
  BY <1>1, <1>3, ReturnTransit DEF Known
<1>9. PICK j \in Index : \E q \in DOMAIN nodes[j] : nodes[j][q].id = id
  BY <1>4 DEF InBuckets
<1>5. PICK q \in DOMAIN nodes[j] : nodes[j][q].id = id
  BY <1>9
<1>6. CASE nodes' = nodes
  BY <1>4, <1>6 DEF Known, InBuckets
<1>7. CASE p # 0 /\ nodes' = [nodes EXCEPT ![i] = RemoveAt(nodes[i], p)]
  <2> DEFINE r == RemoveAt(nodes[i], p)
  <2>1. p \in DOMAIN nodes[i] /\ nodes[i][p].id = arg[t][i].id
    <3> DEFINE P == {k \in 1 .. Len(nodes[i]) : nodes[i][k].id = arg[t][i].id}
    <3>1. P # {} /\ p = Min(P)
      BY <1>7 DEF FirstPosition, SelectInSeq
    <3>2. PICK k \in P : P = {k}
      BY <1>2, <3>1, LenProperties DEF Fits, DistinctIds
    <3>3. p = k
      BY <3>1, <3>2 DEF Min
    <3>4. QED
      BY <1>2, <3>2, <3>3, LenProperties DEF Fits
  <2> HIDE DEF p
  <2>2. r \in {RemoveAt(nodes[i], p), SwapRemove(nodes[i], p)}
    OBVIOUS
  <2> HIDE DEF r
  <2>3. \A k \in DOMAIN nodes[i] : k # p => \E m \in DOMAIN r : r[m] = nodes[i][k]
    BY <1>2, <2>1, <2>2, ShrinkKeeps DEF Fits
  <2>4. \A k \in Index : nodes'[k] = IF k = i THEN r ELSE nodes[k]
    BY <1>7, NodesEffect DEF r
  <2>5. \E m \in DOMAIN nodes'[j] : nodes'[j][m].id = id
    BY <1>3, <1>5, <2>1, <2>3, <2>4
  <2>6. QED
    BY <2>5 DEF Known, InBuckets
<1>8. QED
  BY <1>6, <1>7 DEF RemoveWrite

(* The misfit that leaves its bucket is in transit. *)
LEMMA MigrateKnown ==
    ASSUME IInv, NEW t \in Task, NEW i \in Index, MigrateOne(t, i), NEW id, Known(id)
    PROVE  Known(id)'
<1>0. i + 1 \in Index
  BY MigrateEffect
<1>1. pc[t][i] = "migrate" /\ i + 1 \in Index /\ i < i + 1 /\ pc[t][i + 1] = "ret"
  BY <1>0 DEF MigrateOne, At, Index
<1>2. PICK p \in DOMAIN nodes[i] :
         /\ nodes' = [nodes EXCEPT ![i] = SwapRemove(nodes[i], p)]
         /\ \A u \in Task, j \in Index :
               /\ pc'[u][j] = IF u = t /\ j = i + 1 THEN "add" ELSE pc[u][j]
               /\ arg'[u][j] = IF u = t /\ j = i + 1 THEN nodes[i][p] ELSE arg[u][j]
  BY MigrateEffect
<1>3. CASE InTransit(id)
  <2>1. PICK u \in Task, a \in Index, b \in Index :
           a < b /\ pc[u][a] = "migrate" /\ pc[u][b] # "ret" /\ arg[u][b].id = id
    BY <1>3 DEF InTransit
  <2>2. pc'[u][a] = "migrate" /\ pc'[u][b] # "ret" /\ arg'[u][b].id = id
    BY <1>1, <1>2, <2>1
  <2>3. QED
    BY <2>1, <2>2 DEF Known, InTransit
<1>4. CASE InBuckets(id)
  <2> DEFINE r == SwapRemove(nodes[i], p)
  <2>0. PICK j \in Index : \E q \in DOMAIN nodes[j] : nodes[j][q].id = id
    BY <1>4 DEF InBuckets
  <2>1. PICK q \in DOMAIN nodes[j] : nodes[j][q].id = id
    BY <2>0
  <2>2. CASE j = i /\ q = p
    <3>1. pc'[t][i] = "migrate" /\ pc'[t][i + 1] # "ret" /\ arg'[t][i + 1].id = id
      BY <1>1, <1>2, <2>1, <2>2
    <3>2. QED
      BY <1>1, <3>1 DEF Known, InTransit
  <2>3. CASE ~(j = i /\ q = p)
    <3>1. /\ r \in {RemoveAt(nodes[i], p), SwapRemove(nodes[i], p)}
          /\ nodes' = [nodes EXCEPT ![i] = r]
      BY <1>2
    <3> HIDE DEF r
    <3>2. \A k \in DOMAIN nodes[i] : k # p => \E m \in DOMAIN r : r[m] = nodes[i][k]
      BY <3>1, ShrinkKeeps DEF IInv, TypeOK
    <3>3. \A k \in Index : nodes'[k] = IF k = i THEN r ELSE nodes[k]
      BY <3>1, NodesEffect
    <3>4. \E m \in DOMAIN nodes'[j] : nodes'[j][m].id = id
      BY <2>1, <2>3, <3>2, <3>3
    <3>5. QED
      BY <3>4 DEF Known, InBuckets
  <2>4. QED
    BY <2>2, <2>3
<1>5. QED
  BY <1>3, <1>4 DEF Known

(* When the unwrap of add panics, the splits of its task lose their node. *)
LEMMA PanicForgets ==
    ASSUME IInv, Running, NEW t \in Task, Panic(t), nodes' = nodes,
           NEW id, Known(id), ~Known(id)'
    PROVE  Forgotten(id)
<1>1. InTransit(id)
  BY DEF Known, InBuckets
<1>2. PICK u \in Task, a \in Index, b \in Index :
         a < b /\ pc[u][a] = "migrate" /\ pc[u][b] # "ret" /\ arg[u][b].id = id
  BY <1>1 DEF InTransit
<1>3. u = t
  <2>1. SUFFICES ASSUME u # t PROVE FALSE
    OBVIOUS
  <2>2. pc'[u][a] = "migrate" /\ pc'[u][b] # "ret" /\ arg'[u][b].id = id
    BY <1>2, <2>1, PanicEffect DEF IInv
  <2>3. QED
    BY <1>2, <2>2 DEF Known, InTransit
<1>4. outcome'[t] = "panic" /\ outcome[t] = "ok" /\ arg[t][b] # NoArg
  BY <1>2, <1>3, PanicEffect DEF IInv, TypeOK, Running
<1>5. QED
  BY <1>2, <1>3, <1>4 DEF Forgotten

LEMMA StepForgets ==
    ASSUME IInv, Running, NEW t \in Task, NEW i \in Index, Step(t, i),
           NEW id, Known(id), ~Known(id)'
    PROVE  Forgotten(id)
<1>0. /\ pc[t][i] # "ret" /\ \A j \in Index : j > i => pc[t][j] = "ret"
  BY DEF Step, AddCheckNext, AddCheckLen, FullCheckNext, FullCheckLen, Place, Write,
         MakeNextBucket, LockNodes, MigrateOne, MigrateDone, RemoveRoute, RemoveWrite, At
<1>1. CASE \/ AddCheckNext(t, i) \/ AddCheckLen(t, i)
           \/ FullCheckNext(t, i) \/ FullCheckLen(t, i)
           \/ LockNodes(t, i) \/ MigrateDone(t, i)
  <2>1. nodes' = nodes /\ \E l : l # "ret" /\ Goto(t, i, l)
    BY <1>1 DEF AddCheckNext, AddCheckLen, FullCheckNext, FullCheckLen, LockNodes,
                MigrateDone
  <2>2. QED
    BY <1>0, <2>1, GotoKnown
<1>2. CASE Place(t, i)
  <2>1. nodes' = nodes /\ pc[t][i] = "place"
    BY <1>2 DEF Place, At
  <2>2. ~Goto(t, i, "write")
    BY <1>0, <2>1, GotoKnown
  <2>3. ~(next_bucket[i] /\ TailCall(t, i, "add"))
    BY <1>0, <2>1, TailCallKnown
  <2>4. Panic(t)
    BY <1>2, <2>2, <2>3 DEF Place
  <2>5. QED
    BY <2>1, <2>4, PanicForgets
<1>3. CASE Write(t, i)
  BY <1>3, WriteForgets
<1>4. CASE MakeNextBucket(t, i)
  <2>1. nodes' = nodes /\ pc[t][i] = "make_next"
    BY <1>4 DEF MakeNextBucket, At
  <2>2. ~Goto(t, i, "place") /\ ~Goto(t, i, "lock_nodes")
    BY <1>0, <2>1, GotoKnown
  <2>3. i = MAX_BUCKET_INDEX /\ Return(t, i)
    BY <1>4, <2>2 DEF MakeNextBucket
  <2>4. InTransit(id)
    BY <2>1 DEF Known, InBuckets
  <2>5. arg[t][i].id = id
    BY <2>1, <2>3, <2>4, ReturnTransit
  <2>6. arg[t][i] # NoArg
    BY <1>0 DEF IInv, TypeOK
  <2>7. QED
    BY <2>1, <2>3, <2>5, <2>6 DEF Forgotten
<1>5. CASE MigrateOne(t, i)
  BY <1>5, MigrateKnown
<1>6. CASE RemoveRoute(t, i)
  <2>1. nodes' = nodes /\ pc[t][i] = "remove"
    BY <1>6 DEF RemoveRoute, At
  <2>2. CASE Goto(t, i, "remove_write")
    BY <1>0, <2>1, <2>2, GotoKnown
  <2>3. CASE next_bucket[i] /\ TailCall(t, i, "remove")
    BY <1>0, <2>1, <2>3, TailCallKnown
  <2>4. QED
    BY <1>6, <2>2, <2>3 DEF RemoveRoute, StopsHere
<1>7. CASE RemoveWrite(t, i)
  BY <1>7, RemoveForgets
<1>8. QED
  BY <1>1, <1>2, <1>3, <1>4, <1>5, <1>6, <1>7 DEF Step

(* A new call forgets nothing. *)
LEMMA StartKnown ==
    ASSUME IInv, NEW t \in Task, NEW l, NEW n, Start(t, l, n), NEW id, Known(id)
    PROVE  Known(id)'
<1>1. CASE InBuckets(id)
  BY <1>1 DEF Start, Known, InBuckets
<1>2. CASE InTransit(id)
  <2>1. PICK u \in Task, a \in Index, b \in Index :
           a < b /\ pc[u][a] = "migrate" /\ pc[u][b] # "ret" /\ arg[u][b].id = id
    BY <1>2 DEF InTransit
  <2>2. u # t
    BY <2>1, StartEffect DEF IInv
  <2>3. pc'[u][a] = "migrate" /\ pc'[u][b] # "ret" /\ arg'[u][b].id = id
    BY <2>1, <2>2, StartEffect DEF IInv
  <2>4. QED
    BY <2>1, <2>3 DEF Known, InTransit
<1>3. QED
  BY <1>1, <1>2 DEF Known

(* The result of a task is reset when it starts, and a panic ends it. *)
LEMMA RunningStep == IInv /\ Running /\ [Next]_vars => Running'
<1> SUFFICES ASSUME IInv, Running, [Next]_vars PROVE Running'
  OBVIOUS
<1>1. ASSUME NEW t \in Task, NEW n \in Node, StartAdd(t, n) \/ StartRemove(t, n)
      PROVE  Running'
  BY <1>1, StartEffect DEF StartAdd, StartRemove, Running, IInv
<1>2. ASSUME NEW t \in Task, NEW i \in Index, Step(t, i)
      PROVE  Running'
  <2>0. pc[t][i] # "ret"
    BY <1>2 DEF Step, AddCheckNext, AddCheckLen, FullCheckNext, FullCheckLen, Place, Write,
           MakeNextBucket, LockNodes, MigrateOne, MigrateDone, RemoveRoute, RemoveWrite, At
  <2>1. ASSUME NEW l, Goto(t, i, l) PROVE Running'
    BY <2>0, <2>1, GotoEffect DEF Running, IInv
  <2>2. CASE Return(t, i)
    BY <2>2, ReturnEffect DEF Running, IInv
  <2>3. ASSUME NEW l, TailCall(t, i, l), next_bucket[i] PROVE Running'
    BY <2>0, <2>3, NextInIndex, TailCallEffect DEF Running, IInv
  <2>4. CASE Panic(t)
    BY <2>4, PanicEffect DEF Running, IInv
  <2>5. CASE MigrateOne(t, i)
    BY <2>0, <2>5, MigrateEffect DEF Running
  <2>6. QED
    BY <1>2, <2>1, <2>2, <2>3, <2>4, <2>5
       DEF Step, AddCheckNext, AddCheckLen, FullCheckNext, FullCheckLen, Place, Write,
           MakeNextBucket, LockNodes, MigrateDone, RemoveRoute, RemoveWrite, StopsHere
<1>3. CASE UNCHANGED vars
  BY <1>3 DEF vars, Running
<1>4. QED
  BY <1>1, <1>2, <1>3 DEF Next

LEMMA RunningAlways == Spec => [](IInv /\ Running)
<1>1. Init => Running
  BY DEF Init, Running
<1>2. QED
  BY <1>1, IInvAlways, RunningStep, PTL DEF Spec

LEMMA NextForgets ==
    ASSUME IInv, Running, [Next]_vars, NEW id, Known(id), ~Known(id)'
    PROVE  Forgotten(id)
<1>1. ASSUME NEW t \in Task, NEW n \in Node, StartAdd(t, n) \/ StartRemove(t, n)
      PROVE  FALSE
  BY <1>1, StartKnown DEF StartAdd, StartRemove
<1>2. CASE UNCHANGED vars
  BY <1>2 DEF vars, Known, InBuckets, InTransit
<1>3. QED
  BY <1>1, <1>2, StepForgets DEF Next

(* Whatever tasks do at the same time, the table forgets an id in four     *)
(* ways only: a remove of it, a split that meets a bucket filled meanwhile *)
(* or the full last bucket, or a panic of the task that splits.            *)
THEOREM RetentionCorrect == Spec => Retention
<1>1. ASSUME IInv, Running, [Next]_vars
      PROVE  [\A n \in Node : Known(n.id) /\ ~Known(n.id)' => Forgotten(n.id)]_vars
  BY <1>1, NextForgets
<1>2. IInv /\ Running /\ [Next]_vars =>
         [\A n \in Node : Known(n.id) /\ ~Known(n.id)' =>
            \E t \in Task, i \in Index :
               /\ arg[t][i] # NoArg /\ arg[t][i].id = n.id
               /\ \/ pc[t][i] = "remove_write"
                  \/ pc[t][i] = "write" /\ Len(nodes[i]) = KSize
                  \/ pc[t][i] = "make_next" /\ i = MAX_BUCKET_INDEX
                  \/ outcome'[t] = "panic" /\ outcome[t] # "panic"]_vars
  BY <1>1 DEF Forgotten
<1>3. QED
  BY <1>2, RunningAlways, PTL DEF Spec, Retention

-----------------------------------------------------------------------------
(* The router uses the chain as Bucket describes it *)

LEMMA RouterStepIsBucketStep ==
    [RouterNext]_rvars \/ [RouterSerialNext]_rvars => [Next]_vars
<1>1. ASSUME Requests PROVE Next
  BY <1>1 DEF Requests, RouterAdd, BanId, Next
<1>2. ASSUME NEW t \in Task, BucketStep(t) PROVE Next
  BY <1>2 DEF BucketStep, Next
<1>3. ASSUME Reads PROVE UNCHANGED vars
  BY <1>3 DEF Reads
<1>4. ASSUME UNCHANGED rvars PROVE UNCHANGED vars
  BY <1>4 DEF rvars
<1>5. QED
  BY <1>1, <1>2, <1>3, <1>4 DEF RouterNext, RouterSerialNext

(* Requests made through the router, at once or one by one, with lookups   *)
(* between them, are behaviours of Bucket: what is proved of the chain     *)
(* holds for Router::add, ban_id and lookup.                               *)
THEOREM RouterUsesBucket == RouterSpec \/ RouterSerialSpec => Spec
<1>1. RouterInit => Init
  BY DEF RouterInit, LInit
<1>2. QED
  BY <1>1, RouterStepIsBucketStep, PTL DEF RouterSpec, RouterSerialSpec, Spec

(* So the router forgets a node only in the four ways. *)
THEOREM RouterRetention == RouterSpec => Retention
  BY RouterUsesBucket, RetentionCorrect, PTL

-----------------------------------------------------------------------------
(* The ban list *)

BanList == banned_ids \in Seq(U160Type) /\ Len(banned_ids) < BAN_COUNT

LEMMA PushBanLemma ==
    ASSUME BanList, NEW id \in U160Type
    PROVE  LET r == PushBan(banned_ids, id)
           IN  /\ r \in Seq(U160Type) /\ Len(r) < BAN_COUNT
               /\ \A x \in Range(r) : x \in Range(banned_ids) \/ x = id
<1> DEFINE a == Append(banned_ids, id)
           r == PushBan(banned_ids, id)
<1>0. banned_ids \in Seq(U160Type) /\ Len(banned_ids) \in Nat /\ Len(banned_ids) < BAN_COUNT
      /\ DOMAIN banned_ids = 1 .. Len(banned_ids)
  BY LenProperties DEF BanList
<1>1. /\ a \in Seq(U160Type) /\ Len(a) = Len(banned_ids) + 1
      /\ DOMAIN a = 1 .. (Len(banned_ids) + 1)
      /\ a[Len(banned_ids) + 1] = id
      /\ \A k \in 1 .. Len(banned_ids) : a[k] = banned_ids[k]
  BY <1>0, AppendProperties, LenProperties
<1>2. r = IF Len(banned_ids) + 1 = BAN_COUNT THEN Tail(a) ELSE a
  BY DEF PushBan
<1> HIDE DEF a, r
<1>3. \A k \in DOMAIN a : a[k] \in Range(banned_ids) \/ a[k] = id
  <2> SUFFICES ASSUME NEW k \in DOMAIN a PROVE a[k] \in Range(banned_ids) \/ a[k] = id
    OBVIOUS
  <2>1. CASE k \in 1 .. Len(banned_ids)
    BY <1>0, <1>1, <2>1 DEF Range
  <2>2. CASE k = Len(banned_ids) + 1
    BY <1>1, <2>2
  <2>3. QED
    BY <1>0, <1>1, <2>1, <2>2
<1>4. CASE Len(banned_ids) + 1 = BAN_COUNT
  <2>1. r = Tail(a) /\ a # <<>>
    BY <1>0, <1>1, <1>2, <1>4, EmptySeq
  <2>2. /\ r \in Seq(U160Type) /\ Len(r) = Len(a) - 1
        /\ \A k \in 1 .. Len(r) : r[k] = a[k + 1]
    BY <1>1, <2>1, HeadTailProperties
  <2>3. DOMAIN r = 1 .. Len(banned_ids)
    BY <1>0, <1>1, <2>2, LenProperties
  <2>4. \A k \in DOMAIN r : k + 1 \in DOMAIN a /\ r[k] = a[k + 1]
    BY <1>0, <1>1, <2>2, <2>3
  <2>5. \A x \in Range(r) : x \in Range(banned_ids) \/ x = id
    BY <1>3, <2>4 DEF Range
  <2>6. Len(r) < BAN_COUNT
    BY <1>0, <1>1, <2>2, BanCountAssumption
  <2>7. QED
    BY <2>2, <2>5, <2>6 DEF r
<1>5. CASE Len(banned_ids) + 1 # BAN_COUNT
  <2>1. r = a
    BY <1>2, <1>5
  <2>2. Len(a) < BAN_COUNT
    BY <1>0, <1>1, <1>5, BanCountAssumption
  <2>3. \A x \in Range(a) : x \in Range(banned_ids) \/ x = id
    BY <1>3 DEF Range
  <2>4. QED
    BY <1>1, <2>1, <2>2, <2>3 DEF r
<1>6. QED
  BY <1>4, <1>5

LEMMA BanListStep ==
    BanList /\ ([RouterNext]_rvars \/ [RouterSerialNext]_rvars) => BanList'
<1> SUFFICES ASSUME BanList, [RouterNext]_rvars \/ [RouterSerialNext]_rvars
             PROVE  BanList'
  OBVIOUS
<1>1. ASSUME Requests PROVE BanList'
  <2>1. PICK t \in Task, n \in Node : RouterAdd(t, n) \/ BanId(t, n)
    BY <1>1 DEF Requests
  <2>2. CASE RouterAdd(t, n)
    BY <2>2 DEF RouterAdd, BanList
  <2>3. CASE BanId(t, n)
    <3>1. n.id \in U160Type /\ banned_ids' = PushBan(banned_ids, n.id)
      BY <2>3, NodeAssumption DEF BanId
    <3>2. QED
      BY <3>1, PushBanLemma DEF BanList
  <2>4. QED
    BY <2>1, <2>2, <2>3
<1>2. ASSUME UNCHANGED banned_ids PROVE BanList'
  BY <1>2 DEF BanList
<1>3. QED
  BY <1>1, <1>2 DEF RouterNext, RouterSerialNext, BucketStep, rvars

(* The ban list never reaches BAN_COUNT, so the comparison with = never    *)
(* misses it, whether requests run at once or one by one.                  *)
THEOREM BanListBoundedCorrect == RouterSpec \/ RouterSerialSpec => []BanListBounded
<1>1. RouterInit => BanList
  BY BanCountAssumption, EmptySeq DEF RouterInit, BanList
<1>2. BanList => BanListBounded
  BY DEF BanList, BanListBounded
<1>3. QED
  BY <1>1, <1>2, BanListStep, PTL DEF RouterSpec, RouterSerialSpec

-----------------------------------------------------------------------------
(* One request at a time *)

OneTask == \A t, u \in Task : ~Idle(t) /\ ~Idle(u) => t = u

(* A bucket that is not being split holds what belongs there; one without  *)
(* successor holds anything.                                               *)
Moving(i) == \E t \in Task : pc[t][i] \in {"lock_nodes", "migrate"}

Settled(i) == Moving(i) \/ \A p \in DOMAIN nodes[i] : StopsHere(i, nodes[i][p].id)

(* What add read of its bucket is still true where it is used. *)
FrameOK(t, i) ==
    /\ pc[t][i] = "add_len" => ~next_bucket[i]
    /\ pc[t][i] \in {"full", "full_len", "make_next"} =>
          ~next_bucket[i] /\ Len(nodes[i]) = KSize
    /\ pc[t][i] = "place" => next_bucket[i]
    /\ pc[t][i] = "write" => StopsHere(i, arg[t][i].id)

SerialInv ==
    /\ IInv /\ NoPanic /\ OneTask
    /\ \A i \in Index : Settled(i)
    /\ \A t \in Task, i \in Index : FrameOK(t, i)

(* The frame that runs is the only one that is not waiting for another. *)
LEMMA SerialTop ==
    ASSUME SerialInv, NEW t \in Task, NEW i \in Index,
           pc[t][i] # "ret", \A j \in Index : j > i => pc[t][j] = "ret"
    PROVE  /\ \A u \in Task, j \in Index : u # t => pc[u][j] = "ret"
           /\ \A j \in Index : j # i => pc[t][j] \in {"ret", "migrate"}
<1>1. \A u \in Task, j \in Index : u # t => pc[u][j] = "ret"
  BY DEF SerialInv, OneTask, Idle
<1>2. ASSUME NEW j \in Index, j # i PROVE pc[t][j] \in {"ret", "migrate"}
  <2>1. CASE j > i
    BY <2>1
  <2>2. CASE j < i
    BY <2>2 DEF SerialInv, IInv, LockOrder
  <2>3. QED
    BY <1>2, <2>1, <2>2 DEF Index
<1>3. QED
  BY <1>1, <1>2

(* After the step the frames of the task are as they were, but for frame i *)
(* and for a call just made, and so are the other buckets.                 *)
LEMMA SerialKept ==
    ASSUME SerialInv, IInv', NEW t \in Task, NEW i \in Index,
           pc[t][i] # "ret", \A j \in Index : j > i => pc[t][j] = "ret",
           \A u \in Task, j \in Index : u # t => pc'[u][j] = pc[u][j],
           \A j \in Index : j # i =>
              /\ nodes'[j] = nodes[j] /\ next_bucket'[j] = next_bucket[j]
              /\ pc'[t][j] = pc[t][j] \/ (pc[t][j] = "ret" /\ pc'[t][j] \in {"add", "remove"}),
           \A u \in Task : outcome'[u] \in {"ok", outcome[u]},
           FrameOK(t, i)', Settled(i)'
    PROVE  SerialInv'
<1>1. /\ \A u \in Task, j \in Index : u # t => pc[u][j] = "ret"
      /\ \A j \in Index : j # i => pc[t][j] \in {"ret", "migrate"}
  BY SerialTop
<1>2. NoPanic'
  BY DEF SerialInv, NoPanic
<1>3. OneTask'
  BY <1>1 DEF OneTask, Idle
<1>4. ASSUME NEW j \in Index PROVE Settled(j)'
  <2>1. CASE j = i
    BY <2>1
  <2>2. CASE j # i
    <3>1. Moving(j) => Moving(j)'
      BY <1>1, <2>2 DEF Moving
    <3>2. Settled(j)
      BY DEF SerialInv
    <3>3. \A id : StopsHere(j, id) => StopsHere(j, id)'
      BY <2>2 DEF StopsHere, BelongsHere
    <3>4. QED
      BY <2>2, <3>1, <3>2, <3>3 DEF Settled
  <2>3. QED
    BY <2>1, <2>2
<1>5. ASSUME NEW u \in Task, NEW j \in Index PROVE FrameOK(u, j)'
  <2>1. CASE u = t /\ j = i
    BY <2>1
  <2>2. CASE ~(u = t /\ j = i)
    <3>1. pc'[u][j] \in {"ret", "migrate", "add", "remove"}
      BY <1>1, <2>2
    <3>2. QED
      BY <3>1 DEF FrameOK
  <2>3. QED
    BY <2>1, <2>2
<1>6. QED
  BY <1>2, <1>3, <1>4, <1>5 DEF SerialInv

LEMMA SerialGoto ==
    ASSUME SerialInv, IInv', NEW t \in Task, NEW i \in Index, NEW l, l # "ret",
           pc[t][i] # "ret", \A j \in Index : j > i => pc[t][j] = "ret",
           Goto(t, i, l), nodes' = nodes,
           \A j \in Index : j # i => next_bucket'[j] = next_bucket[j],
           FrameOK(t, i)', Settled(i)'
    PROVE  SerialInv'
<1>1. /\ \A u \in Task, j \in Index :
            pc'[u][j] = IF u = t /\ j = i THEN l ELSE pc[u][j]
      /\ outcome' = outcome
  BY GotoEffect DEF SerialInv, IInv
<1>2. QED
  BY <1>1, SerialKept

(* The bucket is as it was, and the frame does not stand for a split. *)
LEMMA SerialLook ==
    ASSUME SerialInv, IInv', NEW t \in Task, NEW i \in Index, NEW l, l # "ret",
           pc[t][i] \notin {"ret", "lock_nodes", "migrate"},
           \A j \in Index : j > i => pc[t][j] = "ret",
           Goto(t, i, l), nodes' = nodes, next_bucket' = next_bucket, FrameOK(t, i)'
    PROVE  SerialInv'
<1>1. \A u \in Task : pc[u][i] \notin {"lock_nodes", "migrate"}
  BY SerialTop
<1>2. \A p \in DOMAIN nodes[i] : StopsHere(i, nodes[i][p].id)
  BY <1>1 DEF SerialInv, Settled, Moving
<1>3. Settled(i)'
  BY <1>2 DEF Settled, StopsHere, BelongsHere
<1>4. QED
  BY <1>3, SerialGoto

(* What a bucket may be left with: its own nodes and some that stop there. *)
Suits(i, s) ==
    \A q \in DOMAIN s :
        StopsHere(i, s[q].id) \/ \E p \in DOMAIN nodes[i] : s[q] = nodes[i][p]

LEMMA SerialReturn ==
    ASSUME SerialInv, IInv', NEW t \in Task, NEW i \in Index, NEW s,
           pc[t][i] \notin {"ret", "lock_nodes", "migrate"},
           \A j \in Index : j > i => pc[t][j] = "ret",
           Return(t, i), nodes' = [nodes EXCEPT ![i] = s], next_bucket' = next_bucket,
           Suits(i, s)
    PROVE  SerialInv'
<1>1. /\ \A u \in Task, j \in Index :
            pc'[u][j] = IF u = t /\ j = i THEN "ret" ELSE pc[u][j]
      /\ \A u \in Task : outcome'[u] = IF u = t THEN "ok" ELSE outcome[u]
  BY ReturnEffect DEF SerialInv, IInv
<1>0. IInv
  BY DEF SerialInv
<1>2. \A j \in Index : nodes'[j] = IF j = i THEN s ELSE nodes[j]
  BY <1>0 DEF IInv, TypeOK
<1>3. \A u \in Task : pc[u][i] \notin {"lock_nodes", "migrate"}
  BY SerialTop
<1>4. \A p \in DOMAIN nodes[i] : StopsHere(i, nodes[i][p].id)
  BY <1>3 DEF SerialInv, Settled, Moving
<1>5. Settled(i)'
  <2>1. \A q \in DOMAIN s : StopsHere(i, s[q].id)
    BY <1>4 DEF Suits
  <2>2. nodes'[i] = s
    BY <1>2
  <2>3. QED
    BY <2>1, <2>2 DEF Settled, StopsHere, BelongsHere
<1>6. FrameOK(t, i)'
  BY <1>1 DEF FrameOK
<1>7. QED
  BY <1>1, <1>2, <1>5, <1>6, SerialKept

LEMMA SerialTail ==
    ASSUME SerialInv, IInv', NEW t \in Task, NEW i \in Index, NEW l \in {"add", "remove"},
           pc[t][i] \notin {"ret", "lock_nodes", "migrate"}, next_bucket[i],
           \A j \in Index : j > i => pc[t][j] = "ret",
           TailCall(t, i, l), nodes' = nodes, next_bucket' = next_bucket
    PROVE  SerialInv'
<1>0. i + 1 \in Index /\ i + 1 > i /\ i + 1 # i
  BY NextInIndex DEF SerialInv, Index
<1>1. /\ \A u \in Task, j \in Index :
            pc'[u][j] = IF u = t /\ j = i + 1 THEN l
                        ELSE IF u = t /\ j = i THEN "ret" ELSE pc[u][j]
      /\ outcome' = outcome
  BY <1>0, TailCallEffect DEF SerialInv, IInv, Index
<1>2. \A u \in Task : pc[u][i] \notin {"lock_nodes", "migrate"}
  BY SerialTop
<1>3. Settled(i)'
  BY <1>2 DEF SerialInv, Settled, Moving, StopsHere, BelongsHere
<1>4. pc'[t][i] = "ret" /\ pc[t][i + 1] = "ret" /\ pc'[t][i + 1] = l
  BY <1>0, <1>1
<1>5. FrameOK(t, i)'
  BY <1>4 DEF FrameOK
<1>6. ASSUME NEW j \in Index, j # i
      PROVE  pc'[t][j] = pc[t][j] \/ (pc[t][j] = "ret" /\ pc'[t][j] \in {"add", "remove"})
  <2>1. CASE j = i + 1
    BY <1>4, <2>1
  <2>2. CASE j # i + 1
    BY <1>1, <1>6, <2>2
  <2>3. QED
    BY <2>1, <2>2
<1>7. \A u \in Task, j \in Index : u # t => pc'[u][j] = pc[u][j]
  BY <1>1
<1>8. QED
  BY <1>1, <1>3, <1>5, <1>6, <1>7, SerialKept

LEMMA SerialStep ==
    ASSUME SerialInv, IInv', NEW t \in Task, NEW i \in Index, Step(t, i)
    PROVE  SerialInv'
<1>0. pc[t][i] # "ret" /\ \A j \in Index : j > i => pc[t][j] = "ret"
  BY DEF Step, AddCheckNext, AddCheckLen, FullCheckNext, FullCheckLen, Place, Write,
         MakeNextBucket, LockNodes, MigrateOne, MigrateDone, RemoveRoute, RemoveWrite, At
<1>1. IInv /\ TypeOK /\ FrameOK(t, i)
  BY DEF SerialInv, IInv
<1>2. ASSUME NEW l, Goto(t, i, l) PROVE pc'[t][i] = l /\ arg' = arg
  BY <1>1, <1>2, GotoEffect
<1>3. CASE AddCheckNext(t, i) \/ FullCheckNext(t, i)
  <2>1. PICK l \in {"place", "add_len", "full_len"} :
          /\ Goto(t, i, l) /\ nodes' = nodes /\ next_bucket' = next_bucket
          /\ l = "place" => next_bucket[i]
          /\ l = "add_len" => ~next_bucket[i]
          /\ l = "full_len" => pc[t][i] = "full"
          /\ pc[t][i] \in {"add", "full"}
    BY <1>3 DEF AddCheckNext, FullCheckNext, At
  <2>2. FrameOK(t, i)'
    BY <1>1, <1>2, <2>1 DEF FrameOK
  <2>3. QED
    BY <1>0, <2>1, <2>2, SerialLook
<1>4. CASE AddCheckLen(t, i)
  <2>1. PICK l \in {"write", "full"} :
          /\ Goto(t, i, l) /\ nodes' = nodes /\ next_bucket' = next_bucket
          /\ l = "full" => ~(Len(nodes[i]) < KSize)
          /\ pc[t][i] = "add_len"
    BY <1>4 DEF AddCheckLen, At
  <2>2. Len(nodes[i]) \in Nat /\ Len(nodes[i]) <= KSize /\ KSize \in Nat
    BY <1>1, LenProperties, KSizeAssumption DEF IInv, TypeOK, Capacity
  <2>3. l = "full" => Len(nodes[i]) = KSize
    BY <2>1, <2>2
  <2>4. FrameOK(t, i)'
    BY <1>1, <1>2, <2>1, <2>3 DEF FrameOK, StopsHere
  <2>5. QED
    BY <1>0, <2>1, <2>4, SerialLook
<1>5. CASE FullCheckLen(t, i)
  <2>1. PICK l \in {"make_next", "place"} :
          /\ Goto(t, i, l) /\ nodes' = nodes /\ next_bucket' = next_bucket
          /\ l = "place" => Len(nodes[i]) # KSize
          /\ pc[t][i] = "full_len"
    BY <1>5 DEF FullCheckLen, At
  <2>2. FrameOK(t, i)'
    BY <1>1, <1>2, <2>1 DEF FrameOK
  <2>3. QED
    BY <1>0, <2>1, <2>2, SerialLook
<1>6. CASE Place(t, i)
  <2>1. pc[t][i] = "place" /\ nodes' = nodes /\ next_bucket' = next_bucket /\ next_bucket[i]
    BY <1>1, <1>6 DEF Place, At, FrameOK
  <2>2. CASE BelongsHere(i, arg[t][i].id) /\ Goto(t, i, "write")
    <3>1. FrameOK(t, i)'
      BY <1>2, <2>2 DEF FrameOK, StopsHere, BelongsHere
    <3>2. QED
      BY <1>0, <2>1, <2>2, <3>1, SerialLook
  <2>3. CASE TailCall(t, i, "add")
    BY <1>0, <2>1, <2>3, SerialTail
  <2>4. QED
    BY <1>6, <2>1, <2>2, <2>3 DEF Place
<1>7. CASE Write(t, i)
  <2> DEFINE s == AddOrUpdate(nodes[i], arg[t][i])
  <2>1. /\ pc[t][i] = "write" /\ Return(t, i) /\ next_bucket' = next_bucket
        /\ nodes' = [nodes EXCEPT ![i] = s]
    BY <1>7 DEF Write, At
  <2>2. arg[t][i] \in Node /\ Fits(i, nodes[i]) /\ StopsHere(i, arg[t][i].id)
    BY <1>1, <2>1, IInvFits DEF TypeOK, FrameOK
  <2>3. \A q \in DOMAIN s : s[q] = arg[t][i] \/ \E p \in DOMAIN nodes[i] : s[q] = nodes[i][p]
    BY <2>2, AddOrUpdateLemma DEF Fits
  <2> HIDE DEF s
  <2>4. Suits(i, s)
    BY <2>2, <2>3 DEF Suits
  <2>5. QED
    BY <1>0, <2>1, <2>4, SerialReturn
<1>8. CASE MakeNextBucket(t, i)
  <2>1. pc[t][i] = "make_next" /\ nodes' = nodes /\ ~next_bucket[i]
    BY <1>1, <1>8 DEF MakeNextBucket, At, FrameOK
  <2>2. CASE Return(t, i) /\ next_bucket' = next_bucket
    <3>1. nodes' = [nodes EXCEPT ![i] = nodes[i]]
      BY <1>1, <2>1 DEF TypeOK
    <3>2. QED
      BY <1>0, <2>1, <2>2, <3>1, SerialReturn DEF Suits
  <2>3. CASE /\ next_bucket' = [next_bucket EXCEPT ![i] = TRUE]
             /\ Goto(t, i, "lock_nodes")
    <3>1. \A j \in Index : j # i => next_bucket'[j] = next_bucket[j]
      BY <1>1, <2>3 DEF TypeOK
    <3>2. FrameOK(t, i)' /\ Settled(i)'
      BY <1>2, <2>3 DEF FrameOK, Settled, Moving
    <3>3. QED
      BY <1>0, <2>1, <2>3, <3>1, <3>2, SerialGoto
  <2>4. QED
    BY <1>8, <2>1, <2>2, <2>3 DEF MakeNextBucket
<1>9. CASE LockNodes(t, i)
  <2>1. nodes' = nodes /\ next_bucket' = next_bucket /\ Goto(t, i, "migrate")
    BY <1>9 DEF LockNodes
  <2>2. FrameOK(t, i)' /\ Settled(i)'
    BY <1>2, <2>1 DEF FrameOK, Settled, Moving
  <2>3. QED
    BY <1>0, <2>1, <2>2, SerialGoto
<1>10. CASE MigrateOne(t, i)
  <2>1. pc[t][i] = "migrate" /\ i + 1 \in Index /\ i < i + 1 /\ pc[t][i + 1] = "ret"
    <3>1. i + 1 \in Index
      BY <1>1, <1>10, MigrateEffect
    <3>2. QED
      BY <1>0, <1>10, <3>1 DEF MigrateOne, At, Index
  <2>2. PICK p \in DOMAIN nodes[i] :
           /\ nodes' = [nodes EXCEPT ![i] = SwapRemove(nodes[i], p)]
           /\ \A u \in Task, j \in Index :
                 pc'[u][j] = IF u = t /\ j = i + 1 THEN "add" ELSE pc[u][j]
    BY <1>1, <1>10, MigrateEffect
  <2>3. \A j \in Index : j # i => nodes'[j] = nodes[j]
    BY <1>1, <2>2 DEF TypeOK
  <2>4. pc'[t][i] = "migrate" /\ next_bucket' = next_bucket /\ outcome' = outcome
    BY <1>10, <2>1, <2>2 DEF MigrateOne
  <2>5. FrameOK(t, i)' /\ Settled(i)'
    BY <2>4 DEF FrameOK, Settled, Moving
  <2>6. QED
    BY <1>0, <2>1, <2>2, <2>3, <2>4, <2>5, SerialKept
<1>11. CASE MigrateDone(t, i)
  <2>1. /\ nodes' = nodes /\ next_bucket' = next_bucket /\ Goto(t, i, "place")
        /\ pc[t][i] = "migrate"
    BY <1>11 DEF MigrateDone, At
  <2>2. next_bucket[i]
    BY <1>1, <2>1 DEF IInv, ChainOK
  <2>3. \A p \in DOMAIN nodes[i] : BelongsHere(i, nodes[i][p].id)
    BY <1>11 DEF MigrateDone, Misfits
  <2>4. FrameOK(t, i)' /\ Settled(i)'
    BY <1>2, <2>1, <2>2, <2>3 DEF FrameOK, Settled, StopsHere, BelongsHere
  <2>5. QED
    BY <1>0, <2>1, <2>4, SerialGoto
<1>12. CASE RemoveRoute(t, i)
  <2>1. pc[t][i] = "remove" /\ nodes' = nodes /\ next_bucket' = next_bucket
    BY <1>12 DEF RemoveRoute, At
  <2>2. CASE Goto(t, i, "remove_write")
    <3>1. FrameOK(t, i)'
      BY <1>2, <2>2 DEF FrameOK
    <3>2. QED
      BY <1>0, <2>1, <2>2, <3>1, SerialLook
  <2>3. CASE next_bucket[i] /\ TailCall(t, i, "remove")
    BY <1>0, <2>1, <2>3, SerialTail
  <2>4. QED
    BY <1>12, <2>2, <2>3 DEF RemoveRoute, StopsHere
<1>13. CASE RemoveWrite(t, i)
  <2> DEFINE p == FirstPosition(nodes[i], arg[t][i].id)
             s == RemoveAt(nodes[i], p)
  <2>1. pc[t][i] = "remove_write" /\ Return(t, i) /\ next_bucket' = next_bucket
    BY <1>13 DEF RemoveWrite, At
  <2>2. CASE p # 0 /\ nodes' = [nodes EXCEPT ![i] = s]
    <3>1. Fits(i, nodes[i])
      BY <1>1, IInvFits
    <3>2. p \in 1 .. Len(nodes[i])
      BY <2>2, <3>1, FirstPositionLemma DEF Fits
    <3>3. \A q \in DOMAIN s : \E k \in DOMAIN nodes[i] : s[q] = nodes[i][k]
      BY <3>1, <3>2, ShrinkLemma DEF Fits
    <3> HIDE DEF p, s
    <3>4. Suits(i, s)
      BY <3>3 DEF Suits
    <3>5. QED
      BY <1>0, <2>1, <2>2, <3>4, SerialReturn
  <2>3. CASE nodes' = nodes
    <3>1. nodes' = [nodes EXCEPT ![i] = nodes[i]]
      BY <1>1, <2>3 DEF TypeOK
    <3>2. QED
      BY <1>0, <2>1, <3>1, SerialReturn DEF Suits
  <2>4. QED
    BY <1>13, <2>2, <2>3 DEF RemoveWrite
<1>14. QED
  BY <1>3, <1>4, <1>5, <1>6, <1>7, <1>8, <1>9, <1>10, <1>11, <1>12, <1>13 DEF Step

LEMMA SerialStart ==
    ASSUME SerialInv, IInv', Quiescent, NEW t \in Task, NEW l \in {"add", "remove"},
           NEW n, Start(t, l, n)
    PROVE  SerialInv'
<1>1. /\ \A u \in Task, j \in Index :
            pc'[u][j] = IF u = t /\ j = 0 THEN l ELSE pc[u][j]
      /\ \A u \in Task : outcome'[u] = IF u = t THEN "ok" ELSE outcome[u]
      /\ nodes' = nodes /\ next_bucket' = next_bucket
  BY StartEffect DEF SerialInv, IInv
<1>2. \A u \in Task, j \in Index : pc[u][j] = "ret"
  BY DEF Quiescent, Idle
<1>3. NoPanic'
  BY <1>1 DEF SerialInv, NoPanic
<1>4. OneTask'
  BY <1>1, <1>2 DEF OneTask, Idle
<1>5. \A u \in Task, j \in Index : FrameOK(u, j)'
  BY <1>1, <1>2 DEF FrameOK
<1>6. ASSUME NEW j \in Index PROVE Settled(j)'
  <2>1. \A p \in DOMAIN nodes[j] : StopsHere(j, nodes[j][p].id)
    BY <1>2 DEF SerialInv, Settled, Moving
  <2>2. QED
    BY <1>1, <2>1 DEF Settled, StopsHere, BelongsHere
<1>7. QED
  BY <1>3, <1>4, <1>5, <1>6 DEF SerialInv

LEMMA SerialNext == SerialInv /\ [RouterSerialNext]_rvars => SerialInv'
<1> SUFFICES ASSUME SerialInv, [RouterSerialNext]_rvars PROVE SerialInv'
  OBVIOUS
<1>1. IInv'
  BY RouterStepIsBucketStep, NextIInv DEF SerialInv
<1>2. ASSUME UNCHANGED vars PROVE SerialInv'
  <2>1. NoPanic' /\ OneTask'
    BY <1>2 DEF vars, SerialInv, NoPanic, OneTask, Idle
  <2>2. \A i \in Index : Settled(i)'
    BY <1>2 DEF vars, SerialInv, Settled, Moving, StopsHere, BelongsHere
  <2>3. \A t \in Task, i \in Index : FrameOK(t, i)'
    BY <1>2 DEF vars, SerialInv, FrameOK, StopsHere, BelongsHere
  <2>4. QED
    BY <1>1, <2>1, <2>2, <2>3 DEF SerialInv
<1>3. ASSUME Quiescent, Requests PROVE SerialInv'
  BY <1>1, <1>3, SerialStart DEF Requests, RouterAdd, BanId, StartAdd, StartRemove
<1>4. ASSUME NEW t \in Task, BucketStep(t) PROVE SerialInv'
  BY <1>1, <1>4, SerialStep DEF BucketStep
<1>5. QED
  BY <1>2, <1>3, <1>4 DEF RouterSerialNext, Reads, rvars

LEMMA SerialInit == RouterInit => SerialInv
<1> SUFFICES ASSUME RouterInit PROVE SerialInv
  OBVIOUS
<1>1. Init
  BY DEF RouterInit, LInit
<1>2. NoPanic /\ OneTask /\ (\A i \in Index : Settled(i))
  BY <1>1, EmptySeq DEF Init, NoPanic, OneTask, Idle, Settled
<1>3. \A t \in Task, i \in Index : FrameOK(t, i)
  BY <1>1 DEF Init, FrameOK
<1>4. QED
  BY <1>1, <1>2, <1>3, InitIInv DEF SerialInv

(* One request at a time, the unwrap in add never meets an unset OnceCell, *)
(* and between requests every node stands in the bucket where remove and   *)
(* lookup look for its id, however often the chain was split.              *)
THEOREM SerialSoundCorrect == RouterSerialSpec => []SerialSound
<1>1. RouterInit => SerialInv
  BY SerialInit
<1>2. SerialInv => SerialSound
  BY DEF SerialInv, SerialSound, Findable, Quiescent, Idle, Settled, Moving
<1>3. QED
  BY <1>1, <1>2, SerialNext, PTL DEF RouterSerialSpec

-----------------------------------------------------------------------------
(* Which buckets a lookup takes its nodes from *)

(* Two distances that agree before bit i are decided there. *)
LEMMA LessAt ==
    ASSUME NEW a \in U160Type, NEW b \in U160Type, NEW i \in Bit,
           \A k \in Bit : k < i => a[k] = b[k], a[i] = 1, b[i] = 0
    PROVE  ~Less(a, b)
<1>1. SUFFICES ASSUME NEW x \in Bit, a[x] < b[x], \A j \in 0 .. (x - 1) : a[j] = b[j]
               PROVE  FALSE
  BY DEF Less
<1>2. x < i \/ x = i \/ i \in 0 .. (x - 1)
  BY MaxBitAssumption DEF Bit
<1>3. CASE x < i
  <2>1. a[x] = b[x] /\ a[x] \in {0, 1} /\ b[x] \in {0, 1}
    BY <1>3 DEF U160Type
  <2>2. QED
    BY <1>1, <2>1
<1>4. QED
  BY <1>1, <1>2, <1>3

(* The table at rest: no call runs and each node is where it belongs. *)
AtRest == IInv /\ \A i \in Index : \A p \in DOMAIN nodes[i] : StopsHere(i, nodes[i][p].id)

(* Between a bucket and those after it, bit i of the target decides. *)
LEMMA NearerBucket ==
    ASSUME AtRest, target \in U160Type, NEW i \in Index, NEW j \in Index, i < j,
           NEW n \in Range(nodes[i]), NEW m \in Range(nodes[j])
    PROVE  /\ next_bucket[i]
           /\ BelongsHere(i, target) => ~Nearer(m, n)
           /\ ~BelongsHere(i, target) => ~Nearer(n, m)
<1>0. nodes \in [Index -> Seq(Node)] /\ RangeOK /\ IInv
  BY DEF AtRest, IInv, TypeOK
<1>1. PICK p \in DOMAIN nodes[i] : n = nodes[i][p]
  BY DEF Range
<1>2. PICK q \in DOMAIN nodes[j] : m = nodes[j][q]
  BY DEF Range
<1>3. next_bucket[i]
  <2>1. SUFFICES ASSUME ~next_bucket[i] PROVE FALSE
    OBVIOUS
  <2>2. nodes[j] = <<>>
    BY <1>0, <2>1, NoneAfter
  <2>3. QED
    BY <1>2, <2>2
<1>4. n.id \in U160Type /\ m.id \in U160Type /\ OwnId \in U160Type
  BY <1>0, <1>1, <1>2, NodeAssumption, OwnIdAssumption, ElementOfSeq, LenProperties
<1>5. SharesPrefix(i, n.id) /\ SharesPrefix(j, m.id) /\ BelongsHere(i, n.id)
  BY <1>0, <1>1, <1>2, <1>3 DEF RangeOK, AtRest, StopsHere
<1>6. n.id[i] # OwnId[i] /\ m.id[i] = OwnId[i]
  BY <1>4, <1>5, BelongsLemma DEF SharesPrefix
<1>7. \A k \in Bit : k < i => n.id[k] = m.id[k]
  <2>1. \A k \in Bit : k \in Index /\ (k < i => k < j)
    BY MaxBitAssumption DEF Bit, Index, MAX_BUCKET_INDEX
  <2>2. QED
    BY <1>5, <2>1 DEF SharesPrefix
<1> DEFINE dn == Distance(target, n.id)
           dm == Distance(target, m.id)
<1>8. i \in Bit
  BY DEF Bit, Index, MAX_BUCKET_INDEX
<1>9. /\ dn \in U160Type /\ dm \in U160Type
      /\ \A k \in Bit : k < i => dn[k] = dm[k] /\ dm[k] = dn[k]
  BY <1>7 DEF Distance, U160Type
<1>10. BelongsHere(i, target) => dm[i] = 1 /\ dn[i] = 0
  <2>1. BelongsHere(i, target) => target[i] # OwnId[i]
    BY BelongsLemma
  <2>2. target[i] \in {0, 1} /\ OwnId[i] \in {0, 1} /\ n.id[i] \in {0, 1}
    BY <1>4, <1>8 DEF U160Type
  <2>3. QED
    BY <1>6, <1>8, <2>1, <2>2 DEF Distance
<1>11. ~BelongsHere(i, target) => dn[i] = 1 /\ dm[i] = 0
  BY <1>6, <1>8, BelongsLemma DEF Distance
<1> HIDE DEF dn, dm
<1>12. BelongsHere(i, target) => ~Less(dm, dn)
  BY <1>8, <1>9, <1>10, LessAt
<1>13. ~BelongsHere(i, target) => ~Less(dn, dm)
  BY <1>8, <1>9, <1>11, LessAt
<1>14. QED
  BY <1>3, <1>12, <1>13 DEF Nearer, dn, dm

(* The node is in bucket i or after it. *)
InFrom(i, m) == \E j \in Index : j >= i /\ m \in Range(nodes[j])

Together(m, n) == \E j \in Index : {m, n} \subseteq Range(nodes[j])

EarlierIn(s, p, m) == \E q \in DOMAIN s : q < p /\ s[q] = m

(* What is nearer than a node of the list and not in the same bucket comes *)
(* before it: so of every prefix of the list.                              *)
Ordered(i, s) ==
    \A p \in DOMAIN s :
        /\ InFrom(i, s[p])
        /\ \A m \in Node : InFrom(i, m) /\ Nearer(m, s[p]) =>
              EarlierIn(s, p, m) \/ Together(m, s[p])

Whole(i, s) == Len(s) < KSize => \A m \in Node : InFrom(i, m) => m \in Range(s)

(* The lookup asks the next bucket first. *)
Detour(i) == next_bucket[i] /\ ~BelongsHere(i, target)

FrameNear(i) ==
    /\ lpc[i] \in {"ret", "start", "first"} => acc[i] = <<>>
    /\ lpc[i] = "first" => Detour(i)
    /\ lpc[i] = "own" => IF Detour(i) THEN Ordered(i + 1, acc[i]) /\ Whole(i + 1, acc[i])
                                      ELSE acc[i] = <<>>
    /\ lpc[i] \in {"rest", "tail"} =>
          /\ Ordered(i, acc[i])
          /\ Len(acc[i]) < KSize => Range(nodes[i]) \subseteq Range(acc[i])
          /\ Detour(i) => Whole(i, acc[i])
    /\ lpc[i] = "tail" => Len(acc[i]) < KSize
    /\ lpc[i] = "done" => Ordered(i, acc[i]) /\ Whole(i, acc[i])

LEMMA InFromSplit ==
    ASSUME NEW i \in Index, NEW m
    PROVE  /\ InFrom(i, m) <=> m \in Range(nodes[i]) \/ InFrom(i + 1, m)
           /\ InFrom(i + 1, m) => \E j \in Index : i < j /\ m \in Range(nodes[j])
<1>1. \A j \in Index : (j >= i <=> j = i \/ j >= i + 1) /\ (j >= i + 1 <=> i < j)
  BY DEF Index
<1>2. QED
  BY <1>1 DEF InFrom

LEMMA OrderedTake ==
    ASSUME NEW i, NEW s \in Seq(Node), Ordered(i, s), NEW k \in Nat
    PROVE  Ordered(i, Take(s, k))
<1> DEFINE z == Take(s, k)
<1>1. /\ z \in Seq(Node) /\ Len(z) \in Nat /\ DOMAIN z = 1 .. Len(z)
      /\ DOMAIN s = 1 .. Len(s) /\ Len(s) \in Nat
      /\ \A q \in DOMAIN z : q \in DOMAIN s /\ z[q] = s[q]
  BY TakeLemma, LenProperties
<1> HIDE DEF z
<1>2. \A p \in DOMAIN z, q \in DOMAIN s : q < p => q \in DOMAIN z
  BY <1>1
<1>3. \A p \in DOMAIN z, m \in Node : EarlierIn(s, p, m) => EarlierIn(z, p, m)
  BY <1>1, <1>2 DEF EarlierIn
<1>4. Ordered(i, z)
  BY <1>1, <1>3 DEF Ordered
<1>5. QED
  BY <1>4 DEF z

(* A list after which nothing is missing but its own kind. *)
LEMMA OrderedConcat ==
    ASSUME NEW i, NEW a \in Seq(Node), NEW z \in Seq(Node), NEW r, r = a \o z, Ordered(i, a),
           \A q \in DOMAIN z :
              /\ InFrom(i, z[q])
              /\ \A m \in Node : InFrom(i, m) /\ Nearer(m, z[q]) =>
                    m \in Range(a) \/ EarlierIn(z, q, m) \/ Together(m, z[q])
    PROVE  Ordered(i, r)
<1>1. /\ DOMAIN r = 1 .. (Len(a) + Len(z))
      /\ \A q \in 1 .. Len(a) : r[q] = a[q]
      /\ \A q \in 1 .. Len(z) : r[Len(a) + q] = z[q]
  BY ONLY a \in Seq(Node), z \in Seq(Node), r = a \o z, ConcatAt
<1>2. /\ Len(a) \in Nat /\ Len(z) \in Nat /\ DOMAIN a = 1 .. Len(a) /\ DOMAIN z = 1 .. Len(z)
  BY LenProperties
<1>3. SUFFICES ASSUME NEW p \in DOMAIN r
               PROVE  /\ InFrom(i, r[p])
                      /\ \A m \in Node : InFrom(i, m) /\ Nearer(m, r[p]) =>
                            EarlierIn(r, p, m) \/ Together(m, r[p])
  BY DEF Ordered
<1>4. CASE p \in DOMAIN a
  <2>1. \A q \in DOMAIN a : q \in DOMAIN r /\ r[q] = a[q]
    BY <1>1, <1>2
  <2>2. \A m \in Node : EarlierIn(a, p, m) => EarlierIn(r, p, m)
    BY <2>1 DEF EarlierIn
  <2>3. QED
    BY <1>4, <2>1, <2>2 DEF Ordered
<1>5. CASE p \notin DOMAIN a
  <2> DEFINE q == p - Len(a)
  <2>1. q \in 1 .. Len(z) /\ Len(a) + q = p
    BY <1>1, <1>2, <1>3, <1>5
  <2> HIDE DEF q
  <2>2. r[p] = z[q]
    BY <1>1, <2>1
  <2>3. ASSUME NEW m \in Node, m \in Range(a) PROVE EarlierIn(r, p, m)
    <3>1. PICK x \in DOMAIN a : a[x] = m
      BY <2>3 DEF Range
    <3>2. x \in DOMAIN r /\ x < p /\ r[x] = m
      BY <1>1, <1>2, <2>1, <3>1
    <3>3. QED
      BY <3>2 DEF EarlierIn
  <2>4. ASSUME NEW m \in Node, EarlierIn(z, q, m) PROVE EarlierIn(r, p, m)
    <3>1. PICK x \in DOMAIN z : x < q /\ z[x] = m
      BY <2>4 DEF EarlierIn
    <3>2. x \in 1 .. Len(z) /\ Len(a) + x \in DOMAIN r /\ Len(a) + x < p
      BY <1>1, <1>2, <2>1, <3>1
    <3>3. r[Len(a) + x] = m
      BY <1>1, <3>1, <3>2
    <3>4. QED
      BY <3>2, <3>3 DEF EarlierIn
  <2>5. QED
    BY <1>2, <2>1, <2>2, <2>3, <2>4
<1>6. QED
  BY <1>4, <1>5

(* Asking the next bucket first was right. *)
LEMMA OrderedUp ==
    ASSUME AtRest, target \in U160Type, NEW i \in Index, Detour(i),
           NEW s \in Seq(Node), Ordered(i + 1, s)
    PROVE  Ordered(i, s)
<1>1. SUFFICES ASSUME NEW p \in DOMAIN s, NEW m \in Node, InFrom(i, m), Nearer(m, s[p])
               PROVE  EarlierIn(s, p, m) \/ Together(m, s[p])
  BY InFromSplit DEF Ordered
<1>2. InFrom(i + 1, s[p])
  BY DEF Ordered
<1>3. m \notin Range(nodes[i])
  BY <1>1, <1>2, InFromSplit, NearerBucket DEF Detour
<1>4. InFrom(i + 1, m)
  BY <1>1, <1>3, InFromSplit
<1>5. QED
  BY <1>1, <1>4 DEF Ordered

(* After its own nodes a bucket is short of nothing nearer. *)
LEMMA OwnNear ==
    ASSUME AtRest, target \in U160Type, LookupOK, NEW i \in Index, lpc[i] = "own", FrameNear(i),
           NEW r, r = acc[i] \o Take(nodes[i], KSize - Len(acc[i]))
    PROVE  /\ Ordered(i, r)
           /\ Len(r) < KSize => Range(nodes[i]) \subseteq Range(r)
           /\ Detour(i) => Whole(i, r)
<1> DEFINE a == acc[i]
           z == Take(nodes[i], KSize - Len(a))
<1>1. /\ a \in Seq(Node) /\ Len(a) \in Nat /\ Len(a) <= KSize /\ nodes[i] \in Seq(Node)
      /\ KSize \in Nat /\ KSize - Len(a) \in Nat
  BY KSizeAssumption, LenProperties DEF LookupOK, AtRest, IInv, TypeOK
<1>2. /\ z \in Seq(Node) /\ r = a \o z
      /\ \A q \in DOMAIN z : q \in DOMAIN nodes[i] /\ z[q] = nodes[i][q]
      /\ Len(z) <= KSize - Len(a) /\ Len(z) \in Nat
  <2> DEFINE g == KSize - Len(a)
  <2>1. g \in Nat /\ z = Take(nodes[i], g) /\ g = KSize - Len(a) /\ r = a \o z
    BY <1>1
  <2> HIDE DEF g, z
  <2>2. /\ z \in Seq(Node) /\ Len(z) = IF g < Len(nodes[i]) THEN g ELSE Len(nodes[i])
        /\ \A q \in DOMAIN z : q \in DOMAIN nodes[i] /\ z[q] = nodes[i][q]
    BY <1>1, <2>1, TakeLemma
  <2>3. Len(z) <= g /\ Len(z) \in Nat
    <3>1. Len(nodes[i]) \in Nat
      BY <1>1, LenProperties
    <3>2. QED
      BY <2>1, <2>2, <3>1
  <2>4. QED
    BY <2>1, <2>2, <2>3
<1>3. /\ \A n \in Range(a) : n \in Range(r)
      /\ Len(r) = KSize \/ \A n \in Range(nodes[i]) : n \in Range(r)
      /\ Len(a) = KSize \/ Len(nodes[i]) = KSize => Len(r) = KSize
  <2>1. a \in Seq(Node) /\ nodes[i] \in Seq(Node) /\ Len(a) <= KSize
    BY <1>1
  <2>2. r = a \o Take(nodes[i], KSize - Len(a))
    OBVIOUS
  <2> HIDE DEF a, z
  <2>3. QED
    BY <2>1, <2>2, FilledLemma, ZenonT(30)
<1>4. \A q \in DOMAIN z : z[q] \in Range(nodes[i])
  BY <1>2 DEF Range
<1>5. KSize \in Nat /\ ~(KSize < KSize)
  BY <1>1
<1> HIDE DEF z
<1>6. CASE Detour(i)
  <2>1. Ordered(i + 1, a) /\ Whole(i + 1, a)
    BY <1>6 DEF FrameNear
  <2>2. Ordered(i, a)
    BY <1>1, <1>6, <2>1, OrderedUp
  <2>3. ASSUME NEW q \in DOMAIN z, NEW m \in Node, InFrom(i, m)
        PROVE  m \in Range(a) \/ Together(m, z[q])
    <3>1. Len(a) < KSize
      <4>1. DOMAIN z = 1 .. Len(z)
        BY <1>2, LenProperties
      <4>2. QED
        BY <1>1, <1>2, <2>3, <4>1
    <3>2. CASE m \in Range(nodes[i])
      BY <1>4, <3>2 DEF Together
    <3>3. CASE InFrom(i + 1, m)
      BY <2>1, <3>1, <3>3 DEF Whole
    <3>4. QED
      BY <2>3, <3>2, <3>3, InFromSplit
  <2>4. \A q \in DOMAIN z : InFrom(i, z[q])
    BY <1>4, InFromSplit
  <2>5. Ordered(i, r)
    BY <1>1, <1>2, <2>2, <2>3, <2>4, OrderedConcat
  <2>6. Whole(i, r)
    <3>1. SUFFICES ASSUME Len(r) < KSize, NEW m \in Node, InFrom(i, m) PROVE m \in Range(r)
      BY DEF Whole
    <3>2. Len(a) < KSize
      <4>1. Len(a) # KSize
        BY <1>3, <1>5, <3>1
      <4>2. QED
        BY <1>1, <4>1
    <3>3. QED
      BY <1>3, <1>5, <2>1, <3>1, <3>2, InFromSplit DEF Whole
  <2>7. QED
    BY <1>3, <1>5, <2>5, <2>6
<1>7. CASE ~Detour(i)
  <2>1. a = <<>>
    BY <1>7 DEF FrameNear
  <2>2. Ordered(i, a)
    BY <2>1 DEF Ordered
  <2>3. ASSUME NEW q \in DOMAIN z, NEW m \in Node, InFrom(i, m), Nearer(m, z[q])
        PROVE  Together(m, z[q])
    <3>1. CASE m \in Range(nodes[i])
      BY <1>4, <3>1 DEF Together
    <3>2. CASE m \notin Range(nodes[i])
      <4>1. PICK j \in Index : i < j /\ m \in Range(nodes[j])
        BY <2>3, <3>2, InFromSplit
      <4>2. next_bucket[i] /\ (BelongsHere(i, target) => ~Nearer(m, z[q]))
        BY <1>4, <4>1, NearerBucket
      <4>3. QED
        BY <1>7, <2>3, <4>2 DEF Detour
    <3>3. QED
      BY <3>1, <3>2
  <2>4. \A q \in DOMAIN z : InFrom(i, z[q])
    BY <1>4, InFromSplit
  <2>5. Ordered(i, r)
    BY <1>1, <1>2, <2>2, <2>3, <2>4, OrderedConcat
  <2>6. QED
    BY <1>3, <1>5, <1>7, <2>5
<1>8. QED
  BY <1>6, <1>7

(* The nodes of the rest of the chain come after all that was there. *)
LEMMA TailNear ==
    ASSUME AtRest, target \in U160Type, LookupOK, NEW i \in Index, NEW b \in Index, i = b + 1,
           lpc[i] = "done", FrameNear(i), lpc[b] = "tail", FrameNear(b),
           NEW r, r = acc[b] \o Take(acc[i], KSize - Len(acc[b]))
    PROVE  Ordered(b, r) /\ Whole(b, r)
<1> DEFINE a == acc[b]
           s == acc[i]
           z == Take(s, KSize - Len(a))
<1>1. /\ a \in Seq(Node) /\ Len(a) \in Nat /\ Len(a) < KSize /\ Len(a) <= KSize
      /\ s \in Seq(Node) /\ Len(s) \in Nat /\ Len(s) <= KSize
      /\ KSize \in Nat /\ KSize - Len(a) \in Nat /\ ~(KSize < KSize)
  BY KSizeAssumption, LenProperties DEF LookupOK, FrameNear
<1>2. Ordered(i, s) /\ Whole(i, s) /\ Ordered(b, a) /\ Range(nodes[b]) \subseteq Range(a)
  BY <1>1 DEF FrameNear
<1>3. z \in Seq(Node) /\ r = a \o z /\ Ordered(i, z)
  BY <1>1, <1>2, TakeLemma, OrderedTake
<1>4. /\ \A n \in Range(a) : n \in Range(r)
      /\ Len(r) = KSize \/ \A n \in Range(s) : n \in Range(r)
      /\ Len(a) = KSize \/ Len(s) = KSize => Len(r) = KSize
  <2>1. a \in Seq(Node) /\ s \in Seq(Node) /\ Len(a) <= KSize
    BY <1>1
  <2>2. r = a \o Take(s, KSize - Len(a))
    OBVIOUS
  <2> HIDE DEF a, s, z
  <2>3. QED
    BY <2>1, <2>2, FilledLemma
<1> HIDE DEF z, s
<1>5. \A m \in Node : InFrom(b, m) => m \in Range(a) \/ InFrom(i, m)
  BY <1>2, InFromSplit
<1>6. \A m : InFrom(i, m) => InFrom(b, m)
  BY InFromSplit
<1>7. Ordered(b, r)
  <2>1. \A q \in DOMAIN z :
           /\ InFrom(b, z[q])
           /\ \A m \in Node : InFrom(b, m) /\ Nearer(m, z[q]) =>
                 m \in Range(a) \/ EarlierIn(z, q, m) \/ Together(m, z[q])
    BY <1>3, <1>5, <1>6 DEF Ordered
  <2>2. QED
    BY <1>1, <1>2, <1>3, <2>1, OrderedConcat
<1>8. Whole(b, r)
  <2>1. SUFFICES ASSUME Len(r) < KSize, NEW m \in Node, InFrom(b, m) PROVE m \in Range(r)
    BY DEF Whole
  <2>2. Len(s) < KSize
    <3>1. Len(s) # KSize
      BY <1>1, <1>4, <2>1
    <3>2. QED
      BY <1>1, <3>1
  <2>3. QED
    BY <1>1, <1>2, <1>4, <1>5, <2>1, <2>2 DEF Whole
<1>9. QED
  BY <1>7, <1>8

(* A step of the lookup, of a table at rest. *)
LEMMA NearStep ==
    ASSUME AtRest, target \in U160Type, LookupOK, \A j \in Index : FrameNear(j),
           NEW i \in Index, LookupStep(i), UNCHANGED vars, target' = target
    PROVE  \A j \in Index : FrameNear(j)'
<1>0. /\ nodes' = nodes /\ next_bucket' = next_bucket
      /\ lpc \in [Index -> LLabels] /\ acc \in [Index -> Seq(Node)]
      /\ IInv
  BY DEF vars, LookupOK, AtRest
<1>1. \A j, s : /\ Ordered(j, s)' <=> Ordered(j, s)
                /\ Whole(j, s)' <=> Whole(j, s)
                /\ Detour(j)' <=> Detour(j)
  BY <1>0 DEF Ordered, Whole, Detour, InFrom, EarlierIn, Together, Nearer, BelongsHere
<1>2. ASSUME NEW j \in Index, lpc'[j] = lpc[j], acc'[j] = acc[j] PROVE FrameNear(j)'
  <2>1. FrameNear(j)
    OBVIOUS
  <2>2. QED
    BY <1>0, <1>1, <1>2, <2>1 DEF FrameNear
<1>3. i # i + 1 /\ \A j \in Index : j > i => j # i
  BY DEF Index
<1>4. CASE LookupFirst(i)
  <2>1. CASE Detour(i)
    <3>1. /\ i + 1 \in Index /\ acc' = acc /\ lpc' = [lpc EXCEPT ![i] = "first", ![i + 1] = "start"]
          /\ lpc[i] = "start" /\ lpc[i + 1] = "ret"
      <4>1. i + 1 \in Index /\ i + 1 > i
        BY <1>0, <2>1, NextInIndex DEF Detour, Index
      <4>2. QED
        BY <1>4, <2>1, <4>1 DEF LookupFirst, Detour, LAt
    <3>2. acc[i] = <<>> /\ acc[i + 1] = <<>>
      BY <3>1 DEF FrameNear
    <3>3. FrameNear(i)' /\ FrameNear(i + 1)'
      BY <1>0, <1>1, <1>3, <2>1, <3>1, <3>2 DEF FrameNear
    <3>4. QED
      BY <1>0, <1>2, <3>1, <3>3
  <2>2. CASE ~Detour(i)
    <3>1. acc' = acc /\ lpc' = [lpc EXCEPT ![i] = "own"] /\ lpc[i] = "start"
      BY <1>4, <2>2 DEF LookupFirst, Detour, LAt
    <3>2. acc[i] = <<>>
      BY <3>1 DEF FrameNear
    <3>3. FrameNear(i)'
      BY <1>0, <1>1, <2>2, <3>1, <3>2 DEF FrameNear
    <3>4. QED
      BY <1>0, <1>2, <3>1, <3>3
  <2>3. QED
    BY <2>1, <2>2
<1>5. CASE LookupOwn(i)
  <2> DEFINE r == acc[i] \o Take(nodes[i], KSize - Len(acc[i]))
  <2>1. /\ lpc[i] = "own" /\ lpc' = [lpc EXCEPT ![i] = "rest"] /\ acc' = [acc EXCEPT ![i] = r]
    BY <1>5 DEF LookupOwn, LAt, Gap
  <2>2. /\ Ordered(i, r)
        /\ Len(r) < KSize => Range(nodes[i]) \subseteq Range(r)
        /\ Detour(i) => Whole(i, r)
    BY <2>1, OwnNear
  <2> HIDE DEF r
  <2>3. lpc'[i] = "rest" /\ acc'[i] = r
    BY <1>0, <2>1
  <2>4. FrameNear(i)'
    BY <1>0, <1>1, <2>2, <2>3 DEF FrameNear
  <2>5. QED
    BY <1>0, <1>2, <2>1, <2>4
<1>6. CASE LookupRest(i)
  <2>0. /\ lpc[i] = "rest" /\ acc' = acc /\ Len(acc[i]) \in Nat /\ KSize \in Nat
        /\ Len(acc[i]) <= KSize
    BY <1>6, LenProperties, KSizeAssumption DEF LookupRest, LAt, LookupOK
  <2>1. CASE Gap(i) > 0 /\ next_bucket[i]
    <3>1. /\ i + 1 \in Index /\ lpc' = [lpc EXCEPT ![i] = "tail", ![i + 1] = "start"]
          /\ lpc[i + 1] = "ret"
      <4>1. i + 1 \in Index /\ i + 1 > i
        BY <1>0, <2>1, NextInIndex DEF Index
      <4>2. QED
        BY <1>6, <2>1, <4>1 DEF LookupRest, LAt
    <3>2. Len(acc[i]) < KSize
      BY <2>0, <2>1 DEF Gap
    <3>3. acc[i + 1] = <<>>
      BY <3>1 DEF FrameNear
    <3>4. FrameNear(i)' /\ FrameNear(i + 1)'
      <4>1. lpc'[i] = "tail" /\ lpc'[i + 1] = "start"
        BY <1>0, <1>3, <3>1
      <4>2. FrameNear(i)
        OBVIOUS
      <4>3. QED
        BY <1>0, <1>1, <2>0, <3>2, <3>3, <4>1, <4>2 DEF FrameNear
    <3>5. QED
      BY <1>0, <1>2, <2>0, <3>1, <3>4
  <2>2. CASE ~(Gap(i) > 0 /\ next_bucket[i])
    <3>1. lpc' = [lpc EXCEPT ![i] = "done"]
      BY <1>6, <2>2 DEF LookupRest
    <3>2. /\ Ordered(i, acc[i])
          /\ Len(acc[i]) < KSize => Range(nodes[i]) \subseteq Range(acc[i])
      BY <2>0 DEF FrameNear
    <3>3. Whole(i, acc[i])
      <4>1. SUFFICES ASSUME Len(acc[i]) < KSize, NEW m \in Node, InFrom(i, m)
                     PROVE  m \in Range(acc[i])
        BY DEF Whole
      <4>2. ~next_bucket[i]
        BY <2>0, <2>2, <4>1 DEF Gap
      <4>3. ~InFrom(i + 1, m)
        <5>1. ASSUME NEW j \in Index, i < j PROVE m \notin Range(nodes[j])
          <6>1. nodes[j] = <<>>
            BY <1>0, <4>2, <5>1, NoneAfter
          <6>2. QED
            BY <6>1 DEF Range
        <5>2. QED
          BY <5>1, InFromSplit
      <4>4. QED
        BY <3>2, <4>1, <4>3, InFromSplit
    <3>4. FrameNear(i)'
      <4>1. lpc'[i] = "done" /\ acc'[i] = acc[i]
        BY <1>0, <2>0, <3>1
      <4>2. QED
        BY <1>1, <3>2, <3>3, <4>1 DEF FrameNear
    <3>5. QED
      BY <1>0, <1>2, <2>0, <3>1, <3>4
  <2>3. QED
    BY <2>1, <2>2
<1>7. CASE LookupReturn(i)
  <2>1. CASE i = 0
    <3>1. lpc' = [lpc EXCEPT ![0] = "ret"] /\ acc' = [acc EXCEPT ![0] = <<>>]
      BY <1>7, <2>1 DEF LookupReturn
    <3>2. FrameNear(0)'
      BY <1>0, <2>1, <3>1 DEF FrameNear
    <3>3. QED
      BY <1>0, <1>2, <2>1, <3>1, <3>2
  <2>2. CASE i # 0
    <3> DEFINE b == i - 1
               r == acc[b] \o Take(acc[i], KSize - Len(acc[b]))
    <3>1. b \in Index /\ i = b + 1 /\ b # i
      BY <2>2, MaxBitAssumption DEF Index, MAX_BUCKET_INDEX
    <3>2. /\ lpc[i] = "done"
          /\ \/ /\ lpc[b] = "first"
                /\ lpc' = [lpc EXCEPT ![i] = "ret", ![b] = "own"]
                /\ acc' = [acc EXCEPT ![i] = <<>>, ![b] = acc[i]]
             \/ /\ lpc[b] = "tail"
                /\ lpc' = [lpc EXCEPT ![i] = "ret", ![b] = "done"]
                /\ acc' = [acc EXCEPT ![i] = <<>>, ![b] = r]
      BY <1>0, <1>7, <2>2, <3>1 DEF LookupReturn, LAt, Gap
    <3>3. r = acc[b] \o Take(acc[i], KSize - Len(acc[b]))
      OBVIOUS
    <3> HIDE DEF b, r
    <3>4. FrameNear(i) /\ FrameNear(b)
      BY <3>1
    <3>5. lpc'[i] = "ret" /\ acc'[i] = <<>>
      BY <1>0, <3>1, <3>2
    <3>6. FrameNear(i)'
      BY <3>5 DEF FrameNear
    <3>7. CASE lpc[b] = "first"
      <4>1. lpc'[b] = "own" /\ acc'[b] = acc[i] /\ Detour(b)
        BY <1>0, <3>1, <3>2, <3>4, <3>7 DEF FrameNear
      <4>2. Ordered(b + 1, acc[i]) /\ Whole(b + 1, acc[i])
        BY <3>1, <3>2, <3>4 DEF FrameNear
      <4>3. FrameNear(b)'
        BY <1>1, <4>1, <4>2 DEF FrameNear
      <4>4. QED
        BY <1>0, <1>2, <3>1, <3>2, <3>6, <3>7, <4>3
    <3>8. CASE lpc[b] = "tail"
      <4>1. lpc'[b] = "done" /\ acc'[b] = r
        BY <1>0, <3>1, <3>2, <3>8
      <4>2. Ordered(b, r) /\ Whole(b, r)
        BY <3>1, <3>2, <3>3, <3>4, <3>8, TailNear
      <4>3. FrameNear(b)'
        BY <1>1, <4>1, <4>2 DEF FrameNear
      <4>4. QED
        BY <1>0, <1>2, <3>1, <3>2, <3>6, <3>8, <4>3
    <3>9. QED
      BY <3>2, <3>7, <3>8
  <2>3. QED
    BY <2>1, <2>2
<1>8. QED
  BY <1>4, <1>5, <1>6, <1>7 DEF LookupStep

(* A lookup runs alone, and each of its frames is in order. *)
NearInv ==
    /\ SerialInv /\ LookupOK
    /\ LIdle => \A j \in Index : lpc[j] = "ret"
    /\ ~LIdle => Quiescent
    /\ \A j \in Index : FrameNear(j)

LEMMA NearReads ==
    ASSUME NearInv, SerialInv', Quiescent, Reads
    PROVE  NearInv'
<1>0. /\ IInv /\ LookupOK /\ UNCHANGED vars /\ 0 \in Index /\ LookupOK'
  BY MaxBitAssumption, ReadsOK DEF NearInv, SerialInv, Reads, Index, MAX_BUCKET_INDEX
<1>1. AtRest
  BY DEF NearInv, SerialInv, AtRest, Settled, Moving, Quiescent, Idle
<1>2. Quiescent'
  BY <1>0 DEF Quiescent, Idle, vars
<1>3. ASSUME NEW id \in Target, LookupStart(id) PROVE NearInv'
  <2>1. /\ ~LIdle' /\ lpc' = [lpc EXCEPT ![0] = "start"] /\ acc' = acc
        /\ \A j \in Index : lpc[j] = "ret"
    BY <1>3, TargetAssumption DEF LookupStart, LIdle, NearInv
  <2>2. \A j \in Index : acc[j] = <<>> /\ lpc'[j] \in {"ret", "start"}
    BY <1>0, <2>1 DEF NearInv, FrameNear, LookupOK
  <2>3. \A j \in Index : FrameNear(j)'
    BY <2>1, <2>2 DEF FrameNear
  <2>4. QED
    BY <1>0, <1>2, <2>1, <2>3 DEF NearInv
<1>4. ASSUME NEW i \in Index, LookupStep(i) PROVE NearInv'
  <2>1. ~LIdle
    BY <1>4 DEF NearInv, LookupStep, LookupFirst, LookupOwn, LookupRest, LookupReturn, LAt
  <2>2. target \in U160Type
    BY <1>0, <2>1, TargetAssumption DEF LookupOK, LIdle
  <2>3. CASE target' = target
    <3>1. \A j \in Index : FrameNear(j)'
      BY <1>0, <1>1, <1>4, <2>2, <2>3, NearStep DEF NearInv
    <3>2. QED
      BY <1>0, <1>2, <2>1, <2>3, <3>1 DEF NearInv, LIdle
  <2>4. CASE target' # target
    <3>1. /\ i = 0 /\ LAt(0, "done") /\ target' = NoArg
          /\ lpc' = [lpc EXCEPT ![0] = "ret"] /\ acc' = [acc EXCEPT ![0] = <<>>]
      BY <1>4, <2>4 DEF LookupStep, LookupFirst, LookupOwn, LookupRest, LookupReturn
    <3>2. \A j \in Index : j = 0 \/ j > 0
      BY DEF Index
    <3>3. \A j \in Index : lpc'[j] = "ret"
      BY <1>0, <3>1, <3>2 DEF LAt, LookupOK
    <3>4. \A j \in Index : acc'[j] = <<>>
      <4>1. \A j \in Index : j > 0 => acc[j] = <<>>
        BY <3>1 DEF NearInv, FrameNear, LAt
      <4>2. QED
        BY <1>0, <3>1, <3>2, <4>1 DEF LookupOK
    <3>5. \A j \in Index : FrameNear(j)'
      BY <3>3, <3>4 DEF FrameNear
    <3>6. QED
      BY <1>0, <1>2, <3>1, <3>3, <3>5 DEF NearInv, LIdle
  <2>5. QED
    BY <2>3, <2>4
<1>5. QED
  BY <1>3, <1>4 DEF Reads

LEMMA NearNext == NearInv /\ [RouterSerialNext]_rvars => NearInv'
<1> SUFFICES ASSUME NearInv, [RouterSerialNext]_rvars PROVE NearInv'
  OBVIOUS
<1>1. SerialInv'
  BY SerialNext DEF NearInv
<1>2. ASSUME LIdle, UNCHANGED lvars PROVE NearInv'
  <2>1. lpc' = lpc /\ acc' = acc /\ target' = target /\ stable' = stable
    BY <1>2 DEF lvars
  <2>2. \A j \in Index : lpc[j] = "ret" /\ FrameNear(j)
    BY <1>2 DEF NearInv
  <2>3. \A j \in Index : acc[j] = <<>>
    BY <2>2 DEF FrameNear
  <2>4. \A j \in Index : FrameNear(j)'
    BY <2>1, <2>2, <2>3 DEF FrameNear
  <2>5. QED
    BY <1>1, <1>2, <2>1, <2>2, <2>4 DEF NearInv, LIdle, LookupOK
<1>3. CASE Quiescent /\ LIdle /\ Requests
  BY <1>2, <1>3 DEF Requests, RouterAdd, BanId
<1>4. ASSUME NEW t \in Task, BucketStep(t) PROVE NearInv'
  <2>1. UNCHANGED lvars /\ \E i \in Index : pc[t][i] # "ret"
    BY <1>4
       DEF BucketStep, Step, At, AddCheckNext, AddCheckLen, FullCheckNext, FullCheckLen, Place,
           Write, MakeNextBucket, LockNodes, MigrateOne, MigrateDone, RemoveRoute, RemoveWrite
  <2>2. LIdle
    BY <2>1 DEF NearInv, Quiescent, Idle
  <2>3. QED
    BY <1>2, <2>1, <2>2
<1>5. CASE Quiescent /\ Reads
  BY <1>1, <1>5, NearReads
<1>6. CASE UNCHANGED rvars
  <2>1. /\ lpc' = lpc /\ acc' = acc /\ target' = target /\ stable' = stable
        /\ nodes' = nodes /\ next_bucket' = next_bucket /\ pc' = pc
    BY <1>6 DEF rvars, vars, lvars
  <2>2. \A j, s : /\ Ordered(j, s)' <=> Ordered(j, s)
                  /\ Whole(j, s)' <=> Whole(j, s)
                  /\ Detour(j)' <=> Detour(j)
    BY <2>1 DEF Ordered, Whole, Detour, InFrom, EarlierIn, Together, Nearer, BelongsHere
  <2>3. ASSUME NEW j \in Index PROVE FrameNear(j)'
    <3>1. FrameNear(j)
      BY DEF NearInv
    <3>2. QED
      BY <2>1, <2>2, <3>1 DEF FrameNear
  <2>4. QED
    BY <1>1, <2>1, <2>3 DEF NearInv, LIdle, LookupOK, Quiescent, Idle
<1>7. QED
  BY <1>3, <1>4, <1>5, <1>6 DEF RouterSerialNext

(* One request at a time, a lookup answers from the nearest buckets: a     *)
(* node left out though it is nearer than one of the answer stands in the  *)
(* same bucket as that one.  For every width, k_size and set of nodes.     *)
THEOREM NearestBucketsCorrect == RouterSerialSpec => []NearestBuckets
<1>1. RouterInit => NearInv
  <2> SUFFICES ASSUME RouterInit PROVE NearInv
    OBVIOUS
  <2>1. SerialInv
    BY SerialInit
  <2>2. LookupOK /\ LIdle /\ \A j \in Index : lpc[j] = "ret" /\ acc[j] = <<>>
    BY EmptySeq, KSizeAssumption DEF RouterInit, LInit, LookupOK, LIdle, LLabels
  <2>3. \A j \in Index : FrameNear(j)
    BY <2>2 DEF FrameNear
  <2>4. QED
    BY <2>1, <2>2, <2>3 DEF NearInv
<1>2. NearInv => NearestBuckets
  <2> SUFFICES ASSUME NearInv, lpc[0] = "done",
                      NEW n \in Range(acc[0]), NEW m \in Stored \ Range(acc[0]), Nearer(m, n)
               PROVE  \E i \in Index : {m, n} \subseteq Range(nodes[i])
    BY DEF NearestBuckets
  <2>1. 0 \in Index /\ \A j \in Index : j >= 0
    BY MaxBitAssumption DEF Index, MAX_BUCKET_INDEX
  <2>2. Quiescent /\ nodes \in [Index -> Seq(Node)]
    BY <2>1 DEF NearInv, SerialInv, IInv, TypeOK
  <2>3. PICK j \in Index : m \in Range(nodes[j])
    BY <2>2 DEF Stored, Quiescent, Idle
  <2>4. InFrom(0, m)
    BY <2>1, <2>3 DEF InFrom
  <2>5. m \in Node
    BY <2>2, <2>3, ElementOfSeq, LenProperties DEF Range
  <2>6. PICK p \in DOMAIN acc[0] : n = acc[0][p]
    BY DEF Range
  <2>7. Ordered(0, acc[0])
    BY <2>1 DEF NearInv, FrameNear
  <2>8. EarlierIn(acc[0], p, m) \/ Together(m, n)
    BY <2>4, <2>5, <2>6, <2>7 DEF Ordered
  <2>9. ~EarlierIn(acc[0], p, m)
    BY DEF EarlierIn, Range
  <2>10. QED
    BY <2>8, <2>9 DEF Together
<1>3. QED
  BY <1>1, <1>2, NearNext, PTL DEF RouterSerialSpec

-----------------------------------------------------------------------------
(* What a ban achieves while other requests run *)

Removing == {"remove", "remove_write"}

(* A removal of the id is still to come to bucket i. *)
Doomed(i, id) ==
    \E t \in Task, j \in Index :
        /\ arg[t][j].id = id
        /\ \/ pc[t][j] = "remove" /\ j <= i
           \/ pc[t][j] = "remove_write" /\ j = i

Holds(i, id) == \E p \in DOMAIN nodes[i] : nodes[i][p].id = id

(* Nothing adds the id or moves it, and where remove can find it, it is    *)
(* about to be removed.                                                    *)
Clear(id) ==
    /\ \A t \in Task, i \in Index :
          pc[t][i] \notin {"ret"} \cup Removing => arg[t][i].id # id
    /\ \A i \in Index : Holds(i, id) =>
          /\ BelongsHere(i, id) \/ ~Moving(i)
          /\ StopsHere(i, id) => Doomed(i, id)

BanInv ==
    /\ IInv
    /\ BanList
    /\ \A id \in Range(banned_ids) : id \notin contested => Clear(id)

(* An id that remove finds in bucket i is in no later bucket. *)
LEMMA NotLater ==
    ASSUME IInv, NEW i \in Index, NEW k \in Index, NEW id, StopsHere(i, id),
           Holds(k, id)
    PROVE  k <= i
<1>1. SUFFICES ASSUME i < k PROVE FALSE
  BY DEF Index
<1>2. PICK p \in DOMAIN nodes[k] : nodes[k][p].id = id
  BY DEF Holds
<1>3. SharesPrefix(k, id)
  BY <1>2 DEF IInv, RangeOK
<1>4. id \in U160Type
  BY <1>2, NodeAssumption, LenProperties, ElementOfSeq DEF IInv, TypeOK
<1>5. ~BelongsHere(i, id)
  BY <1>1, <1>3, <1>4, BelongsLemma DEF SharesPrefix
<1>6. ~next_bucket[i]
  BY <1>5 DEF StopsHere
<1>7. nodes[k] = <<>>
  BY <1>1, <1>6, NoneAfter
<1>8. QED
  BY <1>2, <1>7, EmptySeq

(* The id stays out of reach of adds and splits, and doomed where it is. *)
LEMMA ClearKept ==
    ASSUME NEW id, Clear(id),
           \A t \in Task, i \in Index :
              pc'[t][i] \notin {"ret"} \cup Removing => arg'[t][i].id # id,
           \A i \in Index : Holds(i, id)' =>
              /\ Holds(i, id)
              /\ StopsHere(i, id)' => StopsHere(i, id)
              /\ Moving(i)' => Moving(i)
              /\ Doomed(i, id) /\ StopsHere(i, id)' => Doomed(i, id)'
    PROVE  Clear(id)'
<1>1. \A i \in Index : BelongsHere(i, id)' <=> BelongsHere(i, id)
  BY DEF BelongsHere
<1>2. ASSUME NEW i \in Index, Holds(i, id)'
      PROVE  /\ BelongsHere(i, id)' \/ ~Moving(i)'
             /\ StopsHere(i, id)' => Doomed(i, id)'
  BY <1>1, <1>2 DEF Clear
<1>3. QED
  BY <1>2 DEF Clear

(* A frame is left as it was; or it was no removal of the id, and is now   *)
(* neither an add of it nor a split that was none.                         *)
Unrelated(t, i, id) ==
    \/ pc'[t][i] = pc[t][i] /\ arg'[t][i] = arg[t][i]
    \/ /\ pc[t][i] \in Removing => arg[t][i].id # id
       /\ \/ pc'[t][i] = "ret"
          \/ /\ arg'[t][i].id # id
             /\ pc'[t][i] \in {"lock_nodes", "migrate"} =>
                   pc[t][i] \in {"lock_nodes", "migrate"}

LEMMA ClearUnrelated ==
    ASSUME NEW id, Clear(id), next_bucket' = next_bucket,
           \A i \in Index : Holds(i, id)' => Holds(i, id),
           \A t \in Task, i \in Index : Unrelated(t, i, id)
    PROVE  Clear(id)'
<1>1. \A t \in Task, i \in Index :
         pc'[t][i] \notin {"ret"} \cup Removing => arg'[t][i].id # id
  BY DEF Clear, Unrelated
<1>2. \A i \in Index : StopsHere(i, id)' => StopsHere(i, id)
  BY DEF StopsHere, BelongsHere
<1>3. \A i \in Index : Moving(i)' => Moving(i)
  BY DEF Moving, Unrelated
<1>4. \A i \in Index : Doomed(i, id) => Doomed(i, id)'
  <2> SUFFICES ASSUME NEW i \in Index, Doomed(i, id) PROVE Doomed(i, id)'
    OBVIOUS
  <2>1. PICK t \in Task, j \in Index :
           /\ arg[t][j].id = id
           /\ (pc[t][j] = "remove" /\ j <= i) \/ (pc[t][j] = "remove_write" /\ j = i)
    BY DEF Doomed
  <2>2. pc'[t][j] = pc[t][j] /\ arg'[t][j] = arg[t][j]
    BY <2>1 DEF Unrelated, Removing
  <2>3. QED
    BY <2>1, <2>2 DEF Doomed
<1>5. QED
  BY <1>1, <1>2, <1>3, <1>4, ClearKept

LEMMA ClearGoto ==
    ASSUME IInv, NEW id, Clear(id), next_bucket' = next_bucket, nodes' = nodes,
           NEW t \in Task, NEW i \in Index, NEW l, Goto(t, i, l), arg[t][i].id # id,
           l = "migrate" => pc[t][i] = "lock_nodes", l # "lock_nodes"
    PROVE  Clear(id)'
<1>1. \A u \in Task, j \in Index : Unrelated(u, j, id)
  BY GotoEffect DEF Unrelated, IInv
<1>2. \A j \in Index : Holds(j, id)' => Holds(j, id)
  BY DEF Holds
<1>3. QED
  BY <1>1, <1>2, ClearUnrelated

LEMMA ClearReturn ==
    ASSUME IInv, NEW id, Clear(id), next_bucket' = next_bucket,
           \A j \in Index : Holds(j, id)' => Holds(j, id),
           NEW t \in Task, NEW i \in Index, Return(t, i), arg[t][i].id # id
    PROVE  Clear(id)'
<1>1. \A u \in Task, j \in Index : Unrelated(u, j, id)
  BY ReturnEffect DEF Unrelated, IInv
<1>2. QED
  BY <1>1, ClearUnrelated

LEMMA ClearTailCall ==
    ASSUME IInv, NEW id, Clear(id), next_bucket' = next_bucket, nodes' = nodes,
           NEW t \in Task, NEW i \in Index, next_bucket[i],
           \A j \in Index : j > i => pc[t][j] = "ret",
           NEW l \in {"add", "remove"}, TailCall(t, i, l), arg[t][i].id # id
    PROVE  Clear(id)'
<1>0. i + 1 \in Index /\ i + 1 > i
  BY NextInIndex DEF Index
<1>1. pc[t][i + 1] = "ret"
  BY <1>0
<1>2. \A u \in Task, j \in Index : Unrelated(u, j, id)
  BY <1>0, <1>1, TailCallEffect DEF Unrelated, Removing, IInv
<1>3. \A j \in Index : Holds(j, id)' => Holds(j, id)
  BY DEF Holds
<1>4. QED
  BY <1>2, <1>3, ClearUnrelated

LEMMA ClearPanic ==
    ASSUME IInv, NEW id, Clear(id), next_bucket' = next_bucket, nodes' = nodes,
           NEW t \in Task, NEW i \in Index, pc[t][i] = "place",
           \A j \in Index : j > i => pc[t][j] = "ret", Panic(t)
    PROVE  Clear(id)'
<1>1. ASSUME NEW j \in Index PROVE pc[t][j] \notin Removing
  <2>1. CASE j > i
    BY <2>1 DEF Removing
  <2>2. CASE j < i
    BY <2>2 DEF IInv, LockOrder, Removing
  <2>3. QED
    BY <2>1, <2>2 DEF Index, Removing
<1>2. \A u \in Task, j \in Index : Unrelated(u, j, id)
  BY <1>1, PanicEffect DEF Unrelated, IInv
<1>3. \A j \in Index : Holds(j, id)' => Holds(j, id)
  BY DEF Holds
<1>4. QED
  BY <1>2, <1>3, ClearUnrelated

(* The split would have moved the id only from a bucket where it is clear. *)
LEMMA ClearMigrate ==
    ASSUME IInv, NEW id, Clear(id), NEW t \in Task, NEW i \in Index, MigrateOne(t, i)
    PROVE  Clear(id)'
<1>1. /\ i + 1 \in Index /\ next_bucket' = next_bucket
  BY MigrateEffect
<1>2. pc[t][i] = "migrate" /\ pc[t][i + 1] = "ret"
  BY <1>1 DEF MigrateOne, At, Index
<1>3. PICK p \in DOMAIN nodes[i] :
         /\ ~BelongsHere(i, nodes[i][p].id)
         /\ nodes' = [nodes EXCEPT ![i] = SwapRemove(nodes[i], p)]
         /\ \A u \in Task, j \in Index :
               /\ pc'[u][j] = IF u = t /\ j = i + 1 THEN "add" ELSE pc[u][j]
               /\ arg'[u][j] = IF u = t /\ j = i + 1 THEN nodes[i][p] ELSE arg[u][j]
  BY MigrateEffect
<1>4. nodes[i][p].id # id
  BY <1>2, <1>3 DEF Clear, Holds, Moving
<1>5. \A u \in Task, j \in Index : Unrelated(u, j, id)
  BY <1>2, <1>3, <1>4 DEF Unrelated, Removing
<1>6. \A j \in Index : Holds(j, id)' => Holds(j, id)
  <2> DEFINE r == SwapRemove(nodes[i], p)
  <2>1. Fits(i, nodes[i]) /\ p \in 1 .. Len(nodes[i])
    BY IInvFits, LenProperties DEF Fits
  <2>2. /\ r \in {RemoveAt(nodes[i], p), SwapRemove(nodes[i], p)}
        /\ nodes' = [nodes EXCEPT ![i] = r]
    BY <1>3
  <2> HIDE DEF r
  <2>3. \A q \in DOMAIN r : \E k \in DOMAIN nodes[i] : r[q] = nodes[i][k]
    BY <2>1, <2>2, ShrinkLemma DEF Fits
  <2>4. \A j \in Index : nodes'[j] = IF j = i THEN r ELSE nodes[j]
    BY <2>2, NodesEffect
  <2>5. QED
    BY <2>3, <2>4 DEF Holds
<1>7. QED
  BY <1>1, <1>5, <1>6, ClearUnrelated

(* The bucket that gets its successor holds no id that is clear: remove    *)
(* would have been on its way there, and met the split.                    *)
LEMMA ClearMakeNext ==
    ASSUME IInv, NEW id, Clear(id), ~Disturbed(id)', nodes' = nodes,
           NEW t \in Task, NEW i \in Index, pc[t][i] = "make_next", ~next_bucket[i],
           next_bucket' = [next_bucket EXCEPT ![i] = TRUE], Goto(t, i, "lock_nodes")
    PROVE  Clear(id)'
<1>1. \A u \in Task, j \in Index :
         pc'[u][j] = IF u = t /\ j = i THEN "lock_nodes" ELSE pc[u][j]
  BY GotoEffect DEF IInv
<1>2. arg' = arg
  BY DEF Goto
<1>3. arg[t][i].id # id
  BY DEF Clear, Removing
<1>4. \A j \in Index : Holds(j, id)' <=> Holds(j, id)
  BY DEF Holds
<1>5. \A j \in Index : StopsHere(j, id)' => StopsHere(j, id)
  BY DEF StopsHere, BelongsHere, IInv, TypeOK
<1>6. \A j \in Index : Doomed(j, id) => Doomed(j, id)'
  <2> SUFFICES ASSUME NEW j \in Index, Doomed(j, id) PROVE Doomed(j, id)'
    OBVIOUS
  <2>1. PICK u \in Task, k \in Index :
           /\ arg[u][k].id = id
           /\ (pc[u][k] = "remove" /\ k <= j) \/ (pc[u][k] = "remove_write" /\ k = j)
    BY DEF Doomed
  <2>2. pc'[u][k] = pc[u][k] /\ arg'[u][k] = arg[u][k]
    BY <1>1, <1>2, <1>3, <2>1
  <2>3. QED
    BY <2>1, <2>2 DEF Doomed
<1>7. ~Holds(i, id)
  <2>1. SUFFICES ASSUME Holds(i, id) PROVE Disturbed(id)'
    OBVIOUS
  <2>2. Doomed(i, id)'
    BY <1>6, <2>1 DEF Clear, StopsHere
  <2>3. PICK u \in Task, k \in Index :
           arg'[u][k].id = id /\ pc'[u][k] \in {"remove", "remove_write"}
    BY <2>2 DEF Doomed
  <2>4. pc'[t][i] \in {"lock_nodes", "migrate"}
    BY <1>1
  <2>5. QED
    BY <2>3, <2>4 DEF Disturbed
<1>8. \A j \in Index : j # i => (Moving(j)' => Moving(j))
  BY <1>1 DEF Moving
<1>9. \A u \in Task, j \in Index :
         pc'[u][j] \notin {"ret"} \cup Removing => arg'[u][j].id # id
  BY <1>1, <1>2, <1>3 DEF Clear
<1>10. QED
  BY <1>4, <1>5, <1>6, <1>7, <1>8, <1>9, ClearKept

(* The removal itself goes on to where the id is. *)
LEMMA ClearRoute ==
    ASSUME IInv, NEW id, Clear(id), NEW t \in Task, NEW i \in Index, RemoveRoute(t, i)
    PROVE  Clear(id)'
<1>0. /\ pc[t][i] = "remove" /\ \A j \in Index : j > i => pc[t][j] = "ret"
      /\ nodes' = nodes /\ next_bucket' = next_bucket
  BY DEF RemoveRoute, At
<1>1. \A j \in Index : /\ Holds(j, id)' <=> Holds(j, id)
                       /\ StopsHere(j, id)' <=> StopsHere(j, id)
  BY <1>0 DEF Holds, StopsHere, BelongsHere
<1>2. CASE StopsHere(i, arg[t][i].id) /\ Goto(t, i, "remove_write")
  <2>1. /\ \A u \in Task, j \in Index :
              pc'[u][j] = IF u = t /\ j = i THEN "remove_write" ELSE pc[u][j]
        /\ arg' = arg
    BY <1>2, GotoEffect DEF IInv
  <2>2. \A j \in Index : Moving(j)' => Moving(j)
    BY <1>0, <2>1 DEF Moving
  <2>3. \A u \in Task, j \in Index :
           pc'[u][j] \notin {"ret"} \cup Removing => arg'[u][j].id # id
    BY <2>1 DEF Clear, Removing
  <2>4. ASSUME NEW j \in Index, Holds(j, id), Doomed(j, id) PROVE Doomed(j, id)'
    <3>1. PICK u \in Task, k \in Index :
             /\ arg[u][k].id = id
             /\ (pc[u][k] = "remove" /\ k <= j) \/ (pc[u][k] = "remove_write" /\ k = j)
      BY <2>4 DEF Doomed
    <3>2. CASE u = t /\ k = i
      <4>1. i <= j /\ j <= i
        BY <1>0, <1>2, <2>4, <3>1, <3>2, NotLater
      <4>2. i = j
        BY <4>1 DEF Index
      <4>3. QED
        BY <2>1, <3>1, <3>2, <4>2 DEF Doomed
    <3>3. CASE ~(u = t /\ k = i)
      BY <2>1, <3>1, <3>3 DEF Doomed
    <3>4. QED
      BY <3>2, <3>3
  <2>5. QED
    BY <1>1, <2>2, <2>3, <2>4, ClearKept
<1>3. CASE ~StopsHere(i, arg[t][i].id) /\ TailCall(t, i, "remove")
  <2>0. i + 1 \in Index /\ i + 1 > i /\ next_bucket[i]
    BY <1>3, NextInIndex DEF StopsHere, Index
  <2>1. \A u \in Task, j \in Index :
           /\ pc'[u][j] = IF u = t /\ j = i + 1 THEN "remove"
                          ELSE IF u = t /\ j = i THEN "ret" ELSE pc[u][j]
           /\ arg'[u][j] = IF u = t /\ j = i + 1 THEN arg[t][i]
                           ELSE IF u = t /\ j = i THEN NoArg ELSE arg[u][j]
    BY <1>3, <2>0, TailCallEffect DEF IInv
  <2>2. \A j \in Index : Moving(j)' => Moving(j)
    BY <1>0, <2>1 DEF Moving
  <2>3. \A u \in Task, j \in Index :
           pc'[u][j] \notin {"ret"} \cup Removing => arg'[u][j].id # id
    BY <2>1 DEF Clear, Removing
  <2>4. ASSUME NEW j \in Index, StopsHere(j, id), Doomed(j, id) PROVE Doomed(j, id)'
    <3>1. PICK u \in Task, k \in Index :
             /\ arg[u][k].id = id
             /\ (pc[u][k] = "remove" /\ k <= j) \/ (pc[u][k] = "remove_write" /\ k = j)
      BY <2>4 DEF Doomed
    <3>2. CASE u = t /\ k = i
      <4>1. i <= j /\ i # j
        BY <1>0, <1>3, <2>4, <3>1, <3>2
      <4>2. i + 1 <= j
        BY <4>1 DEF Index
      <4>3. arg'[t][i + 1].id = id /\ pc'[t][i + 1] = "remove"
        BY <2>0, <2>1, <3>1, <3>2
      <4>4. QED
        BY <2>0, <4>2, <4>3 DEF Doomed
    <3>3. CASE ~(u = t /\ k = i)
      <4>1. ~(u = t /\ k = i + 1)
        BY <1>0, <2>0, <3>1
      <4>2. pc'[u][k] = pc[u][k] /\ arg'[u][k] = arg[u][k]
        BY <2>1, <3>3, <4>1
      <4>3. QED
        BY <3>1, <4>2 DEF Doomed
    <3>4. QED
      BY <3>2, <3>3
  <2>5. QED
    BY <1>1, <2>2, <2>3, <2>4, ClearKept
<1>4. QED
  BY <1>2, <1>3 DEF RemoveRoute

(* position finds an id that is there. *)
LEMMA FirstPositionFinds ==
    ASSUME NEW s \in Seq(Node), DistinctIds(s), NEW k \in DOMAIN s
    PROVE  FirstPosition(s, s[k].id) = k /\ k # 0
<1> DEFINE P == {p \in 1 .. Len(s) : s[p].id = s[k].id}
<1>1. k \in 1 .. Len(s) /\ Len(s) \in Nat
  BY LenProperties
<1>2. P = {k}
  BY <1>1, LenProperties DEF DistinctIds
<1>3. Min(P) = k
  BY <1>1, <1>2 DEF Min
<1>4. QED
  BY <1>1, <1>2, <1>3 DEF FirstPosition, SelectInSeq

(* Vec::remove takes the only copy of an id. *)
LEMMA RemoveAtTakes ==
    ASSUME NEW s \in Seq(Node), DistinctIds(s), NEW p \in 1 .. Len(s),
           NEW r, r = RemoveAt(s, p), NEW q \in DOMAIN r
    PROVE  r[q].id # s[p].id
<1>1. Len(s) \in Nat /\ DOMAIN s = 1 .. Len(s)
  BY LenProperties
<1>2. /\ r \in Seq(Node) /\ Len(r) = Len(s) - 1
      /\ \A k \in 1 .. (Len(s) - 1) : r[k] = IF k < p THEN s[k] ELSE s[k + 1]
  BY RemoveAtLemma
<1>3. q \in 1 .. (Len(s) - 1)
  BY <1>2, LenProperties
<1>4. CASE q < p
  <2>1. r[q] = s[q] /\ q \in DOMAIN s /\ q # p
    BY <1>1, <1>2, <1>3, <1>4
  <2>2. QED
    BY <1>1, <2>1 DEF DistinctIds
<1>5. CASE ~(q < p)
  <2>1. r[q] = s[q + 1] /\ q + 1 \in DOMAIN s /\ q + 1 # p
    BY <1>1, <1>2, <1>3, <1>5
  <2>2. QED
    BY <1>1, <2>1 DEF DistinctIds
<1>6. QED
  BY <1>4, <1>5

LEMMA ClearRemove ==
    ASSUME IInv, NEW id, Clear(id), NEW t \in Task, NEW i \in Index, RemoveWrite(t, i)
    PROVE  Clear(id)'
<1> DEFINE p == FirstPosition(nodes[i], arg[t][i].id)
<1>0. /\ pc[t][i] = "remove_write" /\ next_bucket' = next_bucket /\ Return(t, i)
  BY DEF RemoveWrite, At
<1>1. Fits(i, nodes[i])
  BY IInvFits
<1>2. \/ p = 0 /\ nodes' = nodes
      \/ p # 0 /\ nodes' = [nodes EXCEPT ![i] = RemoveAt(nodes[i], p)]
  BY DEF RemoveWrite
<1>3. p # 0 => p \in 1 .. Len(nodes[i])
  BY <1>1, FirstPositionLemma DEF Fits
<1>4. /\ arg[t][i].id = id => ~Holds(i, id)'
      /\ \A j \in Index : Holds(j, id)' => Holds(j, id)
  <2>1. CASE p = 0 /\ nodes' = nodes
    <3>1. ~Holds(i, arg[t][i].id)
      BY <1>1, <2>1, FirstPositionFinds DEF Holds, Fits
    <3>2. QED
      BY <2>1, <3>1 DEF Holds
  <2>2. CASE p # 0 /\ nodes' = [nodes EXCEPT ![i] = RemoveAt(nodes[i], p)]
    <3> DEFINE r == RemoveAt(nodes[i], p)
    <3>1. \A j \in Index : nodes'[j] = IF j = i THEN r ELSE nodes[j]
      BY <2>2, NodesEffect
    <3>2. r \in {RemoveAt(nodes[i], p), SwapRemove(nodes[i], p)} /\ r = RemoveAt(nodes[i], p)
      OBVIOUS
    <3>3. p \in 1 .. Len(nodes[i])
      BY <1>3, <2>2
    <3>4. nodes[i][p].id = arg[t][i].id
      <4>1. \E k \in DOMAIN nodes[i] : nodes[i][k].id = arg[t][i].id
        <5>1. {k \in 1 .. Len(nodes[i]) : nodes[i][k].id = arg[t][i].id} # {}
          BY <2>2 DEF FirstPosition, SelectInSeq
        <5>2. QED
          BY <1>1, <5>1, LenProperties DEF Fits
      <4>2. QED
        BY <1>1, <4>1, FirstPositionFinds DEF Fits
    <3> HIDE DEF r, p
    <3>5. \A q \in DOMAIN r : \E k \in DOMAIN nodes[i] : r[q] = nodes[i][k]
      BY <1>1, <3>2, <3>3, ShrinkLemma DEF Fits
    <3>6. \A q \in DOMAIN r : r[q].id # arg[t][i].id
      BY <1>1, <3>2, <3>3, <3>4, RemoveAtTakes DEF Fits
    <3>7. arg[t][i].id = id => ~Holds(i, id)'
      BY <3>1, <3>6 DEF Holds
    <3>8. \A j \in Index : Holds(j, id)' => Holds(j, id)
      BY <3>1, <3>5 DEF Holds
    <3>9. QED
      BY <3>7, <3>8
  <2>3. QED
    BY <1>2, <2>1, <2>2
<1> HIDE DEF p
<1>5. CASE arg[t][i].id # id
  BY <1>0, <1>4, <1>5, ClearReturn
<1>6. CASE arg[t][i].id = id
  <2>1. \A u \in Task, j \in Index :
           /\ pc'[u][j] = IF u = t /\ j = i THEN "ret" ELSE pc[u][j]
           /\ arg'[u][j] = IF u = t /\ j = i THEN NoArg ELSE arg[u][j]
    BY <1>0, ReturnEffect DEF IInv
  <2>2. \A j \in Index : Moving(j)' => Moving(j)
    BY <2>1 DEF Moving
  <2>3. \A u \in Task, j \in Index :
           pc'[u][j] \notin {"ret"} \cup Removing => arg'[u][j].id # id
    BY <2>1 DEF Clear
  <2>4. ASSUME NEW j \in Index, j # i, Doomed(j, id) PROVE Doomed(j, id)'
    <3>1. PICK u \in Task, k \in Index :
             /\ arg[u][k].id = id
             /\ (pc[u][k] = "remove" /\ k <= j) \/ (pc[u][k] = "remove_write" /\ k = j)
      BY <2>4 DEF Doomed
    <3>2. ~(u = t /\ k = i)
      BY <1>0, <2>4, <3>1
    <3>3. QED
      BY <2>1, <3>1, <3>2 DEF Doomed
  <2>5. \A j \in Index : StopsHere(j, id)' => StopsHere(j, id)
    BY <1>0 DEF StopsHere, BelongsHere
  <2>6. QED
    BY <1>4, <1>6, <2>2, <2>3, <2>4, <2>5, ClearKept
<1>7. QED
  BY <1>5, <1>6

LEMMA ClearStep ==
    ASSUME IInv, NEW id, Clear(id), ~Disturbed(id)',
           NEW t \in Task, NEW i \in Index, Step(t, i)
    PROVE  Clear(id)'
<1>0. \A j \in Index : j > i => pc[t][j] = "ret"
  BY DEF Step, AddCheckNext, AddCheckLen, FullCheckNext, FullCheckLen, Place, Write,
         MakeNextBucket, LockNodes, MigrateOne, MigrateDone, RemoveRoute, RemoveWrite, At
<1>1. ASSUME pc[t][i] \notin {"ret"} \cup Removing PROVE arg[t][i].id # id
  BY <1>1 DEF Clear
<1>2. CASE \/ AddCheckNext(t, i) \/ AddCheckLen(t, i)
           \/ FullCheckNext(t, i) \/ FullCheckLen(t, i)
           \/ LockNodes(t, i) \/ MigrateDone(t, i)
  <2>1. /\ pc[t][i] \notin {"ret"} \cup Removing
        /\ nodes' = nodes /\ next_bucket' = next_bucket
        /\ \E l : /\ Goto(t, i, l) /\ l # "lock_nodes"
                  /\ l = "migrate" => pc[t][i] = "lock_nodes"
    BY <1>2 DEF AddCheckNext, AddCheckLen, FullCheckNext, FullCheckLen, LockNodes,
                MigrateDone, At, Removing
  <2>2. QED
    BY <1>1, <2>1, ClearGoto
<1>3. CASE Place(t, i)
  <2>1. /\ pc[t][i] = "place" /\ pc[t][i] \notin {"ret"} \cup Removing
        /\ nodes' = nodes /\ next_bucket' = next_bucket
    BY <1>3 DEF Place, At, Removing
  <2>2. arg[t][i].id # id
    BY <1>1, <2>1
  <2>3. CASE Goto(t, i, "write")
    BY <2>1, <2>2, <2>3, ClearGoto
  <2>4. CASE next_bucket[i] /\ TailCall(t, i, "add")
    BY <1>0, <2>1, <2>2, <2>4, ClearTailCall
  <2>5. CASE Panic(t)
    BY <1>0, <2>1, <2>5, ClearPanic
  <2>6. QED
    BY <1>3, <2>3, <2>4, <2>5 DEF Place
<1>4. CASE Write(t, i)
  <2> DEFINE n == arg[t][i]
             r == AddOrUpdate(nodes[i], n)
  <2>1. /\ pc[t][i] = "write" /\ pc[t][i] \notin {"ret"} \cup Removing
        /\ Return(t, i) /\ next_bucket' = next_bucket
        /\ nodes' = [nodes EXCEPT ![i] = r]
    BY <1>4 DEF Write, At, Removing
  <2>2. n.id # id
    BY <1>1, <2>1
  <2>3. n \in Node /\ Fits(i, nodes[i])
    BY <2>1, IInvFits DEF IInv, TypeOK
  <2>4. \A q \in DOMAIN r : r[q] = n \/ \E k \in DOMAIN nodes[i] : r[q] = nodes[i][k]
    BY <2>3, AddOrUpdateLemma DEF Fits
  <2> HIDE DEF r
  <2>5. \A j \in Index : nodes'[j] = IF j = i THEN r ELSE nodes[j]
    BY <2>1, NodesEffect
  <2>6. \A j \in Index : Holds(j, id)' => Holds(j, id)
    BY <2>2, <2>4, <2>5 DEF Holds
  <2>7. QED
    BY <2>1, <2>2, <2>6, ClearReturn
<1>5. CASE MakeNextBucket(t, i)
  <2>1. /\ pc[t][i] = "make_next" /\ pc[t][i] \notin {"ret"} \cup Removing
        /\ nodes' = nodes
    BY <1>5 DEF MakeNextBucket, At, Removing
  <2>2. arg[t][i].id # id
    BY <1>1, <2>1
  <2>3. CASE Return(t, i) /\ next_bucket' = next_bucket
    <3>1. \A j \in Index : Holds(j, id)' => Holds(j, id)
      BY <2>1 DEF Holds
    <3>2. QED
      BY <2>2, <2>3, <3>1, ClearReturn
  <2>4. CASE Goto(t, i, "place") /\ next_bucket' = next_bucket
    BY <2>1, <2>2, <2>4, ClearGoto
  <2>5. CASE /\ ~next_bucket[i] /\ Goto(t, i, "lock_nodes")
             /\ next_bucket' = [next_bucket EXCEPT ![i] = TRUE]
    BY <2>1, <2>5, ClearMakeNext
  <2>6. QED
    BY <1>5, <2>3, <2>4, <2>5 DEF MakeNextBucket
<1>6. CASE MigrateOne(t, i)
  BY <1>6, ClearMigrate
<1>7. CASE RemoveRoute(t, i)
  BY <1>7, ClearRoute
<1>8. CASE RemoveWrite(t, i)
  BY <1>8, ClearRemove
<1>9. QED
  BY <1>2, <1>3, <1>4, <1>5, <1>6, <1>7, <1>8 DEF Step

(* A request for another id touches none of its frames. *)
LEMMA ClearStart ==
    ASSUME IInv, NEW id, Clear(id), NEW t \in Task, NEW l \in {"add", "remove"},
           NEW n \in Node, n.id # id, Start(t, l, n)
    PROVE  Clear(id)'
<1>1. /\ \A u \in Task, j \in Index :
            /\ pc'[u][j] = IF u = t /\ j = 0 THEN l ELSE pc[u][j]
            /\ arg'[u][j] = IF u = t /\ j = 0 THEN n ELSE arg[u][j]
      /\ nodes' = nodes /\ next_bucket' = next_bucket
      /\ \A j \in Index : pc[t][j] = "ret"
  BY StartEffect DEF IInv
<1>2. \A u \in Task, j \in Index : Unrelated(u, j, id)
  BY <1>1 DEF Unrelated, Removing
<1>3. \A j \in Index : Holds(j, id)' => Holds(j, id)
  BY <1>1 DEF Holds
<1>4. QED
  BY <1>1, <1>2, <1>3, ClearUnrelated

(* A ban that meets neither an add of its id nor a split starts clear. *)
LEMMA ClearBan ==
    ASSUME IInv, NEW t \in Task, NEW n \in Node, Start(t, "remove", n),
           NEW id, id = n.id, ~Disturbed(id)'
    PROVE  Clear(id)'
<1>0. 0 \in Index
  BY StartEffect DEF IInv
<1>1. pc'[t][0] = "remove" /\ arg'[t][0].id = id
  BY <1>0, StartEffect DEF IInv
<1>2. \A u \in Task, j \in Index :
         /\ pc'[u][j] \notin {"lock_nodes", "migrate"}
         /\ pc'[u][j] \notin {"ret"} \cup Removing => arg'[u][j].id # id
  BY <1>0, <1>1 DEF Disturbed, Removing
<1>3. \A i \in Index : Doomed(i, id)' /\ ~Moving(i)'
  <2>1. \A i \in Index : 0 <= i
    BY DEF Index
  <2>2. QED
    BY <1>0, <1>1, <1>2, <2>1 DEF Doomed, Moving
<1>4. QED
  BY <1>2, <1>3 DEF Clear

LEMMA BanStep == BanInv /\ [RouterNext]_rvars => BanInv'
<1> SUFFICES ASSUME BanInv, [RouterNext]_rvars PROVE BanInv'
  OBVIOUS
<1>1. IInv' /\ BanList' /\ IInv /\ BanList
  BY RouterStepIsBucketStep, NextIInv, BanListStep DEF BanInv
<1>2. ASSUME NEW fresh, Track(fresh), NEW id, id \in Range(banned_ids)', id \notin contested'
      PROVE  ~Disturbed(id)' /\ id \notin contested \ fresh
  BY <1>2 DEF Track
<1>3. SUFFICES ASSUME NEW id, id \in Range(banned_ids)', id \notin contested'
               PROVE  Clear(id)'
  BY <1>1 DEF BanInv
<1>4. ASSUME id \in Range(banned_ids), id \notin contested PROVE Clear(id)
  BY <1>4 DEF BanInv
<1>5. CASE UNCHANGED rvars
  <2>1. Clear(id)
    BY <1>3, <1>4, <1>5 DEF rvars
  <2>2. QED
    BY <1>5, <2>1 DEF rvars, vars, Clear, Holds, Doomed, Moving, StopsHere, BelongsHere
<1>6. ASSUME NEW t \in Task, BucketStep(t) PROVE Clear(id)'
  <2>1. banned_ids' = banned_ids /\ Track({}) /\ \E i \in Index : Step(t, i)
    BY <1>6 DEF BucketStep
  <2>2. ~Disturbed(id)' /\ id \notin contested
    BY <1>2, <1>3, <2>1
  <2>3. Clear(id)
    BY <1>3, <1>4, <2>1, <2>2
  <2>4. QED
    BY <1>1, <2>1, <2>2, <2>3, ClearStep
<1>7. ASSUME NEW t \in Task, NEW n \in Node, RouterAdd(t, n), Track({}) PROVE Clear(id)'
  <2>1. banned_ids' = banned_ids /\ Start(t, "add", n) /\ ~IsBanned(n.id)
    BY <1>7 DEF RouterAdd, StartAdd
  <2>2. id \notin contested
    BY <1>2, <1>3, <1>7
  <2>3. Clear(id) /\ n.id # id
    BY <1>3, <1>4, <2>1, <2>2 DEF IsBanned
  <2>4. QED
    BY <1>1, <2>1, <2>3, ClearStart
<1>8. ASSUME NEW t \in Task, NEW n \in Node, BanId(t, n), Track({n.id}) PROVE Clear(id)'
  <2>1. banned_ids' = PushBan(banned_ids, n.id) /\ Start(t, "remove", n)
    BY <1>8 DEF BanId, StartRemove
  <2>2. ~Disturbed(id)' /\ id \notin contested \ {n.id}
    BY <1>2, <1>3, <1>8
  <2>3. CASE id = n.id
    BY <1>1, <2>1, <2>2, <2>3, ClearBan
  <2>4. CASE id # n.id
    <3>1. id \in Range(banned_ids)
      BY <1>1, <1>3, <2>1, <2>4, PushBanLemma, NodeAssumption
    <3>2. Clear(id)
      BY <1>4, <2>2, <2>4, <3>1
    <3>3. QED
      BY <1>1, <2>1, <2>4, <3>2, ClearStart
  <2>5. QED
    BY <2>3, <2>4
<1>9. QED
  BY <1>5, <1>6, <1>7, <1>8 DEF RouterNext, Requests

(* Requests at once, however many: when all have ended, a banned id is in  *)
(* the table only if its removal met an add of the id or a split, or if it *)
(* stands where remove does not look.                                      *)
THEOREM BanOvertakenCorrect == RouterSpec => []BanOvertaken
<1>1. RouterInit => BanInv
  <2> SUFFICES ASSUME RouterInit PROVE BanInv
    OBVIOUS
  <2>1. IInv
    BY InitIInv DEF RouterInit, LInit
  <2>2. BanList /\ Range(banned_ids) = {}
    BY BanCountAssumption, EmptySeq DEF RouterInit, BanList, Range
  <2>3. QED
    BY <2>1, <2>2 DEF BanInv
<1>2. BanInv => BanOvertaken
  <2> SUFFICES ASSUME BanInv, Quiescent, NEW i \in Index, NEW p \in DOMAIN nodes[i],
                      NEW id, id = nodes[i][p].id, IsBanned(id), id \notin contested
               PROVE  ~StopsHere(i, id)
    BY DEF BanOvertaken
  <2>1. Clear(id) /\ Holds(i, id)
    BY DEF BanInv, IsBanned, Holds
  <2>2. ~Doomed(i, id)
    BY DEF Quiescent, Idle, Doomed
  <2>3. QED
    BY <2>1, <2>2 DEF Clear
<1>3. QED
  BY <1>1, <1>2, BanStep, PTL DEF RouterSpec
=============================================================================
