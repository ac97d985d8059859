---------------------------- MODULE SweepProofs -----------------------------
(***************************************************************************)
(* Safety of infohash_sweep, for every set of nodes, every number of       *)
(* travellers, every width of the gap and every capacity of the channel,   *)
(* whatever queries and searches report and whenever they end.             *)
(***************************************************************************)
EXTENDS Sweep, FiniteSetTheorems, TLAPS

-----------------------------------------------------------------------------
(* The queue is ordered *)

(* The order of identifiers is transitive. *)
LEMMA LessTransitive ==
    ASSUME NEW a \in U160Type, NEW b \in U160Type, NEW c \in U160Type,
           Less(a, b), Less(b, c)
    PROVE  Less(a, c)
<1>1. PICK i \in Bit : a[i] < b[i] /\ \A j \in 0 .. (i - 1) : a[j] = b[j]
  BY DEF Less
<1>2. PICK k \in Bit : b[k] < c[k] /\ \A j \in 0 .. (k - 1) : b[j] = c[j]
  BY DEF Less
<1>3. /\ i \in Nat /\ k \in Nat
      /\ \A j \in {i, k} : a[j] \in {0, 1} /\ b[j] \in {0, 1} /\ c[j] \in {0, 1}
  BY MaxBitAssumption DEF U160Type, Bit
<1> DEFINE d == IF i <= k THEN i ELSE k
<1>4. d \in Bit /\ a[d] < c[d] /\ \A j \in 0 .. (d - 1) : a[j] = c[j]
  BY <1>1, <1>2, <1>3
<1>5. QED
  BY <1>4 DEF Less

(* The order of the queue, by id and address, is strict. *)
LEMMA BeforeStrict ==
    /\ \A m \in Node : ~Before(m, m)
    /\ \A l, m, n \in Node : Before(l, m) /\ Before(m, n) => Before(l, n)
<1>1. \A m \in Node : m.id \in U160Type /\ m.addr \in Nat
  BY NodeAssumption
<1>2. ASSUME NEW m \in Node PROVE ~Before(m, m)
  <2>1. ~Less(m.id, m.id)
    BY <1>1 DEF Less, U160Type
  <2>2. QED
    BY <1>1, <2>1 DEF Before
<1>3. ASSUME NEW l \in Node, NEW m \in Node, NEW n \in Node, Before(l, m), Before(m, n)
      PROVE  Before(l, n)
  <2>1. CASE Less(l.id, m.id) /\ Less(m.id, n.id)
    BY <1>1, <2>1, LessTransitive DEF Before
  <2>2. CASE l.id = m.id \/ m.id = n.id
    BY <1>1, <1>3, <2>2 DEF Before
  <2>3. QED
    BY <1>3, <2>1, <2>2 DEF Before
<1>4. QED
  BY <1>2, <1>3

(* pop_first finds a node in every queue that is not empty: among finitely *)
(* many sets of predecessors one is minimal, and it is empty.              *)
LEMMA FirstExists ==
    ASSUME NEW S \in SUBSET Node, S # {}, NEW k \in Nat \ {0}
    PROVE  FirstOf(S, k) # {}
<1> DEFINE Preds(n) == {m \in S : Before(m, n)}
           T == {Preds(n) : n \in S}
<1>1. IsFiniteSet(S)
  BY NodeAssumption, FS_Subset
<1>2. T \subseteq FiniteSubsetsOf(S) /\ T # {}
  <2>1. \A n \in S : Preds(n) \in SUBSET S
    OBVIOUS
  <2>2. \A n \in S : IsFiniteSet(Preds(n))
    BY <1>1, <2>1, FS_Subset
  <2>3. QED
    BY <2>1, <2>2 DEF FiniteSubsetsOf
<1> HIDE DEF T
<1>3. PICK x \in T : \A y \in T : ~(<<y, x>> \in StrictSubsetOrdering(S))
  BY <1>2, FS_StrictSubsetOrderingWellFounded, WFMin
<1>4. PICK n \in S : x = Preds(n)
  BY DEF T
<1>5. ASSUME NEW m \in Preds(n) PROVE FALSE
  <2>1. m \in S /\ m \in Node /\ n \in Node /\ Before(m, n)
    OBVIOUS
  <2>2. Preds(m) \subseteq Preds(n) /\ m \notin Preds(m) /\ m \in Preds(n)
    BY <2>1, BeforeStrict
  <2>3. Preds(m) \in T /\ Preds(m) \in SUBSET S /\ Preds(n) \in SUBSET S
    BY <2>1 DEF T
  <2> HIDE DEF Preds
  <2>4. <<Preds(m), Preds(n)>> \in StrictSubsetOrdering(S)
    BY <2>2, <2>3 DEF StrictSubsetOrdering
  <2>5. QED
    BY <1>3, <1>4, <2>3, <2>4
<1>6. Cardinality(Preds(n)) = 0
  BY <1>5, FS_EmptySet
<1>7. n \in FirstOf(S, k)
  BY <1>6 DEF FirstOf
<1>8. QED
  BY <1>7

(* A search returns nodes, and so does a response. *)
LEMMA FindsAreNodes ==
    /\ \A S \in Finds : S \subseteq Node /\ DistinctIds(S)
    /\ \A S \in Listed : S \subseteq Node
  BY DEF Finds, Listed, kSubset

-----------------------------------------------------------------------------
(* The inductive invariant *)

(* A node is in the sweep if it waits or was asked. *)
InSweep(n) == asked[n] > 0 \/ n \in to_send

(* The result in hand and the backfill are records of their kind, and the  *)
(* ids of all nodes in the sweep were put into queried.                    *)
Shape ==
    /\ result \in [target : Ids \cup {<<>>}, nodes : SUBSET Node, samples : 0 .. MaxSamples]
    /\ backfill \in [at : {"none", "read", "find", "add"}, target : Ids \cup {<<>>},
                     nodes : SUBSET Node]
    /\ \A n \in Node : InSweep(n) => n.id \in queried

WInv == SweepTypeOK /\ Shape /\ SweptOnce /\ SweptAll

(* The first two searches fill the queue, and the first travellers leave. *)
LEMMA InitWInv == SweepInit => WInv
<1> SUFFICES ASSUME SweepInit PROVE WInv
  OBVIOUS
<1>1. start \subseteq Node
  BY FindsAreNodes DEF SweepInit
<1>2. tasks \subseteq start
  BY DEF SweepInit, FirstOf
<1>3. /\ queried = {n.id : n \in start} /\ to_send = start \ tasks
      /\ asked = [n \in Node |-> IF n \in tasks THEN 1 ELSE 0]
      /\ main = "recv" /\ result = NoResult /\ backfill = NoBackfill
      /\ channel = 0 /\ open = TRUE /\ late = {}
  BY DEF SweepInit
<1>4. SweepTypeOK
  BY <1>1, <1>2, <1>3, SweepBounds DEF SweepTypeOK, NoResult, NoBackfill, Ids
<1>5. Shape
  BY <1>1, <1>2, <1>3, SweepBounds DEF Shape, NoResult, NoBackfill, InSweep
<1>6. SweptOnce
  BY <1>1, <1>2, <1>3 DEF SweptOnce
<1>7. tasks = {} => start = {}
  BY <1>1, FirstExists, SweepBounds DEF SweepInit
<1>8. SweptAll
  BY <1>1, <1>2, <1>3, <1>7 DEF SweptAll
<1>9. QED
  BY <1>4, <1>5, <1>6, <1>8 DEF WInv

(* A step of the loop or the backfill that leaves the queue alone.  If it  *)
(* waits for the next result, it did before or the queue is empty.         *)
LEMMA QuietStep ==
    ASSUME WInv, UNCHANGED <<to_send, queried, asked, start, late>>, SweepTypeOK',
           result' \in [target : Ids \cup {<<>>}, nodes : SUBSET Node,
                        samples : 0 .. MaxSamples],
           backfill' \in [at : {"none", "read", "find", "add"}, target : Ids \cup {<<>>},
                          nodes : SUBSET Node],
           tasks' = {} /\ main' \in {"recv", "ended"} =>
               tasks = {} /\ main \in {"recv", "ended"}
    PROVE  WInv'
<1>1. Shape'
  BY DEF WInv, Shape, InSweep
<1>2. SweptOnce'
  BY DEF WInv, SweptOnce
<1>3. SweptAll'
  BY DEF WInv, SweptAll
<1>4. QED
  BY <1>1, <1>2, <1>3 DEF WInv

(* add_to_send_queue, from the loop or from the backfill: what is queued   *)
(* has ids that were never queued, each of them once.                      *)
LEMMA QueueStep ==
    ASSUME WInv, NEW target, NEW S \in SUBSET Node, NEW N, AddToSendQueue(target, S, N),
           UNCHANGED <<tasks, asked, start>>, SweepTypeOK',
           result' = result,
           backfill' \in [at : {"none", "read", "find", "add"}, target : Ids \cup {<<>>},
                          nodes : SUBSET Node],
           tasks' = {} /\ main' \in {"recv", "ended"} =>
               tasks = {} /\ main \in {"recv", "ended"} /\ late' = late \cup N
    PROVE  WInv'
<1>1. /\ N \subseteq Node /\ to_send' = to_send \cup N
      /\ queried' = queried \cup {n.id : n \in N}
      /\ \A n \in N : n.id \notin queried
      /\ \A m, n \in N : m.id = n.id => m = n
  BY DEF AddToSendQueue, NewAmong, Above, DistinctIds
<1>2. \A n \in N : ~InSweep(n)
  BY <1>1 DEF WInv, Shape
<1>3. \A n \in Node : InSweep(n)' <=> InSweep(n) \/ n \in N
  BY <1>1 DEF InSweep
<1>4. Shape'
  <2>1. ASSUME NEW n \in Node, InSweep(n)' PROVE n.id \in queried'
    BY <1>1, <1>3, <2>1 DEF WInv, Shape
  <2>2. QED
    BY <2>1 DEF WInv, Shape
<1>5. SweptOnce'
  <2>0. asked \in [Node -> Nat] /\ asked' = asked
    BY DEF WInv, SweepTypeOK
  <2>1. ASSUME NEW n \in Node
        PROVE  asked'[n] + (IF n \in to_send' THEN 1 ELSE 0) <= 1
    <3>1. asked[n] \in Nat /\ asked[n] + (IF n \in to_send THEN 1 ELSE 0) <= 1
      BY <2>0 DEF WInv, SweptOnce
    <3>2. n \in N => asked[n] = 0
      BY <1>2, <3>1 DEF InSweep
    <3>3. QED
      BY <1>1, <2>0, <3>1, <3>2
  <2>2. ASSUME NEW m \in Node, NEW n \in Node, m # n, m.id = n.id,
               InSweep(m)', InSweep(n)'
        PROVE  {m, n} \subseteq start'
    <3>1. CASE m \notin N /\ n \notin N
      BY <1>3, <2>2, <3>1 DEF WInv, SweptOnce, InSweep
    <3>2. CASE m \in N \/ n \in N
      BY <1>1, <1>3, <2>2, <3>2 DEF WInv, Shape
    <3>3. QED
      BY <3>1, <3>2
  <2>3. QED
    BY <2>1, <2>2 DEF SweptOnce, InSweep
<1>6. SweptAll'
  <2>1. ASSUME NEW id \in queried'
        PROVE  \E n \in Node : n.id = id /\ (asked'[n] > 0 \/ n \in to_send')
    BY <1>1, <2>1 DEF WInv, SweptAll
  <2>2. tasks' = {} /\ main' \in {"recv", "ended"} => to_send' \subseteq late'
    BY <1>1 DEF WInv, SweptAll
  <2>3. QED
    BY <2>1, <2>2 DEF SweptAll
<1>7. QED
  BY <1>4, <1>5, <1>6 DEF WInv

(* query_next!: the first of the queue is asked; only an empty queue       *)
(* leaves no traveller.                                                    *)
LEMMA QueryNextStep ==
    ASSUME WInv, QueryNext
    PROVE  WInv'
<1> DEFINE F == FirstOf(to_send, 1)
<1>1. /\ to_send' = to_send \ F /\ tasks' = tasks \cup F
      /\ asked' = [n \in Node |-> asked[n] + IF n \in F THEN 1 ELSE 0]
      /\ main' = "recv" /\ result' = NoResult
      /\ UNCHANGED <<queried, channel, open, backfill, start, late>>
  BY DEF QueryNext, Ask, pipe
<1>2. /\ F \subseteq to_send /\ to_send \subseteq Node /\ asked \in [Node -> Nat]
      /\ backfill' \in [at : {"none", "read", "find", "add"}, target : Ids \cup {<<>>},
                        nodes : SUBSET Node]
  BY <1>1 DEF FirstOf, WInv, SweepTypeOK, Shape
<1>3. F = {} => to_send = {}
  BY <1>2, FirstExists
<1> HIDE DEF F
<1>4. /\ asked' \in [Node -> Nat]
      /\ \A n \in Node : asked'[n] = asked[n] + IF n \in F THEN 1 ELSE 0
  BY <1>1, <1>2
<1>5. \A n \in Node : InSweep(n)' <=> InSweep(n)
  BY <1>1, <1>2, <1>4 DEF InSweep
<1>6. SweepTypeOK'
  BY <1>1, <1>2, <1>4, SweepBounds DEF WInv, SweepTypeOK, NoResult
<1>7. Shape'
  BY <1>1, <1>2, <1>5, SweepBounds DEF WInv, Shape, NoResult
<1>8. SweptOnce'
  <2>1. ASSUME NEW n \in Node
        PROVE  asked'[n] + (IF n \in to_send' THEN 1 ELSE 0) <= 1
    <3>1. asked[n] \in Nat /\ asked[n] + (IF n \in to_send THEN 1 ELSE 0) <= 1
      BY <1>2 DEF WInv, SweptOnce
    <3>2. QED
      BY <1>1, <1>2, <1>4, <3>1
  <2>2. ASSUME NEW m \in Node, NEW n \in Node, m # n, m.id = n.id,
               InSweep(m)', InSweep(n)'
        PROVE  {m, n} \subseteq start'
    BY <1>1, <1>5, <2>2 DEF WInv, SweptOnce, InSweep
  <2>3. QED
    BY <2>1, <2>2 DEF SweptOnce, InSweep
<1>9. SweptAll'
  <2>1. ASSUME NEW id \in queried'
        PROVE  \E n \in Node : n.id = id /\ InSweep(n)'
    BY <1>1, <1>5, <2>1 DEF WInv, SweptAll, InSweep
  <2>2. tasks' = {} => to_send' = {}
    BY <1>1, <1>3
  <2>3. QED
    BY <2>1, <2>2 DEF SweptAll, InSweep
<1>10. QED
  BY <1>6, <1>7, <1>8, <1>9 DEF WInv

(* The steps of the loop. *)
LEMMA LoopStep ==
    ASSUME WInv, Loop
    PROVE  WInv'
<1> DEFINE R == [target : Ids \cup {<<>>}, nodes : SUBSET Node, samples : 0 .. MaxSamples]
           B == [at : {"none", "read", "find", "add"}, target : Ids \cup {<<>>},
                 nodes : SUBSET Node]
<1>0. /\ SweepTypeOK /\ result \in R /\ backfill \in B
  BY DEF WInv, Shape
<1>1. ASSUME NEW n \in Node, NEW S \in Listed, NEW k \in 0 .. MaxSamples,
             GetNextResult(n, S, k)
      PROVE  WInv'
  <2>1. /\ main' = "send" /\ result' = [target |-> n.id, nodes |-> S, samples |-> k]
        /\ tasks' = tasks \ {n} /\ n.id \in Ids /\ S \subseteq Node
        /\ UNCHANGED <<to_send, queried, channel, open, backfill, start, asked, late>>
    BY <1>1, FindsAreNodes DEF GetNextResult, queue, pipe, Ids
  <2>2. SweepTypeOK' /\ result' \in R
    BY <1>0, <2>1 DEF SweepTypeOK
  <2>3. QED
    BY <1>0, <2>1, <2>2, QuietStep
<1>2. CASE SendSample
  <2>1. /\ main' = main /\ main = "send" /\ result.samples > 0
        /\ result' = [result EXCEPT !.samples = @ - 1]
        /\ open => channel < Capacity
        /\ channel' = IF open THEN channel + 1 ELSE channel
        /\ UNCHANGED <<to_send, queried, tasks, backfill, open, start, asked, late>>
    BY <1>2 DEF SendSample, queue
  <2>2. /\ result' \in R /\ result'.target = result.target /\ result'.nodes = result.nodes
    BY <1>0, <2>1, SweepBounds
  <2>3. SweepTypeOK'
    BY <1>0, <2>1, <2>2, SweepBounds DEF SweepTypeOK
  <2>4. QED
    BY <1>0, <2>1, <2>2, <2>3, QuietStep
<1>3. CASE SamplesSent \/ CheckGap
  <2>1. /\ main' \in {"gap", "enqueue", "spawn", "next"} /\ main \in {"send", "gap"}
        /\ result.samples = 0
        /\ UNCHANGED <<to_send, queried, channel, open, tasks, result, backfill, start,
                       asked, late>>
    BY <1>0, <1>3 DEF SamplesSent, CheckGap, queue, pipe, SweepTypeOK
  <2>2. SweepTypeOK'
    BY <1>0, <2>1 DEF SweepTypeOK
  <2>3. QED
    BY <1>0, <2>1, <2>2, QuietStep
<1>4. CASE SpawnBackfill
  <2>1. /\ main = "spawn" /\ main' = "next"
        /\ UNCHANGED <<to_send, queried, channel, open, tasks, result, start, asked, late>>
        /\ backfill' = IF backfill.at = "none"
                       THEN [at |-> "read", target |-> result.target, nodes |-> {}]
                       ELSE backfill
    BY <1>4 DEF SpawnBackfill, queue, pipe
  <2>2. result.target \in Ids
    BY <1>0, <2>1 DEF SweepTypeOK
  <2>3. SweepTypeOK' /\ backfill' \in B
    BY <1>0, <2>1, <2>2 DEF SweepTypeOK
  <2>4. QED
    BY <1>0, <2>1, <2>3, QuietStep
<1>5. CASE Enqueue
  <2>1. PICK N \in SUBSET result.nodes : AddToSendQueue(result.target, result.nodes, N)
    BY <1>5 DEF Enqueue
  <2>2. /\ main = "enqueue" /\ main' = "next"
        /\ UNCHANGED <<channel, open, tasks, result, backfill, start, asked, late>>
    BY <1>5 DEF Enqueue, pipe
  <2>3. /\ to_send' = to_send \cup N /\ queried' = queried \cup {n.id : n \in N}
        /\ N \subseteq Node
    BY <1>0, <2>1 DEF AddToSendQueue
  <2>4. SweepTypeOK'
    BY <1>0, <2>2, <2>3 DEF SweepTypeOK, Ids
  <2>5. QED
    BY <1>0, <2>1, <2>2, <2>4, QueueStep
<1>6. CASE End
  <2>1. /\ main = "recv" /\ main' = "ended" /\ tasks = {}
        /\ UNCHANGED <<to_send, queried, channel, open, tasks, result, backfill, start,
                       asked, late>>
    BY <1>6 DEF End, queue, pipe
  <2>2. SweepTypeOK'
    BY <1>0, <2>1 DEF SweepTypeOK
  <2>3. QED
    BY <1>0, <2>1, <2>2, QuietStep
<1>7. QED
  BY <1>1, <1>2, <1>3, <1>4, <1>5, <1>6, QueryNextStep DEF Loop, Results

(* The steps of the backfill, which goes on after the sweep has ended. *)
LEMMA BackfillStep ==
    ASSUME WInv, Backfill
    PROVE  WInv'
<1> DEFINE R == [target : Ids \cup {<<>>}, nodes : SUBSET Node, samples : 0 .. MaxSamples]
           B == [at : {"none", "read", "find", "add"}, target : Ids \cup {<<>>},
                 nodes : SUBSET Node]
<1>0. /\ SweepTypeOK /\ result \in R /\ backfill \in B
  BY DEF WInv, Shape
<1>1. ASSUME NEW S \in SUBSET Node, NEW l \in {"find", "add"},
             backfill.at # "none", backfill' = [backfill EXCEPT !.at = l, !.nodes = S],
             UNCHANGED <<to_send, queried, channel, open, tasks, main, result, start,
                         asked, late>>
      PROVE  WInv'
  <2>1. backfill' \in B /\ backfill'.target = backfill.target /\ backfill'.at = l
        /\ backfill'.nodes = S
    BY <1>0, <1>1
  <2>2. SweepTypeOK'
    BY <1>0, <1>1, <2>1 DEF SweepTypeOK
  <2>3. QED
    BY <1>0, <1>1, <2>1, <2>2, QuietStep
<1>2. CASE BackfillRead
  <2>1. FirstOf(to_send, SEEDS) \in SUBSET Node
    BY <1>0 DEF FirstOf, SweepTypeOK
  <2>2. QED
    BY <1>1, <1>2, <2>1 DEF BackfillRead, queue, pipe
<1>3. ASSUME NEW S \in Finds, BackfillFind(S)
      PROVE  WInv'
  BY <1>1, <1>3, FindsAreNodes DEF BackfillFind, queue, pipe
<1>4. CASE BackfillAdd
  <2>1. PICK N \in SUBSET backfill.nodes :
          /\ AddToSendQueue(backfill.target, backfill.nodes, N)
          /\ late' = IF tasks = {} /\ main \in {"recv", "ended"} THEN late \cup N ELSE late
    BY <1>4 DEF BackfillAdd
  <2>2. backfill' = NoBackfill /\ UNCHANGED <<channel, open, tasks, main, result, start, asked>>
    BY <1>4 DEF BackfillAdd, pipe
  <2>3. /\ to_send' = to_send \cup N /\ queried' = queried \cup {n.id : n \in N}
        /\ N \subseteq Node /\ backfill.nodes \in SUBSET Node
    BY <1>0, <2>1 DEF AddToSendQueue
  <2>4. SweepTypeOK' /\ backfill' \in B
    BY <1>0, <2>1, <2>2, <2>3 DEF SweepTypeOK, NoBackfill, Ids
  <2>5. QED
    BY <2>1, <2>2, <2>3, <2>4, QueueStep
<1>5. QED
  BY <1>2, <1>3, <1>4 DEF Backfill

-----------------------------------------------------------------------------
(* Theorems *)

(* Every step of the sweep preserves the invariant. *)
LEMMA NextWInv == WInv /\ [SweepNext]_svars => WInv'
<1> SUFFICES ASSUME WInv, [SweepNext]_svars PROVE WInv'
  OBVIOUS
<1>1. CASE Receive \/ Close \/ UNCHANGED svars
  <2>1. UNCHANGED <<to_send, queried, tasks, main, result, backfill, start, asked, late>>
    BY <1>1 DEF Receive, Close, svars, queue
  <2>2. channel' \in 0 .. Capacity /\ open' \in BOOLEAN
    <3>1. channel \in 0 .. Capacity /\ open \in BOOLEAN
      BY DEF WInv, SweepTypeOK
    <3>2. CASE Receive
      BY <3>1, <3>2, SweepBounds DEF Receive
    <3>3. CASE Close
      <4>1. open' = FALSE /\ channel' = 0
        BY <3>3 DEF Close
      <4>2. 0 \in 0 .. Capacity
        BY SweepBounds
      <4>3. QED
        BY <4>1, <4>2
    <3>4. CASE UNCHANGED svars
      BY <3>1, <3>4 DEF svars
    <3>5. QED
      BY <1>1, <3>2, <3>3, <3>4
  <2>3. SweepTypeOK'
    BY <2>1, <2>2 DEF WInv, SweepTypeOK
  <2>4. QED
    BY <2>1, <2>3, QuietStep DEF WInv, Shape
<1>2. QED
  BY <1>1, LoopStep, BackfillStep DEF SweepNext

(* The invariant holds throughout. *)
LEMMA WInvAlways == SweepSpec => []WInv
  BY InitWInv, NextWInv, PTL DEF SweepSpec

(* The loop has a target whenever it queues nodes, sends samples or looks  *)
(* at the gap, and the channel is never overfilled.                        *)
THEOREM SweepTypeCorrect == SweepSpec => []SweepTypeOK
  BY WInvAlways, PTL DEF WInv

(* The locks of add_to_send_queue keep the sweep from asking a node twice, *)
(* though a query and the backfill report the same id.                     *)
THEOREM SweptOnceCorrect == SweepSpec => []SweptOnce
  BY WInvAlways, PTL DEF WInv

(* No queued id is forgotten, and what is left in the queue when no query  *)
(* runs was put there by a backfill that came too late.                    *)
THEOREM SweptAllCorrect == SweepSpec => []SweptAll
  BY WInvAlways, PTL DEF WInv
=============================================================================
