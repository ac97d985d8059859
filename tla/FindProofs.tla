----------------------------- MODULE FindProofs -----------------------------
(***************************************************************************)
(* Safety of the iterative search, for every set of nodes and every width  *)
(* of identifiers, every K_SIZE, k and length of answers, any checksum, and*)
(* whatever the nodes answer in whatever order.                            *)
(***************************************************************************)
EXTENDS Find, FiniteSetTheorems, TLAPS

-----------------------------------------------------------------------------
(* The identifiers of NodeInfo *)

(* What validate asks of a node: the bits that from_ip_with_r fixes are    *)
(* those it fixes for the address and the r of the id, the random ones are *)
(* free.  This is the form in which the search of Find uses it.            *)
THEOREM ValidateIsFromIp ==
    ASSUME \A ip, r : Crc(ip, r) \in [Prefix -> {0, 1}],
           NEW n, n.id \in U160Type
    PROVE  Validate(n) <=> n.id \in FromIp(n.addr)
<1> DEFINE r == [i \in Suffix |-> n.id[i]]
<1>1. Prefix \subseteq Bit /\ Suffix \subseteq Bit /\ Prefix \cap Suffix = {}
  BY PrefixAssumption, MaxBitAssumption DEF Prefix, Suffix, Bit
<1>2. r \in R
  BY <1>1 DEF R, U160Type
<1>3. n.id \in FromIpWithR(n.addr, r) <=> \A i \in Prefix : n.id[i] = Crc(n.addr, r)[i]
  BY DEF FromIpWithR
<1>4. n.id \in FromIp(n.addr) <=> n.id \in FromIpWithR(n.addr, r)
  <2>1. ASSUME NEW s \in R, n.id \in FromIpWithR(n.addr, s) PROVE s = r
    BY <2>1 DEF FromIpWithR, R
  <2> HIDE DEF r
  <2> QED BY <1>2, <2>1, Zenon DEF FromIp
<1>5. ASSUME n.id \in FromIpWithR(n.addr, r) PROVE Validate(n)
  <2> SUFFICES ASSUME NEW test \in FromIpWithR(n.addr, r), NEW i \in Prefix \cup Suffix
               PROVE  n.id[i] = test[i]
    BY DEF Validate
  <2> QED BY <1>5 DEF FromIpWithR
<1>6. ASSUME Validate(n) PROVE n.id \in FromIpWithR(n.addr, r)
  <2> DEFINE test == [i \in Bit |-> IF i \in Prefix THEN Crc(n.addr, r)[i] ELSE n.id[i]]
  <2>1. \A i \in Prefix : Crc(n.addr, r)[i] \in {0, 1}
    <3> HIDE DEF r
    <3> QED BY ZenonT(30)
  <2>2. test \in U160Type
    <3> HIDE DEF r
    <3> QED BY <2>1 DEF U160Type
  <2>3. \A i \in Prefix : test[i] = Crc(n.addr, r)[i]
    <3> HIDE DEF r
    <3> QED BY <1>1
  <2>4. \A i \in Suffix : test[i] = r[i]
    BY <1>1
  <2> HIDE DEF test
  <2>5. test \in FromIpWithR(n.addr, r)
    BY <2>2, <2>3, <2>4 DEF FromIpWithR
  <2>6. \A i \in Prefix : n.id[i] = test[i]
    BY <1>6, <2>5 DEF Validate
  <2> HIDE DEF r
  <2> QED BY <1>3, <2>3, <2>6
<1> QED BY <1>4, <1>5, <1>6

-----------------------------------------------------------------------------
(* Distances and cardinalities *)

(* The order of identifiers is transitive. *)
LEMMA LessTransitive ==
    ASSUME NEW a \in U160Type, NEW b \in U160Type, NEW c \in U160Type,
           Less(a, b), Less(b, c)
    PROVE  Less(a, c)
<1>1. PICK i \in Bit : a[i] < b[i] /\ \A j \in 0 .. (i - 1) : a[j] = b[j]
  BY DEF Less
<1>2. PICK k \in Bit : b[k] < c[k] /\ \A j \in 0 .. (k - 1) : b[j] = c[j]
  BY DEF Less
<1>3. /\ a[i] \in {0, 1} /\ b[i] \in {0, 1} /\ c[i] \in {0, 1}
      /\ a[k] \in {0, 1} /\ b[k] \in {0, 1} /\ c[k] \in {0, 1}
      /\ i \in Nat /\ k \in Nat
  BY MaxBitAssumption DEF U160Type, Bit
<1>4. CASE i <= k
  <2>1. a[i] < c[i]
    BY <1>1, <1>2, <1>3, <1>4
  <2>2. \A j \in 0 .. (i - 1) : a[j] = c[j]
    BY <1>1, <1>2, <1>3, <1>4
  <2>3. QED
    BY <2>1, <2>2 DEF Less
<1>5. CASE k < i
  <2>1. a[k] < c[k]
    BY <1>1, <1>2, <1>3, <1>5
  <2>2. \A j \in 0 .. (k - 1) : a[j] = c[j]
    BY <1>1, <1>2, <1>3, <1>5
  <2>3. QED
    BY <2>1, <2>2 DEF Less
<1>6. QED
  BY <1>3, <1>4, <1>5

(* Distances are identifiers. *)
LEMMA DistanceType ==
    ASSUME NEW n \in Node
    PROVE  D(n) \in U160Type
  BY DEF D, Distance, U160Type

(* Who is not farther than n, and n is closer than a, is closer than a. *)
LEMMA WithinCloser ==
    ASSUME NEW S \in SUBSET Node, NEW n \in Node, NEW a \in Node, Less(D(n), D(a))
    PROVE  Within(S, n) \subseteq Within(S, a) /\ a \notin Within(S, n)
  BY DistanceType, LessTransitive DEF Within

(* A larger set has at least as many elements; all sets here are finite. *)
LEMMA Counting ==
    ASSUME NEW S \in SUBSET Node, NEW T \in SUBSET S
    PROVE  /\ IsFiniteSet(S) /\ IsFiniteSet(T)
           /\ Cardinality(S) \in Nat /\ Cardinality(T) \in Nat
           /\ Cardinality(T) <= Cardinality(S)
  BY NodeAssumption, FS_Subset, FS_CardinalityType

(* What is counted as close stays so when more nodes are seen. *)
LEMMA WithinGrows ==
    ASSUME NEW S \in SUBSET Node, NEW T \in SUBSET S, NEW n
    PROVE  /\ Cardinality(Within(T, n)) <= Cardinality(Within(S, n))
           /\ Cardinality(Within(T, n)) \in Nat /\ Cardinality(Within(S, n)) \in Nat
<1>1. Within(S, n) \in SUBSET Node /\ Within(T, n) \in SUBSET Within(S, n)
  BY DEF Within
<1>2. QED
  BY <1>1, Counting

(* An answer lists nodes that exist. *)
LEMMA RepliesAreNodes ==
    ASSUME NEW S \in Replies
    PROVE  S \subseteq Node
  BY DEF Replies, kSubset

-----------------------------------------------------------------------------
(* The inductive invariant *)

(* The loop: it runs only between the ping and the result, and finds peers *)
(* only if it was asked to.                                                *)
LoopOK ==
    /\ find_peers \in BOOLEAN
    /\ peers => find_peers
    /\ found # "none" => tasks = {} /\ batch = {}
    /\ found = "ping" => seen = {}

(* What the search knows of each node it has seen: one that fits its       *)
(* address was asked once, and its query runs, failed, or was answered;    *)
(* one that does not was not asked.  No id is seen under two addresses,    *)
(* and the banned ones are ignored.  A panic drops all that knowledge.     *)
SeenOK ==
    /\ tasks \subseteq Valid
    /\ \A m, n \in seen : m.id = n.id => m = n
    /\ found # "panic" =>
         /\ \A id \in Ids : asked[id] # 0 => \E s \in seen : s.id = id
         /\ \A id \in banned : \E s \in ignore : s.id = id
         /\ \A s \in seen : s \notin Valid => asked[s.id] = 0
         /\ \A s \in seen : s \in Valid =>
               /\ asked[s.id] = 1
               /\ s \in tasks \/ s \in ignore \/ s \in answered

(* What the condition of the loop leaves out: more than 2 * K_SIZE nodes   *)
(* are as close, one more than NothingMissed and AnswerClosest rely on.    *)
LimitOK ==
    found # "panic" => \A n \in reported \ (batch \cup seen) :
        \/ \E s \in seen : s.id = n.id
        \/ Cardinality(Within(seen, n)) > 2 * K_SIZE

FInv ==
    /\ FTypeOK
    /\ LoopOK
    /\ SeenOK
    /\ AskedOnce
    /\ LimitOK

(* A search begins with nothing seen and nobody asked. *)
LEMMA InitFInv == FInit => FInv
<1> SUFFICES ASSUME FInit PROVE FInv
  OBVIOUS
<1>1. batch \subseteq Node
  BY RepliesAreNodes DEF FInit
<1>2. asked = [id \in Ids |-> 0] /\ seen = {} /\ ignore = {} /\ added = {}
      /\ answered = {} /\ banned = {}
      /\ tasks = {} /\ peers = FALSE /\ reported = batch
      /\ find_peers \in BOOLEAN /\ found \in {"ping", "none"}
      /\ (found = "ping" => batch = {})
  BY DEF FInit
<1>3. FTypeOK
  BY <1>1, <1>2 DEF FTypeOK
<1>4. LoopOK /\ SeenOK
  BY <1>2 DEF LoopOK, SeenOK
<1>5. AskedOnce /\ LimitOK
  BY <1>2 DEF AskedOnce, LimitOK
<1>6. QED
  BY <1>3, <1>4, <1>5 DEF FInv

(* A node goes from the batch into seen, and is asked if it fits, or it is *)
(* left out for one of the reasons that LimitOK allows.                    *)
LEMMA ExamineStep ==
    ASSUME FInv, NEW n \in Node, Examine(n)
    PROVE  FInv'
<1>0. /\ n \in batch /\ batch' = batch \ {n} /\ found = "none" /\ found' = found
      /\ UNCHANGED <<find_peers, ignore, peers, added, answered, banned, reported>>
      /\ seen \subseteq Node /\ n.id \in Ids /\ n \in reported
  BY DEF Examine, FInv, LoopOK, FTypeOK, Ids
<1> DEFINE OldMissed ==
      \A m \in reported \ (batch \cup seen) :
          (\E s \in seen : s.id = m.id) \/ Cardinality(Within(seen, m)) > 2 * K_SIZE
<1>1. OldMissed
  BY <1>0 DEF FInv, LimitOK
<1>2. CASE CloseEnough(n) /\ IsNew(n)
  <2>1. /\ seen' = seen \cup {n} /\ \A s \in seen : s.id # n.id
        /\ IF n \in Valid
           THEN tasks' = tasks \cup {n} /\ asked' = [asked EXCEPT ![n.id] = @ + 1]
           ELSE tasks' = tasks /\ asked' = asked
    BY <1>2 DEF Examine, IsNew
  <2>2. asked \in [Ids -> Nat] /\ asked[n.id] = 0
    BY <1>0, <2>1 DEF FInv, FTypeOK, SeenOK
  <2>3. /\ asked' \in [Ids -> Nat]
        /\ \A id \in Ids : asked'[id] = IF id = n.id /\ n \in Valid THEN 1 ELSE asked[id]
    BY <1>0, <2>1, <2>2
  <2>4. FTypeOK' /\ LoopOK'
    BY <1>0, <2>1, <2>3 DEF FInv, FTypeOK, LoopOK
  <2>5. SeenOK'
    <3>1. tasks' \subseteq Valid
      BY <2>1 DEF FInv, SeenOK
    <3>2. \A x, y \in seen' : x.id = y.id => x = y
      BY <2>1 DEF FInv, SeenOK
    <3>3. \A id \in Ids : asked'[id] # 0 => \E s \in seen' : s.id = id
      BY <1>0, <2>1, <2>3 DEF FInv, SeenOK
    <3>4. \A id \in banned' : \E s \in ignore' : s.id = id
      BY <1>0 DEF FInv, SeenOK
    <3>5. ASSUME NEW s \in seen', s \notin Valid
          PROVE  asked'[s.id] = 0
      BY <1>0, <2>1, <2>2, <2>3, <3>5 DEF FInv, SeenOK, Ids
    <3>6. ASSUME NEW s \in seen', s \in Valid
          PROVE  /\ asked'[s.id] = 1
                 /\ s \in tasks' \/ s \in ignore' \/ s \in answered'
      <4>1. CASE s = n
        BY <1>0, <2>1, <2>3, <3>6, <4>1
      <4>2. CASE s \in seen
        BY <1>0, <2>1, <2>3, <3>6, <4>2 DEF FInv, SeenOK, Ids
      <4>3. QED
        BY <2>1, <4>1, <4>2
    <3>7. QED
      BY <3>1, <3>2, <3>3, <3>4, <3>5, <3>6 DEF SeenOK, Valid
  <2>6. AskedOnce'
    BY <2>3 DEF FInv, AskedOnce
  <2>7. LimitOK'
    <3>1. ASSUME NEW m \in reported' \ (batch' \cup seen')
          PROVE  \/ \E s \in seen' : s.id = m.id
                 \/ Cardinality(Within(seen', m)) > 2 * K_SIZE
      <4>1. m \in reported \ (batch \cup seen)
        BY <1>0, <2>1
      <4>2. CASE \E s \in seen : s.id = m.id
        BY <2>1, <4>2
      <4>3. CASE Cardinality(Within(seen, m)) > 2 * K_SIZE
        <5>1. seen' \in SUBSET Node /\ seen \in SUBSET seen'
          BY <1>0, <2>1
        <5>2. /\ Cardinality(Within(seen, m)) <= Cardinality(Within(seen', m))
              /\ Cardinality(Within(seen, m)) \in Nat /\ Cardinality(Within(seen', m)) \in Nat
          BY <5>1, WithinGrows
        <5>3. QED
          BY <4>3, <5>2, KAssumption
      <4>4. QED
        BY <1>1, <4>1, <4>2, <4>3
    <3>2. QED
      BY <3>1 DEF LimitOK, Within, D
  <2>8. QED
    BY <2>4, <2>5, <2>6, <2>7 DEF FInv
<1>3. CASE ~(CloseEnough(n) /\ IsNew(n))
  <2>1. seen' = seen /\ tasks' = tasks /\ asked' = asked
    BY <1>3 DEF Examine
  <2>2. FTypeOK' /\ LoopOK' /\ AskedOnce'
    BY <1>0, <2>1 DEF FInv, FTypeOK, LoopOK, AskedOnce
  <2>3. SeenOK'
    BY <1>0, <2>1 DEF FInv, SeenOK, Valid
  <2>4. (\E s \in seen : s.id = n.id) \/ Cardinality(Within(seen, n)) > 2 * K_SIZE
    <3>1. Cardinality(Within(seen, n)) \in Nat
      BY <1>0, WithinGrows
    <3>2. QED
      BY <1>3, <3>1, KAssumption DEF CloseEnough, IsNew
  <2>5. LimitOK'
    BY <1>0, <1>1, <2>1, <2>4 DEF LimitOK, Within, D
  <2>6. QED
    BY <2>2, <2>3, <2>5 DEF FInv
<1>4. QED
  BY <1>2, <1>3

(* A query ends: the node was answered for, or is ignored from now on, and *)
(* what it reported is the next batch.                                     *)
LEMMA EndedStep ==
    ASSUME FInv, NEW n, Ended(n), NEW S \in SUBSET Node, Reports(S),
           seen' = seen, asked' = asked, found' = found, find_peers' = find_peers,
           peers' \in BOOLEAN, peers' => find_peers,
           added' \subseteq Origin, answered' \in {answered, answered \cup {n}},
           \/ ignore' = ignore /\ banned' = banned /\ n \in answered'
           \/ ignore' = ignore \cup {n} /\ banned' \subseteq banned \cup {n.id}
    PROVE  FInv'
<1>0. /\ n \in tasks /\ batch = {} /\ tasks' = tasks \ {n} /\ found = "none"
      /\ batch' = S /\ reported' = reported \cup S
      /\ n \in seen /\ n \in Node /\ n.id \in Ids
  BY DEF Ended, Reports, FInv, LoopOK, FTypeOK, Ids
<1>1. FTypeOK'
  BY <1>0 DEF FInv, FTypeOK
<1>2. LoopOK'
  BY <1>0 DEF FInv, LoopOK
<1>3. SeenOK'
  <2>1. tasks' \subseteq Valid /\ \A x, y \in seen' : x.id = y.id => x = y
    BY <1>0 DEF FInv, SeenOK
  <2>2. \A id \in Ids : asked'[id] # 0 => \E s \in seen' : s.id = id
    BY <1>0 DEF FInv, SeenOK
  <2>3. \A id \in banned' : \E s \in ignore' : s.id = id
    BY <1>0 DEF FInv, SeenOK
  <2>4. \A s \in seen' : s \notin Valid => asked'[s.id] = 0
    BY <1>0 DEF FInv, SeenOK
  <2>5. ASSUME NEW s \in seen', s \in Valid
        PROVE  /\ asked'[s.id] = 1
               /\ s \in tasks' \/ s \in ignore' \/ s \in answered'
    BY <1>0, <2>5 DEF FInv, SeenOK
  <2>6. QED
    BY <2>1, <2>2, <2>3, <2>4, <2>5 DEF SeenOK, Valid
<1>4. AskedOnce'
  BY DEF FInv, AskedOnce
<1>5. LimitOK'
  BY <1>0 DEF FInv, LimitOK, Within, D
<1>6. QED
  BY <1>1, <1>2, <1>3, <1>4, <1>5 DEF FInv

(* The ways a query of a search can end. *)
LEMMA CompletesStep ==
    ASSUME FInv, NEW n \in Node, Completes(n)
    PROVE  FInv'
<1>0. /\ ignore \subseteq seen /\ added \subseteq Origin /\ peers \in BOOLEAN
      /\ find_peers \in BOOLEAN /\ (peers => find_peers)
  BY DEF FInv, FTypeOK, LoopOK
<1>1. ASSUME NEW S \in Replies, FoundSome(n, S)
      PROVE  FInv'
  <2>1. S \in SUBSET Node
    BY RepliesAreNodes
  <2>2. QED
    BY <1>0, <1>1, <2>1, EndedStep DEF FoundSome, Answered
<1>2. ASSUME NEW S \in Replies, NEW some \in BOOLEAN, FoundPeers(n, S, some)
      PROVE  FInv'
  <2>1. S \in SUBSET Node
    BY RepliesAreNodes
  <2>2. QED
    BY <1>0, <1>2, <2>1, EndedStep DEF FoundPeers, Answered
<1>3. CASE Unexpected(n)
  <2>1. {} \in SUBSET Node /\ Reports({})
    BY <1>3 DEF Unexpected, Ended, Reports
  <2>2. QED
    BY <1>0, <1>3, <2>1, EndedStep DEF Unexpected, Answered
<1>4. CASE Failed(n)
  <2>1. {} \in SUBSET Node /\ Reports({})
    BY <1>4 DEF Failed, Ended, Reports
  <2>2. QED
    BY <1>0, <1>4, <2>1, EndedStep DEF Failed
<1>5. CASE Panics(n)
  <2>1. /\ tasks' = {} /\ seen' = {} /\ ignore' = {} /\ peers' = FALSE
        /\ found' = "panic" /\ batch = {} /\ batch' = {}
        /\ UNCHANGED <<find_peers, added, answered, banned, asked, reported>>
    BY <1>5 DEF Panics
  <2>2. FTypeOK' /\ LoopOK' /\ SeenOK'
    BY <1>0, <2>1 DEF FInv, FTypeOK, LoopOK, SeenOK
  <2>3. AskedOnce' /\ LimitOK'
    BY <2>1 DEF FInv, AskedOnce, LimitOK
  <2>4. QED
    BY <2>2, <2>3 DEF FInv
<1>6. QED
  BY <1>1, <1>2, <1>3, <1>4, <1>5 DEF Completes

(* The ping of a bootstrap, and the end of a search. *)
LEMMA EdgeStep ==
    ASSUME FInv,
           \/ \E r \in Origin, S \in Replies : Pinged(r, S)
           \/ PingFailed \/ Return
    PROVE  FInv'
<1>1. ASSUME NEW r \in Origin, NEW S \in Replies, Pinged(r, S)
      PROVE  FInv'
  <2>1. /\ found = "ping" /\ found' = "none" /\ added' = {r} /\ S \subseteq Node
        /\ batch' = S /\ reported' = reported \cup S /\ batch = {} /\ tasks = {}
        /\ UNCHANGED <<find_peers, tasks, seen, ignore, peers, answered, banned, asked>>
    BY <1>1, RepliesAreNodes DEF Pinged, Reports, FInv, LoopOK
  <2>2. FTypeOK' /\ LoopOK' /\ AskedOnce'
    BY <2>1 DEF FInv, FTypeOK, LoopOK, AskedOnce
  <2>3. seen = {} /\ seen' = {} /\ ignore = {} /\ ignore' = {}
    BY <2>1 DEF FInv, LoopOK, FTypeOK
  <2>4. SeenOK'
    BY <2>1, <2>3 DEF FInv, SeenOK
  <2>5. LimitOK'
    BY <2>1, <2>3 DEF FInv, LimitOK, Within, D
  <2>6. QED
    BY <2>2, <2>4, <2>5 DEF FInv
<1>2. CASE PingFailed \/ Return
  <2>1. /\ UNCHANGED <<find_peers, tasks, batch, seen, ignore, peers, added, answered,
                       banned, asked, reported>>
        /\ tasks = {} /\ batch = {} /\ found # "panic"
        /\ found' \in {"unreachable", "Peers", "KClosest"}
        /\ found' = "Peers" => peers
    BY <1>2 DEF PingFailed, Return, FInv, LoopOK
  <2>2. FTypeOK' /\ LoopOK' /\ AskedOnce'
    BY <2>1 DEF FInv, FTypeOK, LoopOK, AskedOnce
  <2>3. SeenOK'
    BY <2>1 DEF FInv, SeenOK, Valid
  <2>4. LimitOK'
    BY <2>1 DEF FInv, LimitOK, Within, D
  <2>5. QED
    BY <2>2, <2>3, <2>4 DEF FInv
<1>3. QED
  BY <1>1, <1>2

(* Every step of a search preserves the invariant. *)
LEMMA NextFInv == FInv /\ [FNext]_fvars => FInv'
<1> SUFFICES ASSUME FInv, [FNext]_fvars PROVE FInv'
  OBVIOUS
<1>1. CASE UNCHANGED fvars
  BY <1>1 DEF fvars, FInv, FTypeOK, LoopOK, SeenOK, Valid, AskedOnce, LimitOK,
              Within, D
<1>2. QED
  BY <1>1, ExamineStep, CompletesStep, EdgeStep DEF FNext

(* The invariant holds throughout. *)
LEMMA FInvAlways == FSpec => []FInv
  BY InitFInv, NextFInv, PTL DEF FSpec

-----------------------------------------------------------------------------
(* The answer *)

(* Who is closer than a node of the answer, was seen and is not ignored,   *)
(* is in the answer too.                                                   *)
LEMMA AnswerDownward ==
    ASSUME FInv, NEW s \in seen \ ignore, NEW a \in Answer, Less(D(s), D(a))
    PROVE  s \in Answer
<1> DEFINE kept == seen \ ignore
<1>1. kept \in SUBSET Node /\ s \in Node /\ a \in Node
  BY DEF FInv, FTypeOK, Answer
<1>2. Within(kept, s) \in SUBSET Within(kept, a) /\ Within(kept, a) \in SUBSET Node
  <2> HIDE DEF kept
  <2>1. QED
    BY <1>1, WithinCloser DEF Within
<1>3. /\ Cardinality(Within(kept, s)) <= Cardinality(Within(kept, a))
      /\ Cardinality(Within(kept, s)) \in Nat /\ Cardinality(Within(kept, a)) \in Nat
  BY <1>2, Counting
<1>4. Cardinality(Within(kept, a)) <= K
  BY DEF Answer
<1>5. Cardinality(Within(kept, s)) <= K
  BY <1>3, <1>4, KAssumption
<1>6. QED
  BY <1>5 DEF Answer

(* If more than 2 * K_SIZE seen nodes are closer than a node of the        *)
(* answer, more of them are ignored than 2 * K_SIZE + 1 - k.               *)
LEMMA CrowdIgnored ==
    ASSUME FInv, NEW n \in Node, NEW a \in Answer, Less(D(n), D(a)),
           Cardinality(Within(seen, n)) > 2 * K_SIZE
    PROVE  Cardinality(ignore) > 2 * K_SIZE + 1 - K
<1> DEFINE kept == seen \ ignore
           W == Within(seen, n)
           L == W \ ignore
<1>1. /\ seen \in SUBSET Node /\ ignore \in SUBSET seen /\ kept \in SUBSET Node
      /\ a \in kept /\ a \in Node
      /\ Cardinality(Within(kept, a)) <= K
  BY DEF FInv, FTypeOK, Answer
<1>2. W \subseteq Within(seen, a) /\ a \notin W /\ W \in SUBSET Node
  BY <1>1, WithinCloser DEF Within
<1>3. a \in Within(kept, a)
  <2>1. ~Less(D(a), D(a))
    BY DEF Less, D, Distance
  <2>2. QED
    BY <1>1, <2>1 DEF Within
<1>4. L \cup {a} \in SUBSET Within(kept, a) /\ Within(kept, a) \in SUBSET Node
  BY <1>1, <1>2, <1>3 DEF Within
<1> HIDE DEF W, kept
<1>5. /\ Cardinality(L \cup {a}) <= Cardinality(Within(kept, a))
      /\ Cardinality(Within(kept, a)) \in Nat
  BY <1>4, Counting
<1>6. /\ IsFiniteSet(L) /\ Cardinality(L) \in Nat /\ IsFiniteSet(W) /\ Cardinality(W) \in Nat
      /\ IsFiniteSet(ignore) /\ Cardinality(ignore) \in Nat
      /\ IsFiniteSet(W \cap ignore) /\ Cardinality(W \cap ignore) \in Nat
      /\ Cardinality(W \cap ignore) <= Cardinality(ignore)
  <2>1. L \in SUBSET W /\ W \cap ignore \in SUBSET ignore /\ ignore \in SUBSET Node
    BY <1>1, <1>2
  <2>2. QED
    BY <1>2, <2>1, Counting
<1>7. Cardinality(L \cup {a}) = Cardinality(L) + 1
  BY <1>2, <1>6, FS_AddElement
<1>8. Cardinality(L) = Cardinality(W) - Cardinality(W \cap ignore)
  <2>1. L = W \ ignore
    OBVIOUS
  <2>2. QED
    BY <1>6, <2>1, FS_Difference
<1>9. Cardinality(W) > 2 * K_SIZE
  BY DEF W
<1>10. QED
  BY <1>1, <1>5, <1>6, <1>7, <1>8, <1>9, KAssumption

-----------------------------------------------------------------------------
(* Theorems *)

(* send_find is started for seen nodes only, and find_n_starting_at        *)
(* returns peers only if it looks for peers.                               *)
THEOREM FindTypeCorrect == FSpec => []FTypeOK
  BY FInvAlways, PTL DEF FInv

(* Nothing that anybody reports is dropped without a closer crowd, however *)
(* the answers are ordered.                                                *)
THEOREM NothingMissedCorrect == FSpec => []NothingMissed
<1>1. ASSUME FInv PROVE NothingMissed
  <2> SUFFICES ASSUME found # "panic", NEW n \in reported \ (batch \cup seen),
                      ~ \E s \in seen : s.id = n.id
               PROVE  Cardinality(Within(seen, n)) >= 2 * K_SIZE
    BY DEF NothingMissed
  <2>1. Cardinality(Within(seen, n)) > 2 * K_SIZE
    BY <1>1 DEF FInv, LimitOK
  <2>2. Cardinality(Within(seen, n)) \in Nat
    BY <1>1, WithinGrows DEF FInv, FTypeOK
  <2>3. QED
    BY <2>1, <2>2, KAssumption
<1>2. FInv => NothingMissed
  BY <1>1
<1>3. QED
  BY <1>2, FInvAlways, PTL

(* seen.insert lets no id through twice. *)
THEOREM AskedOnceCorrect == FSpec => []AskedOnce
  BY FInvAlways, PTL DEF FInv

(* No node that was reported is passed over for a farther one, unless more *)
(* of the asked nodes failed than the limit of 2 * K_SIZE leaves room for. *)
THEOREM AnswerClosestCorrect == FSpec => []AnswerClosest
<1>1. FInv => AnswerClosest
  <2> SUFFICES ASSUME FInv, found = "KClosest",
                      Cardinality(ignore) <= 2 * K_SIZE - K,
                      NEW n \in reported, NEW a \in Answer, Less(D(n), D(a)),
                      \A i \in ignore : i.id # n.id
               PROVE  \E b \in Answer : b.id = n.id
    BY DEF AnswerClosest
  <2>1. /\ batch = {} /\ reported \subseteq Node /\ n \in Node
        /\ ignore \in SUBSET Node
    BY DEF FInv, LoopOK, FTypeOK
  <2>2. CASE \E s \in seen : s.id = n.id
    <3>1. PICK s \in seen : s.id = n.id
      BY <2>2
    <3>2. s \in seen \ ignore /\ D(s) = D(n)
      BY <3>1 DEF D
    <3>3. s \in Answer
      BY <3>2, AnswerDownward
    <3>4. QED
      BY <3>1, <3>3
  <2>3. CASE Cardinality(Within(seen, n)) > 2 * K_SIZE
    <3>1. Cardinality(ignore) > 2 * K_SIZE + 1 - K
      BY <2>1, <2>3, CrowdIgnored
    <3>2. Cardinality(ignore) \in Nat
      BY <2>1, Counting
    <3>3. QED
      BY <3>1, <3>2, KAssumption
  <2>4. QED
    BY <2>1, <2>2, <2>3 DEF FInv, LimitOK
<1>2. QED
  BY <1>1, FInvAlways, PTL

(* Whoever the search returns and fits its address was asked, and its      *)
(* query got a response; no banned id is returned.                         *)
THEOREM AnswerRespondedCorrect == FSpec => []AnswerResponded
<1>1. FInv => AnswerResponded
  <2> SUFFICES ASSUME FInv, found = "KClosest", NEW n \in Answer
               PROVE  /\ n.id \notin banned
                      /\ IF n \in Valid
                         THEN asked[n.id] = 1 /\ n \in answered
                         ELSE asked[n.id] = 0
    BY DEF AnswerResponded
  <2>1. tasks = {} /\ n \in seen /\ n \notin ignore /\ ignore \subseteq seen
    BY DEF FInv, LoopOK, FTypeOK, Answer
  <2>2. n.id \notin banned
    BY <2>1 DEF FInv, SeenOK
  <2>3. QED
    BY <2>1, <2>2 DEF FInv, SeenOK
<1>2. QED
  BY <1>1, FInvAlways, PTL
=============================================================================
