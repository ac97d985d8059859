-------------------------- MODULE MessengerProofs ---------------------------
(***************************************************************************)
(* Safety of the messenger, for every number of queries, peers and permits *)
(* and over a network that delays, reorders, repeats and loses packets.    *)
(***************************************************************************)
EXTENDS Messenger, SequenceTheorems, FiniteSetTheorems, TLAPS

-----------------------------------------------------------------------------
(* The queue *)

(* A set of positions has a first one: of the intervals up to them, one is *)
(* contained in all the others.                                            *)
LEMMA FirstOfPositions ==
    ASSUME NEW n \in Nat, NEW I \in SUBSET (1 .. n), I # {}
    PROVE  Min(I) \in I /\ \A y \in I : Min(I) <= y
<1> DEFINE U == 1 .. n
           T == {1 .. x : x \in I}
<1>1. T \subseteq FiniteSubsetsOf(U) /\ T # {}
  <2>1. \A x \in I : (1 .. x) \in SUBSET U /\ x \in Int
    OBVIOUS
  <2>2. \A x \in I : IsFiniteSet(1 .. x)
    BY <2>1, FS_Interval
  <2>3. QED
    BY <2>1, <2>2 DEF FiniteSubsetsOf
<1> HIDE DEF T
<1>2. PICK t \in T : \A y \in T : ~(<<y, t>> \in StrictSubsetOrdering(U))
  BY <1>1, FS_StrictSubsetOrderingWellFounded, WFMin
<1>3. PICK x \in I : t = 1 .. x
  BY DEF T
<1>4. ASSUME NEW y \in I, y < x PROVE FALSE
  <2>1. x \in 1 .. n /\ y \in 1 .. n
    OBVIOUS
  <2>2. (1 .. y) \subseteq (1 .. x) /\ x \notin (1 .. y) /\ x \in (1 .. x)
    BY <1>4, <2>1
  <2>3. (1 .. y) \in T /\ (1 .. y) \in SUBSET U /\ (1 .. x) \in SUBSET U
    BY <2>1 DEF T
  <2>4. <<(1 .. y), (1 .. x)>> \in StrictSubsetOrdering(U)
    BY <2>2, <2>3 DEF StrictSubsetOrdering
  <2>5. QED
    BY <1>2, <1>3, <2>3, <2>4
<1>5. \A y \in I : x <= y
  BY <1>4
<1>6. QED
  BY <1>5 DEF Min

(* Vec::remove: every entry that is left was there, at a place of its own. *)
LEMMA RemoveAtLemma ==
    ASSUME NEW S, NEW s \in Seq(S), NEW p \in 1 .. Len(s)
    PROVE  /\ RemoveAt(s, p) \in Seq(S)
           /\ DOMAIN RemoveAt(s, p) = 1 .. (Len(s) - 1)
           /\ \A q \in 1 .. (Len(s) - 1) :
                 RemoveAt(s, p)[q] = IF q < p THEN s[q] ELSE s[q + 1]
<1> DEFINE a == SubSeq(s, 1, p - 1)
           b == SubSeq(s, p + 1, Len(s))
<1>1. /\ a \in Seq(S) /\ Len(a) = p - 1
      /\ \A q \in 1 .. (p - 1) : a[q] = s[q]
  BY SubSeqProperties
<1>2. /\ b \in Seq(S) /\ Len(b) = Len(s) - p
      /\ \A q \in 1 .. (Len(s) - p) : b[q] = s[p + q]
  BY SubSeqProperties
<1>3. RemoveAt(s, p) = a \o b
  BY DEF RemoveAt
<1> HIDE DEF a, b
<1>4. Len(s) \in Nat
  BY LenProperties
<1>5. /\ a \o b \in Seq(S)
      /\ Len(a \o b) = Len(a) + Len(b)
      /\ \A q \in 1 .. (Len(a) + Len(b)) :
            (a \o b)[q] = IF q <= Len(a) THEN a[q] ELSE b[q - Len(a)]
  BY <1>1, <1>2, ConcatProperties
<1>6. DOMAIN (a \o b) = 1 .. (Len(s) - 1)
  BY <1>1, <1>2, <1>4, <1>5, LenProperties
<1>7. ASSUME NEW q \in 1 .. (Len(s) - 1)
      PROVE  (a \o b)[q] = IF q < p THEN s[q] ELSE s[q + 1]
  BY <1>1, <1>2, <1>4, <1>5
<1>8. QED
  BY <1>3, <1>5, <1>6, <1>7

(* What remove_from_queue finds: an entry with the id, the first one, or,  *)
(* if there is none, one with the address.                                 *)
LEMMA PositionLemma ==
    ASSUME queue \in Seq(Entry), NEW id, NEW addr
    PROVE  LET p == Position(id, addr)
           IN  /\ p = 0 => \A i \in DOMAIN queue : queue[i].tid # id
               /\ p # 0 => /\ p \in 1 .. Len(queue)
                           /\ \/ queue[p].tid = id
                              \/ /\ \A i \in DOMAIN queue : queue[i].tid # id
                                 /\ queue[p].addr = addr
<1> DEFINE I == {i \in 1 .. Len(queue) : queue[i].tid = id}
           J == {i \in 1 .. Len(queue) : queue[i].addr = addr}
           p == Position(id, addr)
<1>0. Len(queue) \in Nat /\ DOMAIN queue = 1 .. Len(queue)
  BY LenProperties
<1>1. (\E e \in Range(queue) : e.tid = id) <=> I # {}
  BY <1>0 DEF Range
<1>2. p = IF I # {} THEN Min(I) ELSE IF J # {} THEN Min(J) ELSE 0
  BY <1>1 DEF Position, SelectInSeq
<1>3. I # {} => Min(I) \in I
  BY <1>0, FirstOfPositions
<1>4. J # {} => Min(J) \in J
  BY <1>0, FirstOfPositions
<1> HIDE DEF p
<1>5. CASE I # {}
  BY <1>0, <1>2, <1>3, <1>5 DEF p
<1>6. CASE I = {} /\ J # {}
  BY <1>0, <1>2, <1>4, <1>6 DEF p
<1>7. CASE I = {} /\ J = {}
  BY <1>0, <1>2, <1>7 DEF p
<1>8. QED
  BY <1>5, <1>6, <1>7

-----------------------------------------------------------------------------
(* The inductive invariant, whatever transaction ids are drawn *)

(* The query has put its entry into the queue at some time. *)
AfterPush == {"send", "wait", "cancel", "done"}

Pushed(q) == qpc[q] \in AfterPush

(* The sending half of a channel is in one place: in the one queue entry   *)
(* of its query, in the task that delivers, or used up.                    *)
OneSender ==
    /\ \A i \in DOMAIN queue :
          /\ queue[i].tid = tid[queue[i].query] /\ queue[i].addr = Me
          /\ qpc[queue[i].query] \in AfterPush /\ inbox[queue[i].query] = {}
          /\ \A d \in delivering : d.query # queue[i].query
    /\ \A i, j \in DOMAIN queue : queue[i].query = queue[j].query => i = j
    /\ \A d \in delivering : qpc[d.query] \in AfterPush /\ inbox[d.query] = {}
    /\ \A c, d \in delivering : c.query = d.query => c = d
    /\ \A q \in Query : ~Pushed(q) => inbox[q] = {}

Shape ==
    /\ inbox \in [Query -> SUBSET Packet]
    /\ delivering \subseteq [query : Query, packet : Packet]
    /\ net \subseteq [to : Address, packet : Packet]
    /\ \A q \in Query : qpc[q] = "permit" => q \notin Unbounded

MInv == MTypeOK /\ Shape /\ OneSender /\ PermitsBalance

(* Nothing is under way at first. *)
LEMMA InitMInv == MInit => MInv
<1> SUFFICES ASSUME MInit PROVE MInv
  OBVIOUS
<1> USE DEF MInit
<1>0. queue = <<>> /\ queue \in Seq(Entry) /\ DOMAIN queue = {}
  OBVIOUS
<1>1. inbox = [q \in Query |-> {}] /\ \A q \in Query : Cardinality(inbox[q]) <= 1
  BY FS_EmptySet
<1>2. MTypeOK
  BY <1>0, <1>1, MaxQAssumption, TidSpaceAssumption DEF MTypeOK, Tid
<1>3. Shape
  BY DEF Shape
<1>4. OneSender
  BY <1>0 DEF OneSender, Pushed, AfterPush
<1>5. PermitsBalance
  <2>1. {q \in Query \ Unbounded : qpc[q] \in {"push", "send", "wait", "cancel"}} = {}
    OBVIOUS
  <2>2. permits + 0 = MaxQ
    BY MaxQAssumption
  <2>3. QED
    BY <2>1, <2>2, FS_EmptySet DEF PermitsBalance
<1>6. QED
  BY <1>2, <1>3, <1>4, <1>5 DEF MInv

(* The permits that are out. *)
Held == {q \in Query \ Unbounded : qpc[q] \in {"push", "send", "wait", "cancel"}}

(* A query that goes on keeps its permit, or its lack of one. *)
LEMMA KeepPermit ==
    ASSUME MInv, NEW q \in Query, NEW l, qpc' = [qpc EXCEPT ![q] = l], permits' = permits,
           q \in Unbounded \/ (l \in {"push", "send", "wait", "cancel"}
                                <=> qpc[q] \in {"push", "send", "wait", "cancel"})
    PROVE  permits' \in 0 .. MaxQ /\ PermitsBalance'
<1>1. Held' = Held
  BY DEF Held, MInv, MTypeOK
<1>2. QED
  BY <1>1 DEF MInv, MTypeOK, PermitsBalance, Held

(* The semaphore hands out one permit. *)
LEMMA TakePermit ==
    ASSUME MInv, NEW q \in Query, Acquire(q), q \notin Unbounded
    PROVE  permits' \in 0 .. MaxQ /\ PermitsBalance'
<1>1. Held' = Held \cup {q} /\ q \notin Held
  BY DEF Held, MInv, MTypeOK, Acquire
<1>2. IsFiniteSet(Held) /\ Cardinality(Held) \in Nat
  BY QueryAssumption, FS_Subset, FS_CardinalityType DEF Held
<1>3. Cardinality(Held') = Cardinality(Held) + 1
  BY <1>1, <1>2, FS_AddElement
<1>4. permits \in 0 .. MaxQ /\ permits > 0 /\ permits' = permits - 1
      /\ permits + Cardinality(Held) = MaxQ
  BY DEF MInv, MTypeOK, Acquire, PermitsBalance, Held
<1>5. permits' \in 0 .. MaxQ /\ permits' + Cardinality(Held') = MaxQ
  BY <1>2, <1>3, <1>4, MaxQAssumption
<1>6. QED
  BY <1>5 DEF PermitsBalance, Held

(* A query that returns gives its permit back, and only if it has one. *)
LEMMA FinishPermit ==
    ASSUME MInv, NEW q \in Query, NEW how, Finish(q, how),
           qpc[q] \in {"send", "wait", "cancel"}
    PROVE  permits' \in 0 .. MaxQ /\ PermitsBalance'
<1>0. permits \in 0 .. MaxQ /\ permits + Cardinality(Held) = MaxQ
  BY DEF MInv, MTypeOK, PermitsBalance, Held
<1>1. CASE q \in Unbounded
  BY <1>1, KeepPermit DEF Finish
<1>2. CASE q \notin Unbounded
  <2>1. Held' = Held \ {q} /\ q \in Held /\ permits' = permits + 1
    BY <1>2 DEF Held, MInv, MTypeOK, Finish
  <2>2. IsFiniteSet(Held) /\ Cardinality(Held) \in Nat
    BY QueryAssumption, FS_Subset, FS_CardinalityType DEF Held
  <2>3. Cardinality(Held') = Cardinality(Held) - 1 /\ Cardinality(Held') \in Nat
    BY <2>1, <2>2, FS_RemoveElement, FS_CardinalityType
  <2>4. permits' \in 0 .. MaxQ /\ permits' + Cardinality(Held') = MaxQ
    BY <1>0, <2>1, <2>2, <2>3, MaxQAssumption
  <2>5. QED
    BY <2>4 DEF PermitsBalance, Held
<1>3. QED
  BY <1>1, <1>2

-----------------------------------------------------------------------------
(* The steps *)

(* What is in the queue is an entry. *)
LEMMA Entries ==
    ASSUME MInv
    PROVE  \A i \in DOMAIN queue : queue[i] \in Entry /\ queue[i].query \in Query
<1>1. queue \in Seq(Entry) /\ DOMAIN queue = 1 .. Len(queue)
  BY LenProperties DEF MInv, MTypeOK
<1>2. \A i \in 1 .. Len(queue) : queue[i] \in Entry
  BY <1>1, ElementOfSeq
<1>3. QED
  BY <1>1, <1>2 DEF Entry

(* Where no sending half moves, no channel gains a reply and no query      *)
(* forgets that it had pushed its entry.                                   *)
LEMMA SendersStay ==
    ASSUME MInv, queue' = queue, delivering' = delivering,
           \A q \in Query : /\ Pushed(q) => Pushed(q)' /\ tid'[q] = tid[q]
                            /\ inbox'[q] \subseteq inbox[q]
    PROVE  OneSender'
<1>1. \A i \in DOMAIN queue : queue[i].query \in Query
  BY Entries
<1>2. \A d \in delivering : d.query \in Query
  BY DEF MInv, Shape
<1>3. \A q \in Query : inbox[q] = {} => inbox'[q] = {}
  OBVIOUS
<1>4. \A q \in Query : ~Pushed(q)' => inbox'[q] = {}
  BY <1>3 DEF MInv, OneSender
<1>5. ASSUME NEW i \in DOMAIN queue
      PROVE  /\ queue[i].tid = tid'[queue[i].query] /\ queue[i].addr = Me
             /\ qpc'[queue[i].query] \in AfterPush /\ inbox'[queue[i].query] = {}
             /\ \A d \in delivering : d.query # queue[i].query
  BY <1>1, <1>3 DEF MInv, OneSender, Pushed
<1>6. \A d \in delivering : qpc'[d.query] \in AfterPush /\ inbox'[d.query] = {}
  BY <1>2, <1>3 DEF MInv, OneSender, Pushed
<1>7. QED
  BY <1>4, <1>5, <1>6 DEF MInv, OneSender

(* remove_from_queue leaves the other entries, each once. *)
LEMMA QueueShrinks ==
    ASSUME MInv, NEW p \in 1 .. Len(queue), queue' = RemoveAt(queue, p)
    PROVE  /\ queue' \in Seq(Entry)
           /\ \A i \in DOMAIN queue' :
                 \E k \in DOMAIN queue : k # p /\ queue'[i] = queue[k]
           /\ \A i \in DOMAIN queue' : queue'[i].query # queue[p].query
           /\ \A i, j \in DOMAIN queue' : queue'[i].query = queue'[j].query => i = j
<1> DEFINE at(i) == IF i < p THEN i ELSE i + 1
<1>1. queue \in Seq(Entry) /\ Len(queue) \in Nat /\ DOMAIN queue = 1 .. Len(queue)
  BY LenProperties DEF MInv, MTypeOK
<1>2. /\ queue' \in Seq(Entry)
      /\ DOMAIN queue' = 1 .. (Len(queue) - 1)
      /\ \A i \in 1 .. (Len(queue) - 1) : queue'[i] = queue[at(i)]
  <2>1. \A i \in 1 .. (Len(queue) - 1) :
           (IF i < p THEN queue[i] ELSE queue[i + 1]) = queue[at(i)]
    OBVIOUS
  <2>2. QED
    BY <1>1, <2>1, RemoveAtLemma
<1>3. \A i \in DOMAIN queue' : at(i) \in DOMAIN queue /\ at(i) # p
  BY <1>1, <1>2
<1>4. \A i, j \in DOMAIN queue' : at(i) = at(j) => i = j
  BY <1>1, <1>2
<1> HIDE DEF at
<1>5. \A i, j \in DOMAIN queue : queue[i].query = queue[j].query => i = j
  BY DEF MInv, OneSender
<1>6. \A i \in DOMAIN queue' : queue'[i] = queue[at(i)]
  BY <1>2
<1>7. p \in DOMAIN queue
  BY <1>1
<1>8. \A i \in DOMAIN queue' : queue'[i].query # queue[p].query
  BY <1>3, <1>5, <1>6, <1>7
<1>9. ASSUME NEW i \in DOMAIN queue', NEW j \in DOMAIN queue',
             queue'[i].query = queue'[j].query
      PROVE  i = j
  <2>1. queue[at(i)].query = queue[at(j)].query
    BY <1>6, <1>9
  <2>2. at(i) = at(j)
    BY <1>3, <1>5, <2>1
  <2>3. QED
    BY <1>4, <2>2
<1>10. QED
  BY <1>2, <1>3, <1>6, <1>8, <1>9

(* A query that moves on without touching the queue. *)
LEMMA QuietStep ==
    ASSUME MInv, NEW q \in Query, NEW l \in {"wait", "cancel", "done"},
           Pushed(q), qpc' = [qpc EXCEPT ![q] = l], queue' = queue,
           delivering' = delivering, tid' = tid,
           inbox' = inbox \/ inbox' = [inbox EXCEPT ![q] = {}]
    PROVE  OneSender'
<1>1. \A x \in Query : Pushed(x) => Pushed(x)' /\ tid'[x] = tid[x]
  BY DEF MInv, MTypeOK, Pushed, AfterPush
<1>2. \A x \in Query : inbox'[x] \subseteq inbox[x]
  BY DEF MInv, Shape
<1>3. QED
  BY <1>1, <1>2, SendersStay

LEMMA BuildMInv ==
    ASSUME MInv, NEW q \in Query, NEW p \in Peer, BuildQuery(q, p)
    PROVE  MInv'
<1> USE DEF BuildQuery
<1>0. transaction % TidSpace \in Tid /\ transaction + 1 \in Nat
  BY TidSpaceAssumption DEF MInv, MTypeOK, Tid
<1>1. MTypeOK'
  BY <1>0 DEF MInv, MTypeOK
<1>2. Shape'
  BY DEF MInv, MTypeOK, Shape
<1>3. OneSender'
  <2>1. \A x \in Query : Pushed(x) => Pushed(x)' /\ tid'[x] = tid[x]
    BY DEF MInv, MTypeOK, Pushed, AfterPush
  <2>2. \A x \in Query : inbox'[x] \subseteq inbox[x]
    OBVIOUS
  <2>3. QED
    BY <2>1, <2>2, SendersStay
<1>4. PermitsBalance'
  <2>1. q \in Unbounded \/ (IF q \in Unbounded THEN "push" ELSE "permit") = "permit"
    OBVIOUS
  <2>2. QED
    BY <2>1, KeepPermit
<1>5. QED
  BY <1>1, <1>2, <1>3, <1>4 DEF MInv

LEMMA AcquireMInv ==
    ASSUME MInv, NEW q \in Query, Acquire(q)
    PROVE  MInv'
<1>0. q \notin Unbounded
  BY DEF Acquire, MInv, Shape
<1>1. permits' \in 0 .. MaxQ /\ PermitsBalance'
  BY <1>0, TakePermit
<1> USE DEF Acquire
<1>2. MTypeOK'
  BY <1>1 DEF MInv, MTypeOK
<1>3. Shape'
  BY DEF MInv, MTypeOK, Shape
<1>4. OneSender'
  <2>1. \A x \in Query : Pushed(x) => Pushed(x)' /\ tid'[x] = tid[x]
    BY DEF MInv, MTypeOK, Pushed, AfterPush
  <2>2. \A x \in Query : inbox'[x] \subseteq inbox[x]
    OBVIOUS
  <2>3. QED
    BY <2>1, <2>2, SendersStay
<1>5. QED
  BY <1>1, <1>2, <1>3, <1>4 DEF MInv

LEMMA PushMInv ==
    ASSUME MInv, NEW q \in Query, Push(q)
    PROVE  MInv'
<1> DEFINE e == [tid |-> tid[q], addr |-> Me, query |-> q]
<1>1. e \in Entry
  BY DEF MInv, MTypeOK, Entry, Address
<1>2. /\ queue \in Seq(Entry) /\ Len(queue) \in Nat
      /\ DOMAIN queue = 1 .. Len(queue)
      /\ queue' = Append(queue, e)
  BY LenProperties DEF MInv, MTypeOK, Push
<1>3. /\ queue' \in Seq(Entry)
      /\ DOMAIN queue' = 1 .. (Len(queue) + 1)
      /\ queue'[Len(queue) + 1] = e
      /\ \A i \in DOMAIN queue : i \in DOMAIN queue' /\ queue'[i] = queue[i]
  BY <1>1, <1>2, AppendProperties, LenProperties
<1>4. e.query = q /\ e.tid = tid[q] /\ e.addr = Me
  OBVIOUS
<1> HIDE DEF e
<1> USE DEF Push
<1>5. permits' \in 0 .. MaxQ /\ PermitsBalance'
  BY KeepPermit
<1>6. MTypeOK'
  BY <1>3, <1>5 DEF MInv, MTypeOK
<1>7. Shape'
  BY DEF MInv, MTypeOK, Shape
<1>8. OneSender'
  <2>1. ~Pushed(q) /\ Pushed(q)' /\ inbox[q] = {} /\ inbox' = inbox
    BY DEF MInv, MTypeOK, OneSender, Pushed, AfterPush
  <2>2. \A x \in Query : x # q => (Pushed(x)' <=> Pushed(x))
    BY DEF MInv, MTypeOK, Pushed, AfterPush
  <2>3. \A i \in DOMAIN queue : queue[i].query \in Query /\ queue[i].query # q
    BY <2>1, Entries DEF MInv, OneSender, Pushed
  <2>4. \A d \in delivering : d.query \in Query /\ d.query # q
    BY <2>1 DEF MInv, OneSender, Shape, Pushed
  <2>5. \A i \in DOMAIN queue' : (i \in DOMAIN queue /\ queue'[i] = queue[i])
                              \/ (i = Len(queue) + 1 /\ queue'[i] = e)
    BY <1>2, <1>3
  <2>6. ASSUME NEW i \in DOMAIN queue'
        PROVE  /\ queue'[i].tid = tid'[queue'[i].query] /\ queue'[i].addr = Me
               /\ qpc'[queue'[i].query] \in AfterPush /\ inbox'[queue'[i].query] = {}
               /\ \A d \in delivering' : d.query # queue'[i].query
    <3>1. CASE i \in DOMAIN queue /\ queue'[i] = queue[i]
      BY <2>1, <2>2, <2>3, <3>1 DEF MInv, OneSender, Pushed
    <3>2. CASE queue'[i] = e
      BY <1>4, <2>1, <2>4, <3>2 DEF Pushed
    <3>3. QED
      BY <2>5, <3>1, <3>2
  <2>7. ASSUME NEW i \in DOMAIN queue', NEW j \in DOMAIN queue',
               queue'[i].query = queue'[j].query
        PROVE  i = j
    BY <1>4, <2>3, <2>5, <2>7 DEF MInv, OneSender
  <2>8. \A d \in delivering' : qpc'[d.query] \in AfterPush /\ inbox'[d.query] = {}
    BY <2>1, <2>2, <2>4 DEF MInv, OneSender, Pushed
  <2>9. \A x \in Query : ~Pushed(x)' => inbox'[x] = {}
    BY <2>1, <2>2 DEF MInv, OneSender
  <2>10. \A c, d \in delivering' : c.query = d.query => c = d
    BY DEF MInv, OneSender
  <2>11. QED
    BY <2>6, <2>7, <2>8, <2>9, <2>10 DEF OneSender
<1>9. QED
  BY <1>5, <1>6, <1>7, <1>8 DEF MInv

LEMMA SendMInv ==
    ASSUME MInv, NEW q \in Query, SendOk(q)
    PROVE  MInv'
<1> DEFINE m == [to |-> dest[q],
                 packet |-> [kind |-> "query", tid |-> tid[q], from |-> Me]]
<1>1. m \in [to : Address, packet : Packet] /\ net' = net \cup {m}
  BY DEF MInv, MTypeOK, Packet, Address, SendOk
<1> HIDE DEF m
<1> USE DEF SendOk
<1>2. permits' \in 0 .. MaxQ /\ PermitsBalance'
  BY KeepPermit
<1>3. MTypeOK'
  BY <1>1, <1>2 DEF MInv, MTypeOK
<1>4. Shape'
  BY <1>1 DEF MInv, MTypeOK, Shape
<1>5. OneSender'
  BY QuietStep DEF Pushed, AfterPush
<1>6. QED
  BY <1>2, <1>3, <1>4, <1>5 DEF MInv

(* The steps that end a query and leave the queue.  A reply it returns was *)
(* in its channel.                                                         *)
LEMMA FinishMInv ==
    ASSUME MInv, NEW q \in Query, NEW how \in {"reply", "timeout", "closed", "failed"},
           Finish(q, how), qpc[q] \in {"send", "wait", "cancel"},
           inbox' = inbox \/ inbox' = [inbox EXCEPT ![q] = {}],
           UNCHANGED <<transaction, tid, dest, queue, delivering, net>>
    PROVE  MInv'
<1>1. permits' \in 0 .. MaxQ /\ PermitsBalance'
  BY FinishPermit
<1>2. /\ inbox' \in [Query -> SUBSET Packet]
      /\ \A x \in Query : Cardinality(inbox'[x]) <= 1
  <2>1. \A x \in Query : inbox'[x] = inbox[x] \/ inbox'[x] = {}
    BY DEF MInv, Shape
  <2>2. Cardinality({}) <= 1
    BY FS_EmptySet
  <2>3. QED
    BY <2>1, <2>2 DEF MInv, MTypeOK, Shape
<1> USE DEF Finish
<1>3. MTypeOK'
  BY <1>1, <1>2 DEF MInv, MTypeOK
<1>4. Shape'
  BY <1>2 DEF MInv, MTypeOK, Shape
<1>5. OneSender'
  BY QuietStep DEF Pushed, AfterPush
<1>6. QED
  BY <1>1, <1>3, <1>4, <1>5 DEF MInv

LEMMA TimeOutMInv ==
    ASSUME MInv, NEW q \in Query, TimeOut(q)
    PROVE  MInv'
<1> USE DEF TimeOut
<1>1. permits' \in 0 .. MaxQ /\ PermitsBalance'
  BY KeepPermit
<1>2. inbox' \in [Query -> SUBSET Packet]
      /\ \A x \in Query : Cardinality(inbox'[x]) <= 1
  BY FS_EmptySet DEF MInv, MTypeOK, Shape
<1>3. MTypeOK'
  BY <1>1, <1>2 DEF MInv, MTypeOK
<1>4. Shape'
  BY <1>2 DEF MInv, MTypeOK, Shape
<1>5. OneSender'
  BY QuietStep DEF Pushed, AfterPush
<1>6. QED
  BY <1>1, <1>3, <1>4, <1>5 DEF MInv

LEMMA CancelMInv ==
    ASSUME MInv, NEW q \in Query, Cancel(q)
    PROVE  MInv'
<1> DEFINE p == Position(tid[q], Me)
<1>1. CASE p = 0
  <2>1. queue' = queue
    BY <1>1 DEF Cancel
  <2>2. QED
    BY <2>1, FinishMInv DEF Cancel
<1>2. CASE p # 0
  <2>1. p \in 1 .. Len(queue) /\ queue' = RemoveAt(queue, p)
    BY <1>2, PositionLemma DEF Cancel, MInv, MTypeOK
  <2> HIDE DEF p
  <2>2. /\ queue' \in Seq(Entry)
        /\ \A i \in DOMAIN queue' :
              \E k \in DOMAIN queue : k # p /\ queue'[i] = queue[k]
        /\ \A i, j \in DOMAIN queue' : queue'[i].query = queue'[j].query => i = j
    BY <2>1, QueueShrinks
  <2>3. permits' \in 0 .. MaxQ /\ PermitsBalance'
    BY FinishPermit DEF Cancel
  <2> USE DEF Cancel, Finish
  <2>4. MTypeOK'
    BY <2>2, <2>3 DEF MInv, MTypeOK
  <2>5. Shape'
    BY DEF MInv, MTypeOK, Shape
  <2>6. OneSender'
    <3>1. \A x \in Query : Pushed(x) <=> Pushed(x)'
      BY DEF MInv, MTypeOK, Pushed, AfterPush
    <3>2. inbox' = inbox /\ delivering' = delivering /\ tid' = tid
      OBVIOUS
    <3>3. \A k \in DOMAIN queue : queue[k].query \in Query
      BY Entries
    <3>4. \A d \in delivering : d.query \in Query
      BY DEF MInv, Shape
    <3>5. ASSUME NEW i \in DOMAIN queue'
          PROVE  /\ queue'[i].tid = tid'[queue'[i].query] /\ queue'[i].addr = Me
                 /\ qpc'[queue'[i].query] \in AfterPush /\ inbox'[queue'[i].query] = {}
                 /\ \A d \in delivering' : d.query # queue'[i].query
      <4>1. PICK k \in DOMAIN queue : queue'[i] = queue[k]
        BY <2>2
      <4>2. QED
        BY <3>1, <3>2, <3>3, <4>1 DEF MInv, OneSender, Pushed
    <3>6. QED
      BY <2>2, <3>1, <3>2, <3>4, <3>5, ZenonT(30) DEF MInv, OneSender, Pushed
  <2>7. QED
    BY <2>3, <2>4, <2>5, <2>6 DEF MInv
<1>3. QED
  BY <1>1, <1>2

(* The packets are well formed on the way. *)
LEMMA HandleMInv ==
    ASSUME MInv, NEW m \in net, HandleQuery(m)
    PROVE  MInv'
<1> DEFINE r == [to |-> m.packet.from,
                 packet |-> [kind |-> "reply", tid |-> m.packet.tid, from |-> m.to]]
<1>1. r \in [to : Address, packet : Packet]
  BY DEF MInv, Shape, Packet
<1>2. net' = net \cup {r}
  BY DEF HandleQuery
<1> HIDE DEF r
<1> USE DEF HandleQuery
<1>3. MTypeOK'
  BY <1>1, <1>2 DEF MInv, MTypeOK
<1>4. Shape'
  BY <1>1, <1>2 DEF MInv, Shape
<1>5. OneSender' /\ PermitsBalance'
  BY DEF MInv, OneSender, PermitsBalance, Pushed
<1>6. QED
  BY <1>3, <1>4, <1>5 DEF MInv

(* return_result takes the entry it delivers to off the queue. *)
LEMMA ReturnMInv ==
    ASSUME MInv, NEW m \in net \cup Stray, ReturnResult(m)
    PROVE  MInv'
<1> DEFINE p == Position(m.packet.tid, m.packet.from)
           d == [query |-> queue[p].query, packet |-> m.packet]
<1>1. /\ p \in 1 .. Len(queue) /\ queue' = RemoveAt(queue, p)
      /\ delivering' = delivering \cup {d}
  BY PositionLemma DEF ReturnResult, MInv, MTypeOK
<1>2. p \in DOMAIN queue
  BY <1>1, LenProperties DEF MInv, MTypeOK
<1>3. queue[p].query \in Query /\ m.packet \in Packet
  <2>1. m \in Stray => m.packet \in Packet
    BY DEF Stray, Packet, Address
  <2>2. QED
    BY <1>2, <2>1, Entries DEF MInv, Shape
<1>4. d.query = queue[p].query /\ d \in [query : Query, packet : Packet]
  BY <1>3
<1> HIDE DEF p, d
<1>5. /\ queue' \in Seq(Entry)
      /\ \A i \in DOMAIN queue' :
            \E k \in DOMAIN queue : k # p /\ queue'[i] = queue[k]
      /\ \A i \in DOMAIN queue' : queue'[i].query # queue[p].query
      /\ \A i, j \in DOMAIN queue' : queue'[i].query = queue'[j].query => i = j
  BY <1>1, QueueShrinks
<1> USE DEF ReturnResult
<1>6. MTypeOK'
  BY <1>1, <1>4, <1>5 DEF MInv, MTypeOK
<1>7. Shape'
  BY <1>1, <1>4 DEF MInv, Shape
<1>8. PermitsBalance'
  BY DEF MInv, PermitsBalance
<1>9. OneSender'
  <2>1. tid' = tid /\ qpc' = qpc /\ inbox' = inbox
    OBVIOUS
  <2>2. /\ qpc[d.query] \in AfterPush /\ inbox[d.query] = {}
        /\ \A c \in delivering : c.query # d.query
    BY <1>2, <1>4 DEF MInv, OneSender
  <2>3. ASSUME NEW i \in DOMAIN queue'
        PROVE  /\ queue'[i].tid = tid[queue'[i].query] /\ queue'[i].addr = Me
               /\ qpc[queue'[i].query] \in AfterPush /\ inbox[queue'[i].query] = {}
               /\ \A c \in delivering' : c.query # queue'[i].query
    <3>1. PICK k \in DOMAIN queue : queue'[i] = queue[k]
      BY <1>5
    <3>2. queue'[i].query # d.query
      BY <1>4, <1>5
    <3>3. QED
      BY <1>1, <3>1, <3>2 DEF MInv, OneSender
  <2>4. \A c \in delivering' : qpc[c.query] \in AfterPush /\ inbox[c.query] = {}
    BY <1>1, <2>2 DEF MInv, OneSender
  <2>5. \A b, c \in delivering' : b.query = c.query => b = c
    BY <1>1, <2>2 DEF MInv, OneSender
  <2>6. \A q \in Query : ~Pushed(q)' => inbox'[q] = {}
    BY <2>1 DEF MInv, OneSender, Pushed
  <2>7. QED
    BY <1>5, <2>1, <2>3, <2>4, <2>5, <2>6 DEF OneSender
<1>10. QED
  BY <1>6, <1>7, <1>8, <1>9 DEF MInv

(* The one sender of a channel is used up by the one reply it carries. *)
LEMMA DeliverMInv ==
    ASSUME MInv, NEW d \in delivering, Deliver(d)
    PROVE  MInv'
<1>1. d.query \in Query /\ d.packet \in Packet
  BY DEF MInv, Shape
<1>2. \/ inbox' = [inbox EXCEPT ![d.query] = {d.packet}]
      \/ inbox' = inbox
  BY DEF Deliver
<1>3. inbox \in [Query -> SUBSET Packet]
  BY DEF MInv, Shape
<1>4. inbox' \in [Query -> SUBSET Packet]
  BY <1>1, <1>2, <1>3
<1>5. \A q \in Query : q # d.query => inbox'[q] = inbox[q]
  BY <1>2, <1>3
<1>6. \A q \in Query : Cardinality(inbox'[q]) <= 1
  <2>1. Cardinality({d.packet}) = 1
    BY FS_Singleton
  <2>2. \A q \in Query : Cardinality(inbox[q]) <= 1
    BY DEF MInv, MTypeOK
  <2>3. \A q \in Query : inbox'[q] = inbox[q] \/ inbox'[q] = {d.packet}
    BY <1>1, <1>2, <1>3
  <2>4. 1 <= 1
    OBVIOUS
  <2>5. QED
    BY <2>1, <2>2, <2>3, <2>4
<1> USE DEF Deliver
<1>7. MTypeOK'
  BY <1>4, <1>6 DEF MInv, MTypeOK
<1>8. Shape'
  BY <1>4 DEF MInv, Shape
<1>9. PermitsBalance'
  BY DEF MInv, PermitsBalance
<1>10. OneSender'
  <2>1. queue' = queue /\ tid' = tid /\ qpc' = qpc
    OBVIOUS
  <2>2. \A i \in DOMAIN queue : queue[i].query \in Query /\ queue[i].query # d.query
    BY Entries DEF MInv, OneSender
  <2>3. \A c \in delivering' : c \in delivering /\ c.query \in Query /\ c.query # d.query
    BY DEF MInv, OneSender, Shape
  <2>4. qpc[d.query] \in AfterPush
    BY DEF MInv, OneSender
  <2>5. \A q \in Query : ~Pushed(q)' => inbox'[q] = {}
    BY <1>5, <2>1, <2>4 DEF MInv, OneSender, Pushed
  <2>6. ASSUME NEW i \in DOMAIN queue
        PROVE  /\ queue[i].tid = tid[queue[i].query] /\ queue[i].addr = Me
               /\ qpc[queue[i].query] \in AfterPush /\ inbox'[queue[i].query] = {}
               /\ \A c \in delivering' : c.query # queue[i].query
    BY <1>5, <2>2, <2>3 DEF MInv, OneSender
  <2>7. \A c \in delivering' : qpc[c.query] \in AfterPush /\ inbox'[c.query] = {}
    BY <1>5, <2>3 DEF MInv, OneSender
  <2>8. QED
    BY <2>1, <2>3, <2>5, <2>6, <2>7 DEF MInv, OneSender
<1>11. QED
  BY <1>7, <1>8, <1>9, <1>10 DEF MInv

(* Every step keeps the books of permits and of senders. *)
LEMMA StepMInv == MInv /\ [MNext]_mvars => MInv'
<1> SUFFICES ASSUME MInv, [MNext]_mvars PROVE MInv'
  OBVIOUS
<1>1. ASSUME NEW q \in Query, NEW p \in Peer, BuildQuery(q, p) PROVE MInv'
  BY <1>1, BuildMInv
<1>2. ASSUME NEW q \in Query, QueryStep(q) PROVE MInv'
  <2>1. CASE Acquire(q)
    BY <2>1, AcquireMInv
  <2>2. CASE Push(q)
    BY <2>2, PushMInv
  <2>3. CASE SendOk(q)
    BY <2>3, SendMInv
  <2>4. CASE SendFailed(q)
    BY <2>4, FinishMInv DEF SendFailed
  <2>5. CASE TakeReply(q)
    BY <2>5, FinishMInv DEF TakeReply
  <2>6. CASE TakeClosed(q)
    BY <2>6, FinishMInv DEF TakeClosed
  <2>7. CASE TimeOut(q)
    BY <2>7, TimeOutMInv
  <2>8. CASE Cancel(q)
    BY <2>8, CancelMInv
  <2>9. QED
    BY <1>2, <2>1, <2>2, <2>3, <2>4, <2>5, <2>6, <2>7, <2>8 DEF QueryStep
<1>3. ASSUME NEW m \in net, HandleQuery(m) PROVE MInv'
  BY <1>3, HandleMInv
<1>4. ASSUME NEW m \in net \cup Stray, ReturnResult(m) PROVE MInv'
  BY <1>4, ReturnMInv
<1>5. ASSUME NEW d \in delivering, Deliver(d) PROVE MInv'
  BY <1>5, DeliverMInv
<1>6. CASE UNCHANGED mvars
  BY <1>6 DEF mvars, MInv, MTypeOK, Shape, OneSender, PermitsBalance, Pushed
<1>7. QED
  BY <1>1, <1>2, <1>3, <1>4, <1>5, <1>6 DEF MNext

LEMMA MInvCorrect == MSpec => []MInv
BY InitMInv, StepMInv, PTL DEF MSpec

(* Every variable of the messenger keeps its type; in particular no more   *)
(* than one reply is ever sent into the oneshot channel of a query.        *)
THEOREM MessengerTypeCorrect == MSpec => []MTypeOK
<1>1. MInv => MTypeOK
  BY DEF MInv
<1>2. QED
  BY <1>1, MInvCorrect, PTL

(* Whichever way a query ends, by a reply, a closed channel, an error of   *)
(* the socket or its timer, it returns the permit of max_q that it took    *)
(* and no other: max_q bounds the queries under way for ever.              *)
THEOREM PermitsBalanceCorrect == MSpec => []PermitsBalance
<1>1. MInv => PermitsBalance
  BY DEF MInv
<1>2. QED
  BY <1>1, MInvCorrect, PTL

-----------------------------------------------------------------------------
(* The entries of queries that ended.  Two entries with one id can only be *)
(* told apart by their place in the queue, so what follows is about queues *)
(* whose ids differ.                                                       *)

IdsDiffer == \A i, j \in DOMAIN queue : queue[i].tid = queue[j].tid => i = j

(* Only a query that returned has a result; an entry left behind is one of *)
(* a failed send.                                                          *)
LeakInv ==
    /\ \A q \in Query : result[q] # "none" => qpc[q] = "done"
    /\ \A i \in DOMAIN queue : qpc[queue[i].query] \in {"send", "wait", "cancel"}
                               \/ result[queue[i].query] = "failed"

LEMMA LeakIsNoLeak == LeakInv => NoLeak
BY DEF LeakInv, NoLeak, Range

LEMMA InitLeakInv == MInit => LeakInv
BY DEF MInit, LeakInv

(* A query that returns otherwise than by a failed send has no entry left. *)
LEMMA FinishLeakInv ==
    ASSUME MInv, LeakInv, NEW q \in Query, qpc[q] \in {"send", "wait", "cancel"},
           NEW how \in {"reply", "timeout", "closed", "failed"}, Finish(q, how),
           \A i \in DOMAIN queue' : /\ \E k \in DOMAIN queue : queue'[i] = queue[k]
                                    /\ how # "failed" => queue'[i].query # q
    PROVE  LeakInv'
<1>1. qpc \in [Query -> {"idle", "permit", "push", "send", "wait", "cancel", "done"}]
      /\ result \in [Query -> {"none", "reply", "timeout", "closed", "failed"}]
  BY DEF MInv, MTypeOK
<1>2. \A x \in Query : x # q => qpc'[x] = qpc[x] /\ result'[x] = result[x]
  BY <1>1 DEF Finish
<1>3. qpc'[q] = "done" /\ result'[q] = how
  BY <1>1 DEF Finish
<1>4. ASSUME NEW i \in DOMAIN queue'
      PROVE  qpc'[queue'[i].query] \in {"send", "wait", "cancel"}
             \/ result'[queue'[i].query] = "failed"
  <2>1. PICK k \in DOMAIN queue : queue'[i] = queue[k]
    OBVIOUS
  <2>2. queue'[i].query \in Query
    BY <2>1, Entries
  <2>3. CASE queue'[i].query = q
    BY <1>3, <2>3
  <2>4. CASE queue'[i].query # q
    BY <1>2, <2>1, <2>2, <2>4 DEF LeakInv
  <2>5. QED
    BY <2>3, <2>4
<1>5. \A x \in Query : result'[x] # "none" => qpc'[x] = "done"
  BY <1>2, <1>3 DEF LeakInv
<1>6. QED
  BY <1>4, <1>5 DEF LeakInv

(* A query that goes on leaves the entries of the others as they are. *)
LEMMA GoOnLeakInv ==
    ASSUME MInv, LeakInv, NEW q \in Query, qpc[q] # "done",
           NEW l, qpc' = [qpc EXCEPT ![q] = l], result' = result,
           \A i \in DOMAIN queue' :
              queue'[i].query = q \/ \E k \in DOMAIN queue : queue'[i] = queue[k],
           l \notin {"send", "wait", "cancel"} =>
              qpc[q] \in {"idle", "permit", "push"} /\ queue' = queue
    PROVE  LeakInv'
<1>1. qpc \in [Query -> {"idle", "permit", "push", "send", "wait", "cancel", "done"}]
  BY DEF MInv, MTypeOK
<1>2. (\A x \in Query : x # q => qpc'[x] = qpc[x]) /\ qpc'[q] = l
  BY <1>1
<1>3. result[q] = "none"
  BY DEF LeakInv
<1>4. \A x \in Query : result'[x] # "none" => qpc'[x] = "done"
  BY <1>2, <1>3 DEF LeakInv
<1>5. ASSUME NEW i \in DOMAIN queue'
      PROVE  qpc'[queue'[i].query] \in {"send", "wait", "cancel"}
             \/ result'[queue'[i].query] = "failed"
  <2>1. CASE queue'[i].query = q
    <3>1. CASE l \in {"send", "wait", "cancel"}
      BY <1>2, <2>1, <3>1
    <3>2. CASE qpc[q] \in {"idle", "permit", "push"} /\ queue' = queue
      BY <2>1, <3>2 DEF MInv, OneSender, AfterPush
    <3>3. QED
      BY <3>1, <3>2
  <2>2. CASE queue'[i].query # q
    <3>1. PICK k \in DOMAIN queue : queue'[i] = queue[k]
      BY <2>2
    <3>2. QED
      BY <1>2, <2>2, <3>1, Entries DEF LeakInv
  <2>3. QED
    BY <2>1, <2>2
<1>6. QED
  BY <1>4, <1>5 DEF LeakInv

(* The timed-out query finds its own entry, if it still has one. *)
LEMMA CancelLeakInv ==
    ASSUME MInv, LeakInv, IdsDiffer, NEW q \in Query, Cancel(q)
    PROVE  LeakInv'
<1> DEFINE p == Position(tid[q], Me)
<1>1. /\ p = 0 => \A i \in DOMAIN queue : queue[i].tid # tid[q]
      /\ p # 0 => /\ p \in 1 .. Len(queue)
                  /\ \/ queue[p].tid = tid[q]
                     \/ \A i \in DOMAIN queue : queue[i].tid # tid[q]
  BY PositionLemma DEF MInv, MTypeOK
<1>2. queue' = IF p = 0 THEN queue ELSE RemoveAt(queue, p)
  BY DEF Cancel
<1> HIDE DEF p
<1>3. \A k \in DOMAIN queue : queue[k].query = q => queue[k].tid = tid[q]
  BY DEF MInv, OneSender
<1>4. ASSUME NEW i \in DOMAIN queue'
      PROVE  (\E k \in DOMAIN queue : queue'[i] = queue[k]) /\ queue'[i].query # q
  <2>1. CASE p = 0
    BY <1>1, <1>2, <1>3, <2>1
  <2>2. CASE p # 0
    <3>1. p \in 1 .. Len(queue) /\ queue' = RemoveAt(queue, p)
      BY <1>1, <1>2, <2>2
    <3>2. PICK k \in DOMAIN queue : k # p /\ queue'[i] = queue[k]
      BY <3>1, QueueShrinks
    <3>3. p \in DOMAIN queue
      BY <3>1, LenProperties DEF MInv, MTypeOK
    <3>4. ASSUME queue[k].query = q PROVE FALSE
      <4>1. queue[k].tid = tid[q]
        BY <1>3, <3>4
      <4>2. queue[p].tid = tid[q]
        BY <1>1, <2>2, <4>1
      <4>3. QED
        BY <3>2, <3>3, <4>1, <4>2 DEF IdsDiffer
    <3>5. QED
      BY <3>2, <3>4
  <2>3. QED
    BY <2>1, <2>2
<1>5. QED
  BY <1>4, FinishLeakInv DEF Cancel

LEMMA StepLeakInv == MInv /\ LeakInv /\ IdsDiffer /\ [MNext]_mvars => LeakInv'
<1> SUFFICES ASSUME MInv, LeakInv, IdsDiffer, [MNext]_mvars PROVE LeakInv'
  OBVIOUS
<1>1. ASSUME NEW q \in Query, NEW p \in Peer, BuildQuery(q, p) PROVE LeakInv'
  <2>1. queue' = queue
    BY <1>1 DEF BuildQuery
  <2>2. QED
    BY <1>1, <2>1, GoOnLeakInv DEF BuildQuery
<1>2. ASSUME NEW q \in Query, QueryStep(q) PROVE LeakInv'
  <2>1. CASE Acquire(q)
    <3>1. queue' = queue
      BY <2>1 DEF Acquire
    <3>2. QED
      BY <2>1, <3>1, GoOnLeakInv DEF Acquire
  <2>2. CASE Push(q)
    <3> DEFINE e == [tid |-> tid[q], addr |-> Me, query |-> q]
    <3>1. e.query = q /\ e \in Entry /\ queue \in Seq(Entry) /\ queue' = Append(queue, e)
      BY <2>2 DEF MInv, MTypeOK, Entry, Address, Push
    <3> HIDE DEF e
    <3>2. ASSUME NEW i \in DOMAIN queue'
          PROVE  queue'[i].query = q \/ \E k \in DOMAIN queue : queue'[i] = queue[k]
      <4>1. i \in 1 .. (Len(queue) + 1) /\ Len(queue) \in Nat /\ DOMAIN queue = 1 .. Len(queue)
        BY <3>1, AppendProperties, LenProperties
      <4>2. CASE i = Len(queue) + 1
        BY <3>1, <4>2, AppendProperties
      <4>3. CASE i # Len(queue) + 1
        <5>1. i \in DOMAIN queue
          BY <4>1, <4>3
        <5>2. queue'[i] = queue[i]
          BY <3>1, <4>1, <5>1, AppendProperties
        <5>3. QED
          BY <5>1, <5>2
      <4>4. QED
        BY <4>2, <4>3
    <3>3. qpc' = [qpc EXCEPT ![q] = "send"] /\ result' = result /\ qpc[q] # "done"
      BY <2>2 DEF Push
    <3>4. QED
      BY <3>2, <3>3, GoOnLeakInv
  <2>3. CASE SendOk(q)
    <3>1. queue' = queue
      BY <2>3 DEF SendOk
    <3>2. QED
      BY <2>3, <3>1, GoOnLeakInv DEF SendOk
  <2>4. CASE SendFailed(q)
    <3>1. queue' = queue
      BY <2>4 DEF SendFailed
    <3>2. QED
      BY <2>4, <3>1, FinishLeakInv DEF SendFailed
  <2>5. CASE TakeReply(q)
    <3>1. queue' = queue /\ \A i \in DOMAIN queue : queue[i].query # q
      BY <2>5 DEF TakeReply, MInv, OneSender
    <3>2. QED
      BY <2>5, <3>1, FinishLeakInv DEF TakeReply
  <2>6. CASE TakeClosed(q)
    <3>1. queue' = queue /\ \A i \in DOMAIN queue : queue[i].query # q
      BY <2>6 DEF TakeClosed, SenderAlive, Range
    <3>2. QED
      BY <2>6, <3>1, FinishLeakInv DEF TakeClosed
  <2>7. CASE TimeOut(q)
    <3>1. queue' = queue
      BY <2>7 DEF TimeOut
    <3>2. QED
      BY <2>7, <3>1, GoOnLeakInv DEF TimeOut
  <2>8. CASE Cancel(q)
    BY <2>8, CancelLeakInv
  <2>9. QED
    BY <1>2, <2>1, <2>2, <2>3, <2>4, <2>5, <2>6, <2>7, <2>8 DEF QueryStep
<1>3. ASSUME NEW m \in net, HandleQuery(m) PROVE LeakInv'
  BY <1>3 DEF HandleQuery, LeakInv
<1>4. ASSUME NEW m \in net \cup Stray, ReturnResult(m) PROVE LeakInv'
  <2> DEFINE p == Position(m.packet.tid, m.packet.from)
  <2>1. p \in 1 .. Len(queue) /\ queue' = RemoveAt(queue, p)
    BY <1>4, PositionLemma DEF ReturnResult, MInv, MTypeOK
  <2> HIDE DEF p
  <2>2. \A i \in DOMAIN queue' : \E k \in DOMAIN queue : queue'[i] = queue[k]
    BY <2>1, QueueShrinks
  <2>3. QED
    BY <1>4, <2>2 DEF ReturnResult, LeakInv
<1>5. ASSUME NEW d \in delivering, Deliver(d) PROVE LeakInv'
  BY <1>5 DEF Deliver, LeakInv
<1>6. CASE UNCHANGED mvars
  BY <1>6 DEF mvars, LeakInv
<1>7. QED
  BY <1>1, <1>2, <1>3, <1>4, <1>5, <1>6 DEF MNext

(* As long as the outstanding transaction ids differ, a query that ended   *)
(* leaves no entry in queries_outbound unless its send failed, whichever   *)
(* of reply, timer and other queries' timers came first.                   *)
THEOREM NoLeakCorrect == MSpec /\ []IdsDiffer => []NoLeak
BY InitLeakInv, StepLeakInv, MInvCorrect, LeakIsNoLeak, PTL DEF MSpec

-----------------------------------------------------------------------------
(* Whose reply it is.  No entry has another address than ours, so a reply *)
(* from elsewhere finds an entry by its id or not at all.                 *)

RepliesOK ==
    /\ \A d \in delivering : d.packet.tid = tid[d.query] \/ d.packet.from = Me
    /\ \A q \in Query : \A r \in inbox[q] : r.tid = tid[q] \/ r.from = Me

LEMMA InitRepliesOK == MInit => RepliesOK
BY DEF MInit, RepliesOK

(* The steps that deliver nothing leave the ids of the queries that have a *)
(* reply, on its way or in their channel.                                  *)
LEMMA SilentRepliesOK ==
    ASSUME MInv, RepliesOK, delivering' = delivering,
           \A q \in Query : /\ inbox'[q] \subseteq inbox[q]
                            /\ Pushed(q) => tid'[q] = tid[q]
    PROVE  RepliesOK'
<1>1. \A d \in delivering : d.query \in Query /\ Pushed(d.query)
  BY DEF MInv, OneSender, Shape, Pushed
<1>2. \A q \in Query : inbox[q] # {} => Pushed(q)
  BY DEF MInv, OneSender
<1>3. QED
  BY <1>1, <1>2 DEF RepliesOK

LEMMA ReturnRepliesOK ==
    ASSUME MInv, RepliesOK, NEW m \in net \cup Stray, ReturnResult(m)
    PROVE  RepliesOK'
<1> DEFINE p == Position(m.packet.tid, m.packet.from)
           d == [query |-> queue[p].query, packet |-> m.packet]
<1>1. /\ p \in 1 .. Len(queue) /\ delivering' = delivering \cup {d}
      /\ queue[p].tid = m.packet.tid \/ queue[p].addr = m.packet.from
  BY PositionLemma DEF ReturnResult, MInv, MTypeOK
<1>2. d.query = queue[p].query /\ d.packet = m.packet
  OBVIOUS
<1> HIDE DEF p, d
<1>3. p \in DOMAIN queue
  BY <1>1, LenProperties DEF MInv, MTypeOK
<1>4. queue[p].tid = tid[queue[p].query] /\ queue[p].addr = Me
  BY <1>3 DEF MInv, OneSender
<1>5. d.packet.tid = tid[d.query] \/ d.packet.from = Me
  BY <1>1, <1>2, <1>4
<1>6. tid' = tid /\ inbox' = inbox
  BY DEF ReturnResult
<1>7. QED
  BY <1>1, <1>5, <1>6 DEF RepliesOK

LEMMA DeliverRepliesOK ==
    ASSUME MInv, RepliesOK, NEW d \in delivering, Deliver(d)
    PROVE  RepliesOK'
<1>1. d.query \in Query /\ inbox \in [Query -> SUBSET Packet]
  BY DEF MInv, Shape
<1>2. \A q \in Query : inbox'[q] = inbox[q] \/ (q = d.query /\ inbox'[q] = {d.packet})
  BY <1>1 DEF Deliver
<1>3. tid' = tid /\ delivering' \subseteq delivering
  BY DEF Deliver
<1>4. QED
  BY <1>2, <1>3 DEF RepliesOK

LEMMA StepRepliesOK == MInv /\ RepliesOK /\ [MNext]_mvars => RepliesOK'
<1> SUFFICES ASSUME MInv, RepliesOK, [MNext]_mvars PROVE RepliesOK'
  OBVIOUS
<1>1. ASSUME NEW q \in Query, NEW p \in Peer, BuildQuery(q, p) PROVE RepliesOK'
  <2>1. delivering' = delivering /\ inbox' = inbox
    BY <1>1 DEF BuildQuery
  <2>2. \A x \in Query : Pushed(x) => tid'[x] = tid[x]
    BY <1>1 DEF BuildQuery, MInv, MTypeOK, Pushed, AfterPush
  <2>3. QED
    BY <2>1, <2>2, SilentRepliesOK
<1>2. ASSUME NEW q \in Query, QueryStep(q) PROVE RepliesOK'
  <2>1. /\ tid' = tid /\ delivering' = delivering
        /\ inbox' = inbox \/ inbox' = [inbox EXCEPT ![q] = {}]
    BY <1>2 DEF QueryStep, Acquire, Push, SendOk, SendFailed, TakeReply, TakeClosed,
                TimeOut, Cancel
  <2>2. \A x \in Query : inbox'[x] \subseteq inbox[x]
    BY <2>1 DEF MInv, Shape
  <2>3. QED
    BY <2>1, <2>2, SilentRepliesOK
<1>3. ASSUME NEW m \in net, HandleQuery(m) PROVE RepliesOK'
  BY <1>3, SilentRepliesOK DEF HandleQuery
<1>4. ASSUME NEW m \in net \cup Stray, ReturnResult(m) PROVE RepliesOK'
  BY <1>4, ReturnRepliesOK
<1>5. ASSUME NEW d \in delivering, Deliver(d) PROVE RepliesOK'
  BY <1>5, DeliverRepliesOK
<1>6. CASE UNCHANGED mvars
  BY <1>6, SilentRepliesOK DEF mvars
<1>7. QED
  BY <1>1, <1>2, <1>3, <1>4, <1>5, <1>6 DEF MNext

(* A query returns no reply but one with its own transaction id, or one    *)
(* from our own address: whoever sends replies, with whatever id, and      *)
(* however often and late, for any number of queries.  The search by       *)
(* address in remove_from_queue, which every entry matches with our own    *)
(* address, makes the exception.                                           *)
THEOREM AnswerMatchesCorrect == MSpec => []AnswerMatches
<1>1. MSpec => []RepliesOK
  BY InitRepliesOK, StepRepliesOK, MInvCorrect, PTL DEF MSpec
<1>2. RepliesOK => AnswerMatches
  BY DEF RepliesOK, AnswerMatches
<1>3. QED
  BY <1>1, <1>2, PTL

-----------------------------------------------------------------------------
(* The ids of all queries differ when there are not more queries than ids, *)
(* the 2^16 of the code.                                                   *)

Drawn == {q \in Query : qpc[q] # "idle"}

FreshIds ==
    /\ transaction = Cardinality(Drawn)
    /\ \A q \in Drawn : tid[q] < transaction
    /\ \A q, r \in Drawn : tid[q] = tid[r] => q = r

LEMMA InitFreshIds == MInit => FreshIds
<1> SUFFICES ASSUME MInit PROVE FreshIds
  OBVIOUS
<1>1. Drawn = {}
  BY DEF MInit, Drawn
<1>2. QED
  BY <1>1, FS_EmptySet DEF MInit, FreshIds

(* The counter has not wrapped: the id drawn is new. *)
LEMMA BuildFreshIds ==
    ASSUME Cardinality(Query) <= TidSpace, MInv, FreshIds,
           NEW q \in Query, NEW p \in Peer, BuildQuery(q, p)
    PROVE  FreshIds'
<1> USE DEF BuildQuery
<1>1. Drawn' = Drawn \cup {q} /\ q \notin Drawn
  BY DEF Drawn, MInv, MTypeOK
<1>2. IsFiniteSet(Drawn) /\ Cardinality(Drawn) \in Nat
  BY QueryAssumption, FS_Subset, FS_CardinalityType DEF Drawn
<1>3. Cardinality(Drawn') = Cardinality(Drawn) + 1
  BY <1>1, <1>2, FS_AddElement
<1>4. Cardinality(Drawn') <= Cardinality(Query)
  <2>1. Drawn' \subseteq Query
    BY DEF Drawn
  <2>2. QED
    BY <2>1, QueryAssumption, FS_Subset
<1>5. Cardinality(Query) \in Nat
  BY QueryAssumption, FS_CardinalityType
<1>6. transaction \in 0 .. (TidSpace - 1)
  BY <1>2, <1>3, <1>4, <1>5, TidSpaceAssumption DEF FreshIds
<1>7. transaction % TidSpace = transaction
  BY <1>6, TidSpaceAssumption
<1>8. tid'[q] = transaction /\ \A x \in Drawn : tid'[x] = tid[x]
  BY <1>1, <1>7 DEF MInv, MTypeOK, Drawn
<1>9. transaction' = Cardinality(Drawn')
  BY <1>3 DEF FreshIds
<1>10. \A x \in Drawn : tid[x] < transaction /\ tid[x] \in Int
  BY DEF FreshIds, MInv, MTypeOK, Tid, Drawn
<1>11. \A x \in Drawn' : tid'[x] < transaction'
  BY <1>1, <1>6, <1>8, <1>10
<1>12. \A x, y \in Drawn' : tid'[x] = tid'[y] => x = y
  BY <1>1, <1>6, <1>8, <1>10 DEF FreshIds
<1>13. QED
  BY <1>9, <1>11, <1>12 DEF FreshIds

LEMMA StepFreshIds ==
    ASSUME Cardinality(Query) <= TidSpace
    PROVE  MInv /\ FreshIds /\ [MNext]_mvars => FreshIds'
<1> SUFFICES ASSUME MInv, FreshIds, [MNext]_mvars PROVE FreshIds'
  OBVIOUS
<1>1. ASSUME NEW q \in Query, NEW p \in Peer, BuildQuery(q, p) PROVE FreshIds'
  BY <1>1, BuildFreshIds
<1>2. ASSUME NEW q \in Query, QueryStep(q) PROVE FreshIds'
  <2>1. UNCHANGED <<transaction, tid>> /\ qpc[q] # "idle"
    BY <1>2 DEF QueryStep, Acquire, Push, SendOk, SendFailed, TakeReply, TakeClosed,
                TimeOut, Cancel
  <2>2. \E l \in {"push", "send", "wait", "cancel", "done"} : qpc' = [qpc EXCEPT ![q] = l]
    BY <1>2 DEF QueryStep, Acquire, Push, SendOk, SendFailed, TakeReply, TakeClosed,
                TimeOut, Cancel, Finish
  <2>3. Drawn' = Drawn
    BY <2>1, <2>2 DEF Drawn, MInv, MTypeOK
  <2>4. QED
    BY <2>1, <2>3 DEF FreshIds
<1>3. ASSUME UNCHANGED <<transaction, tid, qpc>> PROVE FreshIds'
  BY <1>3 DEF FreshIds, Drawn
<1>4. CASE \E m \in net : HandleQuery(m)
  BY <1>3, <1>4 DEF HandleQuery
<1>5. CASE \E m \in net \cup Stray : ReturnResult(m)
  BY <1>3, <1>5 DEF ReturnResult
<1>6. CASE \E d \in delivering : Deliver(d)
  BY <1>3, <1>6 DEF Deliver
<1>7. CASE UNCHANGED mvars
  BY <1>3, <1>7 DEF mvars
<1>8. QED
  BY <1>1, <1>2, <1>4, <1>5, <1>6, <1>7 DEF MNext

(* Until the ids repeat, the hypothesis of NoLeakCorrect holds, and so no  *)
(* query leaks its entry.                                                  *)
THEOREM NoLeakUntilWrap ==
    ASSUME Cardinality(Query) <= TidSpace
    PROVE  MSpec => []NoLeak
<1>1. MSpec => []FreshIds
  BY InitFreshIds, StepFreshIds, MInvCorrect, PTL DEF MSpec
<1>2. ASSUME MInv, FreshIds PROVE IdsDiffer
  <2>1. \A i \in DOMAIN queue : /\ queue[i].query \in Drawn
                               /\ queue[i].tid = tid[queue[i].query]
    BY <1>2, Entries DEF MInv, OneSender, Drawn, AfterPush
  <2>2. \A i, j \in DOMAIN queue : queue[i].query = queue[j].query => i = j
    BY <1>2 DEF MInv, OneSender
  <2>3. QED
    BY <1>2, <2>1, <2>2 DEF IdsDiffer, FreshIds
<1>3. MInv /\ FreshIds => IdsDiffer
  BY <1>2
<1>4. QED
  BY <1>1, <1>3, MInvCorrect, NoLeakCorrect, PTL
=============================================================================
