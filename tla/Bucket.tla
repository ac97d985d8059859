------------------------------- MODULE Bucket -------------------------------
(***************************************************************************)
(* The routing table of src/src/router/bucket.rs: a chain of buckets, each *)
(* with its nodes behind an RwLock and its successor in a OnceCell, used   *)
(* by concurrent tokio tasks that run Bucket::add and Bucket::remove.      *)
(*                                                                         *)
(* A task has at most one stack frame per bucket, because every recursive  *)
(* call goes to the next bucket; the frame of task t in bucket i is        *)
(* pc[t][i] and arg[t][i], and "ret" means there is none.  Each label is a *)
(* point where the code awaits a lock or reads the OnceCell: what happens  *)
(* between two labels is not interleaved with anything that matters.  Read *)
(* and write guards are dropped inside one label, except the write guard   *)
(* that make_next_bucket holds while it moves nodes, i.e. at "migrate".    *)
(***************************************************************************)
EXTENDS U160, SequencesExt

CONSTANTS
    Task,     \* concurrent tasks that add and remove nodes
    Node,     \* NodeInfo records [id, addr] that may be added
    OwnId,    \* own_id of every bucket
    KSize     \* k_size of every bucket

NoArg == <<>>   \* the argument of a frame that does not exist

ASSUME NodeAssumption == NoArg \notin Node /\ \A n \in Node : n.id \in U160Type
ASSUME OwnIdAssumption == OwnId \in U160Type
ASSUME KSizeAssumption == KSize \in Nat \ {0}

MAX_BUCKET_INDEX == MaxBit

Index == 0 .. MAX_BUCKET_INDEX

Labels == {"ret", "add", "add_len", "full", "full_len", "make_next",
           "lock_nodes", "migrate", "place", "write",
           "remove", "remove_write"}

VARIABLES
    nodes,        \* nodes[i]: the Vec<NodeInfo> of bucket i
    next_bucket,  \* next_bucket[i]: the OnceCell of bucket i is set
    pc,           \* pc[t][i]: where task t stands in bucket i
    arg,          \* arg[t][i]: the node its frame in bucket i works on
    outcome       \* how the last operation of each task ended

vars == <<nodes, next_bucket, pc, arg, outcome>>

(* The last operation returned or panicked.  No caller uses the result of  *)
(* remove, so it is not kept.                                              *)
Outcomes == {"ok", "panic"}

(* Every frame has its node and only frames have one: a task never works   *)
(* in a bucket without the argument of the call that brought it there.     *)
TypeOK ==
    /\ nodes \in [Index -> Seq(Node)]
    /\ next_bucket \in [Index -> BOOLEAN]
    /\ pc \in [Task -> [Index -> Labels]]
    /\ arg \in [Task -> [Index -> Node \cup {NoArg}]]
    /\ \A t \in Task, i \in Index : pc[t][i] = "ret" <=> arg[t][i] = NoArg
    /\ outcome \in [Task -> Outcomes]

-----------------------------------------------------------------------------
(* belongs_here and id_belongs_here. *)
BelongsHere(i, id) == GetBit(Distance(OwnId, id), i)

(* The write lock of bucket i is held across awaits. *)
Locked(i) == \E t \in Task : pc[t][i] = "migrate"

Idle(t) == \A i \in Index : pc[t][i] = "ret"

Quiescent == \A t \in Task : Idle(t)

(* Task t is executing its frame in bucket i, at label l. *)
At(t, i, l) ==
    /\ pc[t][i] = l
    /\ \A j \in Index : j > i => pc[t][j] = "ret"

Goto(t, i, l) ==
    /\ pc' = [pc EXCEPT ![t][i] = l]
    /\ UNCHANGED <<arg, outcome>>

(* The frame of bucket i returns to the split that called it, if any. *)
Return(t, i) ==
    /\ pc' = [pc EXCEPT ![t][i] = "ret"]
    /\ arg' = [arg EXCEPT ![t][i] = NoArg]
    /\ outcome' = [outcome EXCEPT ![t] = "ok"]

TailCallWithoutArg(t, i, l) ==
    /\ pc' = [pc EXCEPT ![t] = [@ EXCEPT ![i] = "ret", ![i + 1] = l]]
    /\ arg' = [arg EXCEPT ![t][i] = NoArg]
    /\ UNCHANGED outcome

(* The frame of bucket i is replaced by a call in the next bucket. *)
TailCall(t, i, l) ==
    /\ pc' = [pc EXCEPT ![t] = [@ EXCEPT ![i] = "ret", ![i + 1] = l]]
    /\ arg' = [arg EXCEPT ![t] = [@ EXCEPT ![i] = NoArg, ![i + 1] = arg[t][i]]]
    /\ UNCHANGED outcome

(* unwrap of None: the task unwinds, which drops its guards. *)
Panic(t) ==
    /\ pc' = [pc EXCEPT ![t] = [j \in Index |-> "ret"]]
    /\ arg' = [arg EXCEPT ![t] = [j \in Index |-> NoArg]]
    /\ outcome' = [outcome EXCEPT ![t] = "panic"]

-----------------------------------------------------------------------------
(* Bucket::add *)

(* The next_bucket reads of the first and of the second condition. *)
AddCheckNext(t, i) ==
    /\ At(t, i, "add")
    /\ Goto(t, i, IF next_bucket[i] THEN "place" ELSE "add_len")
    /\ UNCHANGED <<nodes, next_bucket>>

AddCheckLen(t, i) ==
    /\ At(t, i, "add_len")
    /\ ~Locked(i)
    /\ Goto(t, i, IF Len(nodes[i]) < KSize THEN "write" ELSE "full")
    /\ UNCHANGED <<nodes, next_bucket>>

FullCheckNext(t, i) ==
    /\ At(t, i, "full")
    /\ Goto(t, i, IF next_bucket[i] THEN "place" ELSE "full_len")
    /\ UNCHANGED <<nodes, next_bucket>>

FullCheckLen(t, i) ==
    /\ At(t, i, "full_len")
    /\ ~Locked(i)
    /\ Goto(t, i, IF Len(nodes[i]) = KSize THEN "make_next" ELSE "place")
    /\ UNCHANGED <<nodes, next_bucket>>

(* belongs_here, and next_bucket.get().unwrap() when it does not. *)
Place(t, i) ==
    /\ At(t, i, "place")
    /\ \/ /\ BelongsHere(i, arg[t][i].id)
          /\ Goto(t, i, "write")
       \/ /\ ~BelongsHere(i, arg[t][i].id)
          /\ next_bucket[i]
          /\ TailCall(t, i, "add")
       \/ /\ ~BelongsHere(i, arg[t][i].id)
          /\ ~next_bucket[i]
          /\ Panic(t)
    /\ UNCHANGED <<nodes, next_bucket>>

(* iter().rev().position and iter().position of an id; 0 stands for None. *)
LastPosition(s, id) == SelectLastInSeq(s, LAMBDA m : m.id = id)

FirstPosition(s, id) == SelectInSeq(s, LAMBDA m : m.id = id)

AddOrUpdateUnbounded(s, n) ==
    LET p == LastPosition(s, n.id)
    IN  IF p # 0 THEN Append(RemoveAt(s, p), s[p]) ELSE Append(s, n)

AddOrUpdateEvict(s, n) ==
    LET p == LastPosition(s, n.id)
    IN  IF p # 0 THEN Append(RemoveAt(s, p), s[p])
        ELSE IF Len(s) < KSize THEN Append(s, n)
        ELSE Append(Tail(s), n)

(* What add_or_update leaves in a bucket: a known id moves to the end and  *)
(* keeps its stored address, a new one is pushed when there is room.       *)
AddOrUpdate(s, n) ==
    LET p == LastPosition(s, n.id)
    IN  IF p # 0 THEN Append(RemoveAt(s, p), s[p])
        ELSE IF Len(s) < KSize THEN Append(s, n)
        ELSE s

Write(t, i) ==
    /\ At(t, i, "write")
    /\ ~Locked(i)
    /\ nodes' = [nodes EXCEPT ![i] = AddOrUpdate(@, arg[t][i])]
    /\ Return(t, i)
    /\ UNCHANGED next_bucket

-----------------------------------------------------------------------------
(* Bucket::make_next_bucket *)

MakeNextBucketAlways(t, i) ==
    /\ At(t, i, "make_next")
    /\ i # MAX_BUCKET_INDEX
    /\ next_bucket' = [next_bucket EXCEPT ![i] = TRUE]
    /\ Goto(t, i, "lock_nodes")
    /\ UNCHANGED nodes

MakeNextBucketUnset(t, i) ==
    /\ At(t, i, "make_next")
    /\ IF i = MAX_BUCKET_INDEX THEN Return(t, i) ELSE Goto(t, i, "lock_nodes")
    /\ UNCHANGED <<nodes, next_bucket>>

(* The last bucket is never split and the new node is dropped.  OnceCell   *)
(* admits one set: a task that comes second goes on as if it had split.    *)
MakeNextBucket(t, i) ==
    /\ At(t, i, "make_next")
    /\ \/ /\ i = MAX_BUCKET_INDEX
          /\ Return(t, i)
          /\ UNCHANGED next_bucket
       \/ /\ i # MAX_BUCKET_INDEX
          /\ next_bucket[i]
          /\ Goto(t, i, "place")
          /\ UNCHANGED next_bucket
       \/ /\ i # MAX_BUCKET_INDEX
          /\ ~next_bucket[i]
          /\ next_bucket' = [next_bucket EXCEPT ![i] = TRUE]
          /\ Goto(t, i, "lock_nodes")
    /\ UNCHANGED nodes

LockNodes(t, i) ==
    /\ At(t, i, "lock_nodes")
    /\ ~Locked(i)
    /\ Goto(t, i, "migrate")
    /\ UNCHANGED <<nodes, next_bucket>>

MisfitsNone(i) == {}

MisfitsInverted(i) == {p \in DOMAIN nodes[i] : BelongsHere(i, nodes[i][p].id)}

(* Positions of the nodes the loop has to move. *)
Misfits(i) == {p \in DOMAIN nodes[i] : ~BelongsHere(i, nodes[i][p].id)}

SwapRemoveNothing(s, p) == s

(* Vec::swap_remove *)
SwapRemove(s, p) == Front(ReplaceAt(s, p, Last(s)))

(* One turn of the loop: the first misfit leaves and is added to the next  *)
(* bucket by a nested call, with the write guard held.                     *)
MigrateOne(t, i) ==
    /\ At(t, i, "migrate")
    /\ \E p \in Misfits(i) :
          /\ \A q \in Misfits(i) : p <= q
          /\ nodes' = [nodes EXCEPT ![i] = SwapRemove(@, p)]
          /\ pc' = [pc EXCEPT ![t][i + 1] = "add"]
          /\ arg' = [arg EXCEPT ![t][i + 1] = nodes[i][p]]
    /\ UNCHANGED <<next_bucket, outcome>>

MigrateDone(t, i) ==
    /\ At(t, i, "migrate")
    /\ Misfits(i) = {}
    /\ Goto(t, i, "place")
    /\ UNCHANGED <<nodes, next_bucket>>

-----------------------------------------------------------------------------
(* Bucket::remove *)

(* The bucket where the walk of remove ends for an id. *)
StopsHere(i, id) == ~next_bucket[i] \/ BelongsHere(i, id)

RemoveRoute(t, i) ==
    /\ At(t, i, "remove")
    /\ IF StopsHere(i, arg[t][i].id)
       THEN Goto(t, i, "remove_write")
       ELSE TailCall(t, i, "remove")
    /\ UNCHANGED <<nodes, next_bucket>>

RemoveWrite(t, i) ==
    LET p == FirstPosition(nodes[i], arg[t][i].id)
    IN  /\ At(t, i, "remove_write")
        /\ ~Locked(i)
        /\ \/ /\ p # 0
              /\ nodes' = [nodes EXCEPT ![i] = RemoveAt(@, p)]
              /\ Return(t, i)
           \/ /\ p = 0
              /\ Return(t, i)
              /\ UNCHANGED nodes
        /\ UNCHANGED next_bucket

-----------------------------------------------------------------------------
(* A task calls add or remove on the root bucket. *)
Start(t, l, n) ==
    /\ Idle(t)
    /\ pc' = [pc EXCEPT ![t][0] = l]
    /\ arg' = [arg EXCEPT ![t][0] = n]
    /\ outcome' = [outcome EXCEPT ![t] = "ok"]
    /\ UNCHANGED <<nodes, next_bucket>>

StartAdd(t, n) == Start(t, "add", n)

StartRemove(t, n) == Start(t, "remove", n)

Step(t, i) ==
    \/ AddCheckNext(t, i)
    \/ AddCheckLen(t, i)
    \/ FullCheckNext(t, i)
    \/ FullCheckLen(t, i)
    \/ Place(t, i)
    \/ Write(t, i)
    \/ MakeNextBucket(t, i)
    \/ LockNodes(t, i)
    \/ MigrateOne(t, i)
    \/ MigrateDone(t, i)
    \/ RemoveRoute(t, i)
    \/ RemoveWrite(t, i)

(* Bucket::root, before the first operation. *)
Init ==
    /\ nodes = [i \in Index |-> <<>>]
    /\ next_bucket = [i \in Index |-> FALSE]
    /\ pc = [t \in Task |-> [i \in Index |-> "ret"]]
    /\ arg = [t \in Task |-> [i \in Index |-> NoArg]]
    /\ outcome = [t \in Task |-> "ok"]

Next ==
    \/ \E t \in Task, n \in Node : StartAdd(t, n) \/ StartRemove(t, n)
    \/ \E t \in Task, i \in Index : Step(t, i)

Spec == Init /\ [][Next]_vars

(* Concurrent adds and no remove, as when a search fills the table. *)
AddOnlyNext ==
    \/ \E t \in Task, n \in Node : StartAdd(t, n)
    \/ \E t \in Task, i \in Index : Step(t, i)

AddOnlySpec == Init /\ [][AddOnlyNext]_vars

-----------------------------------------------------------------------------
(* Properties *)

(* The buckets before bucket i are the ones whose bit differs: an id that  *)
(* belongs in bucket i or after it agrees with own_id on the bits below i. *)
SharesPrefix(i, id) == \A j \in Index : j < i => id[j] = OwnId[j]

(* No interleaving of adds, splits and removes puts more than k_size nodes *)
(* in a bucket: add decides under one lock and writes under another, so    *)
(* add_or_update has to look again.                                        *)
Capacity == \A i \in Index : Len(nodes[i]) <= KSize

(* No bucket holds an id twice, though several tasks may add the same id   *)
(* and a split may move it while another task adds it.                     *)
DistinctInBucket ==
    \A i \in Index : \A p, q \in DOMAIN nodes[i] :
        nodes[i][p].id = nodes[i][q].id => p = q

(* Every stored node, and every node an add or a remove is about to handle *)
(* in bucket i, shares with own_id the prefix that bucket i stands for, so *)
(* a node is never in a bucket closer to own_id than it is.                *)
RangeOK ==
    \A i \in Index :
        /\ \A p \in DOMAIN nodes[i] : SharesPrefix(i, nodes[i][p].id)
        /\ \A t \in Task : pc[t][i] # "ret" => SharesPrefix(i, arg[t][i].id)

(* Buckets are created in order, the last one gets no successor, and only  *)
(* existing buckets are used: the unwraps of lookup, remove and            *)
(* make_next_bucket never see None, and bucket_index + 1 stays in range.   *)
ChainOK ==
    /\ ~next_bucket[MAX_BUCKET_INDEX]
    /\ \A t \in Task, i \in Index :
          pc[t][i] \in {"lock_nodes", "migrate"} => next_bucket[i]
    /\ \A i \in Index : i > 0 /\ ~next_bucket[i - 1] =>
          /\ ~next_bucket[i]
          /\ nodes[i] = <<>>
          /\ \A t \in Task : pc[t][i] = "ret"

(* OnceCell::set elects one task per bucket to move its nodes, and a task  *)
(* waits inside a bucket only for its own call in the next one; with the   *)
(* guards taken root first, no two tasks can wait for each other.          *)
LockOrder ==
    \A t \in Task, i, j \in Index :
        /\ pc[t][i] # "ret" /\ pc[t][j] # "ret" /\ i < j => pc[t][i] = "migrate"
        /\ \A u \in Task : {pc[t][i], pc[u][i]} \subseteq {"lock_nodes", "migrate"} => t = u

InBuckets(id) == \E i \in Index : \E p \in DOMAIN nodes[i] : nodes[i][p].id = id

(* A split took the id out of a bucket and has not written it yet. *)
InTransit(id) ==
    \E t \in Task, i, j \in Index : /\ i < j
                                     /\ pc[t][i] = "migrate"
                                     /\ pc[t][j] # "ret"
                                     /\ arg[t][j].id = id

Known(id) == InBuckets(id) \/ InTransit(id)

(* A known id is forgotten in four ways only: it is removed, a split moves *)
(* it to a bucket that other tasks filled meanwhile, or to the last bucket *)
(* after that was full, or the task that splits panics.                    *)
Retention ==
    [][\A n \in Node : Known(n.id) /\ ~Known(n.id)' =>
         \E t \in Task, i \in Index :
            /\ arg[t][i] # NoArg /\ arg[t][i].id = n.id
            /\ \/ pc[t][i] = "remove_write"
               \/ pc[t][i] = "write" /\ Len(nodes[i]) = KSize
               \/ pc[t][i] = "make_next" /\ i = MAX_BUCKET_INDEX
               \/ outcome'[t] = "panic" /\ outcome[t] # "panic"]_vars

(* next_bucket.get().unwrap() in add never panics. *)
NoPanic == \A t \in Task : outcome[t] # "panic"

(* Once every task is idle, each node stands in the bucket where remove    *)
(* and lookup look for its id.                                             *)
Findable ==
    Quiescent => \A i \in Index : \A p \in DOMAIN nodes[i] :
                    StopsHere(i, nodes[i][p].id)

(* No operation hangs: every task that adds or removes finishes, or panics. *)
Termination == \A t \in Task : ~Idle(t) ~> Idle(t)
=============================================================================
