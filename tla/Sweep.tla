------------------------------- MODULE Sweep --------------------------------
(***************************************************************************)
(* infohash_sweep of src/src/node.rs: a traversal of the key space from    *)
(* low ids to high ones.  A number of travellers ask nodes for samples of  *)
(* their info hashes; what a node reports above its own id is queued, and  *)
(* the lowest queued node is asked next.  Where the reports dry up before  *)
(* the next queued node, a detached task searches for nodes in the gap.    *)
(*                                                                         *)
(* The queries (query_unbounded) touch neither the queue nor the router,   *)
(* so a query and its result are one step, taken when the loop asks for    *)
(* the next result.  The searches are those of Find: they return nodes of  *)
(* distinct ids.  Samples go to a bounded channel whose receiver may close.*)
(***************************************************************************)
EXTENDS U160, FiniteSetsExt

CONSTANTS
    Node,        \* NodeInfo records [id, addr], addr a number
    GAP,         \* a larger distance to the next queued node is a large gap
    TRAVELLERS,  \* queries started at first
    SEEDS,       \* nodes the backfill starts its search from
    Capacity,    \* of the channel
    MaxFound,    \* bound: number of nodes a search or a query finds
    MaxSamples   \* bound: number of samples in one response

ASSUME NodeAssumption ==
    IsFiniteSet(Node) /\ \A n \in Node : n.id \in U160Type /\ n.addr \in Nat
ASSUME GapAssumption == GAP \in U160Type
ASSUME SweepBounds ==
    /\ TRAVELLERS \in Nat \ {0} /\ SEEDS \in Nat \ {0} /\ Capacity \in Nat \ {0}
    /\ MaxFound \in Nat /\ MaxSamples \in Nat

VARIABLES
    to_send,   \* the queue of nodes to ask
    queried,   \* ids that were queued at some time
    tasks,     \* nodes whose query_one runs
    main,      \* where the loop stands
    result,    \* the result in hand: target, nodes and samples yet to send
    backfill,  \* the detached task: where it stands, its target, its nodes
    channel,   \* samples in the channel
    open,      \* whether the receiver is there
    start,     \* history: the nodes of the first two searches
    asked,     \* history: how often each node was asked
    late       \* history: nodes queued by a backfill when no query was left

queue == <<to_send, queried>>
pipe == <<channel, open>>
svars == <<to_send, queried, tasks, main, result, backfill, channel, open, start, asked, late>>

NoResult == [target |-> <<>>, nodes |-> {}, samples |-> 0]

NoBackfill == [at |-> "none", target |-> <<>>, nodes |-> {}]

Ids == {n.id : n \in Node}

(* The loop has a target from its first result on; what waits to be sent   *)
(* came with it.                                                           *)
SweepTypeOK ==
    /\ to_send \subseteq Node /\ queried \subseteq Ids /\ tasks \subseteq Node
    /\ main \in {"recv", "send", "gap", "spawn", "enqueue", "next", "ended"}
    /\ result.nodes \subseteq Node /\ result.samples \in 0 .. MaxSamples
    /\ main \notin {"recv", "ended"} => result.target \in Ids
    /\ result.samples > 0 => main = "send"
    /\ backfill.at \in {"none", "read", "find", "add"}
    /\ backfill.nodes \subseteq Node
    /\ backfill.at # "none" => backfill.target \in Ids
    /\ channel \in 0 .. Capacity /\ open \in BOOLEAN
    /\ asked \in [Node -> Nat] /\ start \subseteq Node /\ late \subseteq Node

-----------------------------------------------------------------------------
(* The order of NodeInfo: by id, then by address. *)
Before(m, n) == Less(m.id, n.id) \/ (m.id = n.id /\ m.addr < n.addr)

(* The first k nodes of a BTreeSet, and what pop_first takes. *)
FirstOf(S, k) == {n \in S : Cardinality({m \in S : Before(m, n)}) < k}

(* What a search can return, and what a response can carry. *)
DistinctIds(S) == \A m, n \in S : m.id = n.id => m = n

Finds == {S \in UNION {kSubset(i, Node) : i \in 0 .. MaxFound} : DistinctIds(S)}

Listed == UNION {kSubset(i, Node) : i \in 0 .. MaxFound}

Above(target, S) == {n \in S : Less(target, n.id)}

(* queried.insert is true for the first node of each new id. *)
NewAmong(S) == {N \in SUBSET {n \in S : n.id \notin queried} :
                  DistinctIds(N) /\ \A n \in S : n.id \in queried \cup {m.id : m \in N}}

AddAgain(target, S, N) ==
    /\ N = Above(target, S)
    /\ to_send' = to_send \cup N
    /\ queried' = queried \cup {n.id : n \in N}

AddBeforeFilter(target, S, N) ==
    /\ N \in NewAmong(S)
    /\ to_send' = to_send \cup Above(target, N)
    /\ queried' = queried \cup {n.id : n \in N}

(* add_to_send_queue: both locks are held to the end; N is what is new. *)
AddToSendQueue(target, S, N) ==
    /\ N \in NewAmong(Above(target, S))
    /\ to_send' = to_send \cup N
    /\ queried' = queried \cup {n.id : n \in N}

-----------------------------------------------------------------------------
(* The loop *)

(* The result of a query: samples with or without nodes, or no samples and *)
(* the nodes of the find_node that is sent then, or nothing.               *)
GetNextResult(n, S, k) ==
    /\ main = "recv" /\ n \in tasks
    /\ tasks' = tasks \ {n}
    /\ result' = [target |-> n.id, nodes |-> S, samples |-> k]
    /\ main' = "send"
    /\ UNCHANGED <<queue, pipe, backfill, start, asked, late>>

SendSampleAnyway ==
    /\ main = "send" /\ result.samples > 0
    /\ channel' = channel + 1
    /\ result' = [result EXCEPT !.samples = @ - 1]
    /\ UNCHANGED <<queue, tasks, main, backfill, open, start, asked, late>>

SendSampleOpen ==
    /\ main = "send" /\ result.samples > 0
    /\ open /\ channel < Capacity
    /\ channel' = channel + 1
    /\ result' = [result EXCEPT !.samples = @ - 1]
    /\ UNCHANGED <<queue, tasks, main, backfill, open, start, asked, late>>

(* tx.send waits for room; without a receiver it fails, which is logged. *)
SendSample ==
    /\ main = "send" /\ result.samples > 0
    /\ open => channel < Capacity
    /\ channel' = IF open THEN channel + 1 ELSE channel
    /\ result' = [result EXCEPT !.samples = @ - 1]
    /\ UNCHANGED <<queue, tasks, main, backfill, open, start, asked, late>>

SamplesSent ==
    /\ main = "send" /\ result.samples = 0
    /\ main' = IF result.nodes = {} THEN "gap" ELSE "enqueue"
    /\ UNCHANGED <<queue, pipe, tasks, result, backfill, start, asked, late>>

LargeGap ==
    \E n \in FirstOf(to_send, 1) : Less(GAP, Distance(n.id, result.target))

CheckGap ==
    /\ main = "gap"
    /\ main' = IF LargeGap THEN "spawn" ELSE "next"
    /\ UNCHANGED <<queue, pipe, tasks, result, backfill, start, asked, late>>

(* One backfill at a time: is_finished is asked after the gap was seen. *)
SpawnBackfill ==
    /\ main = "spawn"
    /\ main' = "next"
    /\ backfill' = IF backfill.at = "none"
                   THEN [at |-> "read", target |-> result.target, nodes |-> {}]
                   ELSE backfill
    /\ UNCHANGED <<queue, pipe, tasks, result, start, asked, late>>

Enqueue ==
    /\ main = "enqueue"
    /\ \E N \in SUBSET result.nodes : AddToSendQueue(result.target, result.nodes, N)
    /\ main' = "next"
    /\ UNCHANGED <<pipe, tasks, result, backfill, start, asked, late>>

Ask(S) ==
    /\ to_send' = to_send \ S
    /\ tasks' = tasks \cup S
    /\ asked' = [n \in Node |-> asked[n] + IF n \in S THEN 1 ELSE 0]

(* query_next!: an empty queue leaves one traveller less. *)
QueryNext ==
    /\ main = "next"
    /\ Ask(FirstOf(to_send, 1))
    /\ main' = "recv" /\ result' = NoResult
    /\ UNCHANGED <<queried, pipe, backfill, start, late>>

End ==
    /\ main = "recv" /\ tasks = {}
    /\ main' = "ended"
    /\ UNCHANGED <<queue, pipe, tasks, result, backfill, start, asked, late>>

-----------------------------------------------------------------------------
(* The backfill, detached: it goes on when the sweep has returned. *)

BackfillRead ==
    /\ backfill.at = "read"
    /\ backfill' = [backfill EXCEPT !.at = "find", !.nodes = FirstOf(to_send, SEEDS)]
    /\ UNCHANGED <<queue, pipe, tasks, main, result, start, asked, late>>

(* find_n_nodes_starting_at: a search from nowhere finds nothing. *)
BackfillFind(S) ==
    /\ backfill.at = "find"
    /\ backfill.nodes = {} => S = {}
    /\ backfill' = [backfill EXCEPT !.at = "add", !.nodes = S]
    /\ UNCHANGED <<queue, pipe, tasks, main, result, start, asked, late>>

BackfillAdd ==
    /\ backfill.at = "add"
    /\ \E N \in SUBSET backfill.nodes :
          /\ AddToSendQueue(backfill.target, backfill.nodes, N)
          /\ late' = IF tasks = {} /\ main \in {"recv", "ended"} THEN late \cup N ELSE late
    /\ backfill' = NoBackfill
    /\ UNCHANGED <<pipe, tasks, main, result, start, asked>>

-----------------------------------------------------------------------------
(* The receiver of the channel, external: it takes samples until it stops. *)
Receive ==
    /\ open /\ channel > 0
    /\ channel' = channel - 1
    /\ UNCHANGED <<queue, tasks, main, result, backfill, open, start, asked, late>>

Close ==
    /\ open
    /\ open' = FALSE /\ channel' = 0
    /\ UNCHANGED <<queue, tasks, main, result, backfill, start, asked, late>>

(* Both searches have returned and the first travellers are on their way. *)
SweepInit ==
    /\ \E A, B \in Finds : start = A \cup B
    /\ queried = {n.id : n \in start}
    /\ tasks = FirstOf(start, TRAVELLERS)
    /\ to_send = start \ tasks
    /\ asked = [n \in Node |-> IF n \in tasks THEN 1 ELSE 0]
    /\ main = "recv"
    /\ result = NoResult
    /\ backfill = NoBackfill
    /\ channel = 0 /\ open = TRUE /\ late = {}

Results == \E n \in Node, S \in Listed, k \in 0 .. MaxSamples : GetNextResult(n, S, k)

Loop ==
    \/ Results \/ SendSample \/ SamplesSent \/ CheckGap \/ SpawnBackfill
    \/ Enqueue \/ QueryNext \/ End

Backfill == BackfillRead \/ (\E S \in Finds : BackfillFind(S)) \/ BackfillAdd

SweepNext == Loop \/ Backfill \/ Receive \/ Close

(* Every query and every search ends (Messenger, Find), the loop and the   *)
(* backfill are tasks that tokio polls, and the receiver of main.rs        *)
(* receives until the channel is closed.                                   *)
SweepSpec ==
    SweepInit /\ [][SweepNext]_svars /\ WF_svars(Loop) /\ WF_svars(Backfill) /\ WF_svars(Receive)

-----------------------------------------------------------------------------
(* No node is asked twice, though queries and backfills report the same    *)
(* ids at any time and under any address: an id has two nodes in the sweep *)
(* only if each of the first two searches found one of them.               *)
SweptOnce ==
    /\ \A n \in Node : asked[n] + (IF n \in to_send THEN 1 ELSE 0) <= 1
    /\ \A m, n \in Node :
          /\ m # n /\ m.id = n.id
          /\ \A x \in {m, n} : asked[x] > 0 \/ x \in to_send
          => {m, n} \subseteq start

(* Nothing the sweep learns of is forgotten: each id it ever queued is     *)
(* asked or waits, and when no query is left, nothing waits but what a     *)
(* backfill added after the last one; those nodes are never asked.         *)
SweptAll ==
    /\ \A id \in queried : \E n \in Node : n.id = id /\ (asked[n] > 0 \/ n \in to_send)
    /\ tasks = {} /\ main \in {"recv", "ended"} => to_send \subseteq late

(* The sweep ends, though samples may fill the channel. *)
SweepEnds == <>(main = "ended")
=============================================================================
