------------------------------ MODULE Messenger -----------------------------
(***************************************************************************)
(* The KRPC messenger of src/src/messenger.rs and service.rs: queries that *)
(* run concurrently, a queue of outstanding ones behind a mutex, a oneshot *)
(* channel from the receiving task to each of them, a timer and a          *)
(* semaphore, over UDP.                                                    *)
(*                                                                         *)
(* Packets in net may be delivered late, in any order, more than once or   *)
(* never.  One messenger, Me, makes the queries; those of the peers run    *)
(* the receiving side of the same code.  Besides, replies nobody asked for *)
(* arrive at any time, with any transaction id: the source of a packet is  *)
(* compared with nothing before its id is looked up.                       *)
(***************************************************************************)
EXTENDS Integers, SequencesExt, FiniteSetsExt

CONSTANTS
    Query,      \* calls of Messenger::query and query_unbounded
    Unbounded,  \* those of query_unbounded, which take no permit
    Peer,       \* nodes that are asked, ourselves perhaps among them
    ReadOnly,   \* peers whose messenger has no query handler
    Stranger,   \* addresses that send replies nobody asked them for
    Me,         \* the address of the querying node
    MaxQ,       \* max_q, the permits of the semaphore
    TidSpace    \* number of transaction ids, 2^16 in the code

ASSUME QueryAssumption == IsFiniteSet(Query) /\ Unbounded \subseteq Query
ASSUME PeerAssumption == ReadOnly \subseteq Peer
ASSUME MaxQAssumption == MaxQ \in Nat \ {0}
ASSUME TidSpaceAssumption == TidSpace \in Nat \ {0}

VARIABLES
    transaction, \* the counter transaction ids are drawn from
    tid, dest,   \* of each query: its transaction id and whom it asks
    qpc,         \* where each query stands in query_unbounded
    permits,     \* free permits of max_q
    queue,       \* queries_outbound
    delivering,  \* entries taken off the queue with a reply not yet sent on
    inbox,       \* the reply in the oneshot channel of each query, if any
    result,      \* how each query ended
    net          \* packets on the network

mvars == <<transaction, tid, dest, qpc, permits, queue, delivering, inbox, result, net>>

Tid == 0 .. (TidSpace - 1)

Blank == TidSpace   \* stands for any id that none of our queries has

Address == Peer \cup Stranger \cup {Me}

Packet == [kind : {"query", "reply"}, tid : Tid \cup {Blank}, from : Address]

Entry == [tid : Tid, addr : Address, query : Query]

(* No permit is handed out that max_q does not have, and each oneshot      *)
(* channel carries at most one reply.                                      *)
MTypeOK ==
    /\ transaction \in Nat
    /\ tid \in [Query -> Tid]
    /\ dest \in [Query -> Peer]
    /\ qpc \in [Query -> {"idle", "permit", "push", "send", "wait", "cancel", "done"}]
    /\ permits \in 0 .. MaxQ
    /\ queue \in Seq(Entry)
    /\ \A d \in delivering : d.query \in Query /\ d.packet \in Packet
    /\ \A q \in Query : inbox[q] \subseteq Packet /\ Cardinality(inbox[q]) <= 1
    /\ result \in [Query -> {"none", "reply", "timeout", "closed", "failed"}]
    /\ \A m \in net : m.packet \in Packet /\ m.to \in Address

-----------------------------------------------------------------------------
PositionFirst(id, addr) == IF queue = <<>> THEN 0 ELSE 1

(* remove_from_queue: by transaction id, or else by address; 0 for none. *)
Position(id, addr) ==
    IF \E e \in Range(queue) : e.tid = id
    THEN SelectInSeq(queue, LAMBDA e : e.tid = id)
    ELSE SelectInSeq(queue, LAMBDA e : e.addr = addr)

(* The sending half of the channel of q lives in its queue entry, and then *)
(* in the task that delivers its reply.                                    *)
SenderAlive(q) ==
    \/ \E e \in Range(queue) : e.query = q
    \/ \E d \in delivering : d.query = q

ReceiverAlive(q) == qpc[q] \in {"push", "send", "wait"}

FinishKeepingPermit(q, how) ==
    /\ qpc' = [qpc EXCEPT ![q] = "done"]
    /\ result' = [result EXCEPT ![q] = how]
    /\ UNCHANGED permits

(* The query returns, and drops its permit if it holds one. *)
Finish(q, how) ==
    /\ qpc' = [qpc EXCEPT ![q] = "done"]
    /\ result' = [result EXCEPT ![q] = how]
    /\ permits' = IF q \in Unbounded THEN permits ELSE permits + 1

-----------------------------------------------------------------------------
(* Node::build_query draws the id; then query or query_unbounded is called. *)
BuildQuery(q, p) ==
    /\ qpc[q] = "idle"
    /\ tid' = [tid EXCEPT ![q] = transaction % TidSpace]
    /\ transaction' = transaction + 1
    /\ dest' = [dest EXCEPT ![q] = p]
    /\ qpc' = [qpc EXCEPT ![q] = IF q \in Unbounded THEN "push" ELSE "permit"]
    /\ UNCHANGED <<permits, queue, delivering, inbox, result, net>>

AcquireAlways(q) ==
    /\ qpc[q] = "permit"
    /\ permits' = permits - 1
    /\ qpc' = [qpc EXCEPT ![q] = "push"]
    /\ UNCHANGED <<transaction, tid, dest, queue, delivering, inbox, result, net>>

Acquire(q) ==
    /\ qpc[q] = "permit"
    /\ permits > 0
    /\ permits' = permits - 1
    /\ qpc' = [qpc EXCEPT ![q] = "push"]
    /\ UNCHANGED <<transaction, tid, dest, queue, delivering, inbox, result, net>>

(* The address in the entry is that of query.origin. *)
Push(q) ==
    /\ qpc[q] = "push"
    /\ queue' = Append(queue, [tid |-> tid[q], addr |-> Me, query |-> q])
    /\ qpc' = [qpc EXCEPT ![q] = "send"]
    /\ UNCHANGED <<transaction, tid, dest, permits, delivering, inbox, result, net>>

SendOk(q) ==
    /\ qpc[q] = "send"
    /\ net' = net \cup {[to |-> dest[q],
                         packet |-> [kind |-> "query", tid |-> tid[q], from |-> Me]]}
    /\ qpc' = [qpc EXCEPT ![q] = "wait"]
    /\ UNCHANGED <<transaction, tid, dest, permits, queue, delivering, inbox, result>>

(* The error returns at once and the entry stays in the queue. *)
SendFailed(q) ==
    /\ qpc[q] = "send"
    /\ Finish(q, "failed")
    /\ UNCHANGED <<transaction, tid, dest, queue, delivering, inbox, net>>

(* select!: the reply, or the end of the channel, if it is picked ... *)
TakeReply(q) ==
    /\ qpc[q] = "wait"
    /\ inbox[q] # {}
    /\ inbox' = [inbox EXCEPT ![q] = {}]
    /\ Finish(q, "reply")
    /\ UNCHANGED <<transaction, tid, dest, queue, delivering, net>>

TakeClosed(q) ==
    /\ qpc[q] = "wait"
    /\ inbox[q] = {}
    /\ ~SenderAlive(q)
    /\ Finish(q, "closed")
    /\ UNCHANGED <<transaction, tid, dest, queue, delivering, inbox, net>>

TimeOutNever(q) == FALSE /\ UNCHANGED mvars

(* ... or the timer, which drops the receiver, whatever is in it. *)
TimeOut(q) ==
    /\ qpc[q] = "wait"
    /\ qpc' = [qpc EXCEPT ![q] = "cancel"]
    /\ inbox' = [inbox EXCEPT ![q] = {}]
    /\ UNCHANGED <<transaction, tid, dest, permits, queue, delivering, result, net>>

CancelLeaving(q) ==
    /\ qpc[q] = "cancel"
    /\ Finish(q, "timeout")
    /\ UNCHANGED <<transaction, tid, dest, queue, delivering, inbox, net>>

(* The timed-out query looks for its entry, with its own address. *)
Cancel(q) ==
    LET p == Position(tid[q], Me)
    IN  /\ qpc[q] = "cancel"
        /\ queue' = IF p = 0 THEN queue ELSE RemoveAt(queue, p)
        /\ Finish(q, "timeout")
        /\ UNCHANGED <<transaction, tid, dest, delivering, inbox, net>>

-----------------------------------------------------------------------------
(* recv and handle_received of a peer: a query is answered under its own   *)
(* id, with a response or an error, unless there is no handler.            *)
HandleQuery(m) ==
    /\ m \in net
    /\ m.to \in Peer \ ReadOnly
    /\ m.packet.kind = "query"
    /\ net' = net \cup {[to |-> m.packet.from,
                         packet |-> [kind |-> "reply", tid |-> m.packet.tid, from |-> m.to]]}
    /\ UNCHANGED <<transaction, tid, dest, qpc, permits, queue, delivering, inbox, result>>

(* Replies to nothing that was asked there: from a peer that answers from  *)
(* another of its addresses, or from anybody else.                         *)
Stray ==
    [to : {Me}, packet : [kind : {"reply"}, tid : Tid \cup {Blank}, from : Stranger]]

(* return_result takes the entry off the queue.  A reply nobody waits for  *)
(* is dropped.  The network keeps the packet: it may deliver it again.     *)
ReturnResult(m) ==
    LET p == Position(m.packet.tid, m.packet.from)
    IN  /\ m \in net \cup Stray
        /\ m.to = Me
        /\ m.packet.kind = "reply"
        /\ p # 0
        /\ queue' = RemoveAt(queue, p)
        /\ delivering' = delivering \cup {[query |-> queue[p].query, packet |-> m.packet]}
        /\ UNCHANGED <<transaction, tid, dest, qpc, permits, inbox, result, net>>

(* waiting.return_value.send, after the lock was released. *)
Deliver(d) ==
    /\ d \in delivering
    /\ delivering' = delivering \ {d}
    /\ inbox' = IF ReceiverAlive(d.query)
                THEN [inbox EXCEPT ![d.query] = {d.packet}]
                ELSE inbox
    /\ UNCHANGED <<transaction, tid, dest, qpc, permits, queue, result, net>>

-----------------------------------------------------------------------------
MInit ==
    /\ transaction = 0
    /\ tid \in [Query -> {0}]
    /\ \E p \in Peer : dest = [q \in Query |-> p]
    /\ qpc = [q \in Query |-> "idle"]
    /\ permits = MaxQ
    /\ queue = <<>>
    /\ delivering = {}
    /\ inbox = [q \in Query |-> {}]
    /\ result = [q \in Query |-> "none"]
    /\ net = {}

QueryStep(q) ==
    \/ Acquire(q)
    \/ Push(q)
    \/ SendOk(q)
    \/ SendFailed(q)
    \/ TakeReply(q)
    \/ TakeClosed(q)
    \/ TimeOut(q)
    \/ Cancel(q)

MNext ==
    \/ \E q \in Query, p \in Peer : BuildQuery(q, p)
    \/ \E q \in Query : QueryStep(q)
    \/ \E m \in net : HandleQuery(m)
    \/ \E m \in net \cup Stray : ReturnResult(m)
    \/ \E d \in delivering : Deliver(d)

(* The runtime polls every query that can go on, its timer fires, and the  *)
(* receiving task finishes what it began.  Nothing is assumed of the       *)
(* network or of the peers.                                                *)
MSpec ==
    /\ MInit /\ [][MNext]_mvars
    /\ \A q \in Query : WF_mvars(QueryStep(q))
    /\ WF_mvars(\E d \in delivering : Deliver(d))

-----------------------------------------------------------------------------
(* The reply in the channel of a query, which is what the query returns if *)
(* its timer does not come first, has the transaction id of the query,     *)
(* although late, repeated and unasked replies arrive meanwhile and other  *)
(* queries' entries come and go.  The exception is a reply that came from  *)
(* our own address, as when we asked ourselves: every entry has that       *)
(* address, and the fallback of remove_from_queue hands such a reply to    *)
(* any query once its own has ended.  Of the source nothing is promised.   *)
AnswerMatches ==
    \A q \in Query : \A m \in inbox[q] : m.tid = tid[q] \/ m.from = Me

(* A query that ended leaves no entry in queries_outbound, unless its send *)
(* failed: whichever of reply, timer and other queries' timers came first, *)
(* nothing stays behind to swallow a later reply.                          *)
NoLeak ==
    \A e \in Range(queue) :
        qpc[e.query] \in {"send", "wait", "cancel"} \/ result[e.query] = "failed"

(* At most max_q bounded queries are past the semaphore at a time, and no  *)
(* way of ending a query loses or doubles a permit.                        *)
PermitsBalance ==
    permits + Cardinality({q \in Query \ Unbounded :
                             qpc[q] \in {"push", "send", "wait", "cancel"}}) = MaxQ

(* Every query returns, even when no packet ever arrives. *)
EveryQueryReturns == \A q \in Query : qpc[q] # "idle" ~> qpc[q] = "done"

(* An unanswered query that was sent ends with the error Timeout. *)
EndsByTimeout ==
    \A q \in Query : qpc[q] = "done" /\ dest[q] \in ReadOnly =>
        result[q] \in {"timeout", "failed"}
=============================================================================
