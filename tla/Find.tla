-------------------------------- MODULE Find --------------------------------
(***************************************************************************)
(* The iterative search of src/src/node.rs, find_n_starting_at: nodes that *)
(* are close enough to the target are asked with send_find, all of them    *)
(* concurrently, and what they report is examined in turn, until no query  *)
(* is left.  The query itself (Messenger) is external here: a node asked   *)
(* answers with nodes, with peers, with something unexpected, or fails.    *)
(***************************************************************************)
EXTENDS NodeInfo, FiniteSetsExt, Functions

CONSTANTS
    Node,       \* NodeInfo records [id, addr] that are reported
    Origin,     \* those that responses claim to come from
    Target,     \* the id searched for
    K_SIZE,
    K,          \* the number of nodes wanted, k
    MaxReply    \* bound: number of nodes in one answer

ASSUME NodeAssumption ==
    IsFiniteSet(Node) /\ \A n \in Node : n.id \in U160Type
ASSUME TargetAssumption == Target \in U160Type
ASSUME KAssumption == K_SIZE \in Nat \ {0} /\ K \in Nat \ {0} /\ MaxReply \in Nat

VARIABLES
    find_peers,
    tasks,    \* nodes whose send_find runs
    batch,    \* found_nodes: reported nodes not yet examined
    seen,
    ignore,
    peers,    \* whether the set of peers is nonempty
    added,    \* nodes handed to router.add
    answered, \* history: nodes whose query got a response
    banned,   \* ids handed to router.ban_id
    asked,    \* history: how often each id was asked
    reported, \* history: every node anybody reported
    found     \* "ping" before the search, "none" during it, then how it ended

fvars == <<find_peers, tasks, batch, seen, ignore, peers, added, answered, banned,
           asked, reported, found>>

Valid == {n \in Node : Validate(n)}

Ids == {n.id : n \in Node}

(* Only nodes that were reported and seen are asked, and only those that   *)
(* were asked are ignored.  A search for nodes never returns peers, which  *)
(* its callers hold for unreachable.                                       *)
FTypeOK ==
    /\ tasks \subseteq seen /\ batch \subseteq reported /\ seen \subseteq reported
    /\ reported \subseteq Node /\ ignore \subseteq seen
    /\ added \subseteq Origin /\ answered \subseteq reported
    /\ peers \in BOOLEAN
    /\ banned \subseteq Ids
    /\ asked \in [Ids -> Nat]
    /\ found \in {"ping", "none", "KClosest", "Peers", "unreachable", "panic"}
    /\ found = "Peers" => find_peers

-----------------------------------------------------------------------------
D(n) == Distance(Target, n.id)

(* The nodes of S not farther from the target than n is. *)
Within(S, n) == {s \in S : ~Less(D(n), D(s))}

(* seen.iter().nth(2 * K_SIZE) is absent, or n is closer than it. *)
CloseEnough(n) == Cardinality(Within(seen, n)) <= 2 * K_SIZE

IsNewByAddr(n) == n \notin seen

(* BTreeSet::insert: nodes are compared by their distance, i.e. by id. *)
IsNew(n) == \A s \in seen : s.id # n.id

ExamineForgetting(n) ==
    /\ n \in batch
    /\ batch' = {}
    /\ IF CloseEnough(n) /\ IsNew(n)
       THEN /\ seen' = seen \cup {n}
            /\ tasks' = tasks \cup {n}
            /\ asked' = [asked EXCEPT ![n.id] = @ + 1]
       ELSE UNCHANGED <<seen, tasks, asked>>
    /\ UNCHANGED <<find_peers, ignore, peers, added, answered, banned, reported, found>>

(* One turn of the loop over found_nodes.  A node that does not validate   *)
(* is not asked, and stays in seen.                                        *)
Examine(n) ==
    /\ n \in batch
    /\ batch' = batch \ {n}
    /\ IF CloseEnough(n) /\ IsNew(n)
       THEN /\ seen' = seen \cup {n}
            /\ IF n \in Valid
               THEN tasks' = tasks \cup {n} /\ asked' = [asked EXCEPT ![n.id] = @ + 1]
               ELSE UNCHANGED <<tasks, asked>>
       ELSE UNCHANGED <<seen, tasks, asked>>
    /\ UNCHANGED <<find_peers, ignore, peers, added, answered, banned, reported, found>>

EndedKept(n) == n \in tasks /\ batch = {} /\ tasks' = tasks

EndedUnasked(n) == batch = {} /\ tasks' = tasks \ {n}

(* get_next_result: a send_find has ended, and the last batch is done. *)
Ended(n) == n \in tasks /\ batch = {} /\ tasks' = tasks \ {n}

Reports(S) == batch' = S /\ reported' = reported \cup S

Replies == UNION {kSubset(i, Node) : i \in 0 .. MaxReply}

(* Any response: its origin, the id it claims and the address its packet   *)
(* came from, goes to router.add.  The query was sent to n, but neither is *)
(* compared with what is known of n.                                       *)
Answered(n) ==
    /\ answered' = answered \cup {n}
    /\ \E r \in Origin : added' = added \cup {r}

(* ResponseKind::KNearest *)
FoundSome(n, S) ==
    /\ Ended(n)
    /\ Reports(S)
    /\ Answered(n)
    /\ UNCHANGED <<find_peers, seen, ignore, peers, banned, asked, found>>

(* ResponseKind::Peers, with or without peers in it, and with or without   *)
(* nodes.                                                                  *)
FoundPeers(n, S, some) ==
    /\ find_peers
    /\ Ended(n)
    /\ Reports(S)
    /\ peers' = (peers \/ some)
    /\ Answered(n)
    /\ UNCHANGED <<find_peers, seen, ignore, banned, asked, found>>

(* Any other response: the node is known to the router and ignored here. *)
Unexpected(n) ==
    /\ Ended(n)
    /\ Answered(n)
    /\ ignore' = ignore \cup {n}
    /\ UNCHANGED <<find_peers, batch, seen, peers, banned, asked, reported, found>>

(* An error or a timeout: the id is banned and ignored. *)
Failed(n) ==
    /\ Ended(n)
    /\ banned' = banned \cup {n.id}
    /\ ignore' = ignore \cup {n}
    /\ UNCHANGED <<find_peers, batch, seen, peers, added, answered, asked, reported, found>>

(* A send_find panics, in Bucket::add: the RemoteHandle passes the panic   *)
(* on to the search, which unwinds and drops what it knows and its other   *)
(* handles, cancelling their queries.                                      *)
Panics(n) ==
    /\ n \in tasks /\ batch = {}
    /\ tasks' = {} /\ seen' = {} /\ ignore' = {} /\ peers' = FALSE
    /\ found' = "panic"
    /\ UNCHANGED <<find_peers, batch, added, answered, banned, asked, reported>>

ReturnEarly ==
    /\ found = "none" /\ batch = {} /\ Cardinality(seen \ ignore) >= K
    /\ found' = IF peers THEN "Peers" ELSE "KClosest"
    /\ UNCHANGED <<find_peers, tasks, batch, seen, ignore, peers, added, answered, banned,
                   asked, reported>>

(* No task is left. *)
Return ==
    /\ found = "none" /\ tasks = {} /\ batch = {}
    /\ found' = IF peers THEN "Peers" ELSE "KClosest"
    /\ UNCHANGED <<find_peers, tasks, batch, seen, ignore, peers, added, answered, banned,
                   asked, reported>>

AnswerReversed ==
    LET kept == seen \ ignore
    IN  {n \in kept : Cardinality(kept) - Cardinality(Within(kept, n)) < K}

(* What KClosest carries: the first k nodes of seen that are not ignored. *)
Answer ==
    LET kept == seen \ ignore
    IN  {n \in kept : Cardinality(Within(kept, n)) <= K}

(* bootstrap: the ping, and where its answer leads.  The search starts     *)
(* from what router.lookup returns after the add.                          *)
Pinged(r, S) ==
    /\ found = "ping"
    /\ added' = {r}
    /\ Reports(S)
    /\ found' = "none"
    /\ UNCHANGED <<find_peers, tasks, seen, ignore, peers, answered, banned, asked>>

PingFailed ==
    /\ found = "ping"
    /\ found' = "unreachable"
    /\ UNCHANGED <<find_peers, tasks, batch, seen, ignore, peers, added, answered, banned,
                   asked, reported>>

(* A bootstrap, or a search that starts from what the router knows. *)
FInit ==
    /\ tasks = {}
    /\ \/ found = "ping" /\ batch = {} /\ find_peers = FALSE
       \/ found = "none" /\ batch \in Replies /\ find_peers \in BOOLEAN
    /\ seen = {} /\ ignore = {} /\ added = {} /\ answered = {} /\ banned = {}
    /\ peers = FALSE
    /\ asked = [id \in Ids |-> 0]
    /\ reported = batch

Completes(n) ==
    \/ \E S \in Replies : FoundSome(n, S)
    \/ \E S \in Replies, some \in BOOLEAN : FoundPeers(n, S, some)
    \/ Unexpected(n)
    \/ Failed(n)
    \/ Panics(n)

FNext ==
    \/ \E r \in Origin, S \in Replies : Pinged(r, S)
    \/ PingFailed
    \/ \E n \in Node : Examine(n)
    \/ \E n \in Node : Completes(n)
    \/ Return

(* Every query returns (Messenger, EveryQueryReturns) and the loop goes on. *)
FSpec == FInit /\ [][FNext]_fvars /\ WF_fvars(FNext)

-----------------------------------------------------------------------------
(* Everything reported is accounted for: a node that was reported and is   *)
(* not in seen shares its id with one that is, or 2 * K_SIZE seen nodes    *)
(* are at least as close; nothing is dropped because answers came in an    *)
(* unlucky order.  The code keeps one node more than the comment over its  *)
(* condition says; both readings keep this bound.                          *)
NothingMissed ==
    found # "panic" => \A n \in reported \ (batch \cup seen) :
        \/ \E s \in seen : s.id = n.id
        \/ Cardinality(Within(seen, n)) >= 2 * K_SIZE

(* The search tolerates failures: unless more than 2 * K_SIZE - k of the   *)
(* nodes it asked failed, no reported node that it left out is closer than *)
(* one in its answer.                                                      *)
AnswerClosest ==
    /\ found = "KClosest"
    /\ Cardinality(ignore) <= 2 * K_SIZE - K
    => \A n \in reported, a \in Answer :
         /\ Less(D(n), D(a))
         /\ \A i \in ignore : i.id # n.id
         => \E b \in Answer : b.id = n.id

(* No id is asked twice, however often and under however many addresses it *)
(* is reported.                                                            *)
AskedOnce == \A id \in Ids : asked[id] <= 1

(* Who is in the answer and fits its address has been asked, and its      *)
(* query got a response: the loop outlasts every query it started, also    *)
(* the ones that were started last.  An id that was banned because its     *)
(* query failed is not in it, under none of the addresses it was reported  *)
(* with.  A node that does not fit its address is returned unasked.        *)
AnswerResponded ==
    found = "KClosest" =>
        \A n \in Answer :
            /\ n.id \notin banned
            /\ IF n \in Valid THEN asked[n.id] = 1 /\ n \in answered
                              ELSE asked[n.id] = 0

(* A bootstrap and a search end, whatever the nodes report, and also if a  *)
(* query fails or its task panics.                                         *)
SearchEnds == <>(found \notin {"ping", "none"})
=============================================================================
