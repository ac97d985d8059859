------------------------------ MODULE Exchange ------------------------------
(***************************************************************************)
(* Two or more nodes that run this program exchange UDP packets, and other *)
(* implementations may send them anything: Service::recv, handle_received, *)
(* send_message and the send half of query_unbounded of                    *)
(* src/src/messenger/service.rs, with build_query, response_base and       *)
(* handle_query of src/src/node.rs.  What a handler finds in its router,   *)
(* store and tokens is left open here (Server, BucketLookup); which answer *)
(* is waited for is the subject of Messenger.                              *)
(***************************************************************************)
EXTENDS Codec, FiniteSets

CONSTANTS
    Party,      \* nodes that run this program, records [id, me, addr, ro]:
                \* me is the address a node believes to have, addr the one
                \* its packets come from, ro whether it is read only
    MinId,      \* U160::min
    Method,     \* queries that are sent
    Kind,       \* responses that handlers can come up with
    Foreign,    \* KRPC dictionaries that other implementations send
    Outsider,   \* the address they come from
    MaxStarted  \* bound: queries sent and packets from other implementations

(* A UDP address belongs to one socket. *)
ASSUME PartyAssumption ==
    /\ \A p \in Party : p.ro \in BOOLEAN /\ p.addr # Outsider
    /\ \A p, o \in Party : p.addr = o.addr => p = o
ASSUME MethodAssumption == \A q \in Method : IsMethod(q)
ASSUME KindAssumption == \A r \in Kind : IsKind(r)
ASSUME StartedAssumption == MaxStarted \in Nat

VARIABLES
    net,      \* packets on their way, records [from, to, k]
    sent,     \* history: queries in the order they were sent, with their sender
    foreign,  \* number of packets from other implementations
    handled,  \* history: <<query, party, answer>> of every query handled
    got       \* history: <<party, message>> passed to return_result

xvars == <<net, sent, foreign, handled, got>>

Code(e) == [code |-> e]

-----------------------------------------------------------------------------
(* build_query *)
BuildQuery(p, tid, to, method) ==
    [y |-> "q", tid |-> tid, origin |-> [id |-> p.id, addr |-> p.me], destination |-> to,
     requestor |-> Some(p.me), ro |-> p.ro, body |-> method]

(* response_base *)
ResponseBase(p, tid, to) ==
    [tid |-> tid, origin |-> [id |-> p.id, addr |-> p.me], destination |-> to,
     requestor |-> AddrOf(to), ro |-> FALSE]

Reply(p, tid, to, y, body) ==
    LET base == ResponseBase(p, tid, to)
    IN  [y |-> y, tid |-> base.tid, origin |-> base.origin, destination |-> base.destination,
         requestor |-> base.requestor, ro |-> base.ro, body |-> body]

(* Which kinds and errors handle_query may answer a method with. *)
KindsFor(method) ==
    CASE method.m = "ping" -> {"Ok"}
      [] method.m = "find_node" -> {"KNearest"}
      [] method.m = "get_peers" -> {"KNearest", "Peers"}
      [] method.m = "announce_peer" -> {"Ok"}
      [] method.m = "sample_infohashes" -> {"Samples"}
      [] OTHER -> {}

ErrorsFor(method) ==
    CASE method.m \in {"get_peers", "sample_infohashes"} -> {"Server"}
      [] method.m = "announce_peer" -> {"Protocol", "InvalidNodeId", "Server"}
      [] method.m \in {"put", "get"} -> {"MethodUnknown"}
      [] OTHER -> {}

(* The token is an option that find_node leaves empty and get_peers fills. *)
TokenFits(method, r) ==
    r.kind = "KNearest" => (r.token # None <=> method.m = "get_peers")

(* The answer goes to whom the query came from: From<Sender> for Receiver. *)
Answers(p, q) ==
    LET to == ReceiverNode(q.origin)
    IN  IF q.origin.id = p.id
        THEN {Reply(p, q.tid, to, "e", Code("Echo"))}
        ELSE {Reply(p, q.tid, to, "r", r) :
                 r \in {s \in Kind : s.kind \in KindsFor(q.body) /\ TokenFits(q.body, s)}}
             \cup {Reply(p, q.tid, to, "e", Code(e)) : e \in ErrorsFor(q.body)}

(* What send_message puts on the wire: nothing if the message is for Me,   *)
(* or if a node without a handler does not say that it is read only.       *)
Packet(p, m) ==
    {[from |-> p.addr, to |-> a, k |-> ToKmsg(m)] :
        a \in {b \in AnyOf(AddrOf(m.destination)) : m.ro \/ ~p.ro}}

-----------------------------------------------------------------------------
(* A bootstrap pings an address; every other query goes to a known node. *)
QueryTo(o, method) ==
    IF method.m = "ping" THEN ReceiverAddr(o.addr) ELSE ReceiverNode([id |-> o.id, addr |-> o.addr])

(* The send half of query_unbounded; a read only node says so.  Queries    *)
(* are numbered over all parties, so that the history can tell them apart. *)
Ask(p, o, method) ==
    /\ Len(sent) + foreign < MaxStarted
    /\ LET q == BuildQuery(p, Len(sent) + 1, QueryTo(o, method), method)
       IN  /\ sent' = Append(sent, [by |-> p, query |-> q])
           /\ net' = net \cup Packet(p, q)
    /\ UNCHANGED <<foreign, handled, got>>

(* External: another implementation sends a dictionary to a node. *)
Intrude(p, k) ==
    /\ Len(sent) + foreign < MaxStarted
    /\ foreign' = foreign + 1
    /\ net' = net \cup {[from |-> Outsider, to |-> p.addr, k |-> k]}
    /\ UNCHANGED <<sent, handled, got>>

(* External: UDP loses a packet, or nobody listens where it goes. *)
Lose(x) ==
    /\ x \in net
    /\ net' = net \ {x}
    /\ UNCHANGED <<sent, foreign, handled, got>>

(* Message::receive *)
Received(p, x, m) ==
    x \in net /\ x.to = p.addr /\ Parses(x.k) /\ m = FromKmsg(x.from, x.k, MinId)

(* recv: the dictionary cannot be read, not even its tid; it is logged. *)
Unreadable(p, x) ==
    /\ x \in net /\ x.to = p.addr /\ ~Parses(x.k)
    /\ net' = net \ {x}
    /\ UNCHANGED <<sent, foreign, handled, got>>

(* handle_received, a query, and there is a handler. *)
HandleQuery(p, x) ==
    \E m \in {FromKmsg(x.from, x.k, MinId)} :
        /\ Received(p, x, m)
        /\ m.y = "q" /\ Decoded(m.body)
        /\ ~p.ro
        /\ \E r \in Answers(p, m) :
              /\ net' = (net \ {x}) \cup Packet(p, r)
              /\ handled' = handled \cup {<<m, p, r>>}
        /\ UNCHANGED <<sent, foreign, got>>

(* A read only service drops queries, and does not report errors. *)
Drop(p, x) ==
    \E m \in {FromKmsg(x.from, x.k, MinId)} :
        /\ Received(p, x, m)
        /\ p.ro
        /\ m.y = "q" \/ ~Decoded(m.body)
        /\ net' = net \ {x}
        /\ UNCHANGED <<sent, foreign, handled, got>>

HandleErrorPeeking(p, x) ==
    \E m \in {FromKmsg(x.from, x.k, MinId)} :
        /\ Received(p, x, m)
        /\ ~Decoded(m.body)
        /\ ~p.ro
        /\ net' = net \cup
                  Packet(p, Reply(p, m.tid, ReceiverAddr(x.from), "e", Code(m.body.err)))
        /\ UNCHANGED <<sent, foreign, handled, got>>

(* recv: from_kmsg fails, and handle_error answers with the same tid. *)
HandleError(p, x) ==
    \E m \in {FromKmsg(x.from, x.k, MinId)} :
        /\ Received(p, x, m)
        /\ ~Decoded(m.body)
        /\ ~p.ro
        /\ net' = (net \ {x}) \cup
                  Packet(p, Reply(p, m.tid, ReceiverAddr(x.from), "e", Code(m.body.err)))
        /\ UNCHANGED <<sent, foreign, handled, got>>

(* handle_received, a response or an error. *)
ReturnResult(p, x) ==
    \E m \in {FromKmsg(x.from, x.k, MinId)} :
        /\ Received(p, x, m)
        /\ m.y # "q" /\ Decoded(m.body)
        /\ got' = got \cup {<<p, m>>}
        /\ net' = net \ {x}
        /\ UNCHANGED <<sent, foreign, handled>>

XInit == net = {} /\ sent = <<>> /\ foreign = 0 /\ handled = {} /\ got = {}

Deliver(p, x) ==
    \/ Unreadable(p, x) \/ HandleQuery(p, x) \/ Drop(p, x) \/ HandleError(p, x)
    \/ ReturnResult(p, x)

XNext ==
    \/ \E p, o \in Party, method \in Method : p # o /\ Ask(p, o, method)
    \/ \E p \in Party, k \in Foreign : Intrude(p, k)
    \/ \E x \in net : Lose(x)
    \/ \E p \in Party, x \in net : Deliver(p, x)

(* A packet on its way arrives or is lost, and a node that gets one        *)
(* handles it.                                                             *)
XSpec ==
    XInit /\ [][XNext]_xvars
    /\ WF_xvars(\E x \in net : Lose(x) \/ \E p \in Party : Deliver(p, x))

-----------------------------------------------------------------------------
(* What a node handles is what another node asked, argument for argument,  *)
(* with the announced port, and it is put down to the address the packet   *)
(* came from, though the query itself claims another one.  A read only     *)
(* node handles nothing.                                                   *)
RequestFaithful ==
    \A h \in handled : h[1].origin.addr # Outsider =>
        ~h[2].ro /\
        \E i \in DOMAIN sent :
            /\ h[1].tid = i
            /\ h[1].body = sent[i].query.body
            /\ h[1].ro = sent[i].by.ro
            /\ h[1].origin = [id |-> sent[i].by.id, addr |-> sent[i].by.addr]

(* What comes back is what the handler answered: no kind of response turns *)
(* into another on the way, empty lists included, each carries the tid of  *)
(* its query back to its sender, and a response tells the sender the       *)
(* address that its packets come from.                                     *)
ReplyFaithful ==
    \A g \in got : g[2].origin.addr # Outsider /\ g[2].tid \in DOMAIN sent =>
        \E h \in handled :
            /\ h[1].tid = g[2].tid /\ sent[g[2].tid].by = g[1]
            /\ h[3].y = g[2].y /\ h[3].body = g[2].body
            /\ g[2].requestor = IF g[2].y = "r" THEN Some(g[1].addr) ELSE None

(* Nodes that run this program understand each other: only what came from  *)
(* elsewhere is answered with a protocol error.                            *)
AllUnderstood ==
    \A x \in net : x.from # Outsider => Parses(x.k) /\ Decoded(FromBody(x.from, x.k))

(* However malformed a packet was, the exchange it starts comes to an end: *)
(* error reports are not answered with error reports for ever.             *)
Settles == <>[](net = {})
=============================================================================
