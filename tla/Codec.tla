-------------------------------- MODULE Codec --------------------------------
(***************************************************************************)
(* Messages and their KRPC form: Message::to_kmsg and Message::from_kmsg   *)
(* of src/src/messenger/message/message_impl.rs, with the dictionaries of  *)
(* kmsg.rs and kresponse.rs and the byte strings of wrappers.rs.           *)
(*                                                                         *)
(* Bencoding itself (bt_bencode) is external: a dictionary is the record   *)
(* of its keys, and a key that serde skips is None.  A byte string is kept *)
(* as what its decoder looks at: the length and the value of an id, the    *)
(* length of an address, the whole chunks of a list and the bytes left     *)
(* over.                                                                   *)
(***************************************************************************)
EXTENDS Integers, SequencesExt

(* Option<T> is a sequence of at most one element. *)
None == <<>>

Some(x) == <<x>>

The(o) == o[1]

(* Err(e) of a decoder *)
Err(e) == [err |-> e]

Decoded(b) == "err" \notin DOMAIN b

-----------------------------------------------------------------------------
(* serde_extra: identifiers and booleans *)

IdBytes(id) == [len |-> 20, val |-> id]

(* A short string is filled up with zeros in front: the number is the same. *)
ReadId(b) == b.val

IdReadable(b) == b.len <= 20

IntFromBool(b) == IF b THEN 1 ELSE 0

BoolReadable(i) == i \in {0, 1}

-----------------------------------------------------------------------------
(* SocketAddrWrapper, CompactIPv4NodeInfo, CompactInfoHashes and Error *)

AddrBytes(o) ==
    IF o = None THEN [len |-> 0]
    ELSE [len |-> IF The(o).v6 THEN 18 ELSE 6, addr |-> The(o)]

(* Any other length reads as no address at all. *)
ReadAddr(b) == IF b.len \in {6, 18} THEN Some(b.addr) ELSE None

(* ip4_to_bytes and ip4_from_bytes: 20 bytes of id, 6 of address.  Nodes of *)
(* a list have IPv4 addresses.                                             *)
NodeBytes(n) == [id |-> IdBytes(n.id), addr |-> AddrBytes(Some(n.addr))]

ReadNode(c) == [id |-> ReadId(c.id), addr |-> The(ReadAddr(c.addr))]

NodesBytes(ns) == [chunks |-> [i \in DOMAIN ns |-> NodeBytes(ns[i])], left |-> 0]

(* chunks_exact: what is left over is dropped. *)
ReadNodes(b) == [i \in DOMAIN b.chunks |-> ReadNode(b.chunks[i])]

HashesBytes(hs) == [chunks |-> [i \in DOMAIN hs |-> IdBytes(hs[i])], left |-> 0]

ReadHashes(b) == [i \in DOMAIN b.chunks |-> ReadId(b.chunks[i])]

(* An error is the list of its code and its text; the text is left out. *)
ErrorList(e) == <<e.code>>

(* A code that is missing is the default one, zero. *)
ReadError(l) == [code |-> IF l = <<>> THEN "0" ELSE l[1]]

-----------------------------------------------------------------------------
(* Receiver, and where a message to it is sent *)

ReceiverNode(n) == [to |-> "Node", node |-> n]

ReceiverAddr(a) == [to |-> "Addr", addr |-> a]

ReceiverMe == [to |-> "Me"]

AddrOf(d) ==
    CASE d.to = "Node" -> Some(d.node.addr)
      [] d.to = "Addr" -> Some(d.addr)
      [] d.to = "Me" -> None

-----------------------------------------------------------------------------
(* What the two enums of message.rs can hold *)

(* A Vec, or an Option. *)
IsList(s) == s \in Seq(Range(s))

IsNodes(ns) ==
    IsList(ns) /\ \A n \in Range(ns) : n = [id |-> n.id, addr |-> n.addr]

(* QueryMethod *)
IsMethod(q) ==
    \/ q.m \in {"ping", "get"} /\ q = [m |-> q.m]
    \/ q.m \in {"find_node", "sample_infohashes"} /\ q = [m |-> q.m, target |-> q.target]
    \/ q.m = "get_peers" /\ q = [m |-> q.m, info_hash |-> q.info_hash]
    \/ /\ q.m = "announce_peer"
       /\ q = [m |-> q.m, info_hash |-> q.info_hash, token |-> q.token, port |-> q.port]
    \/ q.m = "put" /\ q = [m |-> q.m, v |-> q.v]

(* ResponseKind *)
IsKind(r) ==
    \/ r = [kind |-> "Ok"]
    \/ /\ r.kind = "KNearest" /\ IsNodes(r.nodes)
       /\ r = [kind |-> r.kind, nodes |-> r.nodes, token |-> r.token]
    \/ /\ r.kind = "Peers" /\ IsList(r.peers) /\ IsList(r.nodes)
       /\ \A ns \in Range(r.nodes) : IsNodes(ns)
       /\ r = [kind |-> r.kind, peers |-> r.peers, token |-> r.token, nodes |-> r.nodes]
    \/ r.kind = "Data" /\ r = [kind |-> r.kind, v |-> r.v]
    \/ /\ r.kind = "Samples" /\ IsNodes(r.nodes) /\ IsList(r.samples)
       /\ r = [kind |-> r.kind, nodes |-> r.nodes, samples |-> r.samples,
               available |-> r.available, interval |-> r.interval]

-----------------------------------------------------------------------------
(* to_kmsg *)

NoArgs(id) == [id |-> IdBytes(id), target |-> None, info_hash |-> None, port |-> None,
               implied_port |-> None, token |-> None, v |-> None]

ToArgs(id, q) ==
    CASE q.m \in {"find_node", "sample_infohashes"} ->
            [NoArgs(id) EXCEPT !.target = Some(IdBytes(q.target))]
      [] q.m = "get_peers" -> [NoArgs(id) EXCEPT !.info_hash = Some(IdBytes(q.info_hash))]
      [] q.m = "announce_peer" ->
            [NoArgs(id) EXCEPT !.info_hash = Some(IdBytes(q.info_hash)),
                               !.token = Some(q.token), !.port = Some(q.port)]
      [] q.m = "put" -> [NoArgs(id) EXCEPT !.v = q.v]
      [] OTHER -> NoArgs(id)

NoResponse(id) == [id |-> IdBytes(id), nodes |-> None, token |-> None, values |-> None,
                   v |-> None, samples |-> None, num |-> None, interval |-> None]

ToResponse(id, r) ==
    CASE r.kind = "Ok" -> NoResponse(id)
      [] r.kind = "KNearest" ->
            [NoResponse(id) EXCEPT !.nodes = Some(NodesBytes(r.nodes)), !.token = r.token]
      [] r.kind = "Peers" ->
            [NoResponse(id) EXCEPT
                !.values = Some([i \in DOMAIN r.peers |-> AddrBytes(Some(r.peers[i]))]),
                !.token = Some(r.token),
                !.nodes = [i \in DOMAIN r.nodes |-> NodesBytes(r.nodes[i])]]
      [] r.kind = "Data" -> [NoResponse(id) EXCEPT !.v = r.v]
      [] r.kind = "Samples" ->
            [NoResponse(id) EXCEPT !.nodes = Some(NodesBytes(r.nodes)),
                                   !.samples = Some(HashesBytes(r.samples)),
                                   !.num = Some(r.available), !.interval = Some(r.interval)]

ErrorKeyMissing(m) == None

ErrorKey(m) == IF m.y = "e" THEN Some(ErrorList(m.body)) ELSE None

(* A query tells the address its sender believes to have, a response the   *)
(* one its sender answers to, an error none.                               *)
ToKmsg(m) ==
    [t  |-> m.tid, y |-> m.y, ro |-> Some(IntFromBool(m.ro)),
     ip |-> Some(AddrBytes(CASE m.y = "q" -> Some(m.origin.addr)
                             [] m.y = "r" -> m.requestor
                             [] m.y = "e" -> None)),
     q  |-> IF m.y = "q" THEN Some(m.body.m) ELSE None,
     a  |-> IF m.y = "q" THEN Some(ToArgs(m.origin.id, m.body)) ELSE None,
     r  |-> IF m.y = "r" THEN Some(ToResponse(m.origin.id, m.body)) ELSE None,
     e  |-> ErrorKey(m)]

-----------------------------------------------------------------------------
(* from_kmsg *)

OrElse(o, p) == IF o # None THEN o ELSE p

OrZero(o) == IF o # None THEN The(o) ELSE 0

PortImplied(a, from) == from.port

(* implied_port, or no port: the one the packet came from. *)
PortOf(a, from) ==
    IF a.implied_port = Some(1) \/ a.port = None THEN from.port ELSE The(a.port)

(* The query of a dictionary "a" under the method q. *)
FromArgs(q, a, from) ==
    CASE q \in {"ping", "get"} -> [m |-> q]
      [] q \in {"find_node", "sample_infohashes"} ->
            IF a.target = None THEN Err("Protocol") ELSE [m |-> q, target |-> ReadId(The(a.target))]
      [] q = "get_peers" ->
            IF a.info_hash = None THEN Err("Protocol") ELSE [m |-> q, info_hash |-> ReadId(The(a.info_hash))]
      [] q = "announce_peer" ->
            IF None \in {a.info_hash, a.token} THEN Err("Protocol")
            ELSE [m |-> q, info_hash |-> ReadId(The(a.info_hash)), token |-> The(a.token), port |-> PortOf(a, from)]
      [] q = "put" -> [m |-> q, v |-> a.v]
      [] OTHER ->   \* libtorrent: an unknown method with a target is a find_node
            LET target == OrElse(a.info_hash, a.target)
            IN  IF target = None THEN Err("MethodUnknown")
                ELSE [m |-> "find_node", target |-> ReadId(The(target))]

FromResponseNodesFirst(r) ==
    IF r.nodes # None
    THEN [kind |-> "KNearest", nodes |-> ReadNodes(The(r.nodes)), token |-> r.token]
    ELSE [kind |-> "Ok"]

(* The kind of a dictionary "r" follows from the keys that are there. *)
FromResponse(r) ==
    IF r.values # None THEN
        IF r.token = None THEN Err("Protocol")
        ELSE [kind |-> "Peers", token |-> The(r.token),
              peers |-> FlattenSeq([i \in DOMAIN The(r.values) |-> ReadAddr(The(r.values)[i])]),
              nodes |-> [i \in DOMAIN r.nodes |-> ReadNodes(r.nodes[i])]]
    ELSE IF r.v # None THEN [kind |-> "Data", v |-> r.v]
    ELSE IF r.samples # None THEN
        IF r.nodes = None THEN Err("Protocol")
        ELSE [kind |-> "Samples", nodes |-> ReadNodes(The(r.nodes)),
              samples |-> ReadHashes(The(r.samples)),
              available |-> OrZero(r.num), interval |-> OrZero(r.interval)]
    ELSE IF r.nodes # None
    THEN [kind |-> "KNearest", nodes |-> ReadNodes(The(r.nodes)), token |-> r.token]
    ELSE [kind |-> "Ok"]

AnyOf(o) == {o[i] : i \in DOMAIN o}

(* bt_bencode::from_slice succeeds: no id is too long, booleans are bits.   *)
(* One such value anywhere, and nothing of the dictionary is read.         *)
Parses(k) ==
    /\ \A i \in AnyOf(k.ro) : BoolReadable(i)
    /\ \A a \in AnyOf(k.a) :
          /\ \A b \in {a.id} \cup AnyOf(a.target) \cup AnyOf(a.info_hash) : IdReadable(b)
          /\ \A i \in AnyOf(a.implied_port) : BoolReadable(i)
    /\ \A r \in AnyOf(k.r) : IdReadable(r.id)

(* What the message says, or the error that from_kmsg returns. *)
FromBody(from, k) ==
    CASE k.y = "e" -> IF k.e = None THEN Err("Protocol") ELSE ReadError(The(k.e))
      [] k.y = "q" -> IF k.a = None \/ k.q = None THEN Err("Protocol")
                      ELSE FromArgs(The(k.q), The(k.a), from)
      [] k.y = "r" -> IF k.r = None THEN Err("Protocol") ELSE FromResponse(The(k.r))
      [] OTHER -> Err("Protocol")

(* An error does not say who sent it. *)
FromId(k, min) ==
    CASE k.y = "q" /\ k.a # None -> ReadId(The(k.a).id)
      [] k.y = "r" /\ k.r # None -> ReadId(The(k.r).id)
      [] OTHER -> min

(* The sender's address is where the packet came from, whatever it claims. *)
FromKmsg(from, k, min) ==
    [y |-> k.y, tid |-> k.t,
     origin |-> [id |-> FromId(k, min), addr |-> from],
     requestor |-> IF k.ip = None THEN None ELSE ReadAddr(The(k.ip)),
     destination |-> ReceiverMe,
     ro |-> k.ro = Some(1), body |-> FromBody(from, k)]
=============================================================================
