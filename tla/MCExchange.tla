----------------------------- MODULE MCExchange -----------------------------
(***************************************************************************)
(* A node that knows its address, one behind a NAT that does not, and a    *)
(* read only one.  Other implementations send what the tests of the        *)
(* repository and BEP 5, 42, 44 and 51 know of, and dictionaries with a    *)
(* key missing.                                                            *)
(***************************************************************************)
EXTENDS Exchange

Addr(host, port) == [host |-> host, port |-> port, v6 |-> FALSE]

Addr6(host, port) == [host |-> host, port |-> port, v6 |-> TRUE]

Away == Addr("o", 9)

Parties ==
    {[id |-> 1, me |-> Addr("a", 1), addr |-> Addr("a", 1), ro |-> FALSE],
     [id |-> 2, me |-> Addr("b", 2), addr |-> Addr("n", 22), ro |-> FALSE],
     [id |-> 3, me |-> Addr("c", 3), addr |-> Addr("c", 3), ro |-> TRUE]}

Methods ==
    {[m |-> "ping"], [m |-> "find_node", target |-> 5], [m |-> "get_peers", info_hash |-> 6],
     [m |-> "announce_peer", info_hash |-> 6, token |-> "tok", port |-> 7],
     [m |-> "sample_infohashes", target |-> 5], [m |-> "put", v |-> Some("data")], [m |-> "get"]}

OneNode == <<[id |-> 4, addr |-> Addr("d", 4)]>>

Kinds ==
    {[kind |-> "Ok"]} \cup
    [kind : {"KNearest"}, nodes : {<<>>, OneNode}, token : {None, Some("tok")}] \cup
    [kind : {"Peers"}, peers : {<<Addr("p", 8), Addr6("q", 8)>>}, token : {"tok"},
     nodes : {Some(<<>>), Some(OneNode)}] \cup
    {[kind |-> "Samples", nodes |-> <<>>, samples |-> <<>>, available |-> 0, interval |-> 0],
     [kind |-> "Samples", nodes |-> OneNode, samples |-> <<6>>, available |-> 1, interval |-> 5]}

(* A dictionary with nothing but the keys every message has. *)
Bare(y) == [t |-> 77, y |-> y, ro |-> None, ip |-> None, q |-> None, a |-> None,
            r |-> None, e |-> None]

Asks(q, a) == [Bare("q") EXCEPT !.q = Some(q), !.a = Some(a)]

Says(r) == [Bare("r") EXCEPT !.r = Some(r)]

Other == NoArgs(4)

Hash == IdBytes(6)

(* Ids of two bytes, as some nodes send them, and ids that are too long. *)
Short == [len |-> 2, val |-> 5]

Long == [len |-> 21, val |-> 5]

Dictionaries ==
    {Bare("q"), Bare("r"), Bare("e"), Bare("x"),
     [Bare("e") EXCEPT !.e = Some(<<>>), !.ip = Some([len |-> 4])],
     [Bare("q") EXCEPT !.a = Some(Other)],
     Asks("ping", NoArgs(1)),                     \* our own id
     Asks("find_node", Other), Asks("get_peers", Other),
     Asks("announce_peer", [Other EXCEPT !.info_hash = Some(Hash), !.token = Some("tok")]),
     Asks("announce_peer", [Other EXCEPT !.info_hash = Some(Hash)]),
     Asks("announce_peer", [Other EXCEPT !.info_hash = Some(Hash), !.token = Some("tok"),
                                         !.port = Some(7), !.implied_port = Some(1)]),
     Asks("ping", [Other EXCEPT !.id = Long]), [Asks("ping", Other) EXCEPT !.ro = Some(2)],
     Asks("ping", [Other EXCEPT !.id = Short]), Says([NoResponse(4) EXCEPT !.id = Long]),
     Asks("vote", Other), Asks("vote", [Other EXCEPT !.target = Some(Short)]),
     Says([NoResponse(4) EXCEPT !.values = Some(<<[len |-> 4]>>)]),
     Says([NoResponse(4) EXCEPT !.values = Some(<<[len |-> 4]>>), !.token = Some("tok")]),
     Says([NoResponse(4) EXCEPT !.v = Some("data")]),
     Says([NoResponse(4) EXCEPT !.samples = Some(HashesBytes(<<6>>))]),
     Says([NoResponse(4) EXCEPT !.nodes = Some([NodesBytes(OneNode) EXCEPT !.left = 9])])}
=============================================================================
