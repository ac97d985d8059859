------------------------------- MODULE Table --------------------------------
(***************************************************************************)
(* What the routing table promises, without buckets, locks or splits: it   *)
(* keeps up to KSize nodes for each length of the prefix that their ids    *)
(* share with OwnId.  A known id is not stored twice and keeps its first   *)
(* address; a newcomer is dropped only when its class is full; an id is    *)
(* forgotten only when it is removed.  A call takes effect when it returns.*)
(***************************************************************************)
EXTENDS U160, FiniteSets

CONSTANTS Node, OwnId, KSize

VARIABLES
    stored,   \* the nodes of the table
    call      \* the operation in progress, <<op, node>>, or <<>>

tvars == <<stored, call>>

(* Length of the common prefix with OwnId; OwnId itself goes with the last *)
(* class.                                                                  *)
Class(id) ==
    CHOOSE i \in Bit : /\ \A j \in Bit : j < i => id[j] = OwnId[j]
                       /\ id[i] # OwnId[i] \/ i = MaxBit

Knows(id) == \E m \in stored : m.id = id

Full(id) == Cardinality({m \in stored : Class(m.id) = Class(id)}) >= KSize

Call(op, n) ==
    /\ call = <<>>
    /\ call' = <<op, n>>
    /\ UNCHANGED stored

Added(n) == IF Knows(n.id) \/ Full(n.id) THEN stored ELSE stored \cup {n}

Removed(n) == {m \in stored : m.id # n.id}

ReturnCall ==
    /\ call # <<>>
    /\ call' = <<>>
    /\ stored' = IF call[1] = "add" THEN Added(call[2]) ELSE Removed(call[2])

TableInit == stored = {} /\ call = <<>>

TableNext ==
    \/ \E op \in {"add", "remove"}, n \in Node : Call(op, n)
    \/ ReturnCall

TableSpec == TableInit /\ [][TableNext]_tvars /\ WF_tvars(ReturnCall)
=============================================================================
