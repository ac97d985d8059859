------------------------------ MODULE MCServer ------------------------------
(* Two senders at different addresses, one of them with an id that does     *)
(* not fit its address, and a query of our own that came back.              *)
EXTENDS Server

Senders ==
    {[id |-> 1, ip |-> "a", valid |-> TRUE], [id |-> 2, ip |-> "b", valid |-> FALSE],
     [id |-> 0, ip |-> "a", valid |-> TRUE]}
=============================================================================
