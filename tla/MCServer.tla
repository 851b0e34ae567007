------------------------------- MODULE MCServer -------------------------------
(***************************************************************************)
(* An instance of Server for TLC: one cart, for the one unit there is, and *)
(* an empty one; cancels and payments are all of one order.                *)
(***************************************************************************)
EXTENDS Server

ServerCarts == {<<>>, <<[product |-> 1, quantity |-> 1]>>}

ServerInputs ==
    [op : {"create"}, user : Users, cart : ServerCarts]
    \cup [op : {"cancel", "pay"}, user : Users, order : {CHOOSE r \in Requests : TRUE}]
=============================================================================
