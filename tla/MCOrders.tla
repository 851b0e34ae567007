------------------------------- MODULE MCOrders -------------------------------
(***************************************************************************)
(* Instances of Orders for TLC.  The constants that are sets of requests'  *)
(* inputs are defined here; the .cfg files choose among them.              *)
(***************************************************************************)
EXTENDS Orders, TLC

L(p, q) == [product |-> p, quantity |-> q]
Create(u, cart) == [op |-> "create", user |-> u, cart |-> cart]
Catalog(o, p, s, x) == [op |-> o, product |-> p, stock |-> s, price |-> x]

\* Any user may try to cancel or to pay any order.
OnOrders(ops) == [op : ops, user : Users, order : Requests]

AnyUser == CHOOSE u \in Users : TRUE

\* Two products in opposite orders, a product on two lines, too much stock, and
\* a catalogue write of each kind.
CoreInputs ==
    {Create(AnyUser, c) :
        c \in {<<L(1, 1), L(2, 1)>>, <<L(2, 1), L(1, 2)>>, <<L(1, 1), L(1, 1)>>}}
    \cup OnOrders({"cancel", "pay"})
    \cup {Catalog("addProduct", 3, 1, 1), Catalog("patchProduct", 1, 0, 2),
          Catalog("deleteProduct", 2, 0, 0)}

\* Carts at the edges of the validation and of the widths.  In this instance
\* int32 counts modulo 8 and int64 modulo 64: -7, 9 and -15 are all 1 to int32,
\* and -15 times a price of 3 is 19 to int64.
EdgeCarts ==
    {<<>>, <<L(1, 1)>>, <<L(1, 1), L(1, 2)>>, <<L(2, 1), L(1, 9), L(1, -7)>>,
     <<L(1, 3), L(1, -2)>>, <<L(1, -15)>>, <<L(2, 4)>>, <<L(3, 1), L(1, 1)>>}

\* A product that is created, products that are deleted, stock beyond int32, and
\* bodies the validator refuses.
CatalogWrites ==
    {Catalog("addProduct", 3, s, 1) : s \in {2, 5}}
    \cup {Catalog("patchProduct", 1, 0, 3), Catalog("patchProduct", 1, 3, 0),
          Catalog("patchProduct", 1, 5, 0), Catalog("patchProduct", 3, 1, 1)}
    \cup {Catalog("deleteProduct", p, 0, 0) : p \in {1, 3}}
    \cup {Catalog("addProduct", 3, 2, 0), Catalog("patchProduct", 1, -7, 0)}

EdgeInputs ==
    {Create(u, c) : u \in Users, c \in EdgeCarts}
    \cup OnOrders({"cancel", "pay"})
    \cup CatalogWrites

PayInputs == {Create(AnyUser, <<L(1, 1)>>)} \cup OnOrders({"cancel", "pay"})

\* Stock is one short of the column's maximum, an order takes one unit and a
\* PATCH refills the shelf.
RefillInputs ==
    {Create(AnyUser, <<L(1, 1)>>), Catalog("patchProduct", 1, MaxStock, 0)}
    \cup OnOrders({"cancel"})

RequestSymmetry == Permutations(Requests)
=============================================================================
