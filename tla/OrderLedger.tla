----------------------------- MODULE OrderLedger -----------------------------
(***************************************************************************)
(* What the order API promises: a ledger on which placing, cancelling and  *)
(* settling an order, and every catalogue write, is one indivisible step   *)
(* on the tables products, orders (with their lines) and payments.  There  *)
(* are no transactions, no locks and no half-finished requests.  Module    *)
(* Orders implements it, with the same three tables.                       *)
(***************************************************************************)
EXTENDS Integers, Sequences, Functions

CONSTANTS
    Requests,         \* names of orders
    Users,            \* their owners
    Products,         \* product ids
    MaxStock,         \* the largest value of the column products.stock
    InitialProducts,  \* the catalogue at the start
    InitialStock,     \* and what it has of each product
    None              \* the owner of an order that was not placed

VARIABLES products, orders, payments

tables == <<products, orders, payments>>

\* Units of product p on a list of order lines.
Units(items, p) ==
    SumFunctionOnSet([n \in DOMAIN items |-> items[n].quantity],
                     {n \in DOMAIN items : items[n].product = p})

\* The shelf when the units of a list of lines leave it (-1) or return (+1).
Move(items, sign) ==
    [p \in Products |-> [products[p] EXCEPT !.stock = @ + sign * Units(items, p)]]

Init ==
    /\ products = [p \in Products |->
            IF p \in InitialProducts
            THEN [state |-> "live", stock |-> InitialStock, price |-> 1]
            ELSE [state |-> "unborn", stock |-> 0, price |-> 0]]
    /\ orders = [o \in Requests |-> [status |-> "none", user |-> None, total |-> 0, items |-> <<>>]]
    /\ payments = [o \in Requests |-> [status |-> "none", amount |-> 0]]

\* An order of at least one line appears with its pending payment; its products
\* are in the catalogue at the prices on the lines, there is enough of each,
\* and that much leaves the shelf.
Place(o) ==
    /\ orders[o].status = "none"
    /\ LET new == orders'[o] IN
        /\ new.status = "pending" /\ new.user \in Users /\ new.items # <<>>
        /\ \A n \in DOMAIN new.items :
            LET p == new.items[n].product IN
            /\ products[p].state = "live"
            /\ products[p].price = new.items[n].price
            /\ Units(new.items, p) \in 1 .. products[p].stock
        /\ orders' = [orders EXCEPT ![o] = new]
        /\ payments' = [payments EXCEPT ![o] = [status |-> "pending", amount |-> new.total]]
        /\ products' = Move(new.items, -1)

\* A pending order is cancelled and all its units return to the shelf.
Cancel(o) ==
    /\ orders[o].status = "pending"
    /\ \A n \in DOMAIN orders[o].items : products[orders[o].items[n].product].state = "live"
    /\ orders' = [orders EXCEPT ![o].status = "cancelled"]
    /\ products' = Move(orders[o].items, 1)
    /\ UNCHANGED payments

\* The provider took the money for a pending order, or refused it.
Settle(o) ==
    /\ orders[o].status = "pending" /\ payments[o].status # "success"
    /\ \/ /\ payments' = [payments EXCEPT ![o].status = "success"]
          /\ orders' = [orders EXCEPT ![o].status = "paid"]
       \/ /\ payments' = [payments EXCEPT ![o].status = "failed"]
          /\ UNCHANGED orders
    /\ UNCHANGED products

\* An administrator adds a product, rewrites one, or deletes one that no order
\* refers to.
Administer(p) ==
    /\ \/ /\ products[p].state \in {"unborn", "live"}
          /\ products'[p].state = "live"
          /\ products'[p].stock \in 0 .. MaxStock
       \/ /\ products[p].state = "live"
          /\ \A o \in Requests : Units(orders[o].items, p) = 0
          /\ products'[p].state = "deleted"
    /\ products' = [products EXCEPT ![p] = products'[p]]
    /\ UNCHANGED <<orders, payments>>

Next ==
    \/ \E o \in Requests : Place(o) \/ Cancel(o) \/ Settle(o)
    \/ \E p \in Products : Administer(p)

Spec == Init /\ [][Next]_tables

=============================================================================
