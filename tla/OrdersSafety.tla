----------------------------- MODULE OrdersSafety -----------------------------
(***************************************************************************)
(* What follows from the inductive invariant of OrdersProofs: the order of *)
(* the locks, the finality of an order's status, the foreign key, and, in  *)
(* the absence of faults, that an order is charged at most once.  And what *)
(* a client may rely on: the prices of an order are the catalogue's at its *)
(* commit, and what a request was told agrees with the tables for ever     *)
(* after.  These two need ClientInv besides: what a request in the middle  *)
(* of its transaction remembers (its price snapshot, whose order it works  *)
(* on) must still be true of the rows it locked.                           *)
(***************************************************************************)
EXTENDS OrdersProofs

-----------------------------------------------------------------------------
(* Deadlock freedom.                                                       *)

LEMMA WaitsAscendState == TypeOK /\ Inv => WaitsAscend
<1> SUFFICES ASSUME TypeOK, Inv, NEW r \in Requests
             PROVE  /\ \A p \in AwaitsProduct(r) :
                        productLock[p] # r => \A q \in Holds(productLock, r) : q < p
                    /\ AwaitsPayment(r) # {} =>
                        Holds(productLock, r) = {} /\ Holds(paymentLock, r) = {}
                    /\ AwaitsOrder(r) # {} => /\ Holds(productLock, r) = {}
                                              /\ Holds(paymentLock, r) = {}
                                              /\ Holds(orderLock, r) = {}
    BY DEF WaitsAscend
<1>a. LockOK(r)
    BY DEF Inv, LockInv
<1>b. \A q \in Holds(productLock, r) : q \in Products /\ q \in Int /\ productLock[q] = r
    BY CatalogAssumption DEF TypeOK, Holds
<1>1. ASSUME NEW p \in AwaitsProduct(r), productLock[p] # r, NEW q \in Holds(productLock, r)
      PROVE  q < p
    <2>1. CASE pc[r] = "lockProducts"
        <3>1. p \in todo[r]
            BY <1>1, <2>1 DEF AwaitsProduct
        <3> QED BY <1>a, <1>b, <2>1, <3>1 DEF LockOK
    <2>2. CASE pc[r] = "insertItems"
        <3>1. p \in ProductsOf(input[r].cart)
            BY <1>1, <2>2 DEF AwaitsProduct, ProductsOf, Inv, TxInv
        <3> QED BY <1>1, <1>a, <2>2, <3>1 DEF LockOK
    <2>3. CASE pc[r] = "restore"
        <3>1. input[r].order \in Requests
            BY <2>3, OrderOf DEF CancelPCs
        <3>2. PICK n \in todo[r] : p = orders[input[r].order].items[n].product
            BY <1>1, <2>3 DEF AwaitsProduct
        <3>3. n \in DOMAIN orders[input[r].order].items
            BY <2>3 DEF Inv, TxInv
        <3>4. p \in Products /\ p \in Int
            BY <3>1, <3>2, <3>3, ItemTypes
        <3>5. q <= p
            BY <1>a, <1>b, <2>3, <3>2 DEF LockOK
        <3> QED BY <1>1, <1>b, <3>4, <3>5
    <2> QED BY <1>1, <2>1, <2>2, <2>3 DEF AwaitsProduct
<1>2. ASSUME AwaitsPayment(r) # {}
      PROVE  Holds(productLock, r) = {} /\ Holds(paymentLock, r) = {}
    <2>1. pc[r] = "payLockPayment"
        BY <1>2 DEF AwaitsPayment
    <2> QED BY <1>a, <2>1 DEF LockOK, Holds, TypeOK
<1>3. ASSUME AwaitsOrder(r) # {}
      PROVE  /\ Holds(productLock, r) = {}
             /\ Holds(paymentLock, r) = {}
             /\ Holds(orderLock, r) = {}
    <2>1. pc[r] \in {"cancelLock", "payLockOrder"}
        BY <1>3 DEF AwaitsOrder
    <2> QED BY <1>a, <2>1 DEF LockOK, HoldsNothing, Holds, TypeOK
<1> QED BY <1>1, <1>2, <1>3

\* The locks are taken in one global order, whatever carts are ordered and
\* cancelled at the same time.
THEOREM LocksAscend == Spec => []WaitsAscend
BY WaitsAscendState, Invariance, PTL

\* The rows a statement waits for are rows of products.
LEMMA AwaitsProducts ==
    ASSUME TypeOK, Inv, NEW r \in Requests
    PROVE  AwaitsProduct(r) \subseteq Products
<1>1. CASE pc[r] = "lockProducts"
    <2>1. input[r] \in Inputs /\ input[r].op = "create" /\ todo[r] \subseteq ProductsOf(input[r].cart)
        BY <1>1 DEF Inv, TxInv, CreatePCs, CreateInputs
    <2> QED BY <1>1, <2>1, QuantityType DEF AwaitsProduct
<1>2. CASE pc[r] = "insertItems"
    <2>1. input[r] \in Inputs /\ input[r].op = "create" /\ todo[r] \subseteq DOMAIN input[r].cart
        BY <1>2 DEF Inv, TxInv, CreatePCs, CreateInputs
    <2>2. ProductsOf(input[r].cart) \subseteq Products
        BY <2>1, QuantityType
    <2> QED BY <1>2, <2>1, <2>2 DEF AwaitsProduct, ProductsOf
<1>3. CASE pc[r] = "restore"
    <2>1. input[r].order \in Requests
        BY <1>3, OrderOf DEF CancelPCs
    <2>2. todo[r] \subseteq DOMAIN orders[input[r].order].items
        BY <1>3 DEF Inv, TxInv
    <2> QED BY <1>3, <2>1, <2>2, ItemTypes DEF AwaitsProduct
<1> QED BY <1>1, <1>2, <1>3 DEF AwaitsProduct

\* Were everyone in a group waiting for another of the group, someone would wait
\* for a product; of the products waited for, the holder of the greatest would
\* wait for a greater one.
LEMMA NoWaitCycleState ==
    ASSUME TypeOK, Inv, IsFiniteSet(Products)
    PROVE  NoWaitCycle
<1> SUFFICES ASSUME NEW S \in SUBSET Requests, S # {},
                    \A r \in S : \E s \in S : WaitsFor(r, s)
             PROVE  FALSE
    BY DEF NoWaitCycle
<1> DEFINE X == {p \in Products : productLock[p] \in S
                                  /\ \E r \in S : p \in AwaitsProduct(r) /\ productLock[p] # r}
           OnProduct(r) == \E p \in X : p \in AwaitsProduct(r) /\ productLock[p] # r
<1>1. WaitsAscend
    BY WaitsAscendState
<1>2. ASSUME NEW r \in S, AwaitsOrder(r) = {}, AwaitsPayment(r) = {}
      PROVE  OnProduct(r)
    <2>1. PICK s \in S : WaitsFor(r, s)
        OBVIOUS
    <2>2. PICK p \in AwaitsProduct(r) : productLock[p] = s /\ r # s
        BY <1>2, <2>1 DEF WaitsFor
    <2>3. p \in Products
        BY AwaitsProducts
    <2> QED BY <2>2, <2>3
<1>3. ASSUME NEW r \in S, Holds(productLock, r) # {} \/ Holds(paymentLock, r) # {}
      PROVE  OnProduct(r)
    BY <1>1, <1>2, <1>3 DEF WaitsAscend
<1>4. X # {}
    <2>1. PICK r \in S : TRUE
        OBVIOUS
    <2>2. CASE AwaitsOrder(r) # {}
        <3>1. PICK s \in S : WaitsFor(r, s)
            OBVIOUS
        <3>2. CASE \E o \in AwaitsOrder(r) : orderLock[o] = s
            <4>1. input[r].order \in Requests /\ orderLock[input[r].order] = s
                BY <3>2, OrderOf DEF AwaitsOrder, CancelPCs, PayPCs
            <4>2. Holds(orderLock, s) # {}
                BY <4>1 DEF Holds, TypeOK
            <4>3. AwaitsOrder(s) = {}
                BY <1>1, <4>2 DEF WaitsAscend
            <4>4. CASE AwaitsPayment(s) = {}
                BY <1>2, <4>3, <4>4
            <4>5. CASE AwaitsPayment(s) # {}
                <5>1. PICK t \in S : WaitsFor(s, t)
                    OBVIOUS
                <5>2. pc[s] = "payLockPayment"
                    BY <4>5 DEF AwaitsPayment
                <5>3. AwaitsProduct(s) = {} /\ AwaitsPayment(s) = {input[s].order}
                    BY <5>2 DEF AwaitsProduct, AwaitsPayment
                <5>4. paymentLock[input[s].order] = t
                    BY <5>1, <5>3, <4>3 DEF WaitsFor
                <5>5. input[s].order \in Requests
                    BY <5>2, OrderOf DEF PayPCs
                <5>6. Holds(paymentLock, t) # {}
                    BY <5>4, <5>5 DEF Holds, TypeOK
                <5> QED BY <1>3, <5>6
            <4> QED BY <4>4, <4>5
        <3>3. CASE ~(\E o \in AwaitsOrder(r) : orderLock[o] = s)
            <4>1. pc[r] \in {"cancelLock", "payLockOrder"}
                BY <2>2 DEF AwaitsOrder
            <4>2. AwaitsProduct(r) = {} /\ AwaitsPayment(r) = {}
                BY <4>1 DEF AwaitsProduct, AwaitsPayment
            <4> QED BY <3>1, <3>3, <4>2 DEF WaitsFor
        <3> QED BY <3>2, <3>3
    <2>3. CASE AwaitsOrder(r) = {} /\ AwaitsPayment(r) # {}
        <3>1. PICK s \in S : WaitsFor(r, s)
            OBVIOUS
        <3>2. pc[r] = "payLockPayment"
            BY <2>3 DEF AwaitsPayment
        <3>3. AwaitsProduct(r) = {} /\ AwaitsPayment(r) = {input[r].order}
            BY <3>2 DEF AwaitsProduct, AwaitsPayment
        <3>4. paymentLock[input[r].order] = s /\ input[r].order \in Requests
            BY <2>3, <3>1, <3>2, <3>3, OrderOf DEF WaitsFor, PayPCs
        <3>5. Holds(paymentLock, s) # {}
            BY <3>4 DEF Holds, TypeOK
        <3> QED BY <1>3, <3>5
    <2>4. CASE AwaitsOrder(r) = {} /\ AwaitsPayment(r) = {}
        BY <1>2, <2>4
    <2> QED BY <2>2, <2>3, <2>4
<1>5. IsFiniteSet(X) /\ X \subseteq Int
    BY FS_Subset, CatalogAssumption
<1>6. PICK p \in X : \A q \in X : q <= p
    <2> HIDE DEF X
    <2> QED BY <1>4, <1>5, Greatest
<1>7. PICK s \in S : productLock[p] = s
    OBVIOUS
<1>8. p \in Holds(productLock, s)
    BY <1>7 DEF Holds, TypeOK
<1>9. PICK q \in X : q \in AwaitsProduct(s) /\ productLock[q] # s
    BY <1>3, <1>8
<1>10. p < q
    BY <1>1, <1>8, <1>9 DEF WaitsAscend
<1> QED BY <1>5, <1>6, <1>10

\* Deadlock freedom for any number of concurrent creates, cancels and payments
\* over any finite catalogue: no group of transactions waits in a circle.
THEOREM DeadlockFreedom ==
    ASSUME IsFiniteSet(Products)
    PROVE  Spec => []NoWaitCycle
<1>1. TypeOK /\ Inv => NoWaitCycle
    BY NoWaitCycleState
<1> QED BY <1>1, Invariance, PTL

-----------------------------------------------------------------------------
(* Finality.                                                               *)

LEMMA OrderStepFrame ==
    ASSUME NEW o \in Requests, orders'[o] = orders[o], payments'[o] = payments[o]
    PROVE  OrderStep(o)
BY DEF OrderStep

\* Only the three commits write orders and payments.
LEMMA OrdersWriters ==
    ASSUME [Next]_vars
    PROVE  \/ UNCHANGED <<orders, payments>>
           \/ \E r \in Requests : CommitCreate(r) \/ CommitCancel(r) \/ CommitPay(r)
<1>1. ASSUME NEW r \in Requests,
             \/ LockProductRefused(r) \/ InsertItemRefused(r) \/ CancelRefused(r)
             \/ RestoreRefused(r) \/ PayOrderNotFound(r) \/ PaySettled(r)
             \/ StatementFails(r)
      PROVE  UNCHANGED <<orders, payments>>
    BY <1>1 DEF LockProductRefused, InsertItemRefused, CancelRefused, RestoreRefused,
        PayOrderNotFound, PaySettled, StatementFails, Rollback, rows
<1>2. ASSUME NEW r \in Requests,
             \/ LockProduct(r) \/ InsertOrder(r) \/ InsertItem(r) \/ CancelLockOrder(r)
             \/ RestoreItem(r) \/ PayLockOrder(r) \/ LockPayment(r) \/ Charge(r)
      PROVE  UNCHANGED <<orders, payments>>
    BY <1>2 DEF LockProduct, InsertOrder, InsertItem, CancelLockOrder, RestoreItem,
        PayLockOrder, LockPayment, Charge, Rollback, rows
<1>3. ASSUME NEW r \in Requests,
             \/ RejectCart(r) \/ BeginCreate(r) \/ BeginCancel(r) \/ BeginPay(r)
             \/ CatalogRefused(r) \/ CreateProduct(r) \/ UpdateProduct(r) \/ DeleteProduct(r)
      PROVE  UNCHANGED <<orders, payments>>
    BY <1>3 DEF RejectCart, BeginCreate, BeginCancel, BeginPay, BeginOnOrder,
        CatalogRefused, CreateProduct, UpdateProduct, DeleteProduct, CatalogDone,
        CatalogAnswer, rows
<1>4. CASE UNCHANGED vars
    BY <1>4 DEF vars, rows
<1> QED BY <1>1, <1>2, <1>3, <1>4 DEF Next, Step, Quiescent

LEMMA CommitOrderStep ==
    ASSUME TypeOK, Inv, NEW r \in Requests, NEW o \in Requests,
           CommitCreate(r) \/ CommitCancel(r) \/ CommitPay(r)
    PROVE  OrderStep(o)
<1>a. orders[o].status = "paid" <=> payments[o].status = "success"
    BY DEF Inv, PaymentAgreement
<1>b. orders[o].status = "none" <=> payments[o].status = "none"
    BY DEF Inv, PaymentAgreement
<1>c. orders[o] \in Order /\ payments[o] \in Payment
    BY DEF TypeOK
<1>1. CASE CommitCreate(r)
    <2>1. orders[r].status = "none"
        BY <1>1 DEF CommitCreate, Inv, TxInv, CreatePCs
    <2>2. CASE o = r
        BY <2>1, <2>2, <1>a, <1>b DEF OrderStep
    <2>3. CASE o # r
        BY <1>1, <2>3, OrderStepFrame DEF CommitCreate, TypeOK
    <2> QED BY <2>2, <2>3
<1>2. CASE CommitCancel(r)
    <2>1. orders[input[r].order].status = "pending" /\ payments' = payments
        BY <1>2 DEF CommitCancel, Inv, PayInv, PayOK
    <2>2. CASE o = input[r].order
        <3>1. orders'[o] = [orders[o] EXCEPT !.status = "cancelled"]
            BY <1>2, <2>2 DEF CommitCancel, TypeOK
        <3> QED BY <2>1, <2>2, <3>1, <1>a, <1>c DEF OrderStep, Order
    <2>3. CASE o # input[r].order
        BY <1>2, <2>1, <2>3, OrderStepFrame DEF CommitCancel, TypeOK
    <2> QED BY <2>2, <2>3
<1>3. CASE CommitPay(r)
    <2>1. orders[input[r].order].status = "pending"
        BY <1>3 DEF CommitPay, Inv, PayInv, PayOK
    <2>2. CASE o = input[r].order
        <3>1. PICK v \in {"pending", "paid"} : orders'[o] = [orders[o] EXCEPT !.status = v]
            BY <1>3, <2>1, <2>2 DEF CommitPay, TypeOK, Order
        <3>2. payments'[o] = [payments[o] EXCEPT !.status = charge[r]]
            BY <1>3, <2>2 DEF CommitPay, TypeOK
        <3> QED BY <2>1, <2>2, <3>1, <3>2, <1>a, <1>c DEF OrderStep, Order, Payment
    <2>3. CASE o # input[r].order
        BY <1>3, <2>3, OrderStepFrame DEF CommitPay, TypeOK
    <2> QED BY <2>2, <2>3
<1> QED BY <1>1, <1>2, <1>3

\* A paid or cancelled order stays so and no commit rewrites what was ordered.
THEOREM StatusIsFinal == Spec => StatusFinal
<1>1. TypeOK /\ Inv /\ [Next]_vars => [\A o \in Requests : OrderStep(o)]_vars
    <2> SUFFICES ASSUME TypeOK, Inv, [Next]_vars, NEW o \in Requests
                 PROVE  OrderStep(o)
        OBVIOUS
    <2>1. CASE UNCHANGED <<orders, payments>>
        BY <2>1, OrderStepFrame
    <2>2. ASSUME NEW r \in Requests, CommitCreate(r) \/ CommitCancel(r) \/ CommitPay(r)
          PROVE  OrderStep(o)
        BY <2>2, CommitOrderStep
    <2> QED BY <2>1, <2>2, OrdersWriters
<1> QED BY <1>1, Invariance, PTL DEF Spec, StatusFinal

-----------------------------------------------------------------------------
(* The foreign key from order_items to products.                           *)

\* Every line of a committed order names a live product.
ReferencesLive ==
    \A o \in Requests : \A n \in DOMAIN orders[o].items :
        products[orders[o].items[n].product].state = "live"

\* A step that leaves the orders alone and deletes no referenced product.
LEMMA ReferencesFrame ==
    ASSUME TypeOK, ReferencesLive, UNCHANGED orders,
           \A p \in Products : products[p].state = "live" /\ Referenced(p)
                                => products'[p].state = "live"
    PROVE  ReferencesLive'
<1> SUFFICES ASSUME NEW o \in Requests, NEW n \in DOMAIN orders[o].items
             PROVE  products'[orders[o].items[n].product].state = "live"
    BY DEF ReferencesLive
<1>1. orders[o].items[n].product \in Products
    BY ItemTypes
<1>2. Referenced(orders[o].items[n].product)
    BY DEF Referenced
<1> QED BY <1>1, <1>2 DEF ReferencesLive

\* A commit leaves the state of every product as it was.
LEMMA CommitKeepsState ==
    ASSUME TypeOK, Inv, NEW r \in Requests, products' = CommittedProducts(r)
    PROVE  \A p \in Products : products'[p].state = products[p].state
BY DEF TypeOK, CommittedProducts, Product

LEMMA CommitReferences ==
    ASSUME TypeOK, Inv, ReferencesLive, NEW r \in Requests,
           CommitCreate(r) \/ CommitCancel(r) \/ CommitPay(r)
    PROVE  ReferencesLive'
<1> SUFFICES ASSUME NEW o \in Requests, NEW n \in DOMAIN orders'[o].items
             PROVE  products'[orders'[o].items[n].product].state = "live"
    BY DEF ReferencesLive
<1>a. \A p \in Products : products'[p].state = products[p].state
    BY CommitKeepsState DEF CommitCreate, CommitCancel, CommitPay
<1>b. ASSUME orders'[o].items = orders[o].items
      PROVE  products'[orders'[o].items[n].product].state = "live"
    <2>1. orders[o].items[n].product \in Products
        BY <1>b, ItemTypes
    <2> QED BY <1>a, <1>b, <2>1 DEF ReferencesLive
<1>1. CASE CommitCreate(r) /\ o = r
    <2> DEFINE cart == input[r].cart
    <2>1. /\ DOMAIN orders'[o].items = DOMAIN cart
          /\ orders'[o].items[n].product = cart[n].product
        BY <1>1 DEF CommitCreate, TypeOK, ItemOf
    <2>2. cart[n].product \in ProductsOf(cart) /\ ProductsOf(cart) \subseteq Products
        BY <1>1, <2>1, CartTypes DEF CommitCreate, CreatePCs, ProductsOf
    <2>3. productLock[cart[n].product] = r
        BY <1>1, <2>2 DEF CommitCreate, Inv, LockInv, LockOK
    <2>4. products[cart[n].product].state = "live"
        BY <2>2, <2>3, NoneAssumption DEF Inv, StockInv
    <2> QED BY <1>a, <2>1, <2>2, <2>4
<1>2. CASE CommitCreate(r) /\ o # r
    BY <1>2, <1>b DEF CommitCreate, TypeOK
<1>3. CASE CommitCancel(r) \/ CommitPay(r)
    <2>1. orders[o] \in Order
        BY DEF TypeOK
    <2>2. orders[o].status # "none" => orders'[o].items = orders[o].items
        BY <1>3, CommitOrderStep DEF OrderStep
    <2>3. orders[input[r].order].status = "pending"
        BY <1>3 DEF CommitCancel, CommitPay, Inv, PayInv, PayOK
    <2>4. o # input[r].order => orders'[o] = orders[o]
        BY <1>3 DEF CommitCancel, CommitPay, TypeOK
    <2> QED BY <2>2, <2>3, <2>4, <1>b
<1> QED BY <1>1, <1>2, <1>3

\* Writing a live row keeps live what was live.
LEMMA LiveWrite ==
    ASSUME TypeOK, NEW p, NEW x, x.state = "live", products' = [products EXCEPT ![p] = x]
    PROVE  \A q \in Products : products[q].state = "live" => products'[q].state = "live"
BY DEF TypeOK

\* A catalogue INSERT or UPDATE writes a live row, or nothing.
LEMMA CatalogWrite ==
    ASSUME TypeOK, NEW r \in Requests, CreateProduct(r) \/ UpdateProduct(r)
    PROVE  \A q \in Products : products[q].state = "live" => products'[q].state = "live"
<1>1. ASSUME UNCHANGED products
      PROVE  \A q \in Products : products[q].state = "live" => products'[q].state = "live"
    BY <1>1
<1>2. ASSUME NEW p, NEW stock, NEW price,
             products' = [products EXCEPT ![p] =
                            [state |-> "live", stock |-> stock, price |-> price]]
      PROVE  \A q \in Products : products[q].state = "live" => products'[q].state = "live"
    BY <1>2, LiveWrite
<1>3. CASE CreateProduct(r)
    <2>1. PICK i \in Inputs :
            \/ UNCHANGED products
            \/ products' = [products EXCEPT ![i.product] =
                    [state |-> "live", stock |-> Int32(i.stock), price |-> i.price]]
        BY <1>3 DEF CreateProduct, InsertedRow
    <2> QED BY <1>1, <1>2, <2>1
<1>4. CASE UpdateProduct(r)
    <2>1. PICK i \in Inputs :
            \/ UNCHANGED products
            \/ LET stock == IF i.stock = 0 THEN products[i.product].stock ELSE Int32(i.stock)
                   price == IF i.price = 0 THEN products[i.product].price ELSE i.price
               IN  products' = [products EXCEPT ![i.product] =
                        [state |-> "live", stock |-> stock, price |-> price]]
        BY <1>4 DEF UpdateProduct, UpdatedRow
    <2> QED BY <1>1, <1>2, <2>1
<1> QED BY <1>3, <1>4

\* Every other step either leaves products alone or is a catalogue write.
LEMMA ReferencesStep ==
    TypeOK /\ Inv /\ ReferencesLive /\ [Next]_vars => ReferencesLive'
<1> SUFFICES ASSUME TypeOK, Inv, ReferencesLive, [Next]_vars
             PROVE  ReferencesLive'
    OBVIOUS
<1>1. ASSUME UNCHANGED orders, UNCHANGED products
      PROVE  ReferencesLive'
    BY <1>1, ReferencesFrame
<1>2. ASSUME NEW r \in Requests,
             \/ LockProductRefused(r) \/ InsertItemRefused(r) \/ CancelRefused(r)
             \/ RestoreRefused(r) \/ PayOrderNotFound(r) \/ PaySettled(r)
             \/ StatementFails(r)
      PROVE  UNCHANGED orders /\ UNCHANGED products
    BY <1>2 DEF LockProductRefused, InsertItemRefused, CancelRefused, RestoreRefused,
        PayOrderNotFound, PaySettled, StatementFails, Rollback, rows
<1>3. ASSUME NEW r \in Requests,
             \/ LockProduct(r) \/ InsertOrder(r) \/ InsertItem(r) \/ CancelLockOrder(r)
             \/ RestoreItem(r) \/ PayLockOrder(r) \/ LockPayment(r) \/ Charge(r)
             \/ RejectCart(r) \/ BeginCreate(r) \/ BeginCancel(r) \/ BeginPay(r)
             \/ CatalogRefused(r)
      PROVE  UNCHANGED orders /\ UNCHANGED products
    BY <1>3 DEF LockProduct, InsertOrder, InsertItem, CancelLockOrder, RestoreItem,
        PayLockOrder, LockPayment, Charge, Rollback, rows, RejectCart, BeginCreate,
        BeginCancel, BeginPay, BeginOnOrder, CatalogRefused, CatalogAnswer
<1>4. ASSUME NEW r \in Requests, CreateProduct(r) \/ UpdateProduct(r) \/ DeleteProduct(r)
      PROVE  ReferencesLive'
    <2>1. UNCHANGED orders
        BY <1>4 DEF CreateProduct, UpdateProduct, DeleteProduct, CatalogDone, CatalogAnswer
    <2>2. CASE CreateProduct(r) \/ UpdateProduct(r)
        <3>1. \A p \in Products : products[p].state = "live" => products'[p].state = "live"
            BY <2>2, CatalogWrite
        <3> QED BY <2>1, <3>1, ReferencesFrame
    <2>3. CASE DeleteProduct(r)
        <3>1. \A p \in Products : products[p].state = "live" /\ Referenced(p)
                                    => products'[p].state = "live"
            BY <2>3 DEF DeleteProduct, TypeOK
        <3> QED BY <2>1, <3>1, ReferencesFrame
    <2> QED BY <1>4, <2>2, <2>3
<1>5. CASE UNCHANGED vars
    BY <1>1, <1>5 DEF vars, rows
<1>6. ASSUME NEW r \in Requests, CommitCreate(r) \/ CommitCancel(r) \/ CommitPay(r)
      PROVE  ReferencesLive'
    BY <1>6, CommitReferences
<1> QED BY <1>1, <1>2, <1>3, <1>4, <1>5, <1>6 DEF Next, Step, Quiescent

\* A product that was ordered is never deleted, so a cancel finds every row it
\* has to restore.
THEOREM OrderedProductsStay == Spec => []OrderedProductsLive
<1>1. Init => ReferencesLive
    BY DEF Init, ReferencesLive, NoOrder
<1>2. TypeOK /\ ReferencesLive => OrderedProductsLive
    BY DEF ReferencesLive, OrderedProductsLive, Referenced
<1> QED BY <1>1, <1>2, ReferencesStep, Invariance, PTL DEF Spec

-----------------------------------------------------------------------------
(* Charging, when nothing fails.                                           *)

\* A Pay that holds a successful charge it has not committed.
InFlight(o) ==
    \E r \in Requests :
        pc[r] = "recordCharge" /\ input[r].order = o /\ charge[r] = "success"

\* The provider's ledger, row by row.
LedgerInv ==
    \A o \in Requests :
        charged[o] = IF orders[o].status = "paid" \/ InFlight(o) THEN 1 ELSE 0

\* A step that neither charges nor ends a payment in flight nor pays an order.
LEMMA LedgerFrame ==
    ASSUME LedgerInv, UNCHANGED charged,
           \A o \in Requests : orders'[o].status = "paid" <=> orders[o].status = "paid",
           \A s \in Requests :
                \/ pc[s] # "recordCharge" /\ pc'[s] # "recordCharge"
                \/ pc'[s] = pc[s] /\ input'[s] = input[s] /\ charge'[s] = charge[s]
    PROVE  LedgerInv'
<1>1. \A o \in Requests : InFlight(o)' <=> InFlight(o)
    BY DEF InFlight
<1> QED BY <1>1 DEF LedgerInv

\* The order a payment holds is in no other payment's hands.
LEMMA OnePayer ==
    ASSUME Inv, NEW r \in Requests, NEW s \in Requests,
           pc[r] \in {"restore", "markCancelled", "payLockPayment", "charge", "recordCharge"},
           pc[s] \in {"restore", "markCancelled", "payLockPayment", "charge", "recordCharge"},
           input[r].order = input[s].order
    PROVE  r = s
BY DEF Inv, PayInv, PayOK

LEMMA LedgerCharge ==
    ASSUME TypeOK, Inv, LedgerInv, NEW r \in Requests, Charge(r)
    PROVE  LedgerInv'
<1>a. pc[r] = "charge" /\ input[r].order \in Requests
    BY OrderOf DEF Charge, PayPCs
<1> PICK t \in Requests : t = input[r].order
    BY <1>a
<1>b. PICK result \in {"success", "failed"} :
        /\ charge' = [charge EXCEPT ![r] = result]
        /\ charged' = [charged EXCEPT ![t] = IF result = "success" THEN @ + 1 ELSE @]
    BY DEF Charge
<1>c. pc' = [pc EXCEPT ![r] = "recordCharge"] /\ UNCHANGED <<orders, input>>
    BY DEF Charge, rows
<1>d. pc'[r] = "recordCharge" /\ charge'[r] = result
    BY <1>b, <1>c DEF TypeOK
<1>e. \A s \in Requests \ {r} : pc'[s] = pc[s] /\ charge'[s] = charge[s]
    BY <1>b, <1>c DEF TypeOK
<1>f. orders[t].status = "pending" /\ ~InFlight(t)
    <2>1. orders[t].status = "pending"
        BY <1>a DEF Inv, PayInv, PayOK
    <2>2. ~InFlight(t)
        BY <1>a, OnePayer DEF InFlight
    <2> QED BY <2>1, <2>2
<1>g. charged[t] = 0
    BY <1>f DEF LedgerInv
<1>h. InFlight(t)' <=> result = "success"
    <2>1. \A s \in Requests \ {r} : pc[s] = "recordCharge" => input[s].order # t
        BY <1>a, OnePayer
    <2> QED BY <1>c, <1>d, <1>e, <2>1 DEF InFlight
<1>i. \A o \in Requests \ {t} : (InFlight(o)' <=> InFlight(o)) /\ charged'[o] = charged[o]
    BY <1>a, <1>b, <1>c, <1>d, <1>e DEF InFlight, TypeOK
<1>j. charged'[t] = IF result = "success" THEN 1 ELSE 0
    BY <1>b, <1>g DEF TypeOK
<1> QED BY <1>c, <1>f, <1>h, <1>i, <1>j DEF LedgerInv

LEMMA LedgerCommit ==
    ASSUME TypeOK, Inv, LedgerInv, NEW r \in Requests, CommitPay(r)
    PROVE  LedgerInv'
<1>a. pc[r] = "recordCharge" /\ input[r].order \in Requests
    BY OrderOf DEF CommitPay, PayPCs
<1> PICK t \in Requests : t = input[r].order
    BY <1>a
<1>b. /\ orders' = [orders EXCEPT ![t].status = IF charge[r] = "success" THEN "paid" ELSE @]
      /\ UNCHANGED <<charged, input>>
      /\ pc' = [pc EXCEPT ![r] = "done"]
      /\ charge' = [charge EXCEPT ![r] = "none"]
    BY DEF CommitPay, Commit, Finish, ghosts
<1>c. orders[t].status = "pending" /\ charge[r] \in {"success", "failed"}
    BY <1>a DEF Inv, PayInv, PayOK
<1>d. \A s \in Requests \ {r} : pc[s] = "recordCharge" => input[s].order # t
    BY <1>a, OnePayer
<1>e. InFlight(t) <=> charge[r] = "success"
    BY <1>a, <1>d DEF InFlight
<1>f. ~InFlight(t)'
    BY <1>b, <1>d DEF InFlight, TypeOK
<1>g. \A o \in Requests \ {t} : (InFlight(o)' <=> InFlight(o)) /\ orders'[o] = orders[o]
    BY <1>a, <1>b DEF InFlight, TypeOK
<1>h. orders'[t].status = IF charge[r] = "success" THEN "paid" ELSE "pending"
    BY <1>b, <1>c DEF TypeOK, Order
<1> QED BY <1>b, <1>c, <1>e, <1>f, <1>g, <1>h DEF LedgerInv

\* The transactions that are not payments, and the answers without a charge.
LEMMA LedgerFinish ==
    ASSUME TypeOK, Inv, LedgerInv, NEW r \in Requests, NEW a, pc[r] # "recordCharge",
           Finish(r, a), UNCHANGED charged,
           \A o \in Requests : orders'[o].status = "paid" <=> orders[o].status = "paid"
    PROVE  LedgerInv'
<1>1. \A s \in Requests :
        \/ pc[s] # "recordCharge" /\ pc'[s] # "recordCharge"
        \/ pc'[s] = pc[s] /\ input'[s] = input[s] /\ charge'[s] = charge[s]
    BY DEF Finish, TypeOK
<1> QED BY <1>1, LedgerFrame

\* A step of r that stays away from the charge and leaves the orders alone.
LEMMA LedgerMove ==
    ASSUME TypeOK, LedgerInv, NEW r \in Requests,
           pc[r] # "recordCharge", NEW v, v # "recordCharge", pc' = [pc EXCEPT ![r] = v],
           UNCHANGED <<orders, charged, charge>>,
           UNCHANGED input \/ \E i \in Inputs : input' = [input EXCEPT ![r] = i]
    PROVE  LedgerInv'
<1>1. \A s \in Requests :
        \/ pc[s] # "recordCharge" /\ pc'[s] # "recordCharge"
        \/ pc'[s] = pc[s] /\ input'[s] = input[s] /\ charge'[s] = charge[s]
    BY DEF TypeOK
<1> QED BY <1>1, LedgerFrame

LEMMA LedgerStep ==
    ASSUME ~Faults
    PROVE  TypeOK /\ Inv /\ LedgerInv /\ [Next]_vars => LedgerInv'
<1> SUFFICES ASSUME TypeOK, Inv, LedgerInv, [Next]_vars
             PROVE  LedgerInv'
    OBVIOUS
<1>1. ASSUME NEW r \in Requests,
             \/ LockProductRefused(r) \/ InsertItemRefused(r) \/ CancelRefused(r)
             \/ RestoreRefused(r) \/ PayOrderNotFound(r) \/ PaySettled(r)
             \/ InsertOrder(r) /\ Rollback(r, "error")
      PROVE  LedgerInv'
    <2>1. pc[r] # "recordCharge"
        BY <1>1 DEF LockProductRefused, InsertItemRefused, CancelRefused, RestoreRefused,
            PayOrderNotFound, PaySettled, InsertOrder
    <2>2. PICK a : Finish(r, a) /\ UNCHANGED <<orders, charged>>
        BY <1>1 DEF LockProductRefused, InsertItemRefused, CancelRefused, RestoreRefused,
            PayOrderNotFound, PaySettled, Rollback, rows, ghosts
    <2> QED BY <2>1, <2>2, LedgerFinish
<1>2. ASSUME NEW r \in Requests, CommitCreate(r) \/ CommitCancel(r)
      PROVE  LedgerInv'
    <2>1. pc[r] # "recordCharge"
        BY <1>2 DEF CommitCreate, CommitCancel
    <2>2. PICK a : Finish(r, a)
        BY <1>2 DEF CommitCreate, CommitCancel, Commit
    <2>3. UNCHANGED charged
        BY <1>2 DEF CommitCreate, CommitCancel, ghosts
    <2>4. ASSUME NEW o \in Requests
          PROVE  orders'[o].status = "paid" <=> orders[o].status = "paid"
        <3>1. CASE CommitCreate(r)
            <4>1. orders[r].status = "none"
                BY <3>1 DEF CommitCreate, Inv, TxInv, CreatePCs
            <4>2. o = r => orders'[o].status = "pending"
                BY <3>1 DEF CommitCreate, TypeOK
            <4>3. o # r => orders'[o] = orders[o]
                BY <3>1 DEF CommitCreate, TypeOK
            <4> QED BY <4>1, <4>2, <4>3
        <3>2. CASE CommitCancel(r)
            <4>1. orders[input[r].order].status = "pending"
                BY <3>2 DEF CommitCancel, Inv, PayInv, PayOK
            <4>2. o = input[r].order => orders'[o].status = "cancelled"
                BY <3>2 DEF CommitCancel, TypeOK, Order
            <4>3. o # input[r].order => orders'[o] = orders[o]
                BY <3>2 DEF CommitCancel, TypeOK
            <4> QED BY <4>1, <4>2, <4>3
        <3> QED BY <1>2, <3>1, <3>2
    <2> QED BY <2>1, <2>2, <2>3, <2>4, LedgerFinish
<1>3. ASSUME NEW r \in Requests,
             \/ LockProduct(r) \/ InsertItem(r) \/ CancelLockOrder(r)
             \/ RestoreItem(r) \/ PayLockOrder(r) \/ LockPayment(r)
      PROVE  LedgerInv'
    <2>1. pc[r] # "recordCharge" /\ UNCHANGED <<orders, charged, charge, input>>
        BY <1>3 DEF LockProduct, InsertItem, CancelLockOrder, RestoreItem, PayLockOrder,
            LockPayment, rows, ghosts, txVars
    <2>2. PICK v \in {"lockProducts", "insertOrder", "insertItems", "insertPayment", "restore",
                      "markCancelled", "payLockPayment", "charge"} :
            pc' = [pc EXCEPT ![r] = v]
        BY <1>3 DEF LockProduct, InsertItem, CancelLockOrder, RestoreItem, PayLockOrder,
            LockPayment
    <2> QED BY <2>1, <2>2, LedgerMove
<1>4. ASSUME NEW r \in Requests, InsertOrder(r), ~Rollback(r, "error")
      PROVE  LedgerInv'
    <2>1. /\ pc[r] # "recordCharge" /\ UNCHANGED <<orders, charged, charge, input>>
          /\ pc' = [pc EXCEPT ![r] = "insertItems"]
        BY <1>4 DEF InsertOrder, rows, ghosts
    <2> QED BY <2>1, LedgerMove
<1>5. ASSUME NEW r \in Requests,
             \/ RejectCart(r) \/ BeginCreate(r) \/ BeginCancel(r) \/ BeginPay(r)
             \/ CatalogRefused(r) \/ CreateProduct(r) \/ UpdateProduct(r) \/ DeleteProduct(r)
      PROVE  LedgerInv'
    <2>1. pc[r] # "recordCharge" /\ UNCHANGED <<orders, charged, charge>>
        BY <1>5 DEF RejectCart, BeginCreate, BeginCancel, BeginPay, BeginOnOrder,
            CatalogRefused, CreateProduct, UpdateProduct, DeleteProduct, CatalogDone,
            CatalogAnswer, rows, ghosts, txVars
    <2>2. \E i \in Inputs : input' = [input EXCEPT ![r] = i]
        BY <1>5 DEF RejectCart, BeginCreate, BeginCancel, BeginPay, BeginOnOrder,
            CatalogRefused, CreateProduct, UpdateProduct, DeleteProduct, CatalogDone,
            CatalogAnswer
    <2>3. PICK v \in {"lockProducts", "cancelLock", "payLockOrder", "done"} :
            pc' = [pc EXCEPT ![r] = v]
        BY <1>5 DEF RejectCart, BeginCreate, BeginCancel, BeginPay, BeginOnOrder,
            CatalogRefused, CreateProduct, UpdateProduct, DeleteProduct, CatalogDone,
            CatalogAnswer
    <2> QED BY <2>1, <2>2, <2>3, LedgerMove
<1>6. CASE UNCHANGED vars
    BY <1>6, LedgerFrame DEF vars, rows, ghosts, txVars
<1>7. ASSUME NEW r \in Requests, StatementFails(r)
      PROVE  LedgerInv'
    BY <1>7 DEF StatementFails
<1> QED BY <1>1, <1>2, <1>3, <1>4, <1>5, <1>6, <1>7, LedgerCharge, LedgerCommit
        DEF Next, Step, Quiescent

\* Without faults an order is charged at most once, however many payments of it
\* are retried or run at the same time.
THEOREM NoDoubleCharge ==
    ASSUME ~Faults
    PROVE  Spec => []ChargedAtMostOnce
<1>1. Init => LedgerInv
    BY DEF Init, LedgerInv, InFlight, NoOrder
<1>2. LedgerInv => ChargedAtMostOnce
    BY DEF LedgerInv, ChargedAtMostOnce
<1> QED BY <1>1, <1>2, LedgerStep, Invariance, PTL DEF Spec

\* Without faults money taken means paid and paid means taken, for every order
\* that is not between its charge and its commit.
THEOREM LedgerAgrees ==
    ASSUME ~Faults
    PROVE  Spec => []LedgerAgreesWithOrders
<1>1. Init => LedgerInv
    BY DEF Init, LedgerInv, InFlight, NoOrder
<1>2. LedgerInv => LedgerAgreesWithOrders
    BY DEF LedgerInv, LedgerAgreesWithOrders, InFlight
<1> QED BY <1>1, <1>2, LedgerStep, Invariance, PTL DEF Spec

-----------------------------------------------------------------------------
(* What a client may rely on.                                              *)

\* The price snapshot of an open create is what the rows it locked still say.
PriceOK(r) ==
    pc[r] \in CreatePCs =>
        \A p \in ProductsOf(input[r].cart) :
            (pc[r] = "lockProducts" => p \notin todo[r]) => prices[r][p] = products[p].price

\* A request that was received has its input, its transaction is of the kind the
\* input asks for, and an order it has locked is its user's own.
TaskOK(r) ==
    /\ pc[r] # "idle" => input[r] \in Inputs
    /\ pc[r] \in CancelPCs => input[r].op = "cancel"
    /\ pc[r] \in PayPCs => input[r].op = "pay"
    /\ pc[r] \in {"restore", "markCancelled", "payLockPayment", "charge", "recordCharge"} =>
        orders[input[r].order].user = input[r].user

\* AnswersAgreeWithRows, for one request.
AnswerOK(r) ==
    LET i == input[r] IN
    /\ (pc[r] = "done" /\ i.op = "create") =>
        /\ outcome[r] = "ok" => orders[r].status # "none" /\ orders[r].user = i.user
        /\ outcome[r] \in Refusals => orders[r].status = "none"
    /\ (pc[r] = "done" /\ i.op = "cancel" /\ outcome[r] = "ok") =>
        orders[i.order].status = "cancelled" /\ orders[i.order].user = i.user
    /\ (pc[r] = "done" /\ i.op = "pay" /\ outcome[r] = "ok") =>
        payments[i.order].status \in {"success", "failed"} /\ orders[i.order].user = i.user

RequestOK(r) == PriceOK(r) /\ TaskOK(r) /\ AnswerOK(r)

ClientInv == \A r \in Requests : RequestOK(r)

-----------------------------------------------------------------------------
(* The other requests, while r takes a step.                               *)

\* A step leaves the request s alone.
Untouched(s) ==
    /\ pc'[s] = pc[s] /\ input'[s] = input[s] /\ outcome'[s] = outcome[s]
    /\ todo'[s] = todo[s] /\ prices'[s] = prices[s]

\* What no step but r's own commit does to the order o.
RowStep(r, o) ==
    /\ OrderStep(o)
    /\ payments[o].status \in {"success", "failed"} =>
        payments'[o].status \in {"success", "failed"}
    /\ orders[o].status = "none" /\ o # r => orders'[o].status = "none"

LEMMA RowsKept ==
    ASSUME TypeOK, Inv, NEW r \in Requests, NEW o \in Requests,
           \/ UNCHANGED <<orders, payments>>
           \/ CommitCreate(r) \/ CommitCancel(r) \/ CommitPay(r)
    PROVE  RowStep(r, o)
<1>a. orders[o] \in Order /\ payments[o] \in Payment
    BY DEF TypeOK
<1>b. orders[o].status = "none" <=> payments[o].status = "none"
    BY DEF Inv, PaymentAgreement
<1>1. CASE UNCHANGED <<orders, payments>>
    BY <1>1, OrderStepFrame DEF RowStep
<1>2. CASE CommitCreate(r)
    <2>1. orders[r].status = "none"
        BY <1>2 DEF CommitCreate, Inv, TxInv, CreatePCs
    <2>2. o # r => orders'[o] = orders[o] /\ payments'[o] = payments[o]
        BY <1>2 DEF CommitCreate, TypeOK
    <2> QED BY <1>2, <1>b, <2>1, <2>2, CommitOrderStep DEF RowStep
<1>3. CASE CommitCancel(r)
    <2>1. orders[input[r].order].status = "pending" /\ payments' = payments
        BY <1>3 DEF CommitCancel, Inv, PayInv, PayOK
    <2>2. o # input[r].order => orders'[o] = orders[o]
        BY <1>3 DEF CommitCancel, TypeOK
    <2> QED BY <1>3, <2>1, <2>2, CommitOrderStep DEF RowStep
<1>4. CASE CommitPay(r)
    <2>1. orders[input[r].order].status = "pending" /\ charge[r] \in {"success", "failed"}
        BY <1>4 DEF CommitPay, Inv, PayInv, PayOK
    <2>2. o # input[r].order => orders'[o] = orders[o] /\ payments'[o] = payments[o]
        BY <1>4 DEF CommitPay, TypeOK
    <2>3. o = input[r].order => payments'[o] = [payments[o] EXCEPT !.status = charge[r]]
        BY <1>4 DEF CommitPay, TypeOK
    <2>4. o = input[r].order => payments'[o].status = charge[r]
        BY <1>a, <2>3 DEF Payment
    <2> QED BY <1>4, <2>1, <2>2, <2>4, CommitOrderStep DEF RowStep
<1> QED BY <1>1, <1>2, <1>3, <1>4

\* A snapshot is protected by the locks of its transaction.
LEMMA PriceFrame ==
    ASSUME TypeOK, Inv, NEW s \in Requests, PriceOK(s), Untouched(s),
           \A p \in Products : productLock[p] # None => products'[p].price = products[p].price
    PROVE  PriceOK(s)'
<1> SUFFICES ASSUME pc[s] \in CreatePCs, NEW p \in ProductsOf(input[s].cart),
                    pc[s] = "lockProducts" => p \notin todo[s]
             PROVE  prices[s][p] = products'[p].price
    BY DEF PriceOK, Untouched
<1>1. p \in Products
    BY QuantityType DEF Inv, TxInv, CreateInputs
<1>2. productLock[p] = s
    BY DEF Inv, LockInv, LockOK, CreatePCs
<1>3. productLock[p] # None
    BY <1>2, NoneAssumption
<1> QED BY <1>1, <1>3 DEF PriceOK

LEMMA TaskFrame ==
    ASSUME TypeOK, Inv, NEW r \in Requests, NEW s \in Requests, TaskOK(s), Untouched(s),
           \A o \in Requests : RowStep(r, o)
    PROVE  TaskOK(s)'
<1>1. pc[s] \in {"restore", "markCancelled", "payLockPayment", "charge", "recordCharge"} =>
        /\ input[s].order \in Requests
        /\ orders[input[s].order].status # "none"
    BY DEF Inv, TxInv, PayInv, PayOK, CancelPCs, PayPCs, OrderInputs
<1> QED BY <1>1 DEF TaskOK, Untouched, RowStep, OrderStep

LEMMA AnswerFrame ==
    ASSUME TypeOK, Inv, NEW r \in Requests, NEW s \in Requests, s # r,
           TaskOK(s), AnswerOK(s), Untouched(s),
           \A o \in Requests : RowStep(r, o)
    PROVE  AnswerOK(s)'
<1>1. pc[s] = "done" /\ input[s].op \in {"cancel", "pay"} => input[s].order \in Requests
    BY InputTypes DEF TaskOK, OrderInputs
<1>2. \A o \in Requests : payments[o].status \in {"success", "failed"} => orders[o].status # "none"
    BY DEF Inv, PaymentAgreement
<1> QED BY <1>1, <1>2 DEF AnswerOK, Untouched, RowStep, OrderStep

\* Hence a step of r is settled by what it makes of r.
LEMMA OthersKept ==
    ASSUME TypeOK, Inv, ClientInv, NEW r \in Requests,
           \A s \in Requests \ {r} : Untouched(s),
           \A o \in Requests : RowStep(r, o),
           \A p \in Products : productLock[p] # None => products'[p].price = products[p].price,
           RequestOK(r)'
    PROVE  ClientInv'
<1> SUFFICES ASSUME NEW s \in Requests, s # r PROVE RequestOK(s)'
    BY DEF ClientInv
<1>1. RequestOK(s) /\ Untouched(s)
    BY DEF ClientInv
<1> QED BY <1>1, PriceFrame, TaskFrame, AnswerFrame DEF RequestOK

\* Ending a transaction touches nobody else.
LEMMA FinishUntouched ==
    ASSUME TypeOK, NEW r \in Requests, NEW a, Finish(r, a)
    PROVE  /\ \A s \in Requests \ {r} : Untouched(s)
           /\ pc'[r] = "done" /\ outcome'[r] = a /\ input'[r] = input[r]
BY DEF Finish, Untouched, TypeOK

-----------------------------------------------------------------------------
(* The steps.                                                              *)

\* Stock is the only column a commit changes.
LEMMA CommittedPrice ==
    ASSUME TypeOK, NEW r \in Requests, products' = CommittedProducts(r), NEW p \in Products
    PROVE  products'[p].price = products[p].price
BY DEF CommittedProducts, TypeOK, Product

LEMMA RollbackClient ==
    ASSUME TypeOK, Inv, ClientInv, NEW r \in Requests, pc[r] \in InTx, NEW a,
           Rollback(r, a),
           a = "ok" => /\ input[r].op = "pay"
                       /\ payments[input[r].order].status \in {"success", "failed"}
                       /\ orders[input[r].order].user = input[r].user
    PROVE  ClientInv'
<1>a. Finish(r, a) /\ UNCHANGED <<products, orders, payments>>
    BY DEF Rollback, rows
<1>b. RequestOK(r) /\ pc[r] # "idle"
    BY DEF ClientInv, InTx, CreatePCs, CancelPCs, PayPCs
<1>c. input[r].op = "create" => orders[r].status = "none"
    BY <1>b DEF RequestOK, TaskOK, InTx, Inv, TxInv
<1>1. TaskOK(r)'
    BY <1>a, <1>b, FinishUntouched DEF RequestOK, TaskOK, CancelPCs, PayPCs
<1>2. PriceOK(r)'
    BY <1>a, FinishUntouched DEF PriceOK, CreatePCs
<1>3. AnswerOK(r)'
    BY <1>a, <1>c, FinishUntouched DEF AnswerOK, Refusals
<1> QED BY <1>a, <1>1, <1>2, <1>3, FinishUntouched, RowsKept, OthersKept DEF RequestOK

LEMMA CommitClient ==
    ASSUME TypeOK, Inv, ClientInv, NEW r \in Requests,
           CommitCreate(r) \/ CommitCancel(r) \/ CommitPay(r)
    PROVE  ClientInv'
<1>a. PICK a \in {"ok", "error"} : Finish(r, a)
    BY DEF CommitCreate, CommitCancel, CommitPay, Commit
<1>b. RequestOK(r) /\ pc[r] # "idle"
    BY DEF ClientInv, CommitCreate, CommitCancel, CommitPay
<1>c. \A p \in Products : products'[p].price = products[p].price
    BY CommittedPrice DEF CommitCreate, CommitCancel, CommitPay
<1>1. TaskOK(r)'
    BY <1>a, <1>b, FinishUntouched DEF RequestOK, TaskOK, CancelPCs, PayPCs
<1>2. PriceOK(r)'
    BY <1>a, FinishUntouched DEF PriceOK, CreatePCs
<1>3. AnswerOK(r)'
    <2>1. CASE CommitCreate(r)
        <3>1. input[r].op = "create"
            BY <2>1 DEF CommitCreate, Inv, TxInv, CreatePCs, CreateInputs
        <3>2. orders'[r].status = "pending" /\ orders'[r].user = input[r].user
            BY <2>1 DEF CommitCreate, TypeOK
        <3> QED BY <1>a, <3>1, <3>2, FinishUntouched DEF AnswerOK, Refusals
    <2>2. CASE CommitCancel(r)
        <3>1. input[r].op = "cancel" /\ input[r].order \in Requests
              /\ orders[input[r].order].user = input[r].user
            BY <1>b, <2>2, InputTypes DEF CommitCancel, RequestOK, TaskOK, CancelPCs, OrderInputs
        <3>2. orders'[input[r].order] = [orders[input[r].order] EXCEPT !.status = "cancelled"]
            BY <2>2, <3>1 DEF CommitCancel, TypeOK
        <3>3. orders[input[r].order] \in Order
            BY <3>1 DEF TypeOK
        <3>4. /\ orders'[input[r].order].status = "cancelled"
              /\ orders'[input[r].order].user = input[r].user
            BY <3>1, <3>2, <3>3 DEF Order
        <3> QED BY <1>a, <3>1, <3>4, FinishUntouched DEF AnswerOK
    <2>3. CASE CommitPay(r)
        <3>1. input[r].op = "pay" /\ input[r].order \in Requests
              /\ orders[input[r].order].user = input[r].user
            BY <1>b, <2>3, InputTypes DEF CommitPay, RequestOK, TaskOK, PayPCs, OrderInputs
        <3>2. charge[r] \in {"success", "failed"} /\ orders[input[r].order].status = "pending"
            BY <2>3 DEF CommitPay, Inv, PayInv, PayOK
        <3>3. payments'[input[r].order] = [payments[input[r].order] EXCEPT !.status = charge[r]]
            BY <2>3, <3>1 DEF CommitPay, TypeOK
        <3>4. payments'[input[r].order].status = charge[r]
            BY <3>1, <3>3 DEF TypeOK, Payment
        <3>5. orders'[input[r].order].user = input[r].user
            BY <2>3, <3>1, <3>2, CommitOrderStep DEF OrderStep
        <3> QED BY <1>a, <3>1, <3>2, <3>4, <3>5, FinishUntouched DEF AnswerOK
    <2> QED BY <2>1, <2>2, <2>3
<1> QED BY <1>a, <1>c, <1>1, <1>2, <1>3, FinishUntouched, RowsKept, OthersKept DEF RequestOK

LEMMA RefusedClient ==
    ASSUME TypeOK, Inv, ClientInv, NEW r \in Requests,
           \/ LockProductRefused(r) \/ InsertItemRefused(r) \/ CancelRefused(r)
           \/ RestoreRefused(r) \/ PayOrderNotFound(r) \/ PaySettled(r)
           \/ StatementFails(r)
    PROVE  ClientInv'
<1>1. CASE PaySettled(r)
    <2> DEFINE o == input[r].order
    <2>a. pc[r] = "payLockPayment" /\ Rollback(r, PayAnswer(r))
        BY <1>1 DEF PaySettled
    <2>b. RequestOK(r)
        BY DEF ClientInv
    <2>c. input[r].op = "pay" /\ orders[o].user = input[r].user /\ o \in Requests
        BY <2>a, <2>b, InputTypes DEF RequestOK, TaskOK, PayPCs, OrderInputs
    <2>d. orders[o].status = seen[r]
        BY <2>a DEF Inv, PayInv, PayOK
    <2>e. orders[o].status = "paid" <=> payments[o].status = "success"
        BY <2>c DEF Inv, PaymentAgreement
    <2>f. PayAnswer(r) = "ok" => payments[o].status = "success"
        BY <2>d, <2>e DEF PayAnswer
    <2> QED BY <2>a, <2>c, <2>f, RollbackClient DEF InTx, PayPCs
<1>2. CASE ~PaySettled(r)
    <2>1. PICK a \in Refusals \cup {"error"} : Rollback(r, a)
        <3>1. CASE LockProductRefused(r)
            BY <3>1 DEF LockProductRefused, Refusals
        <3>2. CASE InsertItemRefused(r)
            BY <3>2 DEF InsertItemRefused, Refusals
        <3>3. CASE CancelRefused(r)
            BY <3>3 DEF CancelRefused, Refusals
        <3>4. CASE RestoreRefused(r)
            BY <3>4 DEF RestoreRefused, Refusals
        <3>5. CASE PayOrderNotFound(r) \/ StatementFails(r)
            BY <3>5 DEF PayOrderNotFound, StatementFails, Refusals
        <3> QED BY <1>2, <3>1, <3>2, <3>3, <3>4, <3>5
    <2>2. \/ pc[r] \in {"lockProducts", "insertItems", "cancelLock", "restore", "payLockOrder"}
          \/ pc[r] \in InTx
        <3>1. CASE LockProductRefused(r) \/ InsertItemRefused(r) \/ CancelRefused(r)
            BY <3>1 DEF LockProductRefused, InsertItemRefused, CancelRefused
        <3>2. CASE RestoreRefused(r) \/ PayOrderNotFound(r) \/ StatementFails(r)
            BY <3>2 DEF RestoreRefused, PayOrderNotFound, StatementFails
        <3> QED BY <1>2, <3>1, <3>2
    <2>3. pc[r] \in InTx /\ a # "ok"
        BY <2>2 DEF InTx, CreatePCs, CancelPCs, PayPCs, Refusals
    <2> QED BY <2>1, <2>3, RollbackClient
<1> QED BY <1>1, <1>2

\* A statement in the middle of a transaction: r is not answered by it.
LEMMA MoveClient ==
    ASSUME TypeOK, Inv, ClientInv, NEW r \in Requests,
           NEW v \in InTx, pc' = [pc EXCEPT ![r] = v],
           UNCHANGED <<products, orders, payments, outcome>>,
           \A s \in Requests \ {r} :
                input'[s] = input[s] /\ todo'[s] = todo[s] /\ prices'[s] = prices[s],
           TaskOK(r)', PriceOK(r)'
    PROVE  ClientInv'
<1>1. \A s \in Requests \ {r} : Untouched(s)
    BY DEF Untouched, TypeOK
<1>2. pc'[r] = v /\ v # "done"
    BY DEF TypeOK, InTx, CreatePCs, CancelPCs, PayPCs
<1>3. AnswerOK(r)'
    BY <1>2 DEF AnswerOK
<1> QED BY <1>1, <1>3, RowsKept, OthersKept DEF RequestOK

LEMMA CreateClient ==
    ASSUME TypeOK, Inv, ClientInv, NEW r \in Requests,
           LockProduct(r) \/ InsertOrder(r) \/ InsertItem(r)
    PROVE  ClientInv'
<1>a. RequestOK(r)
    BY DEF ClientInv
<1>1. CASE LockProduct(r)
    <2>1. PICK p \in todo[r] :
            /\ prices' = [prices EXCEPT ![r][p] = products[p].price]
            /\ todo' = [todo EXCEPT ![r] = @ \ {p}]
        BY <1>1 DEF LockProduct
    <2>2. PICK v \in {"lockProducts", "insertOrder"} :
            /\ pc' = [pc EXCEPT ![r] = v]
            /\ v = "insertOrder" => todo'[r] = {}
        BY <1>1 DEF LockProduct
    <2>3. pc[r] = "lockProducts" /\ UNCHANGED <<products, orders, payments, outcome, input>>
        BY <1>1 DEF LockProduct, rows
    <2>4. p \in Products /\ ProductsOf(input[r].cart) \subseteq Products
        BY <2>1, <2>3, QuantityType DEF Inv, TxInv, CreatePCs, CreateInputs
    <2>5. /\ prices'[r] = [prices[r] EXCEPT ![p] = products[p].price]
          /\ prices[r] \in [Products -> Amount]
          /\ todo'[r] = todo[r] \ {p}
          /\ pc'[r] = v
        BY <2>1, <2>2 DEF TypeOK
    <2>6. \A q \in ProductsOf(input[r].cart) : q \notin todo'[r] =>
            prices'[r][q] = products[q].price
        BY <1>a, <2>3, <2>4, <2>5 DEF RequestOK, PriceOK, CreatePCs
    <2>7. PriceOK(r)'
        BY <2>2, <2>3, <2>5, <2>6 DEF PriceOK
    <2>8. TaskOK(r)'
        BY <1>a, <2>2, <2>3, <2>5 DEF RequestOK, TaskOK, CancelPCs, PayPCs
    <2>9. \A s \in Requests \ {r} : todo'[s] = todo[s] /\ prices'[s] = prices[s]
        BY <2>1 DEF TypeOK
    <2>10. v \in InTx
        BY DEF InTx, CreatePCs
    <2> QED BY <2>2, <2>3, <2>7, <2>8, <2>9, <2>10, MoveClient
<1>2. CASE InsertOrder(r) \/ InsertItem(r)
    <2>1. CASE Rollback(r, "error")
        <3>1. pc[r] \in InTx
            BY <1>2 DEF InsertOrder, InsertItem, InTx, CreatePCs
        <3> QED BY <2>1, <3>1, RollbackClient
    <2>2. CASE ~Rollback(r, "error")
        <3>1. /\ pc[r] \in {"insertOrder", "insertItems"}
              /\ UNCHANGED <<products, orders, payments, outcome, input, prices>>
            <4>1. CASE InsertOrder(r)
                BY <4>1, <2>2 DEF InsertOrder, rows
            <4>2. CASE InsertItem(r)
                BY <4>2 DEF InsertItem, rows
            <4> QED BY <1>2, <4>1, <4>2
        <3>2. PICK v \in {"insertItems", "insertPayment"} : pc' = [pc EXCEPT ![r] = v]
            <4>1. CASE InsertOrder(r)
                BY <4>1, <2>2 DEF InsertOrder
            <4>2. CASE InsertItem(r)
                BY <4>2 DEF InsertItem
            <4> QED BY <1>2, <4>1, <4>2
        <3>3. \A s \in Requests \ {r} : todo'[s] = todo[s]
            <4>1. CASE InsertOrder(r)
                BY <4>1, <2>2 DEF InsertOrder, TypeOK
            <4>2. CASE InsertItem(r)
                BY <4>2 DEF InsertItem, TypeOK
            <4> QED BY <1>2, <4>1, <4>2
        <3>4. pc'[r] = v /\ v \in InTx
            BY <3>2 DEF TypeOK, InTx, CreatePCs
        <3>5. PriceOK(r)'
            BY <1>a, <3>1, <3>2, <3>4 DEF RequestOK, PriceOK, CreatePCs
        <3>6. TaskOK(r)'
            BY <1>a, <3>1, <3>2, <3>4 DEF RequestOK, TaskOK, CancelPCs, PayPCs
        <3> QED BY <3>1, <3>2, <3>3, <3>4, <3>5, <3>6, MoveClient
    <2> QED BY <2>1, <2>2
<1> QED BY <1>1, <1>2

LEMMA OnOrderClient ==
    ASSUME TypeOK, Inv, ClientInv, NEW r \in Requests,
           \/ CancelLockOrder(r) \/ RestoreItem(r) \/ PayLockOrder(r)
           \/ LockPayment(r) \/ Charge(r)
    PROVE  ClientInv'
<1>a. RequestOK(r)
    BY DEF ClientInv
<1>1. UNCHANGED <<products, orders, payments, outcome, input, prices>>
    <2>1. CASE CancelLockOrder(r)
        BY <2>1 DEF CancelLockOrder, rows, txVars
    <2>2. CASE RestoreItem(r)
        BY <2>2 DEF RestoreItem, rows, txVars
    <2>3. CASE PayLockOrder(r)
        BY <2>3 DEF PayLockOrder, rows, txVars
    <2>4. CASE LockPayment(r)
        BY <2>4 DEF LockPayment, rows, txVars
    <2>5. CASE Charge(r)
        BY <2>5 DEF Charge, rows, txVars
    <2> QED BY <2>1, <2>2, <2>3, <2>4, <2>5
<1>2. \A s \in Requests \ {r} : todo'[s] = todo[s]
    <2>1. CASE CancelLockOrder(r)
        BY <2>1 DEF CancelLockOrder, txVars, TypeOK
    <2>2. CASE RestoreItem(r)
        BY <2>2 DEF RestoreItem, txVars, TypeOK
    <2>3. CASE PayLockOrder(r)
        BY <2>3 DEF PayLockOrder, txVars, TypeOK
    <2>4. CASE LockPayment(r)
        BY <2>4 DEF LockPayment, txVars, TypeOK
    <2>5. CASE Charge(r)
        BY <2>5 DEF Charge, txVars, TypeOK
    <2> QED BY <2>1, <2>2, <2>3, <2>4, <2>5
<1>3. PICK v \in {"restore", "markCancelled", "payLockPayment", "charge", "recordCharge"} :
        /\ pc' = [pc EXCEPT ![r] = v]
        /\ v \in CancelPCs => pc[r] \in CancelPCs
        /\ v \in PayPCs => pc[r] \in PayPCs
    <2>1. CASE CancelLockOrder(r)
        BY <2>1 DEF CancelLockOrder, CancelPCs, PayPCs
    <2>2. CASE RestoreItem(r)
        BY <2>2 DEF RestoreItem, CancelPCs, PayPCs
    <2>3. CASE PayLockOrder(r)
        BY <2>3 DEF PayLockOrder, CancelPCs, PayPCs
    <2>4. CASE LockPayment(r)
        BY <2>4 DEF LockPayment, CancelPCs, PayPCs
    <2>5. CASE Charge(r)
        BY <2>5 DEF Charge, CancelPCs, PayPCs
    <2> QED BY <2>1, <2>2, <2>3, <2>4, <2>5
<1>4. pc'[r] = v /\ v \in InTx /\ v \notin CreatePCs
    BY <1>3 DEF TypeOK, InTx, CreatePCs, CancelPCs, PayPCs
<1>5. pc[r] # "idle" /\ orders[input[r].order].user = input[r].user
    <2>1. CASE CancelLockOrder(r)
        BY <1>a, <2>1 DEF CancelLockOrder, Visible, RequestOK, TaskOK
    <2>2. CASE RestoreItem(r)
        BY <1>a, <2>2 DEF RestoreItem, Visible, RequestOK, TaskOK
    <2>3. CASE PayLockOrder(r)
        BY <1>a, <2>3 DEF PayLockOrder, Visible, RequestOK, TaskOK
    <2>4. CASE LockPayment(r)
        BY <1>a, <2>4 DEF LockPayment, Visible, RequestOK, TaskOK
    <2>5. CASE Charge(r)
        BY <1>a, <2>5 DEF Charge, Visible, RequestOK, TaskOK
    <2> QED BY <2>1, <2>2, <2>3, <2>4, <2>5
<1>6. TaskOK(r)'
    BY <1>a, <1>1, <1>3, <1>4, <1>5 DEF RequestOK, TaskOK
<1>7. PriceOK(r)'
    BY <1>4 DEF PriceOK
<1> QED BY <1>1, <1>2, <1>3, <1>4, <1>6, <1>7, MoveClient

\* A request arrives.
LEMMA BeginClient ==
    ASSUME TypeOK, Inv, ClientInv, NEW r \in Requests,
           BeginCreate(r) \/ BeginCancel(r) \/ BeginPay(r)
    PROVE  ClientInv'
<1>1. PICK i \in Inputs :
        /\ input' = [input EXCEPT ![r] = i]
        /\ \/ /\ pc' = [pc EXCEPT ![r] = "lockProducts"]
              /\ todo' = [todo EXCEPT ![r] = ProductsOf(i.cart)]
           \/ i.op = "cancel" /\ pc' = [pc EXCEPT ![r] = "cancelLock"] /\ UNCHANGED todo
           \/ i.op = "pay" /\ pc' = [pc EXCEPT ![r] = "payLockOrder"] /\ UNCHANGED todo
    BY DEF BeginCreate, BeginCancel, BeginPay, BeginOnOrder, txVars
<1>2. UNCHANGED <<products, orders, payments, outcome, prices>>
    BY DEF BeginCreate, BeginCancel, BeginPay, BeginOnOrder, txVars, rows
<1>3. input'[r] = i /\ \A s \in Requests \ {r} : input'[s] = input[s] /\ todo'[s] = todo[s]
    BY <1>1 DEF TypeOK
<1>4. PICK v \in {"lockProducts", "cancelLock", "payLockOrder"} :
        /\ pc' = [pc EXCEPT ![r] = v] /\ pc'[r] = v
        /\ v = "lockProducts" => todo'[r] = ProductsOf(i.cart)
        /\ v = "cancelLock" => i.op = "cancel"
        /\ v = "payLockOrder" => i.op = "pay"
    BY <1>1 DEF TypeOK
<1>5. PriceOK(r)'
    BY <1>3, <1>4 DEF PriceOK, CreatePCs
<1>6. TaskOK(r)'
    BY <1>3, <1>4 DEF TaskOK, CancelPCs, PayPCs
<1>7. v \in InTx
    BY DEF InTx, CreatePCs, CancelPCs, PayPCs
<1> QED BY <1>2, <1>3, <1>4, <1>5, <1>6, <1>7, MoveClient

\* A request that is answered as it arrives: an empty cart, a catalogue write.
LEMMA AtOnceClient ==
    ASSUME TypeOK, Inv, ClientInv, NEW r \in Requests, NEW i \in Inputs, NEW a,
           pc[r] = "idle",
           pc' = [pc EXCEPT ![r] = "done"],
           input' = [input EXCEPT ![r] = i],
           outcome' = [outcome EXCEPT ![r] = a],
           UNCHANGED <<orders, payments, todo, prices>>,
           \A p \in Products : productLock[p] # None => products'[p].price = products[p].price,
           \/ i.op = "create" /\ a = "invalid"
           \/ i.op \in {"addProduct", "patchProduct", "deleteProduct"}
    PROVE  ClientInv'
<1>1. /\ pc'[r] = "done" /\ input'[r] = i /\ outcome'[r] = a
      /\ \A s \in Requests \ {r} : Untouched(s)
    BY DEF Untouched, TypeOK
<1>2. orders'[r].status = "none"
    BY DEF Inv, TxInv
<1>3. TaskOK(r)' /\ PriceOK(r)'
    BY <1>1 DEF TaskOK, PriceOK, CreatePCs, CancelPCs, PayPCs
<1>4. AnswerOK(r)'
    BY <1>1, <1>2 DEF AnswerOK
<1> QED BY <1>1, <1>3, <1>4, RowsKept, OthersKept DEF RequestOK

\* What a catalogue write may change: one row that nobody has locked.
LEMMA CatalogSteps ==
    ASSUME TypeOK, Inv, NEW r \in Requests,
           CatalogRefused(r) \/ CreateProduct(r) \/ UpdateProduct(r) \/ DeleteProduct(r)
    PROVE  /\ pc[r] = "idle"
           /\ \E i \in Inputs, a \in Outcomes :
                /\ i.op \in {"addProduct", "patchProduct", "deleteProduct"}
                /\ i.product \in Products
                /\ CatalogAnswer(r, i, a)
                /\ \/ UNCHANGED products
                   \/ /\ productLock[i.product] = None
                      /\ \E x : products' = [products EXCEPT ![i.product] = x]
<1>1. PICK i \in Inputs, a \in Outcomes :
        /\ i.op \in {"addProduct", "patchProduct", "deleteProduct"}
        /\ CatalogAnswer(r, i, a)
        /\ \/ UNCHANGED products
           \/ /\ productLock[i.product] = None \/ products[i.product].state = "unborn"
              /\ \E x : products' = [products EXCEPT ![i.product] = x]
    <2>1. CASE CreateProduct(r)
        BY <2>1 DEF CreateProduct, CatalogDone, Outcomes, Refusals
    <2>2. CASE UpdateProduct(r)
        BY <2>2 DEF UpdateProduct, CatalogDone, Outcomes, Refusals
    <2>3. CASE DeleteProduct(r)
        BY <2>3 DEF DeleteProduct, CatalogDone, Outcomes, Refusals
    <2>4. CASE CatalogRefused(r)
        BY <2>4 DEF CatalogRefused, Outcomes, Refusals
    <2> QED BY <2>1, <2>2, <2>3, <2>4
<1>2. i.product \in Products
    BY <1>1, InputTypes DEF CatalogInputs
<1>3. products[i.product].state = "unborn" => productLock[i.product] = None
    BY <1>2 DEF Inv, StockInv
<1>4. pc[r] = "idle"
    BY DEF CatalogRefused, CreateProduct, UpdateProduct, DeleteProduct
<1> QED BY <1>1, <1>2, <1>3, <1>4

LEMMA CatalogClient ==
    ASSUME TypeOK, Inv, ClientInv, NEW r \in Requests,
           \/ RejectCart(r) \/ CatalogRefused(r) \/ CreateProduct(r)
           \/ UpdateProduct(r) \/ DeleteProduct(r)
    PROVE  ClientInv'
<1>1. CASE RejectCart(r)
    <2>1. PICK i \in Inputs : i.op = "create" /\ input' = [input EXCEPT ![r] = i]
        BY <1>1 DEF RejectCart
    <2> QED BY <1>1, <2>1, AtOnceClient DEF RejectCart, rows, txVars
<1>2. CASE CatalogRefused(r) \/ CreateProduct(r) \/ UpdateProduct(r) \/ DeleteProduct(r)
    <2>1. PICK i \in Inputs, a \in Outcomes :
            /\ i.op \in {"addProduct", "patchProduct", "deleteProduct"}
            /\ i.product \in Products
            /\ CatalogAnswer(r, i, a)
            /\ \/ UNCHANGED products
               \/ /\ productLock[i.product] = None
                  /\ \E x : products' = [products EXCEPT ![i.product] = x]
        BY <1>2, CatalogSteps
    <2>2. \A p \in Products : productLock[p] # None => products'[p].price = products[p].price
        BY <2>1 DEF TypeOK
    <2>3. pc[r] = "idle"
        BY <1>2, CatalogSteps
    <2> QED BY <2>1, <2>2, <2>3, AtOnceClient DEF CatalogAnswer, txVars
<1> QED BY <1>1, <1>2

LEMMA ClientStep == TypeOK /\ Inv /\ ClientInv /\ [Next]_vars => ClientInv'
<1> SUFFICES ASSUME TypeOK, Inv, ClientInv, [Next]_vars
             PROVE  ClientInv'
    OBVIOUS
<1>1. CASE UNCHANGED vars
    BY <1>1 DEF vars, rows, txVars, ClientInv, RequestOK, PriceOK, TaskOK, AnswerOK
<1> QED BY <1>1, RefusedClient, CommitClient, CreateClient, OnOrderClient, BeginClient,
        CatalogClient DEF Next, Step, Quiescent

LEMMA ClientInit == Init => ClientInv
BY DEF Init, ClientInv, RequestOK, PriceOK, TaskOK, AnswerOK, CreatePCs, CancelPCs, PayPCs

\* The invariant of the requests in flight and of those answered.
THEOREM ClientInvariance == Spec => [](TypeOK /\ Inv /\ ClientInv)
<1>1. TypeOK /\ Inv /\ ClientInv /\ [Next]_vars => (TypeOK /\ Inv /\ ClientInv)'
    BY NextInv, ClientStep
<1> QED BY <1>1, InitInv, ClientInit, PTL DEF Spec

\* What a create, a cancel or a payment was told stays true of the tables, for
\* any number of requests, any interleaving and any faults.
THEOREM AnswersHold == Spec => []AnswersAgreeWithRows
<1>1. ClientInv => AnswersAgreeWithRows
    BY DEF ClientInv, RequestOK, AnswerOK, AnswersAgreeWithRows
<1> QED BY <1>1, ClientInvariance, PTL

\* An order appears by the commit of the request it is named after.
LEMMA OrderAppears ==
    ASSUME TypeOK, Inv, [Next]_vars, NEW o \in Requests,
           orders[o].status = "none", orders'[o].status # "none"
    PROVE  CommitCreate(o)
<1>1. PICK r \in Requests : CommitCreate(r) \/ CommitCancel(r) \/ CommitPay(r)
    BY OrdersWriters
<1>2. r = o
    BY <1>1, RowsKept DEF RowStep
<1>3. ~CommitCancel(o) /\ ~CommitPay(o)
    <2> SUFFICES ASSUME CommitCancel(o) \/ CommitPay(o) PROVE FALSE
        OBVIOUS
    <2>1. orders[input[o].order].status = "pending"
        BY DEF CommitCancel, CommitPay, Inv, PayInv, PayOK
    <2>2. orders'[o] = orders[o]
        BY <2>1 DEF CommitCancel, CommitPay, TypeOK
    <2> QED BY <2>2
<1> QED BY <1>1, <1>2, <1>3

\* An order is committed at the prices its products have in that very state,
\* whatever the administrators change meanwhile.
THEOREM PricesAreCurrent == Spec => SnapshotIsCurrent
<1>1. TypeOK /\ Inv /\ ClientInv /\ [Next]_vars => [\A o \in Requests : PricedNow(o)]_vars
    <2> SUFFICES ASSUME TypeOK, Inv, ClientInv, [Next]_vars, NEW o \in Requests,
                        orders[o].status = "none", orders'[o].status # "none",
                        NEW n \in DOMAIN orders'[o].items
                 PROVE  orders'[o].items[n].price = products[orders'[o].items[n].product].price
        BY DEF PricedNow
    <2>3. CommitCreate(o)
        BY OrderAppears
    <2> DEFINE line == input[o].cart[n]
    <2>4. /\ n \in DOMAIN input[o].cart
          /\ orders'[o].items[n] = ItemOf(line, prices[o][line.product])
        BY <2>3 DEF CommitCreate, TypeOK
    <2>5. /\ orders'[o].items[n].price = prices[o][line.product]
          /\ orders'[o].items[n].product = line.product
        BY <2>4 DEF ItemOf
    <2>6. line.product \in ProductsOf(input[o].cart)
        BY <2>4 DEF ProductsOf
    <2>7. prices[o][line.product] = products[line.product].price
        BY <2>3, <2>6 DEF CommitCreate, ClientInv, RequestOK, PriceOK, CreatePCs
    <2> QED BY <2>5, <2>7
<1> QED BY <1>1, ClientInvariance, PTL DEF Spec, SnapshotIsCurrent

=============================================================================
