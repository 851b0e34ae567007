----------------------------- MODULE OrdersProofs -----------------------------
(***************************************************************************)
(* Theorems about Orders, for every set of requests, products, inputs and  *)
(* every column width.                                                     *)
(*                                                                         *)
(* The inductive invariant is TypeOK /\ Inv.  Inv says, request by         *)
(* request, which locks go with which statement (LockInv), what the        *)
(* private state of an open transaction means (TxInv), what a payment in   *)
(* flight relies on (PayInv), which checks the rows written so far have    *)
(* passed (LineInv), and row by row that an uncommitted stock change is    *)
(* covered by the row's lock (StockInv).                                   *)
(***************************************************************************)
EXTENDS Orders, SumTheorems

HoldsNothing(r) ==
    /\ \A p \in Products : productLock[p] # r
    /\ \A o \in Requests : orderLock[o] # r /\ paymentLock[o] # r

\* Inputs and work lists fit the statement a request is at.
TxInv ==
    \A r \in Requests :
        /\ pc[r] \in CreatePCs => input[r] \in Inputs /\ input[r] \in CreateInputs
        /\ pc[r] \in CancelPCs \cup PayPCs => input[r] \in OrderInputs
        /\ pc[r] \in CreatePCs \cup {"idle"} => orders[r].status = "none"
        /\ pc[r] = "lockProducts" => todo[r] \subseteq ProductsOf(input[r].cart)
        /\ pc[r] = "insertItems" => todo[r] \subseteq DOMAIN input[r].cart
        /\ pc[r] = "restore" => todo[r] \subseteq DOMAIN orders[input[r].order].items

\* A stock change that is not committed belongs to the holder of the row, whose
\* view of the stock is within the column's range; a locked product is live, and
\* what is live has a price.
StockInv ==
    /\ \A r \in Requests, p \in Products :
        delta[r][p] # 0 => productLock[p] = r /\ View(r, p) \in 0 .. MaxStock
    /\ \A p \in Products : productLock[p] # None => products[p].state = "live"
    /\ \A p \in Products : products[p].state = "live" => products[p].price >= 1

\* The locks a request holds at each statement.
LockOK(r) ==
    /\ pc[r] \in {"idle", "done", "cancelLock", "payLockOrder"} => HoldsNothing(r)
    /\ pc[r] = "payLockPayment" =>
        /\ \A p \in Products : productLock[p] # r
        /\ \A o \in Requests : paymentLock[o] # r
    /\ pc[r] = "lockProducts" =>
        /\ \A p \in ProductsOf(input[r].cart) \ todo[r] : productLock[p] = r
        /\ \A p \in Products, q \in todo[r] : productLock[p] = r => p < q
    /\ pc[r] \in {"insertOrder", "insertItems", "insertPayment"} =>
        \A p \in ProductsOf(input[r].cart) : productLock[p] = r
    /\ pc[r] = "restore" =>
        \A p \in Products, n \in todo[r] :
            productLock[p] = r => p <= orders[input[r].order].items[n].product

LockInv == \A r \in Requests : LockOK(r)

\* Cancel and Pay work under the lock of the order they read.
PayOK(r) ==
    /\ pc[r] \in {"restore", "markCancelled"} =>
        /\ orderLock[input[r].order] = r
        /\ orders[input[r].order].status = "pending"
    /\ pc[r] \in {"payLockPayment", "charge", "recordCharge"} =>
        /\ orderLock[input[r].order] = r
        /\ orders[input[r].order].status = seen[r]
        /\ seen[r] # "none"
    /\ pc[r] \in {"charge", "recordCharge"} => seen[r] = "pending"
    /\ pc[r] = "recordCharge" => charge[r] \in {"success", "failed"}

PayInv == \A r \in Requests : PayOK(r)

\* The order row and the lines a create has written so far satisfy the CHECK
\* constraints.
LineOK(r) ==
    pc[r] \in {"insertItems", "insertPayment"} =>
        /\ total[r] >= 0
        /\ pc[r] = "insertPayment" => todo[r] = {}
        /\ \A n \in DOMAIN input[r].cart \ todo[r] :
            LET line == input[r].cart[n]
                item == ItemOf(line, prices[r][line.product])
            IN  item.quantity \in 1 .. MaxStock /\ item.subtotal >= 0

LineInv == \A r \in Requests : LineOK(r)

Inv == TxInv /\ StockInv /\ LockInv /\ PayInv /\ LineInv /\ PaymentAgreement

-----------------------------------------------------------------------------
(* The operators of the model.                                             *)

\* A word holds a value of its range.
LEMMA WrapRange ==
    ASSUME NEW n \in Int, NEW max \in Nat
    PROVE  Wrap(n, max) \in -(max + 1) .. max
<1>1. PICK w \in Nat : w = 2 * (max + 1) /\ w > 0
    OBVIOUS
<1>2. (n + max + 1) % w \in 0 .. w - 1
    BY <1>1
<1> QED BY <1>1, <1>2 DEF Wrap

\* int32 returns a value of the stock column's range.
LEMMA Int32Range == \A n \in Int : Int32(n) \in -(MaxStock + 1) .. MaxStock
BY WrapRange, CatalogAssumption DEF Int32

LEMMA Int32Type == \A n \in Int : Int32(n) \in Int
BY Int32Range, CatalogAssumption

\* Words are integers, amounts those that are not negative.
LEMMA WordType ==
    /\ Word \subseteq Int /\ Amount \subseteq Word /\ Amount \subseteq Nat
    /\ 0 \in Amount /\ 1 \in Amount
    /\ \A n \in Word : n >= 0 => n \in Amount
BY CatalogAssumption DEF Word, Amount

\* 64-bit arithmetic returns a word.
LEMMA Int64Type == \A n \in Int : Int64(n) \in Word /\ Int64(n) \in Int
<1> SUFFICES ASSUME NEW n \in Int PROVE Int64(n) \in Word /\ Int64(n) \in Int
    OBVIOUS
<1>1. Wrap(n, MaxAmount) \in -(MaxAmount + 1) .. MaxAmount
    BY WrapRange, CatalogAssumption
<1> QED BY <1>1, CatalogAssumption DEF Int64, Word

\* Writing a stock within the column's range leaves a product row.
LEMMA StockUpdate ==
    ASSUME NEW x \in Product, NEW v \in 0 .. MaxStock
    PROVE  /\ [x EXCEPT !.stock = v] \in Product
           /\ [x EXCEPT !.stock = v].stock = v
           /\ [x EXCEPT !.stock = v].state = x.state
BY DEF Product

\* Writing a status leaves an order row, or a payment row.
LEMMA StatusUpdate ==
    /\ \A x \in Order, v \in OrderStatus :
        [x EXCEPT !.status = v] \in Order /\ [x EXCEPT !.status = v].total = x.total
    /\ \A x \in Payment, v \in PaymentStatus :
        [x EXCEPT !.status = v] \in Payment /\ [x EXCEPT !.status = v].amount = x.amount
BY DEF Order, Payment

\* A create's input has a cart, the others an order.
LEMMA InputTypes ==
    ASSUME NEW i \in Inputs
    PROVE  /\ i.op = "create" => i \in CreateInputs
           /\ i.op \in {"cancel", "pay"} => i \in OrderInputs
           /\ i.op \in {"addProduct", "patchProduct", "deleteProduct"} => i \in CatalogInputs
BY InputsAssumption DEF CreateInputs, OrderInputs, CatalogInputs

\* A list of lines has finitely many of them.
LEMMA LinesFinite ==
    ASSUME NEW X, NEW lines \in Seq(X)
    PROVE  /\ DOMAIN lines = 1 .. Len(lines) /\ Len(lines) \in Nat
           /\ \A S \in SUBSET DOMAIN lines : IsFiniteSet(S)
<1>1. DOMAIN lines = 1 .. Len(lines) /\ Len(lines) \in Nat
    OBVIOUS
<1>2. IsFiniteSet(1 .. Len(lines))
    BY <1>1, FS_Interval
<1> QED BY <1>1, <1>2, FS_Subset

LEMMA UnitsType ==
    ASSUME NEW lines, NEW S, IsFiniteSet(S), S \subseteq DOMAIN lines, NEW p,
           \A n \in S : lines[n].quantity \in Int
    PROVE  Units(lines, S, p) \in Int
<1> DEFINE q == [n \in DOMAIN lines |-> lines[n].quantity]
           T == {n \in S : lines[n].product = p}
<1>1. IsFiniteSet(T) /\ \A n \in T : q[n] \in Int
    BY FS_Subset
<1> HIDE DEF q, T
<1>2. SumFunctionOnSet(q, T) \in Int
    BY <1>1, SumType
<1> QED BY <1>2 DEF Units, q, T

\* Quantities are integers.
LEMMA QuantityType ==
    ASSUME NEW i \in Inputs, i.op = "create"
    PROVE  /\ ProductsOf(i.cart) \subseteq Products
           /\ \A p \in ProductsOf(i.cart) : quantityByProduct(i.cart)[p] \in Int
<1>1. i.cart \in Seq(Line)
    BY InputTypes DEF CreateInputs
<1>2. ProductsOf(i.cart) \subseteq Products
    <2>1. \A n \in DOMAIN i.cart : i.cart[n] \in Line
        BY <1>1
    <2> QED BY <2>1 DEF ProductsOf, Line
<1>3. ASSUME NEW p \in ProductsOf(i.cart)
      PROVE  quantityByProduct(i.cart)[p] \in Int
    <2>1. IsFiniteSet(DOMAIN i.cart)
        BY <1>1, LinesFinite
    <2>2. \A n \in DOMAIN i.cart : i.cart[n].quantity \in Int
        <3>1. \A n \in DOMAIN i.cart : i.cart[n] \in Line
            BY <1>1
        <3> QED BY <3>1, WordType DEF Line
    <2>3. Units(i.cart, DOMAIN i.cart, p) \in Int
        BY <2>1, <2>2, UnitsType
    <2> QED BY <2>3, Int64Type DEF quantityByProduct
<1> QED BY <1>2, <1>3

\* Between its first and its last statement a create has a cart of known products.
LEMMA CartTypes ==
    ASSUME TypeOK, Inv, NEW r \in Requests, pc[r] \in CreatePCs
    PROVE  /\ input[r] \in Inputs /\ input[r] \in CreateInputs /\ input[r].op = "create"
           /\ ProductsOf(input[r].cart) \subseteq Products
           /\ \A n \in DOMAIN input[r].cart : input[r].cart[n] \in Line
<1>1. input[r] \in CreateInputs /\ input[r].op = "create"
    BY DEF Inv, TxInv, CreateInputs
<1>2. input[r] \in Inputs
    BY DEF Inv, TxInv
<1>3. ProductsOf(input[r].cart) \subseteq Products
    BY <1>1, <1>2, QuantityType
<1>4. \A n \in DOMAIN input[r].cart : input[r].cart[n] \in Line
    <2>1. input[r].cart \in Seq(Line)
        BY <1>1 DEF CreateInputs
    <2> QED BY <2>1
<1> QED BY <1>1, <1>2, <1>3, <1>4

\* The lines of a request stand while another request moves.
LEMMA LineFrame ==
    ASSUME Inv, NEW s \in Requests,
           pc'[s] = pc[s], input'[s] = input[s], todo'[s] = todo[s],
           prices'[s] = prices[s], total'[s] = total[s]
    PROVE  LineOK(s)'
BY DEF Inv, LineInv, LineOK

\* The initial state satisfies the invariant.
LEMMA InitInv == Init => TypeOK /\ Inv
<1> SUFFICES ASSUME Init PROVE TypeOK /\ Inv
    OBVIOUS
<1>1. TypeOK
    BY CatalogAssumption, WordType DEF Init, TypeOK, NoProduct, NoOrder, NoPayment, Zero, Product, Order,
        Payment, Outcomes
<1>2. TxInv
    BY DEF Init, TxInv, NoOrder, CreatePCs, CancelPCs, PayPCs
<1>3. StockInv
    BY DEF Init, StockInv, Zero, NoProduct
<1>4. LockInv
    BY NoneAssumption DEF Init, LockInv, LockOK, HoldsNothing
<1>5. PayInv
    BY DEF Init, PayInv, PayOK
<1>6. PaymentAgreement
    BY DEF Init, PaymentAgreement, NoOrder, NoPayment
<1>7. LineInv
    BY DEF Init, LineInv, LineOK
<1> QED BY <1>1, <1>2, <1>3, <1>4, <1>5, <1>6, <1>7 DEF Inv

\* A transaction that is rolled back takes its locks and its writes with it.
LEMMA RollbackInv ==
    ASSUME TypeOK, Inv, NEW r \in Requests, NEW a \in Outcomes, Rollback(r, a)
    PROVE  TypeOK' /\ Inv'
<1> USE DEF Rollback, Finish, Release, rows, ghosts
<1>1. TypeOK'
    BY WordType DEF TypeOK, Zero
<1>2. TxInv'
    BY DEF TypeOK, Inv, TxInv, CreatePCs, CancelPCs, PayPCs, InTx
<1>3. StockInv'
    BY NoneAssumption DEF TypeOK, Inv, StockInv, View, Zero
<1>4. LockInv'
    <2> SUFFICES ASSUME NEW s \in Requests PROVE LockOK(s)'
        BY DEF LockInv
    <2>1. CASE s = r
        BY <2>1, NoneAssumption DEF TypeOK, LockOK, HoldsNothing
    <2>2. CASE s # r
        <3>1. pc[s] \in CreatePCs => ProductsOf(input[s].cart) \subseteq Products
            BY CartTypes
        <3> QED BY <2>2, <3>1, NoneAssumption
                DEF TypeOK, Inv, LockInv, LockOK, HoldsNothing, CreatePCs
    <2> QED BY <2>1, <2>2
<1>5. PayInv'
    BY DEF TypeOK, Inv, PayInv, PayOK, TxInv, OrderInputs, CancelPCs, PayPCs
<1>6. PaymentAgreement'
    BY DEF Inv, PaymentAgreement
<1>7. LineInv'
    <2> SUFFICES ASSUME NEW s \in Requests PROVE LineOK(s)'
        BY DEF LineInv
    <2>1. CASE s = r
        BY <2>1 DEF TypeOK, LineOK
    <2>2. CASE s # r
        BY <2>2, LineFrame DEF TypeOK
    <2> QED BY <2>1, <2>2
<1> QED BY <1>1, <1>2, <1>3, <1>4, <1>5, <1>6, <1>7 DEF Inv



-----------------------------------------------------------------------------
(* Requests arrive.                                                        *)

LEMMA RejectCartInv ==
    ASSUME TypeOK, Inv, NEW r \in Requests, RejectCart(r)
    PROVE  TypeOK' /\ Inv'
<1> USE DEF RejectCart, rows, locks, txVars, ghosts
<1>1. TypeOK'
    BY DEF TypeOK, Outcomes, Refusals
<1>2. TxInv'
    BY DEF TypeOK, Inv, TxInv, CreatePCs, CancelPCs, PayPCs
<1>3. StockInv'
    BY DEF Inv, StockInv, View
<1>4. LockInv'
    BY DEF TypeOK, Inv, LockInv, LockOK, HoldsNothing
<1>5. PayInv'
    BY DEF TypeOK, Inv, PayInv, PayOK
<1>6. PaymentAgreement'
    BY DEF Inv, PaymentAgreement
<1>7. LineInv'
    <2> SUFFICES ASSUME NEW s \in Requests PROVE LineOK(s)'
        BY DEF LineInv
    <2>1. CASE s = r
        BY <2>1 DEF TypeOK, LineOK
    <2>2. CASE s # r
        BY <2>2, LineFrame DEF TypeOK
    <2> QED BY <2>1, <2>2
<1> QED BY <1>1, <1>2, <1>3, <1>4, <1>5, <1>6, <1>7 DEF Inv

LEMMA BeginCreateInv ==
    ASSUME TypeOK, Inv, NEW r \in Requests, BeginCreate(r)
    PROVE  TypeOK' /\ Inv'
<1> PICK i \in Inputs :
        /\ i.op = "create"
        /\ input' = [input EXCEPT ![r] = i]
        /\ todo' = [todo EXCEPT ![r] = ProductsOf(i.cart)]
    BY DEF BeginCreate
<1>a. i \in CreateInputs /\ ProductsOf(i.cart) \subseteq Products /\ ProductsOf(i.cart) \subseteq Int
    BY InputTypes, QuantityType, CatalogAssumption
<1> USE DEF BeginCreate, rows, locks, ghosts
<1>1. TypeOK'
    BY <1>a DEF TypeOK, InTx, CreatePCs
<1>2. TxInv'
    BY <1>a DEF TypeOK, Inv, TxInv, CreatePCs, CancelPCs, PayPCs
<1>3. StockInv'
    BY DEF Inv, StockInv, View
<1>4. LockInv'
    BY DEF TypeOK, Inv, LockInv, LockOK, HoldsNothing
<1>5. PayInv'
    BY DEF TypeOK, Inv, PayInv, PayOK
<1>6. PaymentAgreement'
    BY DEF Inv, PaymentAgreement
<1>7. LineInv'
    <2> SUFFICES ASSUME NEW s \in Requests PROVE LineOK(s)'
        BY DEF LineInv
    <2>1. CASE s = r
        BY <2>1 DEF TypeOK, LineOK
    <2>2. CASE s # r
        BY <2>2, LineFrame DEF TypeOK
    <2> QED BY <2>1, <2>2
<1> QED BY <1>1, <1>2, <1>3, <1>4, <1>5, <1>6, <1>7 DEF Inv

LEMMA BeginOnOrderInv ==
    ASSUME TypeOK, Inv, NEW r \in Requests,
           BeginOnOrder(r, "cancel", "cancelLock") \/ BeginOnOrder(r, "pay", "payLockOrder")
    PROVE  TypeOK' /\ Inv'
<1> PICK i \in Inputs :
        /\ i.op \in {"cancel", "pay"}
        /\ input' = [input EXCEPT ![r] = i]
    BY DEF BeginOnOrder
<1>a. i \in OrderInputs
    BY InputTypes
<1>b. \/ pc' = [pc EXCEPT ![r] = "cancelLock"]
      \/ pc' = [pc EXCEPT ![r] = "payLockOrder"]
    BY DEF BeginOnOrder
<1>c. pc[r] = "idle" /\ UNCHANGED <<rows, locks, txVars, outcome, ghosts>>
    BY DEF BeginOnOrder
<1> USE <1>a, <1>b, <1>c DEF rows, locks, txVars, ghosts
<1>1. TypeOK'
    BY DEF TypeOK, InTx, CancelPCs, PayPCs
<1>2. TxInv'
    BY DEF TypeOK, Inv, TxInv, CreatePCs, CancelPCs, PayPCs
<1>3. StockInv'
    BY DEF Inv, StockInv, View
<1>4. LockInv'
    BY DEF TypeOK, Inv, LockInv, LockOK, HoldsNothing
<1>5. PayInv'
    BY DEF TypeOK, Inv, PayInv, PayOK
<1>6. PaymentAgreement'
    BY DEF Inv, PaymentAgreement
<1>7. LineInv'
    <2> SUFFICES ASSUME NEW s \in Requests PROVE LineOK(s)'
        BY DEF LineInv
    <2>1. CASE s = r
        BY <2>1 DEF TypeOK, LineOK
    <2>2. CASE s # r
        BY <2>2, LineFrame DEF TypeOK
    <2> QED BY <2>1, <2>2
<1> QED BY <1>1, <1>2, <1>3, <1>4, <1>5, <1>6, <1>7 DEF Inv

-----------------------------------------------------------------------------
(* Placing an order.                                                       *)

LEMMA LockProductInv ==
    ASSUME TypeOK, Inv, NEW r \in Requests, LockProduct(r)
    PROVE  TypeOK' /\ Inv'
<1>a. input[r] \in Inputs /\ input[r] \in CreateInputs /\ input[r].op = "create"
    BY CartTypes DEF LockProduct, CreatePCs
<1> DEFINE quantity == quantityByProduct(input[r].cart)
<1>b. /\ ProductsOf(input[r].cart) \subseteq Products
      /\ todo[r] \subseteq ProductsOf(input[r].cart)
      /\ \A p \in todo[r] : p \in Products /\ p \in Int /\ quantity[p] \in Int
    BY <1>a, QuantityType, CatalogAssumption DEF Inv, TxInv, LockProduct
<1> HIDE DEF quantity
<1> PICK p \in todo[r] :
        /\ Least(p, todo[r])
        /\ products[p].state = "live"
        /\ MayLock(productLock, p, r)
        /\ productLock' = [productLock EXCEPT ![p] = r]
        /\ prices' = [prices EXCEPT ![r][p] = products[p].price]
        /\ total' = [total EXCEPT ![r] = Int64(@ + products[p].price * quantity[p])]
        /\ todo' = [todo EXCEPT ![r] = @ \ {p}]
    BY DEF LockProduct, quantity
<1>c. /\ pc[r] = "lockProducts"
      /\ pc' = [pc EXCEPT ![r] = IF todo'[r] = {} THEN "insertOrder" ELSE @]
      /\ UNCHANGED <<rows, orderLock, paymentLock, input, delta, seen, charge, outcome, ghosts>>
    BY DEF LockProduct
<1>d. pc'[r] \in {"lockProducts", "insertOrder"} /\ todo'[r] = todo[r] \ {p}
      /\ (pc'[r] = "insertOrder" => todo'[r] = {})
    BY <1>c DEF TypeOK
<1>e. products[p].price \in Amount
    BY <1>b DEF TypeOK, Product
<1> USE <1>b, <1>c DEF rows, ghosts
<1>1. TypeOK'
    <2>1. Int64(total[r] + products[p].price * quantity[p]) \in Word
        <3>1. products[p].price \in Int /\ total[r] \in Int
            BY <1>e, WordType DEF TypeOK
        <3>2. products[p].price * quantity[p] \in Int
            BY <3>1
        <3> QED BY <3>1, <3>2, Int64Type
    <2>2. total' \in [Requests -> Word]
        BY <2>1 DEF TypeOK
    <2>3. prices' \in [Requests -> [Products -> Amount]]
        BY <1>e DEF TypeOK
    <2> QED BY <2>2, <2>3 DEF TypeOK, InTx, CreatePCs
<1>2. TxInv'
    BY <1>d DEF TypeOK, Inv, TxInv, CreatePCs, CancelPCs, PayPCs
<1>3. StockInv'
    BY NoneAssumption DEF TypeOK, Inv, StockInv, View, MayLock
<1>4. LockInv'
    <2> SUFFICES ASSUME NEW s \in Requests PROVE LockOK(s)'
        BY DEF LockInv
    <2>1. CASE s = r
        <3>1. /\ \A q \in ProductsOf(input[r].cart) \ todo[r] : productLock[q] = r
              /\ \A q \in Products, m \in todo[r] : productLock[q] = r => q < m
            BY DEF Inv, LockInv, LockOK
        <3>2. \A q \in ProductsOf(input[r].cart) \ todo'[r] : productLock'[q] = r
            BY <3>1, <1>d DEF TypeOK
        <3>3. \A m \in todo'[r] : m \in Int /\ p < m
            BY <1>d DEF Least
        <3>4. \A q \in Products, m \in todo'[r] : productLock'[q] = r => q < m
            BY <3>1, <3>3, <1>d DEF TypeOK
        <3> QED BY <2>1, <3>2, <3>4, <1>d DEF LockOK
    <2>2. CASE s # r
        <3>1. pc[s] \in CreatePCs => ProductsOf(input[s].cart) \subseteq Products
            BY CartTypes
        <3> QED BY <2>2, <3>1, NoneAssumption
                DEF TypeOK, Inv, LockInv, LockOK, HoldsNothing, CreatePCs, MayLock
    <2> QED BY <2>1, <2>2
<1>5. PayInv'
    BY <1>d DEF TypeOK, Inv, PayInv, PayOK
<1>6. PaymentAgreement'
    BY DEF Inv, PaymentAgreement
<1>7. LineInv'
    <2> SUFFICES ASSUME NEW s \in Requests PROVE LineOK(s)'
        BY DEF LineInv
    <2>1. CASE s = r
        BY <2>1, <1>d DEF TypeOK, LineOK
    <2>2. CASE s # r
        BY <2>2, LineFrame DEF TypeOK
    <2> QED BY <2>1, <2>2
<1> QED BY <1>1, <1>2, <1>3, <1>4, <1>5, <1>6, <1>7 DEF Inv

LEMMA InsertOrderInv ==
    ASSUME TypeOK, Inv, NEW r \in Requests, InsertOrder(r)
    PROVE  TypeOK' /\ Inv'
<1>1. CASE Rollback(r, "error")
    BY <1>1, RollbackInv DEF Outcomes
<1>2. CASE /\ pc[r] = "insertOrder"
           /\ pc' = [pc EXCEPT ![r] = "insertItems"]
           /\ todo' = [todo EXCEPT ![r] = DOMAIN input[r].cart]
           /\ total[r] >= 0
           /\ UNCHANGED <<rows, locks, input, prices, total, delta, seen, charge, outcome, ghosts>>
    <2>a. input[r].cart \in Seq(Line) /\ DOMAIN input[r].cart \subseteq Int
        BY <1>2 DEF Inv, TxInv, CreatePCs, CreateInputs
    <2> USE <1>2, <2>a DEF rows, locks, ghosts
    <2>1. TypeOK'
        BY DEF TypeOK, InTx, CreatePCs
    <2>2. TxInv'
        BY DEF TypeOK, Inv, TxInv, CreatePCs, CancelPCs, PayPCs
    <2>3. StockInv'
        BY DEF Inv, StockInv, View
    <2>4. LockInv'
        BY DEF TypeOK, Inv, LockInv, LockOK, HoldsNothing
    <2>5. PayInv'
        BY DEF TypeOK, Inv, PayInv, PayOK
    <2>6. PaymentAgreement'
        BY DEF Inv, PaymentAgreement
    <2>7. LineInv'
        <3> SUFFICES ASSUME NEW s \in Requests PROVE LineOK(s)'
            BY DEF LineInv
        <3>1. CASE s = r
            BY <3>1 DEF TypeOK, LineOK
        <3>2. CASE s # r
            BY <3>2, LineFrame DEF TypeOK
        <3> QED BY <3>1, <3>2
    <2> QED BY <2>1, <2>2, <2>3, <2>4, <2>5, <2>6, <2>7 DEF Inv
<1> QED BY <1>1, <1>2 DEF InsertOrder

\* What keeps the locks of a request in order while another request moves.
LEMMA LockFrame ==
    ASSUME TypeOK, Inv, NEW s \in Requests,
           pc'[s] = pc[s], input'[s] = input[s], todo'[s] = todo[s],
           \A p \in Products : productLock'[p] = s <=> productLock[p] = s,
           \A o \in Requests : orderLock'[o] = s <=> orderLock[o] = s,
           \A o \in Requests : paymentLock'[o] = s <=> paymentLock[o] = s,
           pc[s] = "restore" =>
                orders'[input[s].order].items = orders[input[s].order].items
    PROVE  LockOK(s)'
<1>1. LockOK(s)
    BY DEF Inv, LockInv
<1>2. pc[s] \in CreatePCs => ProductsOf(input[s].cart) \subseteq Products
    BY CartTypes
<1> QED BY <1>1, <1>2 DEF LockOK, HoldsNothing, CreatePCs

\* A transaction sees the stock of every product within the column's range.
LEMMA ViewType ==
    ASSUME TypeOK, Inv, NEW r \in Requests, NEW p \in Products
    PROVE  View(r, p) \in 0 .. MaxStock /\ delta[r][p] \in Int /\ products[p].stock \in Int
BY CatalogAssumption DEF TypeOK, Inv, StockInv, View, Product

LEMMA InsertItemInv ==
    ASSUME TypeOK, Inv, NEW r \in Requests, InsertItem(r)
    PROVE  TypeOK' /\ Inv'
<1>a. /\ pc[r] = "insertItems"
      /\ pc' = [pc EXCEPT ![r] = IF todo'[r] = {} THEN "insertPayment" ELSE @]
      /\ UNCHANGED <<rows, orderLock, paymentLock, input, prices, total, seen, charge,
                     outcome, ghosts>>
    BY DEF InsertItem
<1>b. /\ ProductsOf(input[r].cart) \subseteq Products
      /\ todo[r] \subseteq DOMAIN input[r].cart
      /\ \A m \in todo[r] : input[r].cart[m] \in Line
    BY <1>a, CartTypes DEF Inv, TxInv, CreatePCs
<1>p. PICK n \in todo[r] :
        LET line == input[r].cart[n]
            item == ItemOf(line, prices[r][line.product])
        IN  /\ ItemAllowed(item)
            /\ products[line.product].state = "live"
            /\ MayLock(productLock, line.product, r)
            /\ View(r, line.product) >= item.quantity
            /\ productLock' = [productLock EXCEPT ![line.product] = r]
            /\ delta' = [delta EXCEPT ![r][line.product] = @ - item.quantity]
            /\ todo' = [todo EXCEPT ![r] = @ \ {n}]
    BY DEF InsertItem
<1>c. input[r].cart[n] \in Line /\ input[r].cart[n].product \in ProductsOf(input[r].cart)
    BY <1>b DEF ProductsOf
<1>d. PICK p \in Products, q \in Int :
        /\ p \in ProductsOf(input[r].cart)
        /\ q > 0 /\ View(r, p) >= q
        /\ productLock' = [productLock EXCEPT ![p] = r]
        /\ delta' = [delta EXCEPT ![r][p] = @ - q]
    <2>1. Int32(input[r].cart[n].quantity) \in Int
        BY <1>c, Int32Type, WordType DEF Line
    <2> QED BY <1>c, <1>p, <2>1 DEF ItemOf, ItemAllowed, Line
<1>e. todo' = [todo EXCEPT ![r] = @ \ {n}]
    BY <1>p
<1>f. productLock[p] = r /\ productLock' = productLock
    BY <1>a, <1>d DEF TypeOK, Inv, LockInv, LockOK
<1>g. View(r, p) \in 0 .. MaxStock /\ delta[r][p] \in Int /\ products[p].stock \in Int
    BY ViewType
<1>k. LET item == ItemOf(input[r].cart[n], prices[r][input[r].cart[n].product])
      IN  item.quantity \in 1 .. MaxStock /\ item.subtotal >= 0
    <2>1. View(r, input[r].cart[n].product) \in 0 .. MaxStock
        BY <1>c, ViewType DEF Line
    <2>2. Int32(input[r].cart[n].quantity) \in Int
        BY <1>c, Int32Type, WordType DEF Line
    <2> QED BY <1>p, <2>1, <2>2, CatalogAssumption DEF ItemOf, ItemAllowed
<1>h. /\ pc'[r] \in {"insertItems", "insertPayment"} /\ todo'[r] = todo[r] \ {n}
      /\ pc'[r] = "insertPayment" => todo'[r] = {}
    BY <1>a, <1>e DEF TypeOK
<1> USE <1>a, <1>e, <1>f DEF rows, ghosts
<1>1. TypeOK'
    <2>1. delta' \in [Requests -> [Products -> Int]]
        BY <1>d DEF TypeOK
    <2>2. todo' \in [Requests -> SUBSET Int]
        BY DEF TypeOK
    <2>3. pc' \in [Requests -> InTx \cup {"idle", "done"}]
        BY DEF TypeOK, InTx, CreatePCs
    <2> QED BY <2>1, <2>2, <2>3 DEF TypeOK
<1>2. TxInv'
    BY <1>h DEF TypeOK, Inv, TxInv, CreatePCs, CancelPCs, PayPCs
<1>3. StockInv'
    <2>1. delta'[r][p] = delta[r][p] - q
        BY <1>d DEF TypeOK
    <2>2. View(r, p)' \in 0 .. MaxStock
        <3>1. View(r, p)' = View(r, p) - q
            BY <2>1, <1>g DEF View
        <3>2. View(r, p) >= q /\ q > 0
            BY <1>d
        <3> QED BY <3>1, <3>2, <1>g, CatalogAssumption
    <2>3. \A s \in Requests, x \in Products :
            s # r \/ x # p => delta'[s][x] = delta[s][x]
        BY <1>d DEF TypeOK
    <2> QED BY <2>2, <2>3 DEF Inv, StockInv, View
<1>4. LockInv'
    <2> SUFFICES ASSUME NEW s \in Requests PROVE LockOK(s)'
        BY DEF LockInv
    <2>1. CASE s = r
        <3>1. LockOK(r)
            BY DEF Inv, LockInv
        <3> QED BY <2>1, <3>1, <1>h DEF LockOK
    <2>2. CASE s # r
        BY <2>2, LockFrame DEF TypeOK
    <2> QED BY <2>1, <2>2
<1>5. PayInv'
    BY <1>h DEF TypeOK, Inv, PayInv, PayOK
<1>6. PaymentAgreement'
    BY DEF Inv, PaymentAgreement
<1>7. LineInv'
    <2> SUFFICES ASSUME NEW s \in Requests PROVE LineOK(s)'
        BY DEF LineInv
    <2>1. CASE s = r
        <3> DEFINE Fits(m) ==
                LET item == ItemOf(input[r].cart[m], prices[r][input[r].cart[m].product])
                IN  item.quantity \in 1 .. MaxStock /\ item.subtotal >= 0
        <3>1. total[r] >= 0 /\ \A m \in DOMAIN input[r].cart \ todo[r] : Fits(m)
            BY DEF Inv, LineInv, LineOK
        <3>2. Fits(n)
            BY <1>k
        <3> HIDE DEF Fits
        <3>3. \A m \in DOMAIN input[r].cart \ todo'[r] : Fits(m)
            BY <3>1, <3>2, <1>h
        <3>4. /\ input'[r] = input[r] /\ prices'[r] = prices[r] /\ total'[r] = total[r]
            OBVIOUS
        <3>5. \A m \in DOMAIN input'[r].cart \ todo'[r] : Fits(m)'
            BY <3>3, <3>4 DEF Fits, ItemOf
        <3>6. total'[r] >= 0 /\ (pc'[r] = "insertPayment" => todo'[r] = {})
            BY <3>1, <3>4, <1>h
        <3>7. LineOK(r)'
            BY ONLY <3>5, <3>6 DEF LineOK, Fits
        <3> QED BY <2>1, <3>7
    <2>2. CASE s # r
        BY <2>2, LineFrame DEF TypeOK
    <2> QED BY <2>1, <2>2
<1> QED BY <1>1, <1>2, <1>3, <1>4, <1>5, <1>6, <1>7 DEF Inv

\* A commit that writes the order t, which is r's own new order or one it has
\* locked, and that publishes the stock changes of r or none.
LEMMA CommitInv ==
    ASSUME TypeOK, Inv, NEW r \in Requests, NEW a \in Outcomes, Finish(r, a),
           NEW t \in Requests,
           \/ t = r /\ pc[r] \in CreatePCs
           \/ orderLock[t] = r /\ orders[t].status # "none",
           products' = products \/ products' = CommittedProducts(r),
           orders' \in [Requests -> Order], payments' \in [Requests -> Payment],
           \A o \in Requests \ {t} : orders'[o] = orders[o],
           PaymentAgreement', UNCHANGED ghosts
    PROVE  TypeOK' /\ Inv'
<1> USE DEF Finish, Release, ghosts
<1>a. \A p \in Products : /\ View(r, p) \in 0 .. MaxStock
                          /\ products[p].stock \in Int /\ delta[r][p] \in Int
    BY ViewType
<1>b. products' \in [Products -> Product]
    <2>1. ASSUME NEW p \in Products
          PROVE  [products[p] EXCEPT !.stock = View(r, p)] \in Product
        <3>1. products[p] \in Product /\ View(r, p) \in 0 .. MaxStock
            BY <1>a DEF TypeOK
        <3> QED BY <3>1, StockUpdate
    <2> QED BY <2>1 DEF TypeOK, CommittedProducts
<1>c. \A p \in Products : /\ products'[p].state = products[p].state
                          /\ products'[p].price = products[p].price
    BY DEF TypeOK, CommittedProducts, Product
<1>d. \A p \in Products : productLock[p] # r => products'[p].stock = products[p].stock
    <2> SUFFICES ASSUME NEW p \in Products, productLock[p] # r
                 PROVE  products'[p].stock = products[p].stock
        OBVIOUS
    <2>1. delta[r][p] = 0
        BY DEF Inv, StockInv
    <2> QED BY <2>1, <1>a DEF TypeOK, CommittedProducts, View, Product
<1>e. \A s \in Requests \ {r} :
        /\ pc'[s] = pc[s] /\ input'[s] = input[s] /\ todo'[s] = todo[s]
        /\ seen'[s] = seen[s] /\ charge'[s] = charge[s] /\ delta'[s] = delta[s]
        /\ prices'[s] = prices[s] /\ total'[s] = total[s]
    BY DEF TypeOK
<1>f. pc'[r] = "done" /\ delta'[r] = Zero
    BY DEF TypeOK
<1>g. \A s \in Requests \ {r} :
        pc[s] \in {"restore", "markCancelled", "payLockPayment", "charge", "recordCharge"} =>
            /\ input[s].order \in Requests
            /\ input[s].order # t
            /\ orders'[input[s].order] = orders[input[s].order]
    BY DEF Inv, TxInv, PayInv, PayOK, OrderInputs, CancelPCs, PayPCs
<1>h. \A s \in Requests \ {r} :
        /\ \A p \in Products : productLock'[p] = s <=> productLock[p] = s
        /\ \A o \in Requests : orderLock'[o] = s <=> orderLock[o] = s
        /\ \A o \in Requests : paymentLock'[o] = s <=> paymentLock[o] = s
    BY NoneAssumption DEF TypeOK
<1>1. TypeOK'
    <2>1. /\ productLock' \in [Products -> Requests \cup {None}]
          /\ orderLock' \in [Requests -> Requests \cup {None}]
          /\ paymentLock' \in [Requests -> Requests \cup {None}]
        BY DEF TypeOK
    <2>2. /\ delta' \in [Requests -> [Products -> Int]]
          /\ prices' \in [Requests -> [Products -> Amount]]
        BY WordType DEF TypeOK, Zero
    <2>3. /\ pc' \in [Requests -> InTx \cup {"idle", "done"}]
          /\ todo' \in [Requests -> SUBSET Int]
          /\ total' \in [Requests -> Word]
          /\ seen' \in [Requests -> OrderStatus \cup {"none"}]
          /\ charge' \in [Requests -> {"none", "success", "failed"}]
          /\ outcome' \in [Requests -> Outcomes]
        BY WordType DEF TypeOK
    <2> QED BY <1>b, <2>1, <2>2, <2>3 DEF TypeOK
<1>2. TxInv'
    BY <1>e, <1>f, <1>g DEF Inv, TxInv, CreatePCs, CancelPCs, PayPCs
<1>3. StockInv'
    <2>1. ASSUME NEW s \in Requests, NEW p \in Products, delta'[s][p] # 0
          PROVE  productLock'[p] = s /\ View(s, p)' \in 0 .. MaxStock
        <3>1. s # r /\ delta'[s][p] = delta[s][p]
            BY <2>1, <1>e, <1>f DEF Zero
        <3>2. productLock[p] = s /\ View(s, p) \in 0 .. MaxStock
            BY <2>1, <3>1 DEF Inv, StockInv
        <3> QED BY <3>1, <3>2, <1>d, <1>h DEF View
    <2>2. ASSUME NEW p \in Products, productLock'[p] # None
          PROVE  products'[p].state = "live"
        BY <2>2, <1>c DEF TypeOK, Inv, StockInv
    <2>3. \A p \in Products : products'[p].state = "live" => products'[p].price >= 1
        BY <1>c DEF Inv, StockInv
    <2> QED BY <2>1, <2>2, <2>3 DEF StockInv
<1>4. LockInv'
    <2> SUFFICES ASSUME NEW s \in Requests PROVE LockOK(s)'
        BY DEF LockInv
    <2>1. CASE s = r
        BY <2>1, <1>f, NoneAssumption DEF TypeOK, LockOK, HoldsNothing
    <2>2. CASE s # r
        BY <2>2, <1>e, <1>g, <1>h, LockFrame
    <2> QED BY <2>1, <2>2
<1>5. PayInv'
    BY <1>e, <1>f, <1>g, <1>h DEF Inv, PayInv, PayOK
<1>6. LineInv'
    <2> SUFFICES ASSUME NEW s \in Requests PROVE LineOK(s)'
        BY DEF LineInv
    <2>1. CASE s = r
        BY <2>1, <1>e, <1>f DEF LineOK
    <2>2. CASE s # r
        BY <2>2, <1>e, <1>f, LineFrame
    <2> QED BY <2>1, <2>2
<1> QED BY <1>1, <1>2, <1>3, <1>4, <1>5, <1>6 DEF Inv

\* The rows CommitCreate inserts are order_items rows.
LEMMA ItemsType ==
    ASSUME TypeOK, Inv, NEW r \in Requests, pc[r] = "insertPayment"
    PROVE  [n \in DOMAIN input[r].cart |->
                ItemOf(input[r].cart[n], prices[r][input[r].cart[n].product])] \in Seq(Item)
<1>1. pc[r] \in CreatePCs
    BY DEF CreatePCs
<1>2. ASSUME NEW n \in DOMAIN input[r].cart
      PROVE  ItemOf(input[r].cart[n], prices[r][input[r].cart[n].product]) \in Item
    <2>1. input[r].cart[n] \in Line
        BY <1>1, CartTypes
    <2>2. PICK p \in Products, q \in Int :
            input[r].cart[n].product = p /\ input[r].cart[n].quantity = q
        BY <2>1, WordType DEF Line
    <2>3. prices[r][p] \in Amount
        BY DEF TypeOK
    <2>4. Int32(q) \in 1 .. MaxStock /\ Int64(prices[r][p] * q) >= 0
        BY <2>2 DEF Inv, LineInv, LineOK, ItemOf
    <2>5. Int64(prices[r][p] * q) \in Amount
        <3>1. prices[r][p] \in Int
            BY <2>3, WordType
        <3>2. prices[r][p] * q \in Int
            BY <3>1
        <3> QED BY <2>4, <3>2, Int64Type, WordType
    <2> QED BY <2>2, <2>3, <2>4, <2>5 DEF ItemOf, Item
<1>3. input[r].cart \in Seq(Line)
    BY <1>1, CartTypes DEF CreateInputs
<1>4. DOMAIN input[r].cart = 1 .. Len(input[r].cart) /\ Len(input[r].cart) \in Nat
    BY <1>3
<1> QED BY <1>2, <1>4

LEMMA CommitCreateInv ==
    ASSUME TypeOK, Inv, NEW r \in Requests, CommitCreate(r)
    PROVE  TypeOK' /\ Inv'
<1> DEFINE items == [n \in DOMAIN input[r].cart |->
                        ItemOf(input[r].cart[n], prices[r][input[r].cart[n].product])]
<1>a. pc[r] = "insertPayment" /\ pc[r] \in CreatePCs
    BY DEF CommitCreate, CreatePCs
<1>b. items \in Seq(Item)
    BY <1>a, ItemsType
<1>c. /\ orders' = [orders EXCEPT ![r] = [status |-> "pending", user |-> input[r].user,
                                          total |-> total[r], items |-> items]]
      /\ payments' = [payments EXCEPT ![r] = [status |-> "pending", amount |-> total[r]]]
      /\ products' = CommittedProducts(r)
      /\ UNCHANGED ghosts
    BY DEF CommitCreate
<1>d. PICK a \in Outcomes : Finish(r, a)
    BY DEF CommitCreate, Commit, Outcomes
<1> HIDE DEF items
<1>e. input[r].user \in Users
    BY <1>a, CartTypes DEF CreateInputs
<1>f. total[r] \in Amount
    BY <1>a, WordType DEF TypeOK, Inv, LineInv, LineOK
<1>1. orders' \in [Requests -> Order]
    BY <1>f, <1>b, <1>c, <1>e DEF TypeOK, Order, OrderStatus
<1>2. payments' \in [Requests -> Payment]
    BY <1>f, <1>c DEF TypeOK, Payment, PaymentStatus
<1>3. \A o \in Requests \ {r} : orders'[o] = orders[o] /\ payments'[o] = payments[o]
    BY <1>c DEF TypeOK
<1>4. /\ orders'[r].status = "pending" /\ payments'[r].status = "pending"
      /\ orders'[r].total = total[r] /\ payments'[r].amount = total[r]
    BY <1>c DEF TypeOK
<1>5. PaymentAgreement'
    BY <1>3, <1>4 DEF Inv, PaymentAgreement
<1> QED BY <1>a, <1>c, <1>d, <1>1, <1>2, <1>3, <1>5, CommitInv

-----------------------------------------------------------------------------
(* Cancelling.                                                             *)

\* A request that acts on an order names one.
LEMMA OrderOf ==
    ASSUME TypeOK, Inv, NEW r \in Requests, pc[r] \in CancelPCs \cup PayPCs
    PROVE  input[r].order \in Requests
BY DEF Inv, TxInv, OrderInputs

\* The lines of an order are rows with integer quantities and known products.
LEMMA ItemTypes ==
    ASSUME TypeOK, NEW o \in Requests, NEW n \in DOMAIN orders[o].items
    PROVE  /\ orders[o].items[n].product \in Products
           /\ orders[o].items[n].product \in Int
           /\ orders[o].items[n].quantity \in 1 .. MaxStock
           /\ n \in Int
<1>1. orders[o].items \in Seq(Item)
    BY DEF TypeOK, Order
<1>2. orders[o].items[n] \in Item /\ n \in Int
    BY <1>1
<1> QED BY <1>2, CatalogAssumption DEF Item

LEMMA CancelLockOrderInv ==
    ASSUME TypeOK, Inv, NEW r \in Requests, CancelLockOrder(r)
    PROVE  TypeOK' /\ Inv'
<1>a. input[r].order \in Requests
    BY OrderOf DEF CancelLockOrder, CancelPCs
<1> PICK o \in Requests : o = input[r].order
    BY <1>a
<1>b. /\ pc[r] = "cancelLock"
      /\ pc' = [pc EXCEPT ![r] = "restore"]
      /\ MayLock(orderLock, o, r)
      /\ orders[o].status = "pending"
      /\ orderLock' = [orderLock EXCEPT ![o] = r]
      /\ todo' = [todo EXCEPT ![r] = DOMAIN orders[o].items]
      /\ UNCHANGED <<rows, productLock, paymentLock, input, prices, total, delta, seen, charge,
                     outcome, ghosts>>
    BY DEF CancelLockOrder
<1>c. DOMAIN orders[o].items \subseteq Int
    BY ItemTypes
<1>d. HoldsNothing(r)
    BY <1>b DEF Inv, LockInv, LockOK
<1>e. pc'[r] = "restore" /\ todo'[r] = DOMAIN orders[o].items /\ orderLock'[o] = r
    BY <1>b DEF TypeOK
<1>f. \A s \in Requests \ {r} :
        /\ pc'[s] = pc[s] /\ todo'[s] = todo[s]
        /\ \A x \in Requests : orderLock'[x] = s <=> orderLock[x] = s
    BY <1>b, NoneAssumption DEF TypeOK, MayLock
<1> USE <1>b DEF rows, ghosts
<1>1. TypeOK'
    BY <1>c DEF TypeOK, InTx, CancelPCs
<1>2. TxInv'
    BY <1>e, <1>f DEF Inv, TxInv, CreatePCs, CancelPCs, PayPCs
<1>3. StockInv'
    BY DEF Inv, StockInv, View
<1>4. LockInv'
    <2> SUFFICES ASSUME NEW s \in Requests PROVE LockOK(s)'
        BY DEF LockInv
    <2>1. CASE s = r
        BY <2>1, <1>d, <1>e DEF LockOK, HoldsNothing
    <2>2. CASE s # r
        BY <2>2, <1>f, LockFrame
    <2> QED BY <2>1, <2>2
<1>5. PayInv'
    <2> SUFFICES ASSUME NEW s \in Requests PROVE PayOK(s)'
        BY DEF PayInv
    <2>1. CASE s = r
        BY <2>1, <1>e DEF PayOK
    <2>2. CASE s # r
        BY <2>2, <1>f, OrderOf DEF Inv, PayInv, PayOK, CancelPCs, PayPCs
    <2> QED BY <2>1, <2>2
<1>6. PaymentAgreement'
    BY DEF Inv, PaymentAgreement
<1>7. LineInv'
    <2> SUFFICES ASSUME NEW s \in Requests PROVE LineOK(s)'
        BY DEF LineInv
    <2>1. CASE s = r
        BY <2>1, <1>e, <1>f DEF LineOK
    <2>2. CASE s # r
        BY <2>2, <1>e, <1>f, LineFrame
    <2> QED BY <2>1, <2>2
<1> QED BY <1>1, <1>2, <1>3, <1>4, <1>5, <1>6, <1>7 DEF Inv

LEMMA RestoreItemInv ==
    ASSUME TypeOK, Inv, NEW r \in Requests, RestoreItem(r)
    PROVE  TypeOK' /\ Inv'
<1>a. /\ pc[r] = "restore"
      /\ pc' = [pc EXCEPT ![r] = IF todo'[r] = {} THEN "markCancelled" ELSE @]
      /\ UNCHANGED <<rows, orderLock, paymentLock, input, prices, total, seen, charge,
                     outcome, ghosts>>
    BY DEF RestoreItem
<1>b. input[r].order \in Requests /\ todo[r] \subseteq DOMAIN orders[input[r].order].items
    BY <1>a, OrderOf DEF Inv, TxInv, CancelPCs
<1>c. PICK n \in todo[r] :
        LET items == orders[input[r].order].items
            p == items[n].product
        IN  /\ NextLine(n, todo[r], items)
            /\ products[p].state = "live"
            /\ MayLock(productLock, p, r)
            /\ View(r, p) + items[n].quantity <= MaxStock
            /\ productLock' = [productLock EXCEPT ![p] = r]
            /\ delta' = [delta EXCEPT ![r][p] = @ + items[n].quantity]
            /\ todo' = [todo EXCEPT ![r] = @ \ {n}]
    BY DEF RestoreItem
<1>d. PICK p \in Products, q \in 1 .. MaxStock :
        /\ p \in Int
        /\ p = orders[input[r].order].items[n].product
        /\ q = orders[input[r].order].items[n].quantity
    BY <1>b, ItemTypes
<1>e. /\ products[p].state = "live"
      /\ MayLock(productLock, p, r)
      /\ View(r, p) + q <= MaxStock
      /\ productLock' = [productLock EXCEPT ![p] = r]
      /\ delta' = [delta EXCEPT ![r][p] = @ + q]
      /\ todo' = [todo EXCEPT ![r] = @ \ {n}]
    BY <1>c, <1>d
<1>f. q > 0
    BY <1>b, <1>d, ItemTypes
<1>g. \A m \in todo[r] : p <= orders[input[r].order].items[m].product
    BY <1>c, <1>d DEF NextLine
<1>h. pc'[r] \in {"restore", "markCancelled"} /\ todo'[r] = todo[r] \ {n}
    BY <1>a, <1>e DEF TypeOK
<1>i. View(r, p) \in 0 .. MaxStock /\ delta[r][p] \in Int /\ products[p].stock \in Int
    BY ViewType
<1>j. \A s \in Requests \ {r} :
        /\ pc'[s] = pc[s] /\ todo'[s] = todo[s]
        /\ \A x \in Products : productLock'[x] = s <=> productLock[x] = s
    BY <1>a, <1>e, NoneAssumption DEF TypeOK, MayLock
<1> USE <1>a DEF rows, ghosts
<1>1. TypeOK'
    <2>1. delta' \in [Requests -> [Products -> Int]]
        BY <1>e DEF TypeOK
    <2>2. productLock' \in [Products -> Requests \cup {None}] /\ todo' \in [Requests -> SUBSET Int]
        BY <1>e DEF TypeOK
    <2>3. pc' \in [Requests -> InTx \cup {"idle", "done"}]
        BY DEF TypeOK, InTx, CancelPCs
    <2> QED BY <2>1, <2>2, <2>3 DEF TypeOK
<1>2. TxInv'
    BY <1>h, <1>j DEF Inv, TxInv, CreatePCs, CancelPCs, PayPCs
<1>3. StockInv'
    <2>1. delta'[r][p] = delta[r][p] + q /\ productLock'[p] = r
        BY <1>e DEF TypeOK
    <2>2. View(r, p)' \in 0 .. MaxStock
        <3>1. View(r, p)' = View(r, p) + q
            BY <2>1, <1>i DEF View
        <3> QED BY <3>1, <1>e, <1>f, <1>i, CatalogAssumption
    <2>3. \A s \in Requests, x \in Products :
            s # r \/ x # p => delta'[s][x] = delta[s][x]
        BY <1>e DEF TypeOK
    <2>4. \A x \in Products : productLock[x] = r => productLock'[x] = r
        BY <1>e DEF TypeOK
    <2>5. \A x \in Products : x # p => productLock'[x] = productLock[x]
        BY <1>e DEF TypeOK
    <2>6. delta[r][p] = 0 \/ productLock[p] = r
        BY DEF Inv, StockInv
    <2>7. \A s \in Requests : s # r => delta[s][p] = 0
        BY <1>e, NoneAssumption DEF Inv, StockInv, MayLock
    <2> QED BY <1>e, <2>1, <2>2, <2>3, <2>4, <2>5, <2>7 DEF Inv, StockInv, View
<1>4. LockInv'
    <2> SUFFICES ASSUME NEW s \in Requests PROVE LockOK(s)'
        BY DEF LockInv
    <2>1. CASE s = r
        <3>1. \A x \in Products, m \in todo[r] :
                productLock[x] = r => x <= orders[input[r].order].items[m].product
            BY DEF Inv, LockInv, LockOK
        <3>2. \A x \in Products, m \in todo'[r] :
                productLock'[x] = r => x <= orders[input[r].order].items[m].product
            BY <3>1, <1>e, <1>g, <1>h DEF TypeOK
        <3> QED BY <2>1, <3>2, <1>h DEF LockOK
    <2>2. CASE s # r
        BY <2>2, <1>j, LockFrame
    <2> QED BY <2>1, <2>2
<1>5. PayInv'
    BY <1>h, <1>j DEF Inv, PayInv, PayOK
<1>6. PaymentAgreement'
    BY DEF Inv, PaymentAgreement
<1>7. LineInv'
    <2> SUFFICES ASSUME NEW s \in Requests PROVE LineOK(s)'
        BY DEF LineInv
    <2>1. CASE s = r
        BY <2>1, <1>h, <1>j DEF LineOK
    <2>2. CASE s # r
        BY <2>2, <1>h, <1>j, LineFrame
    <2> QED BY <2>1, <2>2
<1> QED BY <1>1, <1>2, <1>3, <1>4, <1>5, <1>6, <1>7 DEF Inv

LEMMA CommitCancelInv ==
    ASSUME TypeOK, Inv, NEW r \in Requests, CommitCancel(r)
    PROVE  TypeOK' /\ Inv'
<1>a. pc[r] = "markCancelled" /\ input[r].order \in Requests
    BY OrderOf DEF CommitCancel, CancelPCs
<1> PICK t \in Requests : t = input[r].order
    BY <1>a
<1>b. /\ orders' = [orders EXCEPT ![t].status = "cancelled"]
      /\ products' = CommittedProducts(r)
      /\ payments' = payments /\ UNCHANGED ghosts
    BY DEF CommitCancel
<1>c. PICK a \in Outcomes : Finish(r, a)
    BY DEF CommitCancel, Commit, Outcomes
<1>d. orderLock[t] = r /\ orders[t].status = "pending"
    BY <1>a DEF Inv, PayInv, PayOK
<1>1. orders' \in [Requests -> Order] /\ payments' \in [Requests -> Payment]
    <2>1. [orders[t] EXCEPT !.status = "cancelled"] \in Order
        BY StatusUpdate DEF TypeOK, OrderStatus
    <2> QED BY <1>b, <2>1 DEF TypeOK
<1>2. \A o \in Requests \ {t} : orders'[o] = orders[o]
    BY <1>b DEF TypeOK
<1>3. orders'[t].status = "cancelled" /\ orders'[t].total = orders[t].total
    BY <1>b DEF TypeOK, Order
<1>4. PaymentAgreement'
    BY <1>b, <1>d, <1>2, <1>3 DEF Inv, PaymentAgreement
<1> QED BY <1>b, <1>c, <1>d, <1>1, <1>2, <1>4, CommitInv

-----------------------------------------------------------------------------
(* Paying.                                                                 *)

LEMMA PayLockOrderInv ==
    ASSUME TypeOK, Inv, NEW r \in Requests, PayLockOrder(r)
    PROVE  TypeOK' /\ Inv'
<1>a. input[r].order \in Requests
    BY OrderOf DEF PayLockOrder, PayPCs
<1> PICK o \in Requests : o = input[r].order
    BY <1>a
<1>b. /\ pc[r] = "payLockOrder"
      /\ pc' = [pc EXCEPT ![r] = "payLockPayment"]
      /\ orders[o].status # "none"
      /\ MayLock(orderLock, o, r)
      /\ orderLock' = [orderLock EXCEPT ![o] = r]
      /\ seen' = [seen EXCEPT ![r] = orders[o].status]
      /\ UNCHANGED <<rows, productLock, paymentLock, input, todo, prices, total, delta, charge,
                     outcome, ghosts>>
    BY DEF PayLockOrder, Visible
<1>c. orders[o].status \in OrderStatus
    BY <1>b DEF TypeOK, Order
<1>d. HoldsNothing(r)
    BY <1>b DEF Inv, LockInv, LockOK
<1>e. pc'[r] = "payLockPayment" /\ seen'[r] = orders[o].status /\ orderLock'[o] = r
    BY <1>b DEF TypeOK
<1>f. \A s \in Requests \ {r} :
        /\ pc'[s] = pc[s] /\ seen'[s] = seen[s]
        /\ \A x \in Requests : orderLock'[x] = s <=> orderLock[x] = s
    BY <1>b, NoneAssumption DEF TypeOK, MayLock
<1> USE <1>b DEF rows, ghosts
<1>1. TypeOK'
    BY <1>c DEF TypeOK, InTx, PayPCs
<1>2. TxInv'
    BY <1>e, <1>f DEF Inv, TxInv, CreatePCs, CancelPCs, PayPCs
<1>3. StockInv'
    BY DEF Inv, StockInv, View
<1>4. LockInv'
    <2> SUFFICES ASSUME NEW s \in Requests PROVE LockOK(s)'
        BY DEF LockInv
    <2>1. CASE s = r
        BY <2>1, <1>d, <1>e DEF LockOK, HoldsNothing
    <2>2. CASE s # r
        BY <2>2, <1>f, LockFrame
    <2> QED BY <2>1, <2>2
<1>5. PayInv'
    <2> SUFFICES ASSUME NEW s \in Requests PROVE PayOK(s)'
        BY DEF PayInv
    <2>1. CASE s = r
        BY <2>1, <1>c, <1>e DEF PayOK
    <2>2. CASE s # r
        BY <2>2, <1>f, OrderOf DEF Inv, PayInv, PayOK, CancelPCs, PayPCs
    <2> QED BY <2>1, <2>2
<1>6. PaymentAgreement'
    BY DEF Inv, PaymentAgreement
<1>7. LineInv'
    <2> SUFFICES ASSUME NEW s \in Requests PROVE LineOK(s)'
        BY DEF LineInv
    <2>1. CASE s = r
        BY <2>1, <1>e, <1>f DEF LineOK
    <2>2. CASE s # r
        BY <2>2, <1>e, <1>f, LineFrame
    <2> QED BY <2>1, <2>2
<1> QED BY <1>1, <1>2, <1>3, <1>4, <1>5, <1>6, <1>7 DEF Inv

\* Pay charges only an order it saw pending.
LEMMA ChargedWasPending ==
    ASSUME TypeOK, Inv, NEW r \in Requests, pc[r] = "payLockPayment", PayAnswer(r) = "none"
    PROVE  seen[r] = "pending"
<1>1. seen[r] \in OrderStatus /\ orders[input[r].order].status = seen[r]
    BY DEF TypeOK, Inv, PayInv, PayOK, OrderStatus
<1>2. payments[input[r].order].status # "none"
    BY DEF PayAnswer
<1> QED BY <1>1, <1>2 DEF PayAnswer, OrderStatus

LEMMA LockPaymentInv ==
    ASSUME TypeOK, Inv, NEW r \in Requests, LockPayment(r)
    PROVE  TypeOK' /\ Inv'
<1>a. input[r].order \in Requests
    BY OrderOf DEF LockPayment, PayPCs
<1> PICK o \in Requests : o = input[r].order
    BY <1>a
<1>b. /\ pc[r] = "payLockPayment"
      /\ pc' = [pc EXCEPT ![r] = "charge"]
      /\ MayLock(paymentLock, o, r)
      /\ paymentLock' = [paymentLock EXCEPT ![o] = r]
      /\ UNCHANGED <<rows, productLock, orderLock, input, txVars, outcome, ghosts>>
    BY DEF LockPayment
<1>c. seen[r] = "pending"
    BY ChargedWasPending DEF LockPayment
<1>d. pc'[r] = "charge"
    BY <1>b DEF TypeOK
<1>e. \A s \in Requests \ {r} :
        pc'[s] = pc[s] /\ \A x \in Requests : paymentLock'[x] = s <=> paymentLock[x] = s
    BY <1>b, NoneAssumption DEF TypeOK, MayLock
<1> USE <1>b DEF rows, ghosts, txVars
<1>1. TypeOK'
    BY DEF TypeOK, InTx, PayPCs
<1>2. TxInv'
    BY <1>d, <1>e DEF Inv, TxInv, CreatePCs, CancelPCs, PayPCs
<1>3. StockInv'
    BY DEF Inv, StockInv, View
<1>4. LockInv'
    <2> SUFFICES ASSUME NEW s \in Requests PROVE LockOK(s)'
        BY DEF LockInv
    <2>1. CASE s = r
        BY <2>1, <1>d DEF LockOK
    <2>2. CASE s # r
        BY <2>2, <1>e, LockFrame
    <2> QED BY <2>1, <2>2
<1>5. PayInv'
    BY <1>c, <1>d, <1>e DEF Inv, PayInv, PayOK
<1>6. PaymentAgreement'
    BY DEF Inv, PaymentAgreement
<1>7. LineInv'
    <2> SUFFICES ASSUME NEW s \in Requests PROVE LineOK(s)'
        BY DEF LineInv
    <2>1. CASE s = r
        BY <2>1, <1>d, <1>e DEF LineOK
    <2>2. CASE s # r
        BY <2>2, <1>d, <1>e, LineFrame
    <2> QED BY <2>1, <2>2
<1> QED BY <1>1, <1>2, <1>3, <1>4, <1>5, <1>6, <1>7 DEF Inv

LEMMA ChargeInv ==
    ASSUME TypeOK, Inv, NEW r \in Requests, Charge(r)
    PROVE  TypeOK' /\ Inv'
<1>a. input[r].order \in Requests
    BY OrderOf DEF Charge, PayPCs
<1> PICK o \in Requests : o = input[r].order
    BY <1>a
<1>b. PICK result \in {"success", "failed"} :
        /\ charge' = [charge EXCEPT ![r] = result]
        /\ charged' = [charged EXCEPT ![o] = IF result = "success" THEN @ + 1 ELSE @]
    BY DEF Charge
<1>c. /\ pc[r] = "charge"
      /\ pc' = [pc EXCEPT ![r] = "recordCharge"]
      /\ UNCHANGED <<rows, locks, input, todo, prices, total, delta, seen, outcome, supply>>
    BY DEF Charge
<1>d. pc'[r] = "recordCharge" /\ charge'[r] = result
    BY <1>b, <1>c DEF TypeOK
<1>e. \A s \in Requests \ {r} : pc'[s] = pc[s] /\ charge'[s] = charge[s]
    BY <1>b, <1>c DEF TypeOK
<1> USE <1>c DEF rows, locks
<1>1. TypeOK'
    <2>1. charged' \in [Requests -> Nat]
        BY <1>b DEF TypeOK
    <2> QED BY <1>b, <2>1 DEF TypeOK, InTx, PayPCs
<1>2. TxInv'
    BY <1>d, <1>e DEF Inv, TxInv, CreatePCs, CancelPCs, PayPCs
<1>3. StockInv'
    BY DEF Inv, StockInv, View
<1>4. LockInv'
    <2> SUFFICES ASSUME NEW s \in Requests PROVE LockOK(s)'
        BY DEF LockInv
    <2>1. CASE s = r
        BY <2>1, <1>d DEF LockOK
    <2>2. CASE s # r
        BY <2>2, <1>e, LockFrame
    <2> QED BY <2>1, <2>2
<1>5. PayInv'
    BY <1>d, <1>e DEF Inv, PayInv, PayOK
<1>6. PaymentAgreement'
    BY DEF Inv, PaymentAgreement
<1>7. LineInv'
    <2> SUFFICES ASSUME NEW s \in Requests PROVE LineOK(s)'
        BY DEF LineInv
    <2>1. CASE s = r
        BY <2>1, <1>d, <1>e DEF LineOK
    <2>2. CASE s # r
        BY <2>2, <1>d, <1>e, LineFrame
    <2> QED BY <2>1, <2>2
<1> QED BY <1>1, <1>2, <1>3, <1>4, <1>5, <1>6, <1>7 DEF Inv

LEMMA CommitPayInv ==
    ASSUME TypeOK, Inv, NEW r \in Requests, CommitPay(r)
    PROVE  TypeOK' /\ Inv'
<1>a. pc[r] = "recordCharge" /\ input[r].order \in Requests
    BY OrderOf DEF CommitPay, PayPCs
<1> PICK t \in Requests : t = input[r].order
    BY <1>a
<1>b. /\ payments' = [payments EXCEPT ![t].status = charge[r]]
      /\ orders' = [orders EXCEPT ![t].status = IF charge[r] = "success" THEN "paid" ELSE @]
      /\ products' = products /\ UNCHANGED ghosts
    BY DEF CommitPay
<1>c. PICK a \in Outcomes : Finish(r, a)
    BY DEF CommitPay, Commit, Outcomes
<1>d. /\ orderLock[t] = r /\ orders[t].status = "pending"
      /\ charge[r] \in {"success", "failed"}
    BY <1>a DEF Inv, PayInv, PayOK
<1>1. orders' \in [Requests -> Order]
    <2>1. [orders[t] EXCEPT !.status = IF charge[r] = "success" THEN "paid" ELSE @] \in Order
        BY <1>d, StatusUpdate DEF TypeOK, OrderStatus
    <2> QED BY <1>b, <2>1 DEF TypeOK
<1>2. payments' \in [Requests -> Payment]
    <2>1. [payments[t] EXCEPT !.status = charge[r]] \in Payment
        BY <1>d, StatusUpdate DEF TypeOK, PaymentStatus
    <2> QED BY <1>b, <2>1 DEF TypeOK
<1>3. \A o \in Requests \ {t} : orders'[o] = orders[o] /\ payments'[o] = payments[o]
    BY <1>b DEF TypeOK
<1>4. /\ payments'[t].status = charge[r] /\ payments'[t].amount = payments[t].amount
      /\ orders'[t].total = orders[t].total
      /\ orders'[t].status = IF charge[r] = "success" THEN "paid" ELSE "pending"
    BY <1>b, <1>d DEF TypeOK, Order, Payment
<1>5. PaymentAgreement'
    BY <1>d, <1>3, <1>4 DEF Inv, PaymentAgreement
<1> QED BY <1>b, <1>c, <1>d, <1>1, <1>2, <1>3, <1>5, CommitInv

-----------------------------------------------------------------------------
(* The catalogue.                                                          *)

\* A catalogue statement that leaves locked rows alone.
LEMMA CatalogInv ==
    ASSUME TypeOK, Inv, NEW r \in Requests, pc[r] = "idle",
           NEW i \in Inputs, NEW a \in Outcomes, CatalogAnswer(r, i, a),
           products' \in [Products -> Product], supply' \in [Products -> Int],
           \A p \in Products : productLock[p] # None => products'[p] = products[p],
           \A p \in Products : products'[p].state = "live" => products'[p].price >= 1
    PROVE  TypeOK' /\ Inv'
<1> USE DEF CatalogAnswer, locks, txVars
<1>a. pc'[r] = "done"
    BY DEF TypeOK
<1>b. \A s \in Requests \ {r} : pc'[s] = pc[s] /\ input'[s] = input[s]
    BY DEF TypeOK
<1>1. TypeOK'
    BY DEF TypeOK
<1>2. TxInv'
    BY <1>a, <1>b DEF Inv, TxInv, CreatePCs, CancelPCs, PayPCs
<1>3. StockInv'
    BY NoneAssumption DEF Inv, StockInv, View
<1>4. LockInv'
    <2> SUFFICES ASSUME NEW s \in Requests PROVE LockOK(s)'
        BY DEF LockInv
    <2>1. CASE s = r
        BY <2>1, <1>a DEF Inv, LockInv, LockOK, HoldsNothing
    <2>2. CASE s # r
        BY <2>2, <1>b, LockFrame
    <2> QED BY <2>1, <2>2
<1>5. PayInv'
    BY <1>a, <1>b DEF Inv, PayInv, PayOK
<1>6. PaymentAgreement'
    BY DEF Inv, PaymentAgreement
<1>7. LineInv'
    <2> SUFFICES ASSUME NEW s \in Requests PROVE LineOK(s)'
        BY DEF LineInv
    <2>1. CASE s = r
        BY <2>1, <1>a, <1>b DEF LineOK
    <2>2. CASE s # r
        BY <2>2, <1>a, <1>b, LineFrame
    <2> QED BY <2>1, <2>2
<1> QED BY <1>1, <1>2, <1>3, <1>4, <1>5, <1>6, <1>7 DEF Inv

\* One that leaves every row alone.
LEMMA CatalogIdleInv ==
    ASSUME TypeOK, Inv, NEW r \in Requests, pc[r] = "idle",
           NEW i \in Inputs, NEW a \in Outcomes, CatalogAnswer(r, i, a),
           UNCHANGED <<products, supply>>
    PROVE  TypeOK' /\ Inv'
<1>1. products' \in [Products -> Product] /\ supply' \in [Products -> Int]
    BY DEF TypeOK
<1>2. \A p \in Products : products'[p].state = "live" => products'[p].price >= 1
    BY DEF Inv, StockInv
<1> QED BY <1>1, <1>2, CatalogInv

\* What the validator lets through.
LEMMA Accepted ==
    ASSUME NEW i \in Inputs, i.op \in {"addProduct", "patchProduct"}, ~ProductRejected(i)
    PROVE  /\ i.product \in Products /\ i.stock \in Nat /\ i.price \in Amount
           /\ i.op = "addProduct" => i.price >= 1
<1>1. i.product \in Products /\ i.stock \in Word /\ i.price \in Word
    BY InputTypes DEF CatalogInputs
<1>2. i.stock \in Int /\ i.price \in Int
    BY <1>1, WordType
<1>3. i.stock >= 0 /\ i.price >= 0 /\ (i.op = "addProduct" => i.price >= 1)
    BY <1>2 DEF ProductRejected
<1> QED BY <1>1, <1>2, <1>3, WordType

LEMMA CatalogRefusedInv ==
    ASSUME TypeOK, Inv, NEW r \in Requests, CatalogRefused(r)
    PROVE  TypeOK' /\ Inv'
<1>1. PICK i \in Inputs, a \in {"invalid", "error"} : CatalogAnswer(r, i, a)
    BY DEF CatalogRefused
<1>2. pc[r] = "idle" /\ UNCHANGED <<products, supply>> /\ {"invalid", "error"} \subseteq Outcomes
    BY DEF CatalogRefused, Outcomes, Refusals
<1> QED BY <1>1, <1>2, CatalogIdleInv

LEMMA CreateProductInv ==
    ASSUME TypeOK, Inv, NEW r \in Requests, CreateProduct(r)
    PROVE  TypeOK' /\ Inv'
<1> PICK i \in Inputs :
        /\ i.op = "addProduct" /\ ~ProductRejected(i)
        /\ products[i.product].state = "unborn"
        /\ \/ \E a \in {"ErrExistingProductName", "error"} :
                CatalogAnswer(r, i, a) /\ UNCHANGED <<products, supply>>
           \/ /\ Int32(i.stock) >= 0
              /\ \E a \in {"ok", "error"} : CatalogAnswer(r, i, a)
              /\ products' = [products EXCEPT ![i.product] =
                    [state |-> "live", stock |-> Int32(i.stock), price |-> i.price]]
              /\ supply' = [supply EXCEPT ![i.product] = Int32(i.stock)]
    BY DEF CreateProduct, InsertedRow, CatalogDone
<1>a. i.product \in Products /\ i.stock \in Nat /\ i.price \in Amount /\ i.price >= 1
    BY Accepted
<1>b. Int32(i.stock) \in -(MaxStock + 1) .. MaxStock
    BY <1>a, Int32Range
<1>c. productLock[i.product] = None
    BY <1>a DEF Inv, StockInv
<1>d. pc[r] = "idle" /\ {"ok", "ErrExistingProductName", "error"} \subseteq Outcomes
    BY DEF CreateProduct, Outcomes, Refusals
<1>1. ASSUME NEW a \in {"ErrExistingProductName", "error"}, CatalogAnswer(r, i, a),
             UNCHANGED <<products, supply>>
      PROVE  TypeOK' /\ Inv'
    BY <1>1, <1>d, CatalogIdleInv
<1>2. ASSUME Int32(i.stock) >= 0,
             NEW a \in {"ok", "error"}, CatalogAnswer(r, i, a),
             products' = [products EXCEPT ![i.product] =
                    [state |-> "live", stock |-> Int32(i.stock), price |-> i.price]],
             supply' = [supply EXCEPT ![i.product] = Int32(i.stock)]
      PROVE  TypeOK' /\ Inv'
    <2>1. products' \in [Products -> Product] /\ supply' \in [Products -> Int]
        BY <1>2, <1>a, <1>b, CatalogAssumption DEF TypeOK, Product
    <2>2. \A p \in Products : productLock[p] # None => products'[p] = products[p]
        BY <1>2, <1>c DEF TypeOK
    <2>3. \A p \in Products : products'[p].state = "live" => products'[p].price >= 1
        BY <1>2, <1>a DEF TypeOK, Inv, StockInv
    <2> QED BY <1>2, <1>d, <2>1, <2>2, <2>3, CatalogInv
<1> QED BY <1>1, <1>2

LEMMA UpdateProductInv ==
    ASSUME TypeOK, Inv, NEW r \in Requests, UpdateProduct(r)
    PROVE  TypeOK' /\ Inv'
<1>a. PICK i \in Inputs :
        LET old == products[i.product]
            stock == IF i.stock = 0 THEN old.stock ELSE Int32(i.stock)
            price == IF i.price = 0 THEN old.price ELSE i.price
        IN  /\ i.op = "patchProduct" /\ ~ProductRejected(i)
            /\ \/ \E a \in {"ErrProductNotFound", "ErrExistingProductName", "error"} :
                    CatalogAnswer(r, i, a) /\ UNCHANGED <<products, supply>>
               \/ /\ productLock[i.product] = None /\ old.state = "live"
                  /\ stock >= 0
                  /\ \E a \in {"ok", "error"} : CatalogAnswer(r, i, a)
                  /\ products' = [products EXCEPT ![i.product] =
                        [state |-> "live", stock |-> stock, price |-> price]]
                  /\ supply' = [supply EXCEPT ![i.product] = @ + stock - old.stock]
    BY DEF UpdateProduct, UpdatedRow, CatalogDone
<1>b. i.product \in Products /\ i.stock \in Nat /\ i.price \in Amount
    BY <1>a, Accepted
<1>c. Int32(i.stock) \in -(MaxStock + 1) .. MaxStock
    BY <1>b, Int32Range
<1>d. /\ products[i.product].stock \in 0 .. MaxStock
      /\ products[i.product].price \in Amount
      /\ products[i.product].state = "live" => products[i.product].price >= 1
    BY <1>b DEF TypeOK, Product, Inv, StockInv
<1>e. pc[r] = "idle" /\ {"ok", "ErrProductNotFound", "ErrExistingProductName", "error"} \subseteq Outcomes
    BY DEF UpdateProduct, Outcomes, Refusals
<1>1. ASSUME NEW a \in {"ErrProductNotFound", "ErrExistingProductName", "error"}, CatalogAnswer(r, i, a),
             UNCHANGED <<products, supply>>
      PROVE  TypeOK' /\ Inv'
    BY <1>1, <1>e, CatalogIdleInv
<1>2. ASSUME NEW stock \in 0 .. MaxStock, NEW price \in Amount, price >= 1,
             productLock[i.product] = None,
             NEW a \in {"ok", "error"}, CatalogAnswer(r, i, a),
             products' = [products EXCEPT ![i.product] =
                            [state |-> "live", stock |-> stock, price |-> price]],
             supply' = [supply EXCEPT ![i.product] = @ + stock - products[i.product].stock]
      PROVE  TypeOK' /\ Inv'
    <2>1. products' \in [Products -> Product]
        BY <1>2, <1>b DEF TypeOK, Product
    <2>2. supply' \in [Products -> Int]
        <3>1. supply[i.product] \in Int
            BY <1>b DEF TypeOK
        <3>2. products[i.product].stock \in Int /\ stock \in Int
            BY <1>d, CatalogAssumption
        <3>3. supply[i.product] + stock - products[i.product].stock \in Int
            BY <3>1, <3>2
        <3> QED BY <1>2, <3>3 DEF TypeOK
    <2>3. \A p \in Products : productLock[p] # None => products'[p] = products[p]
        BY <1>2 DEF TypeOK
    <2>4. \A p \in Products : products'[p].state = "live" => products'[p].price >= 1
        BY <1>2 DEF TypeOK, Inv, StockInv
    <2> QED BY <1>2, <1>e, <2>1, <2>2, <2>3, <2>4, CatalogInv
<1>f. PICK stock \in Int, price \in Amount :
        /\ stock = IF i.stock = 0 THEN products[i.product].stock ELSE Int32(i.stock)
        /\ stock <= MaxStock
        /\ price = IF i.price = 0 THEN products[i.product].price ELSE i.price
    BY <1>b, <1>c, <1>d, CatalogAssumption
<1>g. stock >= 0 => stock \in 0 .. MaxStock
    BY <1>f, CatalogAssumption
<1>h. products[i.product].state = "live" => price >= 1
    <2>1. i.price \in Nat
        BY <1>b, WordType
    <2> QED BY <1>d, <1>f, <2>1
<1> QED BY <1>a, <1>f, <1>g, <1>h, <1>1, <1>2

LEMMA DeleteProductInv ==
    ASSUME TypeOK, Inv, NEW r \in Requests, DeleteProduct(r)
    PROVE  TypeOK' /\ Inv'
<1> PICK i \in Inputs :
        /\ i.op = "deleteProduct"
        /\ \/ \E a \in {"ErrProductNotFound", "error"} :
                CatalogAnswer(r, i, a) /\ UNCHANGED <<products, supply>>
           \/ /\ productLock[i.product] = None
              /\ \E a \in {"ok", "error"} : CatalogAnswer(r, i, a)
              /\ products' = [products EXCEPT ![i.product] =
                    [state |-> "deleted", stock |-> 0, price |-> 0]]
              /\ supply' = [supply EXCEPT ![i.product] = 0]
    BY DEF DeleteProduct, DeletedRow, CatalogDone
<1>a. i.product \in Products
    BY InputTypes DEF CatalogInputs
<1>b. pc[r] = "idle" /\ {"ok", "ErrProductNotFound", "error"} \subseteq Outcomes
    BY DEF DeleteProduct, Outcomes, Refusals
<1>1. ASSUME NEW a \in {"ErrProductNotFound", "error"}, CatalogAnswer(r, i, a),
             UNCHANGED <<products, supply>>
      PROVE  TypeOK' /\ Inv'
    BY <1>1, <1>b, CatalogIdleInv
<1>2. ASSUME productLock[i.product] = None,
             NEW a \in {"ok", "error"}, CatalogAnswer(r, i, a),
             products' = [products EXCEPT ![i.product] =
                    [state |-> "deleted", stock |-> 0, price |-> 0]],
             supply' = [supply EXCEPT ![i.product] = 0]
      PROVE  TypeOK' /\ Inv'
    <2>1. products' \in [Products -> Product] /\ supply' \in [Products -> Int]
        BY <1>2, <1>a, CatalogAssumption, WordType DEF TypeOK, Product
    <2>2. \A p \in Products : productLock[p] # None => products'[p] = products[p]
        BY <1>2 DEF TypeOK
    <2>3. \A p \in Products : products'[p].state = "live" => products'[p].price >= 1
        BY <1>2 DEF TypeOK, Inv, StockInv
    <2> QED BY <1>2, <1>b, <2>1, <2>2, <2>3, CatalogInv
<1> QED BY <1>1, <1>2

-----------------------------------------------------------------------------
(* Every step.                                                             *)

LEMMA RefusedInv ==
    ASSUME TypeOK, Inv, NEW r \in Requests,
           \/ LockProductRefused(r) \/ InsertItemRefused(r) \/ CancelRefused(r)
           \/ RestoreRefused(r) \/ PayOrderNotFound(r) \/ PaySettled(r)
           \/ StatementFails(r)
    PROVE  TypeOK' /\ Inv'
<1>1. PayAnswer(r) \in Outcomes
    BY DEF PayAnswer, Outcomes, Refusals
<1>2. PICK a \in Outcomes : Rollback(r, a)
    BY <1>1 DEF LockProductRefused, InsertItemRefused, CancelRefused, RestoreRefused,
        PayOrderNotFound, PaySettled, StatementFails, Outcomes, Refusals
<1> QED BY <1>2, RollbackInv

LEMMA NextInv == TypeOK /\ Inv /\ [Next]_vars => TypeOK' /\ Inv'
<1> SUFFICES ASSUME TypeOK, Inv, [Next]_vars
             PROVE  TypeOK' /\ Inv'
    OBVIOUS
<1>1. ASSUME NEW r \in Requests, Step(r)
      PROVE  TypeOK' /\ Inv'
    BY <1>1, RefusedInv, LockProductInv, InsertOrderInv, InsertItemInv, CommitCreateInv,
        CancelLockOrderInv, RestoreItemInv, CommitCancelInv,
        PayLockOrderInv, LockPaymentInv, ChargeInv, CommitPayInv DEF Step
<1>2. ASSUME NEW r \in Requests,
             \/ RejectCart(r) \/ BeginCreate(r) \/ BeginCancel(r) \/ BeginPay(r)
             \/ CatalogRefused(r) \/ CreateProduct(r) \/ UpdateProduct(r) \/ DeleteProduct(r)
             \/ StatementFails(r)
      PROVE  TypeOK' /\ Inv'
    BY <1>2, RejectCartInv, BeginCreateInv, BeginOnOrderInv, CatalogRefusedInv, CreateProductInv,
        UpdateProductInv, DeleteProductInv, RefusedInv DEF BeginCancel, BeginPay
<1>3. CASE UNCHANGED vars
    <2> USE <1>3 DEF vars, rows, locks, txVars, ghosts
    <2>1. TypeOK'
        BY DEF TypeOK
    <2>2. TxInv' /\ StockInv'
        BY DEF Inv, TxInv, StockInv, View
    <2>3. LockInv' /\ PayInv'
        BY DEF Inv, LockInv, LockOK, HoldsNothing, PayInv, PayOK
    <2>4. LineInv' /\ PaymentAgreement'
        BY LineFrame DEF Inv, LineInv, PaymentAgreement
    <2> QED BY <2>1, <2>2, <2>3, <2>4 DEF Inv
<1> QED BY <1>1, <1>2, <1>3 DEF Next, Quiescent

\* TypeOK and Inv hold in every reachable state.
THEOREM Invariance == Spec => [](TypeOK /\ Inv)
BY InitInv, NextInv, PTL DEF Spec

\* Type correctness, the CHECK constraints of the tables included: no
\* interleaving of creates, cancels, payments, catalogue writes and failures
\* drives a stock below zero or past its column.
THEOREM TypeCorrectness == Spec => []TypeOK
BY Invariance, PTL

\* An order is paid exactly when its payment succeeded, and for its total.
THEOREM PaymentsAgree == Spec => []PaymentAgreement
<1>1. TypeOK /\ Inv => PaymentAgreement
    BY DEF Inv
<1> QED BY <1>1, Invariance, PTL

=============================================================================
