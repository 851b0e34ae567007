-------------------------------- MODULE Orders --------------------------------
(***************************************************************************)
(* The transactional core of the API: placing, cancelling and paying an    *)
(* order, and the catalogue writes that run beside them, as concurrent     *)
(* PostgreSQL transactions (READ COMMITTED) over the tables products,      *)
(* orders (with order_items) and payments.                                 *)
(*                                                                         *)
(* One request is one HTTP call that has passed authentication and, for a  *)
(* create, the idempotency middleware.  It takes one SQL statement per     *)
(* step.  What a transaction has written is private to it (delta) until    *)
(* COMMIT; SELECT ... FOR UPDATE and UPDATE take a row lock that is held   *)
(* until COMMIT or ROLLBACK; a locking read that had to wait sees the row  *)
(* as the previous holder left it.                                         *)
(*                                                                         *)
(* The row an accepted create inserts is named after its request, so       *)
(* orders and payments are functions on Requests.  gen_random_uuid never   *)
(* repeats an id, hence each request names at most one order.              *)
(***************************************************************************)
EXTENDS Integers, Sequences, FiniteSets, FiniteSetsExt, Functions

CONSTANTS
    Requests,         \* one-shot API calls
    Users,            \* authenticated users
    Products,         \* product ids: integers, in the byte order of the UUIDs
    MaxStock,         \* the largest value of the INT column products.stock
    MaxAmount,        \* the largest value of a BIGINT column and of Go's int
    InitialProducts,  \* ids of the products in the catalogue at the start
    InitialStock,     \* their stock
    Inputs,           \* the decoded requests the clients may send
    Faults,           \* TRUE: statements and commits may fail
    None              \* no request, no user, no input

-----------------------------------------------------------------------------
(* The requests the handlers accept for decoding.                          *)

\* The values of Go's int, and of a BIGINT.
Word == -(MaxAmount + 1) .. MaxAmount

Line == [product : Products, quantity : Word]

CreateInputs == [op : {"create"}, user : Users, cart : Seq(Line)]

OrderInputs == [op : {"cancel", "pay"}, user : Users, order : Requests]

\* A field of a PATCH that is omitted is 0: a 0 that is sent is refused like a
\* negative number (omitempty,gt=0).  A DELETE carries an id only.
CatalogInputs ==
    [op : {"addProduct", "patchProduct", "deleteProduct"}, product : Products,
     stock : Word, price : Word]

\* n in a signed word whose largest value is max: what a conversion keeps, and
\* what arithmetic that overflows leaves.
Wrap(n, max) == ((n + max + 1) % (2 * (max + 1))) - (max + 1)

\* The Go conversion int32(n), for a column as wide as products.stock.
Int32(n) == Wrap(n, MaxStock)

\* The result of an addition or a multiplication of Go's 64-bit ints.
Int64(n) == Wrap(n, MaxAmount)

\* The exact number of units of p on the lines in S, of a cart or of an order.
Units(lines, S, p) ==
    SumFunctionOnSet([n \in DOMAIN lines |-> lines[n].quantity],
                     {n \in S : lines[n].product = p})

\* Go's map of the total quantity asked of each product of a cart.
ProductsOf(cart) == {cart[i].product : i \in DOMAIN cart}

\* Mutant: a repeated product overwrites the count instead of adding to it.
LastQuantityByProduct(cart) ==
    [p \in ProductsOf(cart) |-> cart[Max({i \in DOMAIN cart : cart[i].product = p})].quantity]

quantityByProduct(cart) ==
    [p \in ProductsOf(cart) |-> Int64(Units(cart, DOMAIN cart, p))]

ASSUME CatalogAssumption ==
    /\ Products \subseteq Int
    /\ MaxStock \in Nat
    /\ MaxAmount \in Nat \ {0} /\ MaxStock <= MaxAmount
    /\ InitialProducts \subseteq Products
    /\ InitialStock \in 0 .. MaxStock

ASSUME NoneAssumption == None \notin Requests \cup Users \cup Inputs

ASSUME FaultsAssumption == Faults \in BOOLEAN

ASSUME InputsAssumption == Inputs \subseteq CreateInputs \cup OrderInputs \cup CatalogInputs

-----------------------------------------------------------------------------
VARIABLES
    products,     \* table products: state, stock, price
    orders,       \* tables orders and order_items
    payments,     \* table payments
    productLock,  \* the transaction that holds each product row, or None
    orderLock,    \* ... each order row
    paymentLock,  \* ... each payment row
    pc,           \* the statement a request is at
    input,        \* what the request asked for
    todo,         \* product ids still to lock, or line numbers still to do
    prices,       \* the price snapshot of lockAndPrice
    total,        \* its totalPrice
    delta,        \* uncommitted change of each product's stock
    seen,         \* the order status Pay read under its lock
    charge,       \* what the provider answered to this request
    outcome,      \* the answer: "ok", the error, or "none" so far
    supply,       \* history: units ever put into the catalogue, per product
    charged       \* history: the provider's ledger, successful charges per order

rows == <<products, orders, payments>>
locks == <<productLock, orderLock, paymentLock>>
txVars == <<todo, prices, total, delta, seen, charge>>
ghosts == <<supply, charged>>
vars == <<rows, locks, pc, input, txVars, outcome, ghosts>>

-----------------------------------------------------------------------------
(* Types.                                                                  *)

OrderStatus == {"pending", "paid", "cancelled"}
PaymentStatus == {"pending", "success", "failed"}

\* A BIGINT column with CHECK (... >= 0).
Amount == 0 .. MaxAmount

Product == [state : {"unborn", "live", "deleted"}, stock : 0 .. MaxStock, price : Amount]
Item == [product : Products, quantity : 1 .. MaxStock, price : Amount, subtotal : Amount]
Order == [status : OrderStatus \cup {"none"}, user : Users \cup {None},
          total : Amount, items : Seq(Item)]
Payment == [status : PaymentStatus \cup {"none"}, amount : Amount]

CreatePCs == {"lockProducts", "insertOrder", "insertItems", "insertPayment"}
CancelPCs == {"cancelLock", "restore", "markCancelled"}
PayPCs == {"payLockOrder", "payLockPayment", "charge", "recordCharge"}
InTx == CreatePCs \cup CancelPCs \cup PayPCs

Refusals == {"ErrProductNotFound", "ErrInsufficientStock", "ErrOrderNotFound",
             "ErrOrderNotPending", "ErrOrderItemsUnvailable", "ErrNoOrderFound",
             "ErrNoPaymentFound", "ErrOrderNotPayable", "ErrExistingProductName",
             "invalid"}
Outcomes == Refusals \cup {"none", "ok", "error"}

\* Every row and every request is well typed: the columns satisfy their CHECK
\* constraints and their widths, whatever the transactions interleave.
TypeOK ==
    /\ products \in [Products -> Product]
    /\ orders \in [Requests -> Order]
    /\ payments \in [Requests -> Payment]
    /\ productLock \in [Products -> Requests \cup {None}]
    /\ orderLock \in [Requests -> Requests \cup {None}]
    /\ paymentLock \in [Requests -> Requests \cup {None}]
    /\ pc \in [Requests -> InTx \cup {"idle", "done"}]
    /\ input \in [Requests -> Inputs \cup {None}]
    /\ todo \in [Requests -> SUBSET Int]
    /\ prices \in [Requests -> [Products -> Amount]]
    /\ total \in [Requests -> Word]
    /\ delta \in [Requests -> [Products -> Int]]
    /\ seen \in [Requests -> OrderStatus \cup {"none"}]
    /\ charge \in [Requests -> {"none", "success", "failed"}]
    /\ outcome \in [Requests -> Outcomes]
    /\ supply \in [Products -> Int]
    /\ charged \in [Requests -> Nat]

-----------------------------------------------------------------------------
(* Initially the catalogue is stocked and nobody has called.               *)

NoProduct == [state |-> "unborn", stock |-> 0, price |-> 0]
NoOrder == [status |-> "none", user |-> None, total |-> 0, items |-> <<>>]
NoPayment == [status |-> "none", amount |-> 0]
Zero == [p \in Products |-> 0]

Init ==
    /\ products = [p \in Products |->
                    IF p \in InitialProducts
                    THEN [state |-> "live", stock |-> InitialStock, price |-> 1]
                    ELSE NoProduct]
    /\ orders = [o \in Requests |-> NoOrder]
    /\ payments = [o \in Requests |-> NoPayment]
    /\ productLock = [p \in Products |-> None]
    /\ orderLock = [o \in Requests |-> None]
    /\ paymentLock = [o \in Requests |-> None]
    /\ pc = [r \in Requests |-> "idle"]
    /\ input = [r \in Requests |-> None]
    /\ todo = [r \in Requests |-> {}]
    /\ prices = [r \in Requests |-> Zero]
    /\ total = [r \in Requests |-> 0]
    /\ delta = [r \in Requests |-> Zero]
    /\ seen = [r \in Requests |-> "none"]
    /\ charge = [r \in Requests |-> "none"]
    /\ outcome = [r \in Requests |-> "none"]
    /\ supply = [p \in Products |-> IF p \in InitialProducts THEN InitialStock ELSE 0]
    /\ charged = [o \in Requests |-> 0]

-----------------------------------------------------------------------------
(* The transaction.                                                        *)

\* The stock of p that transaction r itself sees.
View(r, p) == products[p].stock + delta[r][p]

\* The row is free, or already locked by r itself.
MayLock(lock, row, r) == lock[row] \in {None, r}

Release(lock, r) == [row \in DOMAIN lock |-> IF lock[row] = r THEN None ELSE lock[row]]

\* The transaction of r ends and the handler answers: the locks are released
\* and nothing private to the transaction survives.
Finish(r, answer) ==
    /\ pc' = [pc EXCEPT ![r] = "done"]
    /\ outcome' = [outcome EXCEPT ![r] = answer]
    /\ productLock' = Release(productLock, r)
    /\ orderLock' = Release(orderLock, r)
    /\ paymentLock' = Release(paymentLock, r)
    /\ todo' = [todo EXCEPT ![r] = {}]
    /\ prices' = [prices EXCEPT ![r] = Zero]
    /\ total' = [total EXCEPT ![r] = 0]
    /\ delta' = [delta EXCEPT ![r] = Zero]
    /\ seen' = [seen EXCEPT ![r] = "none"]
    /\ charge' = [charge EXCEPT ![r] = "none"]
    /\ UNCHANGED input

\* return err: the deferred tx.Rollback discards every write.
Rollback(r, answer) ==
    /\ Finish(r, answer)
    /\ UNCHANGED <<rows, ghosts>>

\* tx.Commit has been applied; with faults its acknowledgement may be lost, and
\* the handler answers 500 for a transaction that is in the database.
Commit(r) ==
    \/ Finish(r, "ok")
    \/ Faults /\ Finish(r, "error")

\* The stock columns once r's private changes are committed.
CommittedProducts(r) ==
    [p \in Products |-> [products[p] EXCEPT !.stock = View(r, p)]]

\* Any statement of an open transaction fails, or the request's context is
\* cancelled: the transaction is rolled back and the handler answers 500.
StatementFails(r) ==
    /\ Faults
    /\ pc[r] \in InTx
    /\ Rollback(r, "error")

-----------------------------------------------------------------------------
(* Placing an order: OrderHandler.CreateOrder, OrderService.CreateOrder.   *)

\* validate:"required,min=1" refuses a cart without lines.  The tags of the
\* lines themselves are not reached (there is no dive): any quantity passes.
RejectCart(r) ==
    /\ pc[r] = "idle"
    /\ \E i \in Inputs :
        /\ i.op = "create" /\ i.cart = <<>>
        /\ input' = [input EXCEPT ![r] = i]
    /\ pc' = [pc EXCEPT ![r] = "done"]
    /\ outcome' = [outcome EXCEPT ![r] = "invalid"]
    /\ UNCHANGED <<rows, locks, txVars, ghosts>>

BeginCreate(r) ==
    /\ pc[r] = "idle"
    /\ \E i \in Inputs :
        /\ i.op = "create" /\ i.cart # <<>>
        /\ input' = [input EXCEPT ![r] = i]
        /\ todo' = [todo EXCEPT ![r] = ProductsOf(i.cart)]
    /\ pc' = [pc EXCEPT ![r] = "lockProducts"]
    /\ UNCHANGED <<rows, locks, prices, total, delta, seen, charge, outcome, ghosts>>

\* Mutant: the ids are taken in Go's random map order.
AnyOf(p, S) == p \in S

\* The head of sortedProductIDs: the least id not yet locked.
Least(p, S) == p \in S /\ \A q \in S : p <= q

\* One turn of lockAndPrice that answers with an error.
LockProductRefused(r) ==
    /\ pc[r] = "lockProducts"
    /\ \E p \in todo[r] :
        /\ Least(p, todo[r])
        /\ \/ /\ products[p].state # "live"
              /\ Rollback(r, "ErrProductNotFound")
           \/ /\ products[p].state = "live"
              /\ MayLock(productLock, p, r)
              /\ products[p].stock < quantityByProduct(input[r].cart)[p]
              /\ Rollback(r, "ErrInsufficientStock")

\* Mutant: lockAndPrice reads the row without FOR UPDATE.
ReadProduct(r) ==
    /\ pc[r] = "lockProducts"
    /\ \E p \in todo[r] :
        /\ Least(p, todo[r])
        /\ products[p].state = "live"
        /\ products[p].stock >= quantityByProduct(input[r].cart)[p]
        /\ prices' = [prices EXCEPT ![r][p] = products[p].price]
        /\ total' = [total EXCEPT ![r] =
                        Int64(@ + products[p].price * quantityByProduct(input[r].cart)[p])]
        /\ todo' = [todo EXCEPT ![r] = @ \ {p}]
    /\ pc' = [pc EXCEPT ![r] = IF todo'[r] = {} THEN "insertOrder" ELSE @]
    /\ UNCHANGED <<rows, locks, input, delta, seen, charge, outcome, ghosts>>

\* One turn of lockAndPrice that locks the row, keeps its price and adds to the
\* total; after the last one the order is inserted.
LockProduct(r) ==
    /\ pc[r] = "lockProducts"
    /\ \E p \in todo[r] :
        /\ Least(p, todo[r])
        /\ products[p].state = "live"
        /\ MayLock(productLock, p, r)
        /\ products[p].stock >= quantityByProduct(input[r].cart)[p]
        /\ productLock' = [productLock EXCEPT ![p] = r]
        /\ prices' = [prices EXCEPT ![r][p] = products[p].price]
        /\ total' = [total EXCEPT ![r] =
                        Int64(@ + products[p].price * quantityByProduct(input[r].cart)[p])]
        /\ todo' = [todo EXCEPT ![r] = @ \ {p}]
    /\ pc' = [pc EXCEPT ![r] = IF todo'[r] = {} THEN "insertOrder" ELSE @]
    /\ UNCHANGED <<rows, orderLock, paymentLock, input, delta, seen, charge, outcome, ghosts>>

\* INSERT INTO orders; CHECK (total_amount >= 0) refuses a negative total.
InsertOrder(r) ==
    /\ pc[r] = "insertOrder"
    /\ \/ /\ total[r] < 0
          /\ Rollback(r, "error")
       \/ /\ total[r] >= 0
          /\ pc' = [pc EXCEPT ![r] = "insertItems"]
          /\ todo' = [todo EXCEPT ![r] = DOMAIN input[r].cart]
          /\ UNCHANGED <<rows, locks, input, prices, total, delta, seen, charge, outcome, ghosts>>

\* Mutant: the subtotal is the price times the narrowed quantity.
NarrowItemOf(line, price) ==
    [product |-> line.product, quantity |-> Int32(line.quantity),
     price |-> price, subtotal |-> Int64(price * Int32(line.quantity))]

\* The row INSERT INTO order_items writes for a line of the cart.
ItemOf(line, price) ==
    [product |-> line.product, quantity |-> Int32(line.quantity),
     price |-> price, subtotal |-> Int64(price * line.quantity)]

\* The CHECK constraints of order_items.
ItemAllowed(item) == item.quantity > 0 /\ item.subtotal >= 0

\* CreateOrderItem fails for the next line, or DecreaseProductStock finds no
\* row with that id and enough stock.
InsertItemRefused(r) ==
    /\ pc[r] = "insertItems"
    /\ \E n \in todo[r] :
        /\ Least(n, todo[r])
        /\ LET line == input[r].cart[n]
               item == ItemOf(line, prices[r][line.product])
           IN  \/ /\ ~ItemAllowed(item)
                  /\ Rollback(r, "error")
               \/ /\ ItemAllowed(item)
                  /\ products[line.product].state # "live"
                  /\ Rollback(r, "ErrInsufficientStock")
               \/ /\ ItemAllowed(item)
                  /\ products[line.product].state = "live"
                  /\ MayLock(productLock, line.product, r)
                  /\ View(r, line.product) < item.quantity
                  /\ Rollback(r, "ErrInsufficientStock")

\* CreateOrderItem, then DecreaseProductStock (UPDATE ... AND stock >= $1, which
\* locks the row itself if need be), for the next line of the cart.
InsertItem(r) ==
    /\ pc[r] = "insertItems"
    /\ \E n \in todo[r] :
        /\ Least(n, todo[r])
        /\ LET line == input[r].cart[n]
               item == ItemOf(line, prices[r][line.product])
           IN  /\ ItemAllowed(item)
               /\ products[line.product].state = "live"
               /\ MayLock(productLock, line.product, r)
               /\ View(r, line.product) >= item.quantity
               /\ productLock' = [productLock EXCEPT ![line.product] = r]
               /\ delta' = [delta EXCEPT ![r][line.product] = @ - item.quantity]
        /\ todo' = [todo EXCEPT ![r] = @ \ {n}]
    /\ pc' = [pc EXCEPT ![r] = IF todo'[r] = {} THEN "insertPayment" ELSE @]
    /\ UNCHANGED <<rows, orderLock, paymentLock, input, prices, total, seen, charge,
                   outcome, ghosts>>

\* CreatePayment for the order's total, then COMMIT: the order, its items, its
\* pending payment and the new stock become visible together.
CommitCreate(r) ==
    /\ pc[r] = "insertPayment"
    /\ orders' = [orders EXCEPT ![r] =
                    [status |-> "pending", user |-> input[r].user, total |-> total[r],
                     items |-> [n \in DOMAIN input[r].cart |->
                                    ItemOf(input[r].cart[n],
                                           prices[r][input[r].cart[n].product])]]]
    /\ payments' = [payments EXCEPT ![r] = [status |-> "pending", amount |-> total[r]]]
    /\ products' = CommittedProducts(r)
    /\ Commit(r)
    /\ UNCHANGED ghosts

-----------------------------------------------------------------------------
(* Cancelling: OrderHandler.CancelOrder, OrderService.CancelOrder.         *)

\* Mutant: the order is looked up by id alone.
VisibleToAnyone(r) == orders[input[r].order].status # "none"

\* WHERE id = $1 AND user_id = $2: the committed order row, for its owner only.
Visible(r) ==
    /\ orders[input[r].order].status # "none"
    /\ orders[input[r].order].user = input[r].user

BeginOnOrder(r, op, first) ==
    /\ pc[r] = "idle"
    /\ \E i \in Inputs :
        /\ i.op = op
        /\ input' = [input EXCEPT ![r] = i]
    /\ pc' = [pc EXCEPT ![r] = first]
    /\ UNCHANGED <<rows, locks, txVars, outcome, ghosts>>

BeginCancel(r) == BeginOnOrder(r, "cancel", "cancelLock")

\* LockOrderForUpdate and the checks after it, when one of them fails.
CancelRefused(r) ==
    /\ pc[r] = "cancelLock"
    /\ LET o == input[r].order IN
        \/ /\ ~Visible(r)
           /\ Rollback(r, "ErrOrderNotFound")
        \/ /\ Visible(r) /\ MayLock(orderLock, o, r)
           /\ orders[o].status # "pending"
           /\ Rollback(r, "ErrOrderNotPending")
        \/ /\ Visible(r) /\ MayLock(orderLock, o, r)
           /\ orders[o].status = "pending" /\ orders[o].items = <<>>
           /\ Rollback(r, "ErrOrderItemsUnvailable")

\* LockOrderForUpdate, the status check and GetOrderItemsByOrderID.
CancelLockOrder(r) ==
    /\ pc[r] = "cancelLock"
    /\ LET o == input[r].order IN
        /\ Visible(r)
        /\ MayLock(orderLock, o, r)
        /\ orders[o].status = "pending"
        /\ orders[o].items # <<>>
        /\ orderLock' = [orderLock EXCEPT ![o] = r]
        /\ todo' = [todo EXCEPT ![r] = DOMAIN orders[o].items]
    /\ pc' = [pc EXCEPT ![r] = "restore"]
    /\ UNCHANGED <<rows, productLock, paymentLock, input, prices, total, delta, seen, charge,
                   outcome, ghosts>>

\* Mutant: CancelOrder without its sort.
UnsortedLine(n, S, items) == n \in S

\* The next line after sort.Slice by product id; lines of one product come in
\* any order, the sort is not stable.
NextLine(n, S, items) == n \in S /\ \A m \in S : items[n].product <= items[m].product

\* LockProductForUpdate finds no row, or IncreaseProductStock leaves the range
\* of the INT column.
RestoreRefused(r) ==
    /\ pc[r] = "restore"
    /\ \E n \in todo[r] :
        LET items == orders[input[r].order].items
            p == items[n].product
        IN  /\ NextLine(n, todo[r], items)
            /\ \/ /\ products[p].state # "live"
                  /\ Rollback(r, "ErrProductNotFound")
               \/ /\ products[p].state = "live"
                  /\ MayLock(productLock, p, r)
                  /\ View(r, p) + items[n].quantity > MaxStock
                  /\ Rollback(r, "error")

\* Mutant: a product on two lines is restored for one of them only.
RestoreProductOnce(r) ==
    /\ pc[r] = "restore"
    /\ \E n \in todo[r] :
        LET items == orders[input[r].order].items
            p == items[n].product
        IN  /\ NextLine(n, todo[r], items)
            /\ products[p].state = "live"
            /\ MayLock(productLock, p, r)
            /\ View(r, p) + items[n].quantity <= MaxStock
            /\ productLock' = [productLock EXCEPT ![p] = r]
            /\ delta' = [delta EXCEPT ![r][p] = @ + items[n].quantity]
            /\ todo' = [todo EXCEPT ![r] = {m \in @ : items[m].product # p}]
    /\ pc' = [pc EXCEPT ![r] = IF todo'[r] = {} THEN "markCancelled" ELSE @]
    /\ UNCHANGED <<rows, orderLock, paymentLock, input, prices, total, seen, charge,
                   outcome, ghosts>>

\* LockProductForUpdate, then IncreaseProductStock, for the next line.
RestoreItem(r) ==
    /\ pc[r] = "restore"
    /\ \E n \in todo[r] :
        LET items == orders[input[r].order].items
            p == items[n].product
        IN  /\ NextLine(n, todo[r], items)
            /\ products[p].state = "live"
            /\ MayLock(productLock, p, r)
            /\ View(r, p) + items[n].quantity <= MaxStock
            /\ productLock' = [productLock EXCEPT ![p] = r]
            /\ delta' = [delta EXCEPT ![r][p] = @ + items[n].quantity]
            /\ todo' = [todo EXCEPT ![r] = @ \ {n}]
    /\ pc' = [pc EXCEPT ![r] = IF todo'[r] = {} THEN "markCancelled" ELSE @]
    /\ UNCHANGED <<rows, orderLock, paymentLock, input, prices, total, seen, charge,
                   outcome, ghosts>>

\* Mutant: the status is committed and the restored stock is not.
CommitCancelStatusOnly(r) ==
    /\ pc[r] = "markCancelled"
    /\ orders' = [orders EXCEPT ![input[r].order].status = "cancelled"]
    /\ Commit(r)
    /\ UNCHANGED <<products, payments, ghosts>>

\* UpdateOrderStatus(..., "cancelled"), then COMMIT.
CommitCancel(r) ==
    /\ pc[r] = "markCancelled"
    /\ orders' = [orders EXCEPT ![input[r].order].status = "cancelled"]
    /\ products' = CommittedProducts(r)
    /\ Commit(r)
    /\ UNCHANGED <<payments, ghosts>>

-----------------------------------------------------------------------------
(* Paying: PaymentRepository.Pay.                                          *)

BeginPay(r) == BeginOnOrder(r, "pay", "payLockOrder")

PayOrderNotFound(r) ==
    /\ pc[r] = "payLockOrder"
    /\ ~Visible(r)
    /\ Rollback(r, "ErrNoOrderFound")

\* Mutant: Pay reads the order without FOR UPDATE.
PayReadOrder(r) ==
    /\ pc[r] = "payLockOrder"
    /\ Visible(r)
    /\ seen' = [seen EXCEPT ![r] = orders[input[r].order].status]
    /\ pc' = [pc EXCEPT ![r] = "payLockPayment"]
    /\ UNCHANGED <<rows, locks, input, todo, prices, total, delta, charge, outcome, ghosts>>

\* LockOrderForPayment: the status read here is the one the switch tests later.
PayLockOrder(r) ==
    /\ pc[r] = "payLockOrder"
    /\ Visible(r)
    /\ MayLock(orderLock, input[r].order, r)
    /\ orderLock' = [orderLock EXCEPT ![input[r].order] = r]
    /\ seen' = [seen EXCEPT ![r] = orders[input[r].order].status]
    /\ pc' = [pc EXCEPT ![r] = "payLockPayment"]
    /\ UNCHANGED <<rows, productLock, paymentLock, input, todo, prices, total, delta, charge,
                   outcome, ghosts>>

\* Mutant: only a cancelled order stops the charge.
PayAnswerCancelledOnly(r) ==
    CASE payments[input[r].order].status = "none" -> "ErrNoPaymentFound"
      [] payments[input[r].order].status # "none" /\ seen[r] = "cancelled" -> "ErrOrderNotPayable"
      [] OTHER -> "none"

\* What Pay answers without charging, given the status it saw, or "none".
PayAnswer(r) ==
    CASE payments[input[r].order].status = "none" -> "ErrNoPaymentFound"
      [] payments[input[r].order].status # "none" /\ seen[r] = "paid" -> "ok"
      [] payments[input[r].order].status # "none" /\ seen[r] = "cancelled" -> "ErrOrderNotPayable"
      [] payments[input[r].order].status = "success" /\ seen[r] = "pending" -> "ok"
      [] OTHER -> "none"

\* LockPaymentForUpdate and the switch: an order already paid is answered with
\* the payment on file, a cancelled one is refused.  The transaction has
\* written nothing and is rolled back.
PaySettled(r) ==
    /\ pc[r] = "payLockPayment"
    /\ MayLock(paymentLock, input[r].order, r)
    /\ PayAnswer(r) # "none"
    /\ Rollback(r, PayAnswer(r))

LockPayment(r) ==
    /\ pc[r] = "payLockPayment"
    /\ MayLock(paymentLock, input[r].order, r)
    /\ PayAnswer(r) = "none"
    /\ paymentLock' = [paymentLock EXCEPT ![input[r].order] = r]
    /\ pc' = [pc EXCEPT ![r] = "charge"]
    /\ UNCHANGED <<rows, productLock, orderLock, input, txVars, outcome, ghosts>>

\* Charge: the provider takes the money, or declines.  No rollback undoes it.
Charge(r) ==
    /\ pc[r] = "charge"
    /\ \E result \in {"success", "failed"} :
        /\ charge' = [charge EXCEPT ![r] = result]
        /\ charged' = [charged EXCEPT ![input[r].order] =
                        IF result = "success" THEN @ + 1 ELSE @]
    /\ pc' = [pc EXCEPT ![r] = "recordCharge"]
    /\ UNCHANGED <<rows, locks, input, todo, prices, total, delta, seen, outcome, supply>>

\* Mutant: MarkOrderAsPaid is forgotten.
CommitPaymentOnly(r) ==
    /\ pc[r] = "recordCharge"
    /\ payments' = [payments EXCEPT ![input[r].order].status = charge[r]]
    /\ Commit(r)
    /\ UNCHANGED <<products, orders, ghosts>>

\* Mutant: the payment's status is written to the order.
CommitPayStatus(r) ==
    /\ pc[r] = "recordCharge"
    /\ payments' = [payments EXCEPT ![input[r].order].status = charge[r]]
    /\ orders' = [orders EXCEPT ![input[r].order].status = charge[r]]
    /\ Commit(r)
    /\ UNCHANGED <<products, ghosts>>

\* UpdatePaymentStatus, MarkOrderAsPaid when the charge succeeded, COMMIT.
CommitPay(r) ==
    /\ pc[r] = "recordCharge"
    /\ payments' = [payments EXCEPT ![input[r].order].status = charge[r]]
    /\ orders' = [orders EXCEPT ![input[r].order].status =
                    IF charge[r] = "success" THEN "paid" ELSE @]
    /\ Commit(r)
    /\ UNCHANGED <<products, ghosts>>

-----------------------------------------------------------------------------
(* The catalogue: one statement each, so a request goes from idle to done  *)
(* in one step.  An UPDATE or a DELETE waits for the row's lock.           *)

CatalogAnswer(r, i, answer) ==
    /\ pc' = [pc EXCEPT ![r] = "done"]
    /\ input' = [input EXCEPT ![r] = i]
    /\ outcome' = [outcome EXCEPT ![r] = answer]
    /\ UNCHANGED <<orders, payments, locks, txVars, charged>>

\* The statement has been applied; as after Commit, its acknowledgement may be
\* lost, and the handler answers 500 for a row that is written.
CatalogDone(r, i) ==
    \/ CatalogAnswer(r, i, "ok")
    \/ Faults /\ CatalogAnswer(r, i, "error")

\* The gt=0 tags: required in a POST, for the fields that are sent in a PATCH.
ProductRejected(i) ==
    \/ i.op = "addProduct" /\ (i.stock <= 0 \/ i.price <= 0)
    \/ i.op = "patchProduct" /\ (i.stock < 0 \/ i.price < 0)

\* A catalogue write that writes nothing whatever the tables hold: the validator
\* refuses the body, or the statement fails (while it waits for a lock, too).
CatalogRefused(r) ==
    /\ pc[r] = "idle"
    /\ \E i \in Inputs :
        /\ i.op \in {"addProduct", "patchProduct", "deleteProduct"}
        /\ \/ ProductRejected(i) /\ CatalogAnswer(r, i, "invalid")
           \/ Faults /\ ~ProductRejected(i) /\ CatalogAnswer(r, i, "error")
    /\ UNCHANGED <<products, supply>>

\* The row INSERT INTO products writes.
InsertedRow(i) == [state |-> "live", stock |-> Int32(i.stock), price |-> i.price]

\* The row UPDATE products SET ... = COALESCE(...) leaves: the new stock replaces
\* whatever the concurrent orders left.
UpdatedRow(old, i) ==
    [state |-> "live",
     stock |-> IF i.stock = 0 THEN old.stock ELSE Int32(i.stock),
     price |-> IF i.price = 0 THEN old.price ELSE i.price]

\* DELETE FROM products.
DeletedRow == [state |-> "deleted", stock |-> 0, price |-> 0]

\* CHECK (stock >= 0) refuses a count that int32 made negative.  Names are not
\* modelled, so another product may have this one's name, or not.
\* gen_random_uuid never returns an id that was ever used.
CreateProduct(r) ==
    /\ pc[r] = "idle"
    /\ \E i \in Inputs :
        /\ i.op = "addProduct" /\ ~ProductRejected(i)
        /\ products[i.product].state = "unborn"
        /\ \/ /\ CatalogAnswer(r, i, "ErrExistingProductName")
              /\ UNCHANGED <<products, supply>>
           \/ /\ InsertedRow(i).stock < 0
              /\ CatalogAnswer(r, i, "error")
              /\ UNCHANGED <<products, supply>>
           \/ /\ InsertedRow(i).stock >= 0
              /\ CatalogDone(r, i)
              /\ products' = [products EXCEPT ![i.product] = InsertedRow(i)]
              /\ supply' = [supply EXCEPT ![i.product] = InsertedRow(i).stock]

\* The UPDATE waits for the row's lock, and supply is corrected by the difference.
\* Holding it, it may wait for another write of the same name, which is left out:
\* that write holds one row of its own and waits for names only, so it ends, or
\* it waits for this one and PostgreSQL fails one of the two (CatalogRefused).
UpdateProduct(r) ==
    /\ pc[r] = "idle"
    /\ \E i \in Inputs :
        LET old == products[i.product]
            new == UpdatedRow(old, i)
        IN  /\ i.op = "patchProduct" /\ ~ProductRejected(i)
            /\ \/ /\ old.state # "live"
                  /\ CatalogAnswer(r, i, "ErrProductNotFound")
                  /\ UNCHANGED <<products, supply>>
               \/ /\ old.state = "live" /\ productLock[i.product] = None
                  /\ \/ CatalogAnswer(r, i, "ErrExistingProductName")
                     \/ new.stock < 0 /\ CatalogAnswer(r, i, "error")
                  /\ UNCHANGED <<products, supply>>
               \/ /\ old.state = "live" /\ productLock[i.product] = None
                  /\ new.stock >= 0
                  /\ CatalogDone(r, i)
                  /\ products' = [products EXCEPT ![i.product] = new]
                  /\ supply' = [supply EXCEPT ![i.product] = @ + new.stock - old.stock]

\* Some committed order_items row refers to p: the foreign key has no ON DELETE.
Referenced(p) == \E o \in Requests : \E n \in DOMAIN orders[o].items : orders[o].items[n].product = p

\* Mutant: order_items without its foreign key to products.
DeleteAnyProduct(r) ==
    /\ pc[r] = "idle"
    /\ \E i \in Inputs :
        /\ i.op = "deleteProduct"
        /\ products[i.product].state = "live" /\ productLock[i.product] = None
        /\ CatalogAnswer(r, i, "ok")
        /\ products' = [products EXCEPT ![i.product] = DeletedRow]
        /\ supply' = [supply EXCEPT ![i.product] = 0]

\* DELETE FROM products WHERE id = $1 waits for the row's lock, too.
DeleteProduct(r) ==
    /\ pc[r] = "idle"
    /\ \E i \in Inputs :
        /\ i.op = "deleteProduct"
        /\ \/ /\ products[i.product].state # "live"
              /\ CatalogAnswer(r, i, "ErrProductNotFound")
              /\ UNCHANGED <<products, supply>>
           \/ /\ products[i.product].state = "live" /\ productLock[i.product] = None
              /\ Referenced(i.product)
              /\ CatalogAnswer(r, i, "error")
              /\ UNCHANGED <<products, supply>>
           \/ /\ products[i.product].state = "live" /\ productLock[i.product] = None
              /\ ~Referenced(i.product)
              /\ CatalogDone(r, i)
              /\ products' = [products EXCEPT ![i.product] = DeletedRow]
              /\ supply' = [supply EXCEPT ![i.product] = 0]

-----------------------------------------------------------------------------
\* A statement of an open transaction: what an answer to the client waits for.
Step(r) ==
    \/ LockProductRefused(r) \/ LockProduct(r) \/ InsertOrder(r)
    \/ InsertItemRefused(r) \/ InsertItem(r) \/ CommitCreate(r)
    \/ CancelRefused(r) \/ CancelLockOrder(r)
    \/ RestoreRefused(r) \/ RestoreItem(r) \/ CommitCancel(r)
    \/ PayOrderNotFound(r) \/ PayLockOrder(r) \/ PaySettled(r)
    \/ LockPayment(r) \/ Charge(r) \/ CommitPay(r)

\* Every request has been answered: the run is over.
Quiescent ==
    /\ \A r \in Requests : pc[r] = "done"
    /\ UNCHANGED vars

Next ==
    \/ \E r \in Requests :
        \/ RejectCart(r) \/ BeginCreate(r) \/ BeginCancel(r) \/ BeginPay(r)
        \/ CatalogRefused(r) \/ CreateProduct(r) \/ UpdateProduct(r) \/ DeleteProduct(r)
        \/ Step(r)
        \/ StatementFails(r)
    \/ Quiescent

Spec == Init /\ [][Next]_vars

-----------------------------------------------------------------------------
(* Properties.                                                             *)

\* Units of p on the lines of orders that were placed and not cancelled.
Ordered(p) ==
    SumFunctionOnSet([o \in Requests |-> Units(orders[o].items, DOMAIN orders[o].items, p)],
                     {o \in Requests : orders[o].status \in {"pending", "paid"}})

\* No unit is lost or invented: stock on the shelf plus units in live orders is
\* what the catalogue was given, through every create, cancel, rollback and
\* lost commit acknowledgement (CreateOrder, CancelOrder).
StockConservation ==
    \A p \in Products :
        products[p].state = "live" => products[p].stock + Ordered(p) = supply[p]

\* lockAndPrice's stock check is still true when the lines are written: for a
\* cart of positive quantities the remaining lines fit in the stock the
\* transaction sees, so DecreaseProductStock never refuses (the comment in
\* CreateOrder: "this can only fail if the stock check above was wrong").
StockCheckHolds ==
    \A r \in Requests :
        pc[r] = "insertItems" =>
            LET cart == input[r].cart IN
            (\A n \in DOMAIN cart : cart[n].quantity \in 1 .. MaxStock) =>
                \A p \in ProductsOf(cart) : Units(cart, todo[r], p) <= View(r, p)

\* A step that commits the order o takes the prices the catalogue then has.
PricedNow(o) ==
    orders[o].status = "none" /\ orders'[o].status # "none" =>
        \A n \in DOMAIN orders'[o].items :
            orders'[o].items[n].price = products[orders'[o].items[n].product].price

\* An order is committed at the prices its products have at that very moment:
\* no PATCH slips in between the price snapshot and the commit.
SnapshotIsCurrent == [][\A o \in Requests : PricedNow(o)]_vars

\* What an order costs is what its lines say.  total_amount, which lockAndPrice
\* adds up per product, is the 64-bit sum of the subtotals, which CreateOrderItem
\* computes per line, even where both wrap.  And unless a product's units, a
\* line's cost or the total leave 64 bits, whatever quantities the cart asks
\* for, negative ones and ones that int32 narrows included, an order that is
\* stored has the quantities that were asked for and costs what they cost.
OrderTotals ==
    \A o \in Requests : orders[o].status # "none" =>
        LET items == orders[o].items
            cart == input[o].cart
            cost == [n \in DOMAIN items |-> items[n].price * cart[n].quantity]
        IN  /\ orders[o].total = Int64(SumFunction([n \in DOMAIN items |-> items[n].subtotal]))
            /\ /\ \A p \in ProductsOf(cart) : Units(cart, DOMAIN cart, p) \in Word
               /\ \A n \in DOMAIN cart : cost[n] \in Word
               /\ SumFunction(cost) \in Word
               =>
               /\ \A n \in DOMAIN items : /\ items[n].quantity = cart[n].quantity
                                          /\ items[n].subtotal = cost[n]
               /\ orders[o].total = SumFunction(cost)

\* An order and its payment never disagree: they appear together, for the same
\* amount, and the order is paid exactly when the payment succeeded.  Cancel,
\* pay and a failed charge may be interleaved in any way.
PaymentAgreement ==
    \A o \in Requests :
        /\ orders[o].status = "none" <=> payments[o].status = "none"
        /\ orders[o].status = "paid" <=> payments[o].status = "success"
        /\ orders[o].total = payments[o].amount

\* What a step may do to the order o and its payment.
OrderStep(o) ==
    /\ orders[o].status \in {"paid", "cancelled"} => orders'[o].status = orders[o].status
    /\ payments[o].status = "success" => payments'[o] = payments[o]
    /\ orders[o].status # "none" =>
        /\ orders'[o].status # "none"
        /\ orders'[o].user = orders[o].user
        /\ orders'[o].items = orders[o].items
        /\ orders'[o].total = orders[o].total
        /\ payments'[o].amount = payments[o].amount

\* Paid and cancelled are final, a successful payment stays successful, and
\* what was ordered (owner, lines, total) never changes after the commit.
StatusFinal == [][\A o \in Requests : OrderStep(o)]_vars

\* Every product of a committed order is still in the catalogue, so a cancel
\* can always restore it: the foreign key and the row locks keep DeleteProduct
\* away from it.
OrderedProductsLive ==
    \A p \in Products : Referenced(p) => products[p].state = "live"

\* What the client was told is what the tables say, later too: an accepted
\* create left an order and a refused one did not; an accepted cancel or pay
\* was for the user's own order and left it cancelled, paid or with a failed
\* payment on file.
AnswersAgreeWithRows ==
    \A r \in Requests :
        LET i == input[r] IN
        /\ (pc[r] = "done" /\ i.op = "create") =>
            /\ outcome[r] = "ok" => orders[r].status # "none" /\ orders[r].user = i.user
            /\ outcome[r] \in Refusals => orders[r].status = "none"
        /\ (pc[r] = "done" /\ i.op = "cancel" /\ outcome[r] = "ok") =>
            orders[i.order].status = "cancelled" /\ orders[i.order].user = i.user
        /\ (pc[r] = "done" /\ i.op = "pay" /\ outcome[r] = "ok") =>
            payments[i.order].status \in {"success", "failed"} /\ orders[i.order].user = i.user

\* The rows whose lock the next statement of r needs.
AwaitsProduct(r) ==
    CASE pc[r] = "lockProducts" -> {p \in todo[r] : Least(p, todo[r])}
      [] pc[r] = "insertItems" ->
            {input[r].cart[n].product : n \in {m \in todo[r] : Least(m, todo[r])}}
      [] pc[r] = "restore" ->
            LET items == orders[input[r].order].items
            IN  {items[n].product : n \in {m \in todo[r] : NextLine(m, todo[r], items)}}
      [] OTHER -> {}
AwaitsOrder(r) == IF pc[r] \in {"cancelLock", "payLockOrder"} THEN {input[r].order} ELSE {}
AwaitsPayment(r) == IF pc[r] = "payLockPayment" THEN {input[r].order} ELSE {}

Holds(lock, r) == {row \in DOMAIN lock : lock[row] = r}

\* Locks are taken in one global order, orders before payments before products
\* in id order: a transaction that waits for a row holds only earlier rows
\* (sortedProductIDs in CreateOrder, sort.Slice in CancelOrder).
WaitsAscend ==
    \A r \in Requests :
        /\ \A p \in AwaitsProduct(r) :
            productLock[p] # r => \A q \in Holds(productLock, r) : q < p
        /\ AwaitsPayment(r) # {} => Holds(productLock, r) = {} /\ Holds(paymentLock, r) = {}
        /\ AwaitsOrder(r) # {} => /\ Holds(productLock, r) = {}
                                  /\ Holds(paymentLock, r) = {}
                                  /\ Holds(orderLock, r) = {}

\* r waits for a row that s holds.
WaitsFor(r, s) ==
    /\ r # s
    /\ \/ \E p \in AwaitsProduct(r) : productLock[p] = s
       \/ \E o \in AwaitsOrder(r) : orderLock[o] = s
       \/ \E o \in AwaitsPayment(r) : paymentLock[o] = s

\* No deadlock: in every group of requests one waits for nobody in the group
\* (the comment on lockAndPrice, and the same order in CancelOrder).
NoWaitCycle ==
    \A S \in SUBSET Requests :
        S # {} => \E r \in S : \A s \in S : ~WaitsFor(r, s)

\* The README: "Retrying a payment never double-charges".  The provider takes
\* the money for an order at most once, however often Pay is called.
ChargedAtMostOnce == \A o \in Requests : charged[o] <= 1

\* The provider's ledger and the orders table agree whenever no Pay is between
\* its charge and its commit: money taken means paid, and paid means taken.
LedgerAgreesWithOrders ==
    \A o \in Requests :
        (\A r \in Requests : pc[r] = "recordCharge" => input[r].order # o) =>
            (charged[o] > 0 <=> orders[o].status = "paid")

\* The comment in OrderHandler.CancelOrder: "Restoring stock cannot fail on
\* stock; it can only fail if the product row is gone".  Without faults a
\* cancel is never answered 500.
CancelNeverFailsOnStock ==
    \A r \in Requests :
        pc[r] = "done" /\ input[r].op = "cancel" => outcome[r] # "error"

Ledger == INSTANCE OrderLedger

\* The concurrent transactions are serialisable as far as the tables show it:
\* every step leaves them alone or is one indivisible step of the ledger, so a
\* create takes exactly its lines' units from a shelf that has them, at the
\* prices of that moment, and a cancel returns exactly those (WithinTx, Pay).
ImplementsLedger == Ledger!Spec

=============================================================================
