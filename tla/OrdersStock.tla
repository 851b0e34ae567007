----------------------------- MODULE OrdersStock -----------------------------
(***************************************************************************)
(* Sums: no unit of stock is lost or invented, the check of lockAndPrice   *)
(* holds when the lines are written, an order's total is what its lines    *)
(* say, and the concurrent transactions implement the ledger of            *)
(* OrderLedger, for carts of any length.                                   *)
(***************************************************************************)
EXTENDS OrdersSafety

-----------------------------------------------------------------------------
(* Words.                                                                  *)

\* A conversion keeps a number modulo the word.
LEMMA WrapCongruent ==
    ASSUME NEW n \in Int, NEW max \in Nat
    PROVE  Congruent(Wrap(n, max), n, 2 * (max + 1))
<1>1. PICK w \in Nat : w = 2 * (max + 1) /\ w > 0
    OBVIOUS
<1> DEFINE a == n + max + 1
           k == a \div w
<1>2. a \in Int /\ k \in Int
    BY <1>1
<1>3. a = w * k + (a % w)
    BY <1>1, <1>2
<1>4. w * k \in Int /\ (-k) * w = -(w * k) /\ -k \in Int /\ a % w \in Int
    BY <1>1, <1>2
<1>5. (a % w) - (max + 1) = n + (-k) * w
    BY <1>1, <1>2, <1>3, <1>4
<1> QED BY <1>1, <1>4, <1>5 DEF Congruent, Wrap

\* Two numbers of a word that agree modulo the word are the same.
LEMMA WordUnique ==
    ASSUME NEW max \in Nat, NEW a \in -(max + 1) .. max, NEW b \in -(max + 1) .. max,
           Congruent(a, b, 2 * (max + 1))
    PROVE  a = b
<1>1. PICK k \in Int : a = b + k * (2 * (max + 1))
    BY DEF Congruent
<1>2. PICK w \in Nat : w = 2 * (max + 1) /\ w > 0
    OBVIOUS
<1>3. a - b < w /\ b - a < w
    BY <1>2
<1>4. k >= 1 => k * w >= w
    BY <1>2
<1>5. k <= -1 => k * w <= -w
    BY <1>2
<1>6. k = 0 => k * w = 0
    BY <1>2
<1> QED BY <1>1, <1>2, <1>3, <1>4, <1>5, <1>6

LEMMA WrapSame ==
    ASSUME NEW max \in Nat, NEW a \in Int, NEW b \in Int, Congruent(a, b, 2 * (max + 1))
    PROVE  Wrap(a, max) = Wrap(b, max)
<1> DEFINE m == 2 * (max + 1)
<1>1. /\ Wrap(a, max) \in -(max + 1) .. max /\ Wrap(a, max) \in Int
      /\ Wrap(b, max) \in -(max + 1) .. max /\ Wrap(b, max) \in Int
    BY WrapRange
<1>2. Congruent(Wrap(a, max), a, m) /\ Congruent(Wrap(b, max), b, m) /\ m \in Int
    BY WrapCongruent
<1> HIDE DEF m
<1>3. Congruent(a, b, m)
    BY DEF m
<1>4. Congruent(Wrap(a, max), b, m)
    BY <1>1, <1>2, <1>3, CongruentTrans
<1>5. Congruent(b, Wrap(b, max), m)
    BY <1>1, <1>2, CongruentSame
<1>6. Congruent(Wrap(a, max), Wrap(b, max), m)
    BY <1>1, <1>2, <1>4, <1>5, CongruentTrans
<1> QED BY <1>1, <1>6, WordUnique DEF m

\* A number of the word is kept.
LEMMA WrapIdentity ==
    ASSUME NEW max \in Nat, NEW n \in -(max + 1) .. max
    PROVE  Wrap(n, max) = n
<1>1. Wrap(n, max) \in -(max + 1) .. max
    BY WrapRange
<1>2. Congruent(Wrap(n, max), n, 2 * (max + 1))
    BY WrapCongruent
<1> QED BY <1>1, <1>2, WordUnique

\* Int64 in these terms: the modulus of Go's int.
M64 == 2 * (MaxAmount + 1)

LEMMA Int64Facts ==
    /\ M64 \in Int
    /\ \A n \in Int : Int64(n) \in Int /\ Congruent(Int64(n), n, M64)
    /\ \A a, b \in Int : Congruent(a, b, M64) => Int64(a) = Int64(b)
    /\ \A n \in Word : Int64(n) = n
<1>1. MaxAmount \in Nat
    BY CatalogAssumption
<1>2. M64 \in Int
    BY <1>1 DEF M64
<1>3. \A n \in Int : Int64(n) \in Int /\ Congruent(Int64(n), n, M64)
    BY <1>1, Int64Type, WrapCongruent DEF Int64, M64
<1>4. \A a, b \in Int : Congruent(a, b, M64) => Int64(a) = Int64(b)
    BY <1>1, WrapSame DEF Int64, M64
<1>5. ASSUME NEW n \in Word PROVE Int64(n) = n
    BY <1>1, WrapIdentity DEF Int64, Word
<1> QED BY <1>2, <1>3, <1>4, <1>5

LEMMA Int32Identity == \A n \in 0 .. MaxStock : Int32(n) = n
<1> SUFFICES ASSUME NEW n \in 0 .. MaxStock PROVE Int32(n) = n
    OBVIOUS
<1>1. MaxStock \in Nat /\ n \in -(MaxStock + 1) .. MaxStock
    BY CatalogAssumption
<1> QED BY <1>1, WrapIdentity DEF Int32

\* What 64-bit arithmetic makes of a + b * c, when it has wrapped a and c before.
LEMMA Int64Steps ==
    ASSUME NEW a \in Int, NEW b \in Int, NEW c \in Int
    PROVE  Int64(Int64(a) + b * Int64(c)) = Int64(a + b * c)
<1>1. /\ M64 \in Int /\ Int64(a) \in Int /\ Int64(c) \in Int
      /\ Congruent(Int64(a), a, M64) /\ Congruent(Int64(c), c, M64)
    BY Int64Facts
<1>2. b * c \in Int /\ b * Int64(c) \in Int
    BY <1>1
<1>3. Congruent(b * Int64(c), b * c, M64)
    BY <1>1, CongruentTimes
<1>4. Congruent(Int64(a) + b * Int64(c), a + b * c, M64)
    BY <1>1, <1>2, <1>3, CongruentPlus
<1> QED BY <1>1, <1>2, <1>4, Int64Facts

-----------------------------------------------------------------------------
(* Units on lines.                                                         *)

LEMMA UnitsNone == ASSUME NEW lines, NEW p PROVE Units(lines, {}, p) = 0
<1>1. {n \in {} : lines[n].product = p} = {}
    OBVIOUS
<1> QED BY <1>1, SumEmpty DEF Units

\* T is the set S of lines, which can be added up, without the line n.
OneLess(lines, S, T, n) ==
    /\ IsFiniteSet(S) /\ S \subseteq DOMAIN lines /\ n \in S /\ T = S \ {n}
    /\ \A m \in S : lines[m].quantity \in Int

\* One line is taken out.
LEMMA UnitsTake ==
    ASSUME NEW lines, NEW S, NEW T, NEW n, NEW p, OneLess(lines, S, T, n)
    PROVE  /\ Units(lines, S, p) \in Int /\ Units(lines, T, p) \in Int
           /\ lines[n].product = p => Units(lines, S, p) = lines[n].quantity + Units(lines, T, p)
           /\ lines[n].product # p => Units(lines, S, p) = Units(lines, T, p)
<1> DEFINE q == [m \in DOMAIN lines |-> lines[m].quantity]
           A == {m \in S : lines[m].product = p}
           B == {m \in T : lines[m].product = p}
<1> USE DEF OneLess
<1>0. IsFiniteSet(T) /\ T \subseteq DOMAIN lines
    BY FS_RemoveElement
<1>1. Units(lines, S, p) \in Int /\ Units(lines, T, p) \in Int
    BY <1>0, UnitsType
<1>2. CASE lines[n].product = p
    <2>1. IsFiniteSet(A) /\ (\A m \in A : q[m] \in Int) /\ n \in A /\ B = A \ {n}
        BY <1>2, FS_Subset
    <2>2. q[n] = lines[n].quantity
        OBVIOUS
    <2>3. SumFunctionOnSet(q, A) = q[n] + SumFunctionOnSet(q, A \ {n})
        <3> HIDE DEF q, A
        <3> QED BY <2>1, SumRemove
    <2>4. Units(lines, S, p) = SumFunctionOnSet(q, A) /\ Units(lines, T, p) = SumFunctionOnSet(q, B)
        BY DEF Units
    <2> HIDE DEF q, A, B
    <2> QED BY <1>1, <1>2, <2>1, <2>2, <2>3, <2>4
<1>3. CASE lines[n].product # p
    <2>1. A = B
        BY <1>3
    <2> QED BY <1>1, <1>3, <2>1 DEF Units
<1> QED BY <1>1, <1>2, <1>3

\* Units of a product of which there is no line.
LEMMA UnitsAbsent ==
    ASSUME NEW lines, NEW S, NEW p, \A n \in S : lines[n].product # p
    PROVE  Units(lines, S, p) = 0
<1>1. {n \in S : lines[n].product = p} = {}
    OBVIOUS
<1> QED BY <1>1, SumEmpty DEF Units

\* Positive lines have positive sums.
LEMMA UnitsPositive ==
    ASSUME NEW lines, NEW S, IsFiniteSet(S), S \subseteq DOMAIN lines,
           \A m \in S : lines[m].quantity \in Nat, NEW n \in S
    PROVE  /\ Units(lines, S, lines[n].product) \in Nat
           /\ lines[n].quantity <= Units(lines, S, lines[n].product)
<1> DEFINE q == [m \in DOMAIN lines |-> lines[m].quantity]
           T == {m \in S : lines[m].product = lines[n].product}
<1>1. IsFiniteSet(T) /\ (\A m \in T : q[m] \in Nat) /\ n \in T /\ q[n] = lines[n].quantity
    BY FS_Subset
<1>2. Units(lines, S, lines[n].product) = SumFunctionOnSet(q, T)
    BY DEF Units
<1> HIDE DEF q, T
<1>3. SumFunctionOnSet(q, T) \in Nat /\ q[n] <= SumFunctionOnSet(q, T)
    BY <1>1, SumNat, SumMember
<1> QED BY <1>1, <1>2, <1>3

\* Lines of at most c units each.
LEMMA UnitsBound ==
    ASSUME NEW lines, NEW S, IsFiniteSet(S), S \subseteq DOMAIN lines, NEW p, NEW c \in Nat,
           \A m \in S : lines[m].quantity \in 0 .. c
    PROVE  Units(lines, S, p) \in Nat /\ Units(lines, S, p) <= c * Cardinality(S)
<1> DEFINE q == [m \in DOMAIN lines |-> lines[m].quantity]
           T == {m \in S : lines[m].product = p}
<1>1. IsFiniteSet(T) /\ (\A m \in T : q[m] \in Nat /\ q[m] <= c)
    BY FS_Subset
<1>2. Cardinality(T) \in Nat /\ Cardinality(S) \in Nat /\ Cardinality(T) <= Cardinality(S)
    BY FS_Subset, FS_CardinalityType
<1>3. Units(lines, S, p) = SumFunctionOnSet(q, T)
    BY DEF Units
<1> HIDE DEF q, T
<1>4. SumFunctionOnSet(q, T) \in Nat /\ SumFunctionOnSet(q, T) <= c * Cardinality(T)
    BY <1>1, SumNat, SumBound
<1>5. \A x, y \in Nat : x <= y => c * x <= c * y /\ c * x \in Nat /\ c * y \in Nat
    OBVIOUS
<1>6. c * Cardinality(T) <= c * Cardinality(S) /\ c * Cardinality(T) \in Nat /\ c * Cardinality(S) \in Nat
    BY <1>2, <1>5
<1> QED BY <1>3, <1>4, <1>6

-----------------------------------------------------------------------------
(* What an open transaction has done so far.                               *)

\* The rows a create inserts into order_items.
RowsOf(r) ==
    [n \in DOMAIN input[r].cart |->
        ItemOf(input[r].cart[n], prices[r][input[r].cart[n].product])]

\* The uncommitted stock changes are exactly the lines written: those a create
\* has inserted have left the shelf, those a cancel has restored are back.
DeltaOK(r) ==
    /\ pc[r] \notin {"insertItems", "insertPayment", "restore", "markCancelled"} =>
        \A p \in Products : delta[r][p] = 0
    /\ pc[r] \in {"insertItems", "insertPayment"} =>
        \A p \in Products :
            delta[r][p] = -Units(RowsOf(r), DOMAIN RowsOf(r) \ todo[r], p)
    /\ pc[r] \in {"restore", "markCancelled"} =>
        LET items == orders[input[r].order].items IN
        \A p \in Products : delta[r][p] = Units(items, DOMAIN items \ todo[r], p)
    /\ pc[r] = "markCancelled" => todo[r] = {}

\* A cart that counts in 64 bits whatever a stock column can hold of each line:
\* fewer than 2^32 lines.
CartFits(cart) == Len(cart) * MaxStock <= MaxAmount

Countable(cart) == CartFits(cart) /\ \A n \in DOMAIN cart : cart[n].quantity \in 1 .. MaxStock

\* The stock check of lockAndPrice is still true of the rows it locked, and of
\* what the transaction has left of them.
CheckOK(r) ==
    LET cart == input[r].cart IN
    /\ pc[r] = "lockProducts" =>
        \A p \in ProductsOf(cart) \ todo[r] : quantityByProduct(cart)[p] <= products[p].stock
    /\ pc[r] \in {"insertOrder", "insertItems", "insertPayment"} =>
        \A p \in ProductsOf(cart) : quantityByProduct(cart)[p] <= products[p].stock
    /\ pc[r] = "insertItems" /\ Countable(cart) =>
        \A p \in ProductsOf(cart) : Units(cart, todo[r], p) <= View(r, p)

\* The exact cost of the lines in S at the prices given.
Cost(cart, price, S) ==
    SumFunctionOnSet([n \in DOMAIN cart |-> price[cart[n].product] * cart[n].quantity], S)

\* The lines of products outside X.
Outside(cart, X) == {n \in DOMAIN cart : cart[n].product \notin X}

\* The lines whose product lockAndPrice has priced.
Priced(r) ==
    {n \in DOMAIN input[r].cart :
        pc[r] = "lockProducts" => input[r].cart[n].product \notin todo[r]}

\* totalPrice is the 64-bit cost of the lines priced so far.
TotalOK(r) ==
    /\ pc[r] = "idle" => total[r] = 0
    /\ pc[r] \in CreatePCs => input[r].cart # <<>> /\ total[r] = Int64(Cost(input[r].cart, prices[r], Priced(r)))

WorkOK(r) == DeltaOK(r) /\ CheckOK(r) /\ TotalOK(r)

WorkInv == \A r \in Requests : WorkOK(r)

-----------------------------------------------------------------------------
(* The other requests, while r takes a step.                               *)

\* A step leaves the request s and its private writes alone.
Aside(s) == Untouched(s) /\ total'[s] = total[s] /\ delta'[s] = delta[s]

LEMMA SameWork ==
    ASSUME NEW s, Untouched(s)
    PROVE  /\ RowsOf(s)' = RowsOf(s)
           /\ Priced(s)' = Priced(s)
<1>1. RowsOf(s)' = RowsOf(s)
    BY DEF Untouched, RowsOf
<1>2. Priced(s)' = Priced(s)
    BY DEF Untouched, Priced
<1> QED BY <1>1, <1>2

LEMMA WorkFrame ==
    ASSUME TypeOK, Inv, NEW r \in Requests, NEW s \in Requests, WorkOK(s), Aside(s),
           \A o \in Requests : RowStep(r, o),
           \A p \in Products : productLock[p] = s => products'[p].stock = products[p].stock
    PROVE  WorkOK(s)'
<1>a. Untouched(s) /\ RowsOf(s)' = RowsOf(s) /\ Priced(s)' = Priced(s)
    BY SameWork DEF Aside
<1>1. DeltaOK(s)'
    <2>1. pc[s] \in {"restore", "markCancelled"} =>
            orders'[input[s].order].items = orders[input[s].order].items
        <3>1. pc[s] \in {"restore", "markCancelled"} =>
                input[s].order \in Requests /\ orders[input[s].order].status = "pending"
            BY OrderOf DEF Inv, PayInv, PayOK, CancelPCs
        <3> QED BY <3>1 DEF RowStep, OrderStep
    <2>2. DeltaOK(s)
        BY DEF WorkOK
    <2> QED BY <1>a, <2>1, <2>2 DEF DeltaOK, Aside, Untouched
<1>2. CheckOK(s)'
    <2>1. CheckOK(s)
        BY DEF WorkOK
    <2>2. pc[s] \in CreatePCs => ProductsOf(input[s].cart) \subseteq Products
        BY CartTypes
    <2>3. LockOK(s)
        BY DEF Inv, LockInv
    <2>4. pc[s] = "lockProducts" =>
            \A p \in ProductsOf(input[s].cart) \ todo[s] : products'[p].stock = products[p].stock
        BY <2>2, <2>3 DEF LockOK, CreatePCs
    <2>5. pc[s] \in {"insertOrder", "insertItems", "insertPayment"} =>
            \A p \in ProductsOf(input[s].cart) : products'[p].stock = products[p].stock
        BY <2>2, <2>3 DEF LockOK, CreatePCs
    <2> QED BY <2>1, <2>4, <2>5 DEF CheckOK, Aside, Untouched, View
<1>3. TotalOK(s)'
    BY <1>a DEF WorkOK, TotalOK, Aside, Untouched
<1> QED BY <1>1, <1>2, <1>3 DEF WorkOK

\* Hence a step of r is settled by what it makes of r.
LEMMA OthersWork ==
    ASSUME TypeOK, Inv, WorkInv, NEW r \in Requests,
           \A s \in Requests \ {r} : Aside(s),
           \A o \in Requests : RowStep(r, o),
           \A p \in Products : productLock[p] \notin {None, r} =>
                products'[p].stock = products[p].stock,
           WorkOK(r)'
    PROVE  WorkInv'
<1> SUFFICES ASSUME NEW s \in Requests, s # r PROVE WorkOK(s)'
    BY DEF WorkInv
<1>1. WorkOK(s) /\ Aside(s)
    BY DEF WorkInv
<1>2. \A p \in Products : productLock[p] = s => products'[p].stock = products[p].stock
    BY NoneAssumption
<1> QED BY <1>1, <1>2, WorkFrame

-----------------------------------------------------------------------------
(* Transactions end.                                                       *)

LEMMA FinishAside ==
    ASSUME TypeOK, NEW r \in Requests, NEW a, Finish(r, a)
    PROVE  /\ \A s \in Requests \ {r} : Aside(s)
           /\ pc'[r] = "done" /\ \A p \in Products : delta'[r][p] = 0
<1>1. \A s \in Requests \ {r} : Untouched(s)
    BY FinishUntouched
<1> QED BY <1>1 DEF Finish, Aside, TypeOK, Zero

\* A request that is over has nothing pending.
LEMMA WorkDone ==
    ASSUME NEW r \in Requests, pc'[r] = "done", \A p \in Products : delta'[r][p] = 0
    PROVE  WorkOK(r)'
BY DEF WorkOK, DeltaOK, CheckOK, TotalOK, CreatePCs

\* A commit publishes what its transaction sees, which differs from what was
\* there for rows it has locked only.
LEMMA CommittedStock ==
    ASSUME TypeOK, Inv, NEW r \in Requests, products' = CommittedProducts(r), NEW p \in Products
    PROVE  /\ products'[p].stock = products[p].stock + delta[r][p]
           /\ productLock[p] # r => products'[p].stock = products[p].stock
<1>1. products[p] \in Product /\ delta[r][p] \in Int
    BY DEF TypeOK
<1>2. products'[p] = [products[p] EXCEPT !.stock = View(r, p)]
    BY DEF CommittedProducts
<1>3. products'[p].stock = products[p].stock + delta[r][p]
    BY <1>1, <1>2 DEF View, Product
<1>4. productLock[p] # r => delta[r][p] = 0
    BY DEF Inv, StockInv
<1> QED BY <1>1, <1>3, <1>4, CatalogAssumption DEF Product

\* The statements that answer with an error, or answer Pay without a charge.
LEMMA RolledBack ==
    ASSUME NEW r \in Requests,
           \/ LockProductRefused(r) \/ InsertItemRefused(r) \/ CancelRefused(r)
           \/ RestoreRefused(r) \/ PayOrderNotFound(r) \/ PaySettled(r)
           \/ StatementFails(r)
    PROVE  \E a : Rollback(r, a)
<1>1. CASE LockProductRefused(r)
    BY <1>1 DEF LockProductRefused
<1>2. CASE InsertItemRefused(r)
    BY <1>2 DEF InsertItemRefused
<1>3. CASE CancelRefused(r)
    BY <1>3 DEF CancelRefused
<1>4. CASE RestoreRefused(r)
    BY <1>4 DEF RestoreRefused
<1>5. CASE PayOrderNotFound(r) \/ PaySettled(r) \/ StatementFails(r)
    BY <1>5 DEF PayOrderNotFound, PaySettled, StatementFails
<1> QED BY <1>1, <1>2, <1>3, <1>4, <1>5

LEMMA RollbackWork ==
    ASSUME TypeOK, Inv, WorkInv, NEW r \in Requests, NEW a, Rollback(r, a)
    PROVE  WorkInv'
<1>1. Finish(r, a) /\ UNCHANGED <<products, orders, payments>>
    BY DEF Rollback, rows
<1>2. WorkOK(r)' /\ \A s \in Requests \ {r} : Aside(s)
    BY <1>1, FinishAside, WorkDone
<1>3. \A o \in Requests : RowStep(r, o)
    BY <1>1, RowsKept
<1> QED BY <1>1, <1>2, <1>3, OthersWork

LEMMA CommitWork ==
    ASSUME TypeOK, Inv, WorkInv, NEW r \in Requests,
           CommitCreate(r) \/ CommitCancel(r) \/ CommitPay(r)
    PROVE  WorkInv'
<1>1. PICK a \in {"ok", "error"} : Finish(r, a)
    BY DEF CommitCreate, CommitCancel, CommitPay, Commit
<1>2. WorkOK(r)' /\ \A s \in Requests \ {r} : Aside(s)
    BY <1>1, FinishAside, WorkDone
<1>3. \A o \in Requests : RowStep(r, o)
    BY RowsKept
<1>4. \A p \in Products : productLock[p] \notin {None, r} =>
        products'[p].stock = products[p].stock
    <2>1. CASE CommitCreate(r) \/ CommitCancel(r)
        BY <2>1, CommittedStock DEF CommitCreate, CommitCancel
    <2>2. CASE CommitPay(r)
        BY <2>2 DEF CommitPay
    <2> QED BY <2>1, <2>2
<1> QED BY <1>2, <1>3, <1>4, OthersWork

-----------------------------------------------------------------------------
(* Requests arrive, and catalogue writes.                                  *)

\* A statement in the middle of a transaction.
LEMMA MoveWork ==
    ASSUME TypeOK, Inv, WorkInv, NEW r \in Requests, NEW v, pc' = [pc EXCEPT ![r] = v],
           UNCHANGED <<products, orders, payments, outcome>>,
           \A s \in Requests \ {r} :
                /\ input'[s] = input[s] /\ todo'[s] = todo[s] /\ prices'[s] = prices[s]
                /\ total'[s] = total[s] /\ delta'[s] = delta[s],
           WorkOK(r)'
    PROVE  WorkInv'
<1>1. \A s \in Requests \ {r} : Aside(s)
    BY DEF Aside, Untouched, TypeOK
<1>2. \A o \in Requests : RowStep(r, o)
    BY RowsKept
<1> QED BY <1>1, <1>2, OthersWork

\* A step of a request that has nothing pending, before and after.
LEMMA EmptyWork ==
    ASSUME NEW r \in Requests, DeltaOK(r),
           pc[r] \notin {"insertItems", "insertPayment", "restore", "markCancelled"},
           pc'[r] \notin CreatePCs \cup {"idle", "restore", "markCancelled"},
           delta'[r] = delta[r]
    PROVE  WorkOK(r)'
<1>1. \A p \in Products : delta'[r][p] = 0
    BY DEF DeltaOK
<1> QED BY <1>1 DEF WorkOK, DeltaOK, CheckOK, TotalOK, CreatePCs

LEMMA BeginOnOrderWork ==
    ASSUME TypeOK, Inv, WorkInv, NEW r \in Requests, BeginCancel(r) \/ BeginPay(r)
    PROVE  WorkInv'
<1>1. PICK v \in {"cancelLock", "payLockOrder"}, i \in Inputs :
        /\ pc[r] = "idle" /\ pc' = [pc EXCEPT ![r] = v] /\ input' = [input EXCEPT ![r] = i]
        /\ UNCHANGED <<products, orders, payments, outcome, todo, prices, total, delta>>
    BY DEF BeginCancel, BeginPay, BeginOnOrder, rows, txVars
<1>2. pc'[r] = v /\ \A s \in Requests \ {r} : input'[s] = input[s]
    BY <1>1 DEF TypeOK
<1>3. WorkOK(r)'
    BY <1>1, <1>2, EmptyWork DEF WorkInv, WorkOK, CreatePCs
<1> QED BY <1>1, <1>2, <1>3, MoveWork

LEMMA PayWork ==
    ASSUME TypeOK, Inv, WorkInv, NEW r \in Requests,
           PayLockOrder(r) \/ LockPayment(r) \/ Charge(r)
    PROVE  WorkInv'
<1>1. PICK v \in {"payLockPayment", "charge", "recordCharge"} :
        /\ pc[r] \in PayPCs /\ pc' = [pc EXCEPT ![r] = v]
        /\ UNCHANGED <<products, orders, payments, outcome, input, todo, prices, total, delta>>
    <2>1. CASE PayLockOrder(r)
        BY <2>1 DEF PayLockOrder, rows, PayPCs
    <2>2. CASE LockPayment(r)
        BY <2>2 DEF LockPayment, rows, txVars, PayPCs
    <2>3. CASE Charge(r)
        BY <2>3 DEF Charge, rows, PayPCs
    <2> QED BY <2>1, <2>2, <2>3
<1>2. pc'[r] = v
    BY <1>1 DEF TypeOK
<1>3. WorkOK(r)'
    BY <1>1, <1>2, EmptyWork DEF WorkInv, WorkOK, CreatePCs, PayPCs
<1> QED BY <1>1, <1>2, <1>3, MoveWork

LEMMA AtOnceWork ==
    ASSUME TypeOK, Inv, WorkInv, NEW r \in Requests, NEW i, NEW a,
           pc[r] = "idle",
           pc' = [pc EXCEPT ![r] = "done"],
           input' = [input EXCEPT ![r] = i],
           outcome' = [outcome EXCEPT ![r] = a],
           UNCHANGED <<orders, payments, todo, prices, total, delta>>,
           \A p \in Products : productLock[p] \notin {None, r} =>
                products'[p].stock = products[p].stock
    PROVE  WorkInv'
<1>1. pc'[r] = "done" /\ \A s \in Requests \ {r} : Aside(s)
    BY DEF Aside, Untouched, TypeOK
<1>2. WorkOK(r)'
    BY <1>1, EmptyWork DEF WorkInv, WorkOK, CreatePCs
<1>3. \A o \in Requests : RowStep(r, o)
    BY RowsKept
<1> QED BY <1>1, <1>2, <1>3, OthersWork

LEMMA CatalogWork ==
    ASSUME TypeOK, Inv, WorkInv, NEW r \in Requests,
           \/ RejectCart(r) \/ CatalogRefused(r) \/ CreateProduct(r)
           \/ UpdateProduct(r) \/ DeleteProduct(r)
    PROVE  WorkInv'
<1>1. CASE RejectCart(r)
    <2>1. PICK i \in Inputs : input' = [input EXCEPT ![r] = i]
        BY <1>1 DEF RejectCart
    <2> QED BY <1>1, <2>1, AtOnceWork DEF RejectCart, rows, txVars
<1>2. CASE CatalogRefused(r) \/ CreateProduct(r) \/ UpdateProduct(r) \/ DeleteProduct(r)
    <2>1. PICK i \in Inputs, a \in Outcomes :
            /\ i.product \in Products
            /\ CatalogAnswer(r, i, a)
            /\ \/ UNCHANGED products
               \/ /\ productLock[i.product] = None
                  /\ \E x : products' = [products EXCEPT ![i.product] = x]
        BY <1>2, CatalogSteps
    <2>2. \A p \in Products : productLock[p] \notin {None, r} =>
            products'[p].stock = products[p].stock
        BY <2>1 DEF TypeOK
    <2>3. pc[r] = "idle"
        BY <1>2, CatalogSteps
    <2> QED BY <2>1, <2>2, <2>3, AtOnceWork DEF CatalogAnswer, txVars
<1> QED BY <1>1, <1>2

-----------------------------------------------------------------------------
(* Placing an order.                                                       *)

\* The cart of an open create, and the rows it makes.
LEMMA CartLines ==
    ASSUME TypeOK, Inv, NEW r \in Requests, pc[r] \in CreatePCs
    PROVE  /\ input[r].cart \in Seq(Line)
           /\ \A S \in SUBSET DOMAIN input[r].cart : IsFiniteSet(S)
           /\ \A n \in DOMAIN input[r].cart :
                /\ input[r].cart[n].quantity \in Int
                /\ input[r].cart[n].product \in ProductsOf(input[r].cart)
                /\ input[r].cart[n].product \in Products
                /\ prices[r][input[r].cart[n].product] \in Nat
           /\ DOMAIN RowsOf(r) = DOMAIN input[r].cart
           /\ \A n \in DOMAIN input[r].cart :
                /\ RowsOf(r)[n].product = input[r].cart[n].product
                /\ RowsOf(r)[n].quantity = Int32(input[r].cart[n].quantity)
                /\ RowsOf(r)[n].quantity \in Int
<1>1. input[r].cart \in Seq(Line)
    BY CartTypes DEF CreateInputs
<1>2. \A S \in SUBSET DOMAIN input[r].cart : IsFiniteSet(S)
    BY <1>1, LinesFinite
<1>3. ASSUME NEW n \in DOMAIN input[r].cart
      PROVE  /\ input[r].cart[n].quantity \in Int
             /\ input[r].cart[n].product \in ProductsOf(input[r].cart)
             /\ input[r].cart[n].product \in Products
    <2>1. input[r].cart[n] \in Line
        BY CartTypes
    <2>2. input[r].cart[n].quantity \in Int /\ input[r].cart[n].product \in Products
        BY <2>1, WordType DEF Line
    <2> QED BY <2>2 DEF ProductsOf
<1>4. \A p \in Products : prices[r][p] \in Nat
    BY WordType DEF TypeOK
<1>5. DOMAIN RowsOf(r) = DOMAIN input[r].cart
    BY DEF RowsOf
<1>6. \A n \in DOMAIN input[r].cart :
        /\ RowsOf(r)[n].product = input[r].cart[n].product
        /\ RowsOf(r)[n].quantity = Int32(input[r].cart[n].quantity)
    BY DEF RowsOf, ItemOf
<1> QED BY <1>1, <1>2, <1>3, <1>4, <1>5, <1>6, Int32Type

LEMMA BeginCreateWork ==
    ASSUME TypeOK, Inv, WorkInv, NEW r \in Requests, BeginCreate(r)
    PROVE  WorkInv'
<1>1. PICK i \in Inputs :
        /\ i.cart # <<>>
        /\ input' = [input EXCEPT ![r] = i]
        /\ todo' = [todo EXCEPT ![r] = ProductsOf(i.cart)]
    BY DEF BeginCreate
<1>2. /\ pc[r] = "idle" /\ pc' = [pc EXCEPT ![r] = "lockProducts"]
      /\ UNCHANGED <<products, orders, payments, outcome, prices, total, delta>>
    BY DEF BeginCreate, rows
<1>3. /\ pc'[r] = "lockProducts" /\ input'[r] = i /\ todo'[r] = ProductsOf(i.cart)
      /\ \A s \in Requests \ {r} : input'[s] = input[s] /\ todo'[s] = todo[s]
    BY <1>1, <1>2 DEF TypeOK
<1>4. WorkOK(r)
    BY DEF WorkInv
<1>5. DeltaOK(r)' /\ CheckOK(r)'
    BY <1>2, <1>3, <1>4 DEF WorkOK, DeltaOK, CheckOK
<1>6. Priced(r)' = {}
    BY <1>3 DEF Priced, ProductsOf
<1>7. Cost(i.cart, prices[r], {}) = 0
    BY SumEmpty DEF Cost
<1>8. total'[r] = 0 /\ Int64(0) = 0
    BY <1>2, <1>4, Int64Facts, WordType DEF WorkOK, TotalOK
<1>9. TotalOK(r)'
    BY <1>1, <1>2, <1>3, <1>6, <1>7, <1>8 DEF TotalOK
<1> QED BY <1>2, <1>3, <1>5, <1>9, MoveWork DEF WorkOK

\* lockAndPrice has also read the price of p: X were to do before, Y are after.
Repriced(price, new, X, Y, p) ==
    /\ p \in X /\ Y = X \ {p}
    /\ \A q \in Products : price[q] \in Nat
    /\ new[p] \in Nat /\ \A q \in Products \ {p} : new[q] = price[q]

\* One more product is priced: its lines add price times quantity to the cost.
LEMMA PriceProduct ==
    ASSUME NEW cart \in Seq(Line), NEW price, NEW new, NEW X, NEW Y, NEW p,
           Repriced(price, new, X, Y, p)
    PROVE  /\ Cost(cart, price, Outside(cart, X)) \in Int
           /\ Units(cart, DOMAIN cart, p) \in Int
           /\ Cost(cart, new, Outside(cart, Y))
                = Cost(cart, price, Outside(cart, X)) + new[p] * Units(cart, DOMAIN cart, p)
<1> DEFINE c == new[p]
           f == [n \in DOMAIN cart |-> price[cart[n].product] * cart[n].quantity]
           g == [n \in DOMAIN cart |-> new[cart[n].product] * cart[n].quantity]
           q == [n \in DOMAIN cart |-> cart[n].quantity]
           R == Outside(cart, X)
           S == Outside(cart, Y)
           T == {n \in DOMAIN cart : cart[n].product = p}
           u == Units(cart, DOMAIN cart, p)
<1> USE DEF Repriced
<1>1. IsFiniteSet(R) /\ IsFiniteSet(T) /\ IsFiniteSet(DOMAIN cart)
    BY LinesFinite DEF Outside
<1>2. \A n \in DOMAIN cart : cart[n].quantity \in Int /\ cart[n].product \in Products
    <2>1. \A n \in DOMAIN cart : cart[n] \in Line
        OBVIOUS
    <2> QED BY <2>1, WordType DEF Line
<1>3. S = R \cup T /\ R \cap T = {}
    BY DEF Outside
<1>4. \A n \in R : f[n] \in Int /\ g[n] = f[n]
    BY <1>2 DEF Outside
<1>5. \A n \in T : q[n] \in Int /\ g[n] = c * q[n]
    BY <1>2
<1>6. u = SumFunctionOnSet(q, T) /\ u \in Int
    <2>1. u = SumFunctionOnSet(q, T)
        BY DEF Units
    <2>2. u \in Int
        BY <1>1, <1>2, UnitsType
    <2> QED BY <2>1, <2>2
<1>7. /\ Cost(cart, price, R) = SumFunctionOnSet(f, R)
      /\ Cost(cart, new, S) = SumFunctionOnSet(g, S)
    BY DEF Cost
<1>c. c \in Int
    OBVIOUS
<1> HIDE DEF c, f, g, q, R, S, T, u
<1>8. SumFunctionOnSet(f, R) \in Int
    BY <1>1, <1>4, SumType
<1>9. SumFunctionOnSet(g, R \cup T) = SumFunctionOnSet(f, R) + c * SumFunctionOnSet(q, T)
    BY <1>c, <1>1, <1>3, <1>4, <1>5, SumMore
<1>10. /\ Cost(cart, price, R) \in Int /\ u \in Int
       /\ Cost(cart, new, S) = Cost(cart, price, R) + c * u
    BY <1>3, <1>6, <1>7, <1>8, <1>9
<1> QED BY <1>10 DEF c, R, S, u

LEMMA LockProductWork ==
    ASSUME TypeOK, Inv, WorkInv, NEW r \in Requests, LockProduct(r)
    PROVE  WorkInv'
<1> DEFINE cart == input[r].cart
<1>1. PICK p \in todo[r] :
        /\ products[p].stock >= quantityByProduct(cart)[p]
        /\ prices' = [prices EXCEPT ![r][p] = products[p].price]
        /\ total' = [total EXCEPT ![r] =
                        Int64(@ + products[p].price * quantityByProduct(cart)[p])]
        /\ todo' = [todo EXCEPT ![r] = @ \ {p}]
    BY DEF LockProduct
<1>2. PICK v \in {"lockProducts", "insertOrder"} :
        /\ pc' = [pc EXCEPT ![r] = v]
        /\ v = "insertOrder" => todo'[r] = {}
    BY DEF LockProduct
<1>3. /\ pc[r] = "lockProducts" /\ pc[r] \in CreatePCs
      /\ UNCHANGED <<products, orders, payments, outcome, input, delta>>
    BY DEF LockProduct, rows, CreatePCs
<1>4. /\ p \in ProductsOf(cart) /\ p \in Products
      /\ ProductsOf(cart) \subseteq Products
      /\ \A q \in ProductsOf(cart) : quantityByProduct(cart)[q] \in Int
    BY <1>3, CartTypes, QuantityType DEF Inv, TxInv
<1>5. products[p].price \in Nat /\ \A q \in Products : products[q].stock \in Int
    <2>1. \A q \in Products : products[q].price \in Amount /\ products[q].stock \in 0 .. MaxStock
        BY DEF TypeOK, Product
    <2>2. products[p].price \in Nat
        BY <1>4, <2>1, WordType
    <2>3. \A q \in Products : products[q].stock \in Int
        BY <2>1, CatalogAssumption
    <2> QED BY <2>2, <2>3
<1>6. /\ prices'[r] = [prices[r] EXCEPT ![p] = products[p].price]
      /\ total'[r] = Int64(total[r] + products[p].price * quantityByProduct(cart)[p])
      /\ todo'[r] = todo[r] \ {p}
      /\ pc'[r] = v
      /\ \A s \in Requests \ {r} :
            todo'[s] = todo[s] /\ prices'[s] = prices[s] /\ total'[s] = total[s]
    BY <1>1, <1>2 DEF TypeOK
<1>7. WorkOK(r)
    BY DEF WorkInv
<1>8. DeltaOK(r)'
    BY <1>2, <1>3, <1>6, <1>7 DEF WorkOK, DeltaOK
<1>9. CheckOK(r)'
    <2>1. \A q \in ProductsOf(cart) \ todo'[r] : quantityByProduct(cart)[q] <= products[q].stock
        BY <1>1, <1>3, <1>4, <1>5, <1>6, <1>7 DEF WorkOK, CheckOK
    <2> QED BY <1>2, <1>3, <1>6, <2>1 DEF CheckOK
<1>10. TotalOK(r)'
    <2> DEFINE R == Outside(cart, todo[r])
               S == Outside(cart, todo'[r])
               u == Units(cart, DOMAIN cart, p)
               c == products[p].price
    <2>1. /\ cart \in Seq(Line) /\ prices[r] \in [Products -> Amount]
          /\ \A q \in Products : prices[r][q] \in Nat
        BY <1>3, CartLines, WordType DEF TypeOK
    <2>2. /\ Cost(cart, prices[r], R) \in Int /\ u \in Int
          /\ Cost(cart, prices'[r], S) = Cost(cart, prices[r], R) + c * u
        <3>1. Repriced(prices[r], prices'[r], todo[r], todo'[r], p) /\ prices'[r][p] = c
            BY <1>4, <1>5, <1>6, <2>1 DEF Repriced
        <3> HIDE DEF c, cart
        <3> QED BY ONLY <2>1, <3>1, PriceProduct
    <2>3. Priced(r) = R
        BY <1>3 DEF Priced, Outside
    <2>4. Priced(r)' = S
        BY <1>2, <1>3, <1>6 DEF Priced, Outside
    <2>5. quantityByProduct(cart)[p] = Int64(u)
        BY <1>4 DEF quantityByProduct
    <2>6. total[r] = Int64(Cost(cart, prices[r], R)) /\ cart # <<>>
        BY <1>3, <1>7, <2>3 DEF WorkOK, TotalOK
    <2>7. input'[r].cart = cart /\ c \in Int
        BY <1>3, <1>5
    <2>8. total'[r] = Int64(total[r] + c * quantityByProduct(cart)[p])
        BY <1>6
    <2> HIDE DEF R, S, u, c, cart
    <2>9. total'[r] = Int64(Cost(cart, prices'[r], S))
        BY <2>2, <2>5, <2>6, <2>7, <2>8, Int64Steps
    <2>10. pc'[r] # "idle"
        BY <1>6
    <2> QED BY <2>4, <2>6, <2>7, <2>9, <2>10 DEF TotalOK
<1> QED BY <1>2, <1>3, <1>6, <1>8, <1>9, <1>10, MoveWork DEF WorkOK

\* A countable cart is counted exactly.
LEMMA CountedExactly ==
    ASSUME NEW cart \in Seq(Line), Countable(cart), NEW p \in ProductsOf(cart)
    PROVE  quantityByProduct(cart)[p] = Units(cart, DOMAIN cart, p)
<1>1. IsFiniteSet(DOMAIN cart) /\ DOMAIN cart = 1 .. Len(cart) /\ Len(cart) \in Nat
    BY LinesFinite
<1>2. Cardinality(DOMAIN cart) = Len(cart)
    BY <1>1, FS_Interval
<1>3. MaxStock \in Nat /\ MaxAmount \in Nat
    BY CatalogAssumption
<1>4. \A n \in DOMAIN cart : cart[n].quantity \in 0 .. MaxStock
    BY <1>3 DEF Countable
<1> DEFINE u == Units(cart, DOMAIN cart, p)
<1>5. u \in Nat /\ u <= MaxStock * Cardinality(DOMAIN cart)
    BY <1>1, <1>3, <1>4, UnitsBound
<1>6. quantityByProduct(cart)[p] = Int64(u)
    BY DEF quantityByProduct
<1> HIDE DEF u
<1>7. MaxStock * Len(cart) <= MaxAmount /\ MaxStock * Len(cart) \in Nat
    BY <1>1, <1>3 DEF Countable, CartFits
<1>8. u \in 0 .. MaxAmount
    BY <1>2, <1>3, <1>5, <1>7
<1>9. Int64(u) = u
    BY <1>8, Int64Facts, WordType DEF Amount
<1> QED BY <1>6, <1>9 DEF u

LEMMA InsertOrderWork ==
    ASSUME TypeOK, Inv, WorkInv, NEW r \in Requests, InsertOrder(r)
    PROVE  WorkInv'
<1>1. CASE Rollback(r, "error")
    BY <1>1, RollbackWork
<1>2. CASE ~Rollback(r, "error")
    <2> DEFINE cart == input[r].cart
    <2>1. /\ pc[r] = "insertOrder" /\ pc[r] \in CreatePCs
          /\ pc' = [pc EXCEPT ![r] = "insertItems"]
          /\ todo' = [todo EXCEPT ![r] = DOMAIN input[r].cart]
          /\ UNCHANGED <<products, orders, payments, outcome, input, prices, total, delta>>
        BY <1>2 DEF InsertOrder, rows, CreatePCs
    <2>2. /\ pc'[r] = "insertItems" /\ todo'[r] = DOMAIN cart
          /\ \A s \in Requests \ {r} : todo'[s] = todo[s]
        BY <2>1 DEF TypeOK
    <2>3. WorkOK(r)
        BY DEF WorkInv
    <2>4. RowsOf(r)' = RowsOf(r) /\ DOMAIN RowsOf(r) = DOMAIN cart
        BY <2>1 DEF RowsOf
    <2>5. \A p \in Products : delta[r][p] = 0
        BY <2>1, <2>3 DEF WorkOK, DeltaOK
    <2>6. DeltaOK(r)'
        <3>1. DOMAIN RowsOf(r) \ DOMAIN cart = {}
            BY <2>4
        <3>2. \A p \in Products : delta[r][p] = -Units(RowsOf(r), DOMAIN RowsOf(r) \ DOMAIN cart, p)
            BY <2>5, <3>1, UnitsNone
        <3> QED BY <2>1, <2>2, <2>4, <3>2 DEF DeltaOK
    <2>7. CheckOK(r)'
        <3> SUFFICES ASSUME Countable(cart), NEW p \in ProductsOf(cart)
                     PROVE  Units(cart, DOMAIN cart, p) <= products[p].stock + delta[r][p]
            BY <2>1, <2>2, <2>3 DEF WorkOK, CheckOK, View
        <3>1. cart \in Seq(Line) /\ p \in Products
            BY <2>1, CartLines, CartTypes
        <3>2. quantityByProduct(cart)[p] <= products[p].stock
            BY <2>1, <2>3 DEF WorkOK, CheckOK
        <3>3. products[p].stock + delta[r][p] = products[p].stock
            BY <2>5, <3>1, ViewType
        <3> QED BY <3>1, <3>2, <3>3, CountedExactly
    <2>8. TotalOK(r)'
        <3>1. Priced(r)' = Priced(r)
            BY <2>1, <2>2 DEF Priced
        <3> QED BY <2>1, <2>2, <2>3, <3>1 DEF WorkOK, TotalOK, CreatePCs
    <2> QED BY <2>1, <2>2, <2>6, <2>7, <2>8, MoveWork DEF WorkOK
<1> QED BY <1>1, <1>2

LEMMA InsertItemWork ==
    ASSUME TypeOK, Inv, WorkInv, NEW r \in Requests, InsertItem(r)
    PROVE  WorkInv'
<1> DEFINE cart == input[r].cart
           out == RowsOf(r)
<1>1. /\ pc[r] = "insertItems" /\ pc[r] \in CreatePCs
      /\ UNCHANGED <<products, orders, payments, outcome, input, prices, total>>
    BY DEF InsertItem, rows, CreatePCs
<1>2. /\ cart \in Seq(Line) /\ IsFiniteSet(DOMAIN cart) /\ IsFiniteSet(todo[r])
      /\ todo[r] \subseteq DOMAIN cart
      /\ DOMAIN out = DOMAIN cart
      /\ \A m \in DOMAIN cart :
            /\ cart[m].quantity \in Int /\ cart[m].product \in Products
            /\ out[m].product = cart[m].product
            /\ out[m].quantity = Int32(cart[m].quantity)
            /\ out[m].quantity \in Int
    BY <1>1, CartLines DEF Inv, TxInv
<1>3. PICK n \in todo[r] :
        /\ delta' = [delta EXCEPT ![r][cart[n].product] = @ - Int32(cart[n].quantity)]
        /\ todo' = [todo EXCEPT ![r] = @ \ {n}]
    BY DEF InsertItem, ItemOf
<1>4. PICK v \in {"insertItems", "insertPayment"} : pc' = [pc EXCEPT ![r] = v]
    BY <1>1 DEF InsertItem
<1>5. /\ pc'[r] = v /\ todo'[r] = todo[r] \ {n}
      /\ delta'[r] = [delta[r] EXCEPT ![cart[n].product] = @ - Int32(cart[n].quantity)]
      /\ \A s \in Requests \ {r} : todo'[s] = todo[s] /\ delta'[s] = delta[s]
    BY <1>3, <1>4 DEF TypeOK
<1>6. WorkOK(r)
    BY DEF WorkInv
<1>7. RowsOf(r)' = out
    BY <1>1 DEF RowsOf
<1>8. \A p \in Products :
        /\ delta[r][p] \in Int /\ products[p].stock \in Int
        /\ p = cart[n].product => delta'[r][p] = delta[r][p] - out[n].quantity
        /\ p # cart[n].product => delta'[r][p] = delta[r][p]
    BY <1>2, <1>5, ViewType DEF TypeOK
<1>9. DeltaOK(r)'
    <2>1. \A p \in Products : delta[r][p] = -Units(out, DOMAIN out \ todo[r], p)
        BY <1>1, <1>6 DEF WorkOK, DeltaOK
    <2>2. ASSUME NEW p \in Products
          PROVE  delta'[r][p] = -Units(out, DOMAIN out \ todo'[r], p)
        <3>1. OneLess(out, DOMAIN out \ todo'[r], DOMAIN out \ todo[r], n)
            BY <1>2, <1>5, FS_Subset DEF OneLess
        <3> DEFINE done == DOMAIN out \ todo[r]
                   now == DOMAIN out \ todo'[r]
        <3>2. out[n].quantity \in Int /\ out[n].product = cart[n].product
            BY <1>2
        <3>3. delta[r][p] = -Units(out, done, p)
            BY <2>1
        <3> HIDE DEF out, cart, done, now
        <3>4. /\ Units(out, done, p) \in Int
              /\ out[n].product = p => Units(out, now, p) = out[n].quantity + Units(out, done, p)
              /\ out[n].product # p => Units(out, now, p) = Units(out, done, p)
            <4>1. OneLess(out, now, done, n)
                BY <3>1 DEF done, now
            <4> QED BY <4>1, UnitsTake
        <3>5. delta'[r][p] = -Units(out, now, p)
            BY <1>8, <3>2, <3>3, <3>4
        <3> QED BY <3>5 DEF now
    <2> QED BY <1>4, <1>5, <1>7, <2>2 DEF DeltaOK
<1>10. CheckOK(r)'
    <2> SUFFICES ASSUME Countable(cart), NEW p \in ProductsOf(cart)
                 PROVE  Units(cart, todo'[r], p) <= products[p].stock + delta'[r][p]
        BY <1>1, <1>4, <1>5, <1>6 DEF WorkOK, CheckOK, View
    <2>1. p \in Products
        BY <1>1, CartTypes
    <2>2. Units(cart, todo[r], p) <= products[p].stock + delta[r][p]
        BY <1>1, <1>6 DEF WorkOK, CheckOK, View
    <2>3. out[n].quantity = cart[n].quantity
        BY <1>2, Int32Identity DEF Countable
    <2>a. OneLess(cart, todo[r], todo'[r], n)
        BY <1>2, <1>5 DEF OneLess
    <2> HIDE DEF out, cart
    <2>4. /\ Units(cart, todo[r], p) \in Int /\ Units(cart, todo'[r], p) \in Int
          /\ cart[n].product = p => Units(cart, todo[r], p) = cart[n].quantity + Units(cart, todo'[r], p)
          /\ cart[n].product # p => Units(cart, todo[r], p) = Units(cart, todo'[r], p)
        BY <2>a, UnitsTake
    <2>5. cart[n].quantity \in Int
        BY <1>2
    <2> QED BY <1>5, <1>8, <2>1, <2>2, <2>3, <2>4, <2>5
<1>11. TotalOK(r)'
    <2>1. Priced(r)' = Priced(r)
        BY <1>1, <1>4, <1>5 DEF Priced
    <2> QED BY <1>1, <1>4, <1>5, <1>6, <2>1 DEF WorkOK, TotalOK, CreatePCs
<1> QED BY <1>1, <1>4, <1>5, <1>9, <1>10, <1>11, MoveWork DEF WorkOK

-----------------------------------------------------------------------------
(* Cancelling.                                                             *)

\* The lines of an order.
LEMMA ItemLines ==
    ASSUME TypeOK, NEW o \in Requests
    PROVE  /\ \A S \in SUBSET DOMAIN orders[o].items : IsFiniteSet(S)
           /\ \A n \in DOMAIN orders[o].items :
                /\ orders[o].items[n].quantity \in Nat
                /\ orders[o].items[n].product \in Products
<1>1. orders[o].items \in Seq(Item)
    BY DEF TypeOK, Order
<1>2. \A S \in SUBSET DOMAIN orders[o].items : IsFiniteSet(S)
    BY <1>1, LinesFinite
<1> QED BY <1>2, ItemTypes, CatalogAssumption

LEMMA CancelLockOrderWork ==
    ASSUME TypeOK, Inv, WorkInv, NEW r \in Requests, CancelLockOrder(r)
    PROVE  WorkInv'
<1> DEFINE items == orders[input[r].order].items
<1>1. /\ pc[r] = "cancelLock" /\ pc' = [pc EXCEPT ![r] = "restore"]
      /\ todo' = [todo EXCEPT ![r] = DOMAIN orders[input[r].order].items]
      /\ UNCHANGED <<products, orders, payments, outcome, input, prices, total, delta>>
    BY DEF CancelLockOrder, rows
<1>2. /\ pc'[r] = "restore" /\ todo'[r] = DOMAIN items
      /\ \A s \in Requests \ {r} : todo'[s] = todo[s]
    BY <1>1 DEF TypeOK
<1>3. \A p \in Products : delta[r][p] = 0
    BY <1>1 DEF WorkInv, WorkOK, DeltaOK
<1>4. DOMAIN items \ DOMAIN items = {}
    OBVIOUS
<1>5. \A p \in Products : delta[r][p] = Units(items, DOMAIN items \ DOMAIN items, p)
    BY <1>3, <1>4, UnitsNone
<1>6. DeltaOK(r)'
    BY <1>1, <1>2, <1>5 DEF DeltaOK
<1>7. CheckOK(r)' /\ TotalOK(r)'
    BY <1>2 DEF CheckOK, TotalOK, CreatePCs
<1> QED BY <1>1, <1>2, <1>6, <1>7, MoveWork DEF WorkOK

LEMMA RestoreItemWork ==
    ASSUME TypeOK, Inv, WorkInv, NEW r \in Requests, RestoreItem(r)
    PROVE  WorkInv'
<1> DEFINE items == orders[input[r].order].items
<1>1. /\ pc[r] = "restore" /\ pc[r] \in CancelPCs
      /\ UNCHANGED <<products, orders, payments, outcome, input, prices, total>>
    BY DEF RestoreItem, rows, CancelPCs
<1>2. PICK n \in todo[r] :
        /\ delta' = [delta EXCEPT ![r][items[n].product] = @ + items[n].quantity]
        /\ todo' = [todo EXCEPT ![r] = @ \ {n}]
    BY DEF RestoreItem
<1>3. PICK v \in {"restore", "markCancelled"} :
        pc' = [pc EXCEPT ![r] = v] /\ (v = "markCancelled" => todo'[r] = {})
    BY <1>1 DEF RestoreItem
<1>4. input[r].order \in Requests /\ todo[r] \subseteq DOMAIN items
    BY <1>1, OrderOf DEF Inv, TxInv
<1>5. /\ \A S \in SUBSET DOMAIN items : IsFiniteSet(S)
      /\ \A m \in DOMAIN items : items[m].quantity \in Int /\ items[m].product \in Products
    BY <1>4, ItemLines
<1>6. /\ pc'[r] = v /\ todo'[r] = todo[r] \ {n}
      /\ delta'[r] = [delta[r] EXCEPT ![items[n].product] = @ + items[n].quantity]
      /\ \A s \in Requests \ {r} : todo'[s] = todo[s] /\ delta'[s] = delta[s]
    BY <1>2, <1>3 DEF TypeOK
<1>7. \A p \in Products :
        /\ delta[r][p] \in Int
        /\ p = items[n].product => delta'[r][p] = delta[r][p] + items[n].quantity
        /\ p # items[n].product => delta'[r][p] = delta[r][p]
    BY <1>6, ViewType DEF TypeOK
<1>8. ASSUME NEW p \in Products
      PROVE  delta'[r][p] = Units(items, DOMAIN items \ todo'[r], p)
    <2> DEFINE done == DOMAIN items \ todo[r]
               now == DOMAIN items \ todo'[r]
    <2>1. OneLess(items, now, done, n)
        BY <1>4, <1>5, <1>6 DEF OneLess
    <2>2. delta[r][p] = Units(items, done, p)
        BY <1>1 DEF WorkInv, WorkOK, DeltaOK
    <2>3. items[n].quantity \in Int
        BY <1>4, <1>5
    <2> HIDE DEF items, done, now
    <2>4. /\ Units(items, done, p) \in Int
          /\ items[n].product = p => Units(items, now, p) = items[n].quantity + Units(items, done, p)
          /\ items[n].product # p => Units(items, now, p) = Units(items, done, p)
        <3>1. Units(items, done, p) \in Int
            BY <2>1, UnitsTake
        <3>2. items[n].product = p => Units(items, now, p) = items[n].quantity + Units(items, done, p)
            BY <2>1, <2>3, <3>1, UnitsTake
        <3>3. items[n].product # p => Units(items, now, p) = Units(items, done, p)
            BY <2>1, UnitsTake
        <3> QED BY <3>1, <3>2, <3>3
    <2>5. delta'[r][p] = Units(items, now, p)
        BY <1>7, <2>2, <2>3, <2>4
    <2> QED BY <2>5 DEF now
<1>9. DeltaOK(r)'
    BY <1>1, <1>3, <1>6, <1>8 DEF DeltaOK
<1>10. CheckOK(r)' /\ TotalOK(r)'
    BY <1>3, <1>6 DEF CheckOK, TotalOK, CreatePCs
<1> QED BY <1>1, <1>3, <1>6, <1>9, <1>10, MoveWork DEF WorkOK

-----------------------------------------------------------------------------
(* The invariant.                                                          *)

LEMMA WorkInit == Init => WorkInv
BY DEF Init, WorkInv, WorkOK, DeltaOK, CheckOK, TotalOK, Zero, CreatePCs

LEMMA WorkStep == TypeOK /\ Inv /\ WorkInv /\ [Next]_vars => WorkInv'
<1> SUFFICES ASSUME TypeOK, Inv, WorkInv, [Next]_vars
             PROVE  WorkInv'
    OBVIOUS
<1>1. CASE UNCHANGED vars
    <2> SUFFICES ASSUME NEW s \in Requests PROVE WorkOK(s)'
        BY DEF WorkInv
    <2>1. WorkOK(s) /\ Aside(s) /\ UNCHANGED <<products, orders, payments>>
        BY <1>1 DEF vars, rows, txVars, WorkInv, Aside, Untouched
    <2>2. \A o \in Requests : RowStep(s, o)
        BY <2>1, RowsKept
    <2> QED BY <2>1, <2>2, WorkFrame
<1>2. ASSUME NEW r \in Requests,
             \/ LockProductRefused(r) \/ InsertItemRefused(r) \/ CancelRefused(r)
             \/ RestoreRefused(r) \/ PayOrderNotFound(r) \/ PaySettled(r)
             \/ StatementFails(r)
      PROVE  WorkInv'
    BY <1>2, RolledBack, RollbackWork
<1> QED BY <1>1, <1>2, CommitWork, BeginOnOrderWork, PayWork, CatalogWork, BeginCreateWork,
        LockProductWork, InsertOrderWork, InsertItemWork, CancelLockOrderWork, RestoreItemWork
        DEF Next, Step, Quiescent

\* What the invariant of the sums rests on: the three invariants together.
THEOREM WorkInvariance == Spec => [](TypeOK /\ Inv /\ ClientInv /\ WorkInv)
<1>1. TypeOK /\ Inv /\ WorkInv /\ [Next]_vars => WorkInv'
    BY WorkStep
<1> QED BY <1>1, WorkInit, ClientInvariance, PTL DEF Spec

-----------------------------------------------------------------------------
(* The stock check.                                                        *)

LEMMA StockCheckState ==
    ASSUME \A i \in Inputs : i.op = "create" => CartFits(i.cart), TypeOK, Inv, WorkInv
    PROVE  StockCheckHolds
<1> SUFFICES ASSUME NEW r \in Requests, pc[r] = "insertItems",
                    \A n \in DOMAIN input[r].cart : input[r].cart[n].quantity \in 1 .. MaxStock
             PROVE  \A p \in ProductsOf(input[r].cart) :
                        Units(input[r].cart, todo[r], p) <= View(r, p)
    BY DEF StockCheckHolds
<1>1. CartFits(input[r].cart)
    BY CartTypes DEF CreatePCs
<1> QED BY <1>1 DEF WorkInv, WorkOK, CheckOK, Countable

\* The stock check of lockAndPrice still holds when the lines are written, so
\* DecreaseProductStock refuses no line of positive quantity.  The hypothesis,
\* of which the code knows nothing, is that no cart has 2^32 lines or more.
THEOREM StockChecked ==
    ASSUME \A i \in Inputs : i.op = "create" => CartFits(i.cart)
    PROVE  Spec => []StockCheckHolds
<1>1. TypeOK /\ Inv /\ WorkInv => StockCheckHolds
    BY StockCheckState
<1> QED BY <1>1, WorkInvariance, PTL

-----------------------------------------------------------------------------
(* Stock is conserved.                                                     *)

\* Only the three commits and the catalogue write the tables.
LEMMA TableWriters ==
    ASSUME [Next]_vars
    PROVE  \/ UNCHANGED <<products, orders, payments, supply>>
           \/ \E r \in Requests : CommitCreate(r) \/ CommitCancel(r) \/ CommitPay(r)
           \/ \E r \in Requests : CreateProduct(r) \/ UpdateProduct(r) \/ DeleteProduct(r)
<1>1. ASSUME NEW r \in Requests,
             \/ LockProductRefused(r) \/ InsertItemRefused(r) \/ CancelRefused(r)
             \/ RestoreRefused(r) \/ PayOrderNotFound(r) \/ PaySettled(r)
             \/ StatementFails(r)
      PROVE  UNCHANGED <<products, orders, payments, supply>>
    BY <1>1, RolledBack DEF Rollback, rows, ghosts
<1>2. ASSUME NEW r \in Requests, LockProduct(r) \/ InsertOrder(r) \/ InsertItem(r)
      PROVE  UNCHANGED <<products, orders, payments, supply>>
    BY <1>2 DEF LockProduct, InsertOrder, InsertItem, Rollback, rows, ghosts
<1>3. ASSUME NEW r \in Requests, CancelLockOrder(r) \/ RestoreItem(r) \/ PayLockOrder(r)
      PROVE  UNCHANGED <<products, orders, payments, supply>>
    BY <1>3 DEF CancelLockOrder, RestoreItem, PayLockOrder, rows, ghosts
<1>4. ASSUME NEW r \in Requests, LockPayment(r) \/ Charge(r) \/ RejectCart(r)
      PROVE  UNCHANGED <<products, orders, payments, supply>>
    BY <1>4 DEF LockPayment, Charge, RejectCart, rows, ghosts
<1>5. ASSUME NEW r \in Requests, BeginCreate(r) \/ BeginCancel(r) \/ BeginPay(r)
      PROVE  UNCHANGED <<products, orders, payments, supply>>
    BY <1>5 DEF BeginCreate, BeginCancel, BeginPay, BeginOnOrder, rows, ghosts
<1>6. ASSUME NEW r \in Requests, CatalogRefused(r)
      PROVE  UNCHANGED <<products, orders, payments, supply>>
    BY <1>6 DEF CatalogRefused, CatalogAnswer
<1>7. CASE UNCHANGED vars
    BY <1>7 DEF vars, rows, ghosts
<1> QED BY <1>1, <1>2, <1>3, <1>4, <1>5, <1>6, <1>7 DEF Next, Step, Quiescent

\* A create commits the rows it made, and exactly their units leave the shelf.
LEMMA PlacedStock ==
    ASSUME TypeOK, Inv, WorkInv, NEW r \in Requests, CommitCreate(r)
    PROVE  /\ orders[r].status = "none"
           /\ orders' = [orders EXCEPT ![r] = [status |-> "pending", user |-> input[r].user,
                                               total |-> total[r], items |-> RowsOf(r)]]
           /\ orders'[r].status = "pending" /\ orders'[r].items = RowsOf(r)
           /\ \A o \in Requests \ {r} : orders'[o] = orders[o]
           /\ RowsOf(r) \in Seq(Item)
           /\ \A p \in Products :
                /\ Units(RowsOf(r), DOMAIN RowsOf(r), p) \in Int
                /\ products'[p].stock = products[p].stock - Units(RowsOf(r), DOMAIN RowsOf(r), p)
<1>1. pc[r] = "insertPayment" /\ products' = CommittedProducts(r)
    BY DEF CommitCreate
<1>2. orders' = [orders EXCEPT ![r] = [status |-> "pending", user |-> input[r].user,
                                       total |-> total[r], items |-> RowsOf(r)]]
    BY DEF CommitCreate, RowsOf
<1>3. /\ orders'[r].status = "pending" /\ orders'[r].items = RowsOf(r)
      /\ \A o \in Requests \ {r} : orders'[o] = orders[o]
    BY <1>2 DEF TypeOK
<1>4. orders[r].status = "none" /\ todo[r] = {}
    BY <1>1 DEF Inv, TxInv, LineInv, LineOK, CreatePCs
<1>5. RowsOf(r) \in Seq(Item)
    BY <1>1, ItemsType DEF RowsOf
<1>6. ASSUME NEW p \in Products
      PROVE  /\ Units(RowsOf(r), DOMAIN RowsOf(r), p) \in Int
             /\ products'[p].stock = products[p].stock - Units(RowsOf(r), DOMAIN RowsOf(r), p)
    <2>1. DOMAIN RowsOf(r) \ todo[r] = DOMAIN RowsOf(r)
        BY <1>4
    <2>2. delta[r][p] = -Units(RowsOf(r), DOMAIN RowsOf(r), p)
        BY <1>1, <2>1 DEF WorkInv, WorkOK, DeltaOK
    <2>3. /\ IsFiniteSet(DOMAIN RowsOf(r))
          /\ \A n \in DOMAIN RowsOf(r) : RowsOf(r)[n].quantity \in Int
        BY <1>1, CartLines DEF CreatePCs
    <2>4. Units(RowsOf(r), DOMAIN RowsOf(r), p) \in Int
        BY <2>3, UnitsType
    <2>5. products[p].stock \in Int /\ products'[p].stock = products[p].stock + delta[r][p]
        BY <1>1, CommittedStock, ViewType
    <2> QED BY <2>2, <2>4, <2>5
<1> QED BY <1>2, <1>3, <1>4, <1>5, <1>6

\* A cancel returns exactly the units of the order.
LEMMA CancelledStock ==
    ASSUME TypeOK, Inv, WorkInv, NEW r \in Requests, CommitCancel(r)
    PROVE  LET o == input[r].order IN
           /\ o \in Requests /\ orders[o].status = "pending"
           /\ orders' = [orders EXCEPT ![o].status = "cancelled"]
           /\ orders'[o].status = "cancelled" /\ orders'[o].items = orders[o].items
           /\ \A x \in Requests \ {o} : orders'[x] = orders[x]
           /\ \A p \in Products :
                /\ Units(orders[o].items, DOMAIN orders[o].items, p) \in Int
                /\ products'[p].stock =
                    products[p].stock + Units(orders[o].items, DOMAIN orders[o].items, p)
<1>1. pc[r] = "markCancelled" /\ products' = CommittedProducts(r)
      /\ orders' = [orders EXCEPT ![input[r].order].status = "cancelled"]
    BY DEF CommitCancel
<1>2. input[r].order \in Requests
    BY <1>1, OrderOf DEF CancelPCs
<1> PICK o \in Requests : o = input[r].order
    BY <1>2
<1>3. orders[o].status = "pending"
    BY <1>1 DEF Inv, PayInv, PayOK
<1>4. /\ orders'[o] = [orders[o] EXCEPT !.status = "cancelled"]
      /\ \A x \in Requests \ {o} : orders'[x] = orders[x]
      /\ orders[o] \in Order
    BY <1>1 DEF TypeOK
<1>5. orders'[o].status = "cancelled" /\ orders'[o].items = orders[o].items
    BY <1>4 DEF Order
<1>6. ASSUME NEW p \in Products
      PROVE  /\ Units(orders[o].items, DOMAIN orders[o].items, p) \in Int
             /\ products'[p].stock =
                    products[p].stock + Units(orders[o].items, DOMAIN orders[o].items, p)
    <2> DEFINE items == orders[o].items
    <2>1. DOMAIN items \ todo[r] = DOMAIN items
        BY <1>1 DEF WorkInv, WorkOK, DeltaOK
    <2>2. delta[r][p] = Units(items, DOMAIN items, p)
        BY <1>1, <2>1 DEF WorkInv, WorkOK, DeltaOK
    <2>3. delta[r][p] \in Int /\ products'[p].stock = products[p].stock + delta[r][p]
        BY <1>1, CommittedStock, ViewType
    <2> QED BY <2>2, <2>3
<1> QED BY <1>1, <1>2, <1>3, <1>4, <1>5, <1>6

\* Ordered(p) as the sum of a function over a set: the orders not cancelled.
Open == {o \in Requests : orders[o].status \in {"pending", "paid"}}

UnitsOn(p) == [o \in Requests |-> Units(orders[o].items, DOMAIN orders[o].items, p)]

LEMMA OrderedIs == ASSUME NEW p PROVE Ordered(p) = SumFunctionOnSet(UnitsOn(p), Open)
BY DEF Ordered, UnitsOn, Open

LEMMA UnitsOnType ==
    ASSUME TypeOK, NEW p, NEW o \in Requests
    PROVE  UnitsOn(p)[o] \in Nat
<1> DEFINE items == orders[o].items
<1>1. IsFiniteSet(DOMAIN items) /\ \A n \in DOMAIN items : items[n].quantity \in 0 .. MaxStock
    BY ItemLines, ItemTypes
<1>2. MaxStock \in Nat
    BY CatalogAssumption
<1> HIDE DEF items
<1>3. Units(items, DOMAIN items, p) \in Nat
    BY <1>1, <1>2, UnitsBound
<1> QED BY <1>3 DEF UnitsOn, items

\* Nothing of a product is ordered that no line refers to.
LEMMA NoneOrdered ==
    ASSUME IsFiniteSet(Requests), TypeOK, NEW p, ~Referenced(p)
    PROVE  Ordered(p) = 0
<1>1. \A o \in Requests : UnitsOn(p)[o] = 0
    <2> SUFFICES ASSUME NEW o \in Requests PROVE UnitsOn(p)[o] = 0
        OBVIOUS
    <2>1. \A n \in DOMAIN orders[o].items : orders[o].items[n].product # p
        BY DEF Referenced
    <2> QED BY <2>1, UnitsAbsent DEF UnitsOn
<1>2. IsFiniteSet(Open) /\ \A o \in Open : UnitsOn(p)[o] = 0
    BY <1>1, FS_Subset DEF Open
<1>3. SumFunctionOnSet(UnitsOn(p), Open) = 0 * SumFunctionOnSet(UnitsOn(p), Open)
    BY <1>2, SumScale
<1>4. SumFunctionOnSet(UnitsOn(p), Open) \in Int
    BY <1>2, SumType
<1> QED BY <1>3, <1>4, OrderedIs

LEMMA OrderedType ==
    ASSUME IsFiniteSet(Requests), TypeOK, NEW p
    PROVE  Ordered(p) \in Int
<1>1. IsFiniteSet(Open) /\ \A o \in Open : UnitsOn(p)[o] \in Int
    BY UnitsOnType, FS_Subset DEF Open
<1> QED BY <1>1, SumType, OrderedIs

\* An order that is placed adds its units, one that is cancelled takes them off.
LEMMA OrderedPlaced ==
    ASSUME IsFiniteSet(Requests), TypeOK, Inv, WorkInv, NEW r \in Requests, CommitCreate(r),
           NEW p \in Products
    PROVE  Ordered(p)' = Ordered(p) + Units(RowsOf(r), DOMAIN RowsOf(r), p)
<1> DEFINE f == UnitsOn(p)
           g == UnitsOn(p)'
           S == Open
<1>1. /\ orders[r].status = "none" /\ orders'[r].status = "pending" /\ orders'[r].items = RowsOf(r)
      /\ \A o \in Requests \ {r} : orders'[o] = orders[o]
      /\ Units(RowsOf(r), DOMAIN RowsOf(r), p) \in Int
    BY PlacedStock
<1>2. IsFiniteSet(S) /\ r \notin S /\ Open' = S \cup {r}
    BY <1>1, FS_Subset DEF Open
<1>3. \A o \in S : f[o] \in Int
    BY UnitsOnType DEF Open
<1>4. \A o \in S : g[o] = f[o]
    BY <1>1 DEF Open, UnitsOn
<1>5. g[r] = Units(RowsOf(r), DOMAIN RowsOf(r), p)
    BY <1>1 DEF UnitsOn
<1>6. Ordered(p)' = SumFunctionOnSet(g, Open') /\ Ordered(p) = SumFunctionOnSet(f, S)
    BY DEF Ordered, UnitsOn, Open
<1> HIDE DEF f, g, S
<1>7. SumFunctionOnSet(g, S) = SumFunctionOnSet(f, S)
    BY <1>2, <1>3, <1>4, SumSame
<1>8. \A o \in S \cup {r} : g[o] \in Int
    BY <1>1, <1>3, <1>4, <1>5
<1>9. SumFunctionOnSet(g, S \cup {r}) = g[r] + SumFunctionOnSet(g, S)
    BY <1>2, <1>8, SumAdd
<1>10. SumFunctionOnSet(f, S) \in Int
    BY <1>2, <1>3, SumType
<1> QED BY <1>1, <1>2, <1>5, <1>6, <1>7, <1>9, <1>10

LEMMA OrderedCancelled ==
    ASSUME IsFiniteSet(Requests), TypeOK, Inv, WorkInv, NEW r \in Requests, CommitCancel(r),
           NEW p \in Products
    PROVE  LET items == orders[input[r].order].items
           IN  Ordered(p)' \in Int /\ Ordered(p) = Ordered(p)' + Units(items, DOMAIN items, p)
<1>1. /\ input[r].order \in Requests /\ orders[input[r].order].status = "pending"
      /\ orders'[input[r].order].status = "cancelled"
      /\ orders'[input[r].order].items = orders[input[r].order].items
      /\ \A x \in Requests \ {input[r].order} : orders'[x] = orders[x]
    BY CancelledStock
<1> PICK o \in Requests : o = input[r].order
    BY <1>1
<1> DEFINE f == UnitsOn(p)
           S == Open
<1>2. IsFiniteSet(S) /\ o \in S /\ Open' = S \ {o}
    BY <1>1, FS_Subset DEF Open
<1>3. \A x \in S : f[x] \in Int
    BY UnitsOnType DEF Open
<1>4. UnitsOn(p)' = f
    BY <1>1 DEF UnitsOn
<1>5. Ordered(p)' = SumFunctionOnSet(UnitsOn(p)', Open') /\ Ordered(p) = SumFunctionOnSet(f, S)
    BY DEF Ordered, UnitsOn, Open
<1>6. f[o] = Units(orders[o].items, DOMAIN orders[o].items, p)
    BY DEF UnitsOn
<1> HIDE DEF f, S
<1>7. SumFunctionOnSet(f, S) = f[o] + SumFunctionOnSet(f, S \ {o})
    BY <1>2, <1>3, SumRemove
<1>8. IsFiniteSet(S \ {o}) /\ \A x \in S \ {o} : f[x] \in Int
    BY <1>2, <1>3, FS_RemoveElement
<1>9. SumFunctionOnSet(f, S \ {o}) \in Int /\ f[o] \in Int
    BY <1>2, <1>3, <1>8, SumType
<1> QED BY <1>2, <1>4, <1>5, <1>6, <1>7, <1>9

\* A payment moves an order from pending to paid: what is ordered stays.
LEMMA OrderedPaid ==
    ASSUME TypeOK, Inv, NEW r \in Requests, CommitPay(r), NEW p
    PROVE  Ordered(p)' = Ordered(p)
<1>1. input[r].order \in Requests /\ orders[input[r].order].status = "pending"
    BY OrderOf DEF CommitPay, PayPCs, Inv, PayInv, PayOK
<1> PICK o \in Requests : o = input[r].order
    BY <1>1
<1>2. PICK v \in {"pending", "paid"} : orders' = [orders EXCEPT ![o].status = v]
    BY <1>1 DEF CommitPay
<1>3. /\ orders'[o] = [orders[o] EXCEPT !.status = v] /\ orders[o] \in Order
      /\ \A x \in Requests \ {o} : orders'[x] = orders[x]
    BY <1>2 DEF TypeOK
<1>4. orders'[o].status = v /\ orders'[o].items = orders[o].items
    BY <1>3 DEF Order
<1>5. Open' = Open
    BY <1>1, <1>3, <1>4 DEF Open
<1>6. UnitsOn(p)' = UnitsOn(p)
    BY <1>3, <1>4 DEF UnitsOn
<1>7. Ordered(p)' = SumFunctionOnSet(UnitsOn(p)', Open')
    BY DEF Ordered, UnitsOn, Open
<1> QED BY <1>5, <1>6, <1>7, OrderedIs

\* What the administrators do to the row p and to the history of its supply.
Administered(p) ==
    /\ UNCHANGED <<orders, payments>>
    /\ products' = [products EXCEPT ![p] = products'[p]]
    /\ \A q \in Products \ {p} : products'[q] = products[q] /\ supply'[q] = supply[q]
    /\ \/ /\ products[p].state = "unborn" /\ products'[p].state = "live"
          /\ supply'[p] = products'[p].stock
       \/ /\ products[p].state = "live" /\ products'[p].state = "live"
          /\ supply'[p] = supply[p] + products'[p].stock - products[p].stock
       \/ /\ products[p].state = "live" /\ products'[p].state = "deleted"
          /\ ~Referenced(p)

LEMMA CatalogRows ==
    ASSUME TypeOK, NEW r \in Requests, CreateProduct(r) \/ UpdateProduct(r) \/ DeleteProduct(r)
    PROVE  \/ UNCHANGED <<products, orders, payments, supply>>
           \/ \E p \in Products : Administered(p)
<1>a. UNCHANGED <<orders, payments>>
    BY DEF CreateProduct, UpdateProduct, DeleteProduct, CatalogDone, CatalogAnswer
<1>1. CASE UNCHANGED <<products, supply>>
    BY <1>a, <1>1
<1>2. CASE ~UNCHANGED <<products, supply>>
    <2>1. CASE CreateProduct(r)
        <3>1. PICK i \in Inputs :
                /\ i.op = "addProduct" /\ products[i.product].state = "unborn"
                /\ products' = [products EXCEPT ![i.product] = InsertedRow(i)]
                /\ supply' = [supply EXCEPT ![i.product] = InsertedRow(i).stock]
            BY <1>2, <2>1 DEF CreateProduct
        <3>2. i.product \in Products
            BY <3>1, InputTypes DEF CatalogInputs
        <3>3. InsertedRow(i).state = "live"
            BY DEF InsertedRow
        <3> QED BY <1>a, <3>1, <3>2, <3>3 DEF Administered, TypeOK
    <2>2. CASE UpdateProduct(r)
        <3>1. PICK i \in Inputs :
                /\ i.op = "patchProduct" /\ products[i.product].state = "live"
                /\ products' = [products EXCEPT ![i.product] = UpdatedRow(products[i.product], i)]
                /\ supply' = [supply EXCEPT ![i.product] =
                                @ + UpdatedRow(products[i.product], i).stock - products[i.product].stock]
            BY <1>2, <2>2 DEF UpdateProduct
        <3>2. i.product \in Products
            BY <3>1, InputTypes DEF CatalogInputs
        <3>3. UpdatedRow(products[i.product], i).state = "live"
            BY DEF UpdatedRow
        <3> QED BY <1>a, <3>1, <3>2, <3>3 DEF Administered, TypeOK
    <2>3. CASE DeleteProduct(r)
        <3>1. PICK i \in Inputs :
                /\ i.op = "deleteProduct" /\ products[i.product].state = "live"
                /\ ~Referenced(i.product)
                /\ products' = [products EXCEPT ![i.product] = DeletedRow]
                /\ supply' = [supply EXCEPT ![i.product] = 0]
            BY <1>2, <2>3 DEF DeleteProduct
        <3>2. i.product \in Products
            BY <3>1, InputTypes DEF CatalogInputs
        <3>3. DeletedRow.state = "deleted"
            BY DEF DeletedRow
        <3> QED BY <1>a, <3>1, <3>2, <3>3 DEF Administered, TypeOK
    <2> QED BY <2>1, <2>2, <2>3
<1> QED BY <1>1, <1>2

LEMMA ConservationStep ==
    ASSUME IsFiniteSet(Requests), TypeOK, TypeOK', Inv, WorkInv, ReferencesLive,
           StockConservation, [Next]_vars
    PROVE  StockConservation'
<1> SUFFICES ASSUME NEW p \in Products, products'[p].state = "live"
             PROVE  products'[p].stock + Ordered(p)' = supply'[p]
    BY DEF StockConservation
<1>a. products[p].state = "live" => products[p].stock + Ordered(p) = supply[p]
    BY DEF StockConservation
<1>b. Ordered(p) \in Int /\ products[p].stock \in Int /\ products'[p].stock \in Int
      /\ supply[p] \in Int
    BY OrderedType, CatalogAssumption DEF TypeOK, Product
<1>1. CASE UNCHANGED <<products, orders, payments, supply>>
    <2>1. Ordered(p)' = Ordered(p)
        BY <1>1 DEF Ordered
    <2> QED BY <1>1, <1>a, <2>1
<1>2. ASSUME NEW r \in Requests, CommitCreate(r)
      PROVE  products'[p].stock + Ordered(p)' = supply'[p]
    <2> DEFINE u == Units(RowsOf(r), DOMAIN RowsOf(r), p)
    <2>1. /\ u \in Int /\ products'[p].stock = products[p].stock - u
          /\ Ordered(p)' = Ordered(p) + u
        BY <1>2, PlacedStock, OrderedPlaced
    <2>2. supply' = supply /\ products[p].state = "live"
        BY <1>2, CommitKeepsState DEF CommitCreate, ghosts
    <2> HIDE DEF u
    <2> QED BY <1>a, <1>b, <2>1, <2>2
<1>3. ASSUME NEW r \in Requests, CommitCancel(r)
      PROVE  products'[p].stock + Ordered(p)' = supply'[p]
    <2> DEFINE items == orders[input[r].order].items
               u == Units(items, DOMAIN items, p)
    <2>1. /\ u \in Int /\ products'[p].stock = products[p].stock + u
          /\ Ordered(p)' \in Int /\ Ordered(p) = Ordered(p)' + u
        BY <1>3, CancelledStock, OrderedCancelled
    <2>2. supply' = supply /\ products[p].state = "live"
        BY <1>3, CommitKeepsState DEF CommitCancel, ghosts
    <2> HIDE DEF u
    <2> QED BY <1>a, <1>b, <2>1, <2>2
<1>4. ASSUME NEW r \in Requests, CommitPay(r)
      PROVE  products'[p].stock + Ordered(p)' = supply'[p]
    <2>1. supply' = supply /\ products' = products
        BY <1>4 DEF CommitPay, ghosts
    <2> QED BY <1>4, <1>a, <2>1, OrderedPaid
<1>5. ASSUME NEW q \in Products, Administered(q)
      PROVE  products'[p].stock + Ordered(p)' = supply'[p]
    <2>1. Ordered(p)' = Ordered(p)
        BY <1>5 DEF Administered, Ordered
    <2>2. CASE p # q
        <3>1. products'[p] = products[p] /\ supply'[p] = supply[p]
            BY <1>5, <2>2 DEF Administered
        <3> QED BY <1>a, <2>1, <3>1
    <2>3. CASE p = q /\ products[p].state = "unborn"
        <3>1. ~Referenced(p)
            BY <2>3 DEF ReferencesLive, Referenced
        <3>2. supply'[p] = products'[p].stock
            BY <1>5, <2>3 DEF Administered
        <3> QED BY <1>b, <2>1, <3>1, <3>2, NoneOrdered
    <2>4. CASE p = q /\ products[p].state # "unborn"
        <3>1. /\ products[p].state = "live"
              /\ supply'[p] = supply[p] + products'[p].stock - products[p].stock
            BY <1>5, <2>4 DEF Administered
        <3> QED BY <1>a, <1>b, <2>1, <3>1
    <2> QED BY <2>2, <2>3, <2>4
<1> QED BY <1>1, <1>2, <1>3, <1>4, <1>5, TableWriters, CatalogRows

\* Every line of a committed order names a product of the catalogue, always.
LEMMA ReferencesInvariance == Spec => []ReferencesLive
<1>1. Init => ReferencesLive
    BY DEF Init, ReferencesLive, NoOrder
<1> QED BY <1>1, ReferencesStep, Invariance, PTL DEF Spec

LEMMA ConservationInit ==
    ASSUME IsFiniteSet(Requests), Init
    PROVE  StockConservation
<1> SUFFICES ASSUME NEW p \in Products, products[p].state = "live"
             PROVE  products[p].stock + Ordered(p) = supply[p]
    BY DEF StockConservation
<1>1. TypeOK
    BY InitInv
<1>2. ~Referenced(p)
    BY DEF Init, NoOrder, Referenced
<1>3. Ordered(p) = 0
    BY <1>1, <1>2, NoneOrdered
<1>4. products[p].stock = InitialStock /\ supply[p] = InitialStock
    BY DEF Init, NoProduct
<1> QED BY <1>3, <1>4, CatalogAssumption

\* No unit of stock is lost or invented, for any finite number of requests,
\* carts of any length, any interleaving and any faults: what is on the shelf
\* and what is in orders not cancelled is what the catalogue was given.
THEOREM StockConserved ==
    ASSUME IsFiniteSet(Requests)
    PROVE  Spec => []StockConservation
<1>1. TypeOK /\ TypeOK' /\ Inv /\ WorkInv /\ ReferencesLive /\ StockConservation /\ [Next]_vars
        => StockConservation'
    BY ConservationStep
<1>2. Init => StockConservation
    BY ConservationInit
<1> QED BY <1>1, <1>2, WorkInvariance, ReferencesInvariance, PTL DEF Spec

-----------------------------------------------------------------------------
(* What an order costs.                                                    *)

\* Nothing in the price of a cart leaves 64 bits: the units of a product, the
\* cost of a line, the total.
Exact(cart, cost) ==
    /\ \A p \in ProductsOf(cart) : Units(cart, DOMAIN cart, p) \in Word
    /\ \A n \in DOMAIN cart : cost[n] \in Word
    /\ SumFunction(cost) \in Word

\* OrderTotals, for one order: its lines, the cart they come from, its total.
TotalsAgree(items, cart, amount) ==
    LET cost == [n \in DOMAIN items |-> items[n].price * cart[n].quantity]
    IN  /\ amount = Int64(SumFunction([n \in DOMAIN items |-> items[n].subtotal]))
        /\ Exact(cart, cost) =>
            /\ \A n \in DOMAIN items : /\ items[n].quantity = cart[n].quantity
                                       /\ items[n].subtotal = cost[n]
            /\ amount = SumFunction(cost)

\* A line that passes the CHECK constraints although nothing wrapped asks for at
\* least one unit.
LEMMA PositiveLine ==
    ASSUME NEW price \in Nat, price >= 1, NEW q \in Int, price * q >= 0, Int32(q) >= 1
    PROVE  q \in Nat /\ q >= 1
<1>1. q >= 0
    <2>1. q <= -1 => price * q <= -price
        OBVIOUS
    <2> QED BY <2>1
<1>2. q # 0
    <2>1. Int32(0) = 0
        BY Int32Identity, CatalogAssumption
    <2> QED BY <2>1
<1> QED BY <1>1, <1>2

\* What a create holds when it commits: every line has a price, and the stock
\* check bounds what it asks of each product.
LEMMA CommittedLines ==
    ASSUME TypeOK, Inv, ClientInv, WorkInv, NEW r \in Requests, pc[r] = "insertPayment",
           NEW n \in DOMAIN input[r].cart
    PROVE  /\ prices[r][input[r].cart[n].product] >= 1
           /\ quantityByProduct(input[r].cart)[input[r].cart[n].product] <= MaxStock
           /\ RowsOf(r)[n].quantity \in 1 .. MaxStock /\ RowsOf(r)[n].subtotal >= 0
<1> DEFINE p == input[r].cart[n].product
<1>1. pc[r] \in CreatePCs
    BY DEF CreatePCs
<1>2. p \in Products /\ p \in ProductsOf(input[r].cart)
    BY <1>1, CartLines
<1>3. productLock[p] = r /\ r # None
    BY <1>2, NoneAssumption DEF Inv, LockInv, LockOK
<1>4. products[p].state = "live" /\ products[p].price >= 1
    BY <1>2, <1>3 DEF Inv, StockInv
<1>5. prices[r][p] = products[p].price
    BY <1>1, <1>2 DEF ClientInv, RequestOK, PriceOK
<1>6. quantityByProduct(input[r].cart)[p] <= MaxStock
    <2>1. quantityByProduct(input[r].cart)[p] <= products[p].stock
        BY <1>2 DEF WorkInv, WorkOK, CheckOK
    <2>2. products[p].stock \in 0 .. MaxStock
        BY <1>2 DEF TypeOK, Product
    <2>3. quantityByProduct(input[r].cart)[p] \in Int
        BY <1>1, <1>2, CartTypes, QuantityType
    <2> QED BY <2>1, <2>2, <2>3, CatalogAssumption
<1>7. RowsOf(r)[n].quantity \in 1 .. MaxStock /\ RowsOf(r)[n].subtotal >= 0
    BY DEF Inv, LineInv, LineOK, RowsOf
<1> QED BY <1>4, <1>5, <1>6, <1>7

LEMMA CommittedTotals ==
    ASSUME TypeOK, Inv, ClientInv, WorkInv, NEW r \in Requests, pc[r] = "insertPayment"
    PROVE  TotalsAgree(RowsOf(r), input[r].cart, total[r])
<1> DEFINE cart == input[r].cart
           items == RowsOf(r)
           D == DOMAIN items
           sub == [n \in D |-> items[n].subtotal]
           cost == [n \in D |-> items[n].price * cart[n].quantity]
           exact == SumFunctionOnSet(cost, D)
<1>a. pc[r] \in CreatePCs
    BY DEF CreatePCs
<1>1. /\ IsFiniteSet(D) /\ D = DOMAIN cart
      /\ \A n \in D : /\ cart[n].quantity \in Int /\ prices[r][cart[n].product] \in Nat
                      /\ items[n].price = prices[r][cart[n].product]
                      /\ items[n].quantity = Int32(cart[n].quantity)
                      /\ items[n].subtotal = Int64(items[n].price * cart[n].quantity)
    BY <1>a, CartLines DEF RowsOf, ItemOf
<1>2. \A n \in D : /\ cost[n] \in Int /\ sub[n] = Int64(cost[n])
                   /\ cost[n] = items[n].price * cart[n].quantity
    BY <1>1
<1>3. total[r] = Int64(exact)
    <2>1. Priced(r) = D
        BY <1>1 DEF Priced
    <2>2. [n \in DOMAIN cart |-> prices[r][cart[n].product] * cart[n].quantity] = cost
        BY <1>1
    <2>3. Cost(cart, prices[r], D) = exact
        BY <2>2 DEF Cost
    <2> QED BY <1>a, <2>1, <2>3 DEF WorkInv, WorkOK, TotalOK
<1>4. SumFunction(sub) = SumFunctionOnSet(sub, D) /\ SumFunction(cost) = exact
    BY DEF SumFunction
<1>5. total[r] = Int64(SumFunctionOnSet(sub, D))
    <2>1. \A n \in D : sub[n] \in Int /\ cost[n] \in Int /\ Congruent(sub[n], cost[n], M64)
        BY <1>2, Int64Facts
    <2> HIDE DEF sub, cost, D
    <2>2. M64 \in Int
        BY Int64Facts
    <2>3. Congruent(SumFunctionOnSet(sub, D), exact, M64)
        BY <1>1, <2>1, <2>2, SumCongruent
    <2>4. SumFunctionOnSet(sub, D) \in Int /\ exact \in Int
        BY <1>1, <2>1, SumType
    <2> QED BY <1>3, <2>3, <2>4, Int64Facts
<1>6. ASSUME Exact(cart, cost)
      PROVE  /\ \A n \in D : items[n].quantity = cart[n].quantity /\ items[n].subtotal = cost[n]
             /\ total[r] = exact
    <2>1. \A n \in D : sub[n] = cost[n]
        BY <1>1, <1>2, <1>6, Int64Facts DEF Exact
    <2>2. ASSUME NEW n \in D
          PROVE  cart[n].quantity \in Nat /\ cart[n].quantity >= 1
        <3>a. n \in DOMAIN input[r].cart
            BY <1>1
        <3>b. /\ prices[r][input[r].cart[n].product] >= 1
              /\ RowsOf(r)[n].quantity \in 1 .. MaxStock /\ RowsOf(r)[n].subtotal >= 0
            BY <3>a, CommittedLines
        <3>1. /\ items[n].price \in Nat /\ items[n].price >= 1
              /\ items[n].subtotal >= 0 /\ items[n].quantity \in 1 .. MaxStock
            BY <1>1, <3>b
        <3>2. items[n].price * cart[n].quantity >= 0 /\ Int32(cart[n].quantity) >= 1
            <4>1. items[n].subtotal = items[n].price * cart[n].quantity
                BY <2>1
            <4>2. Int32(cart[n].quantity) \in 1 .. MaxStock
                BY <1>1, <3>1
            <4> QED BY <3>1, <4>1, <4>2, CatalogAssumption
        <3>3. cart[n].quantity \in Int
            BY <1>1
        <3> HIDE DEF items, cart
        <3> QED BY <3>1, <3>2, <3>3, PositiveLine
    <2>3. ASSUME NEW n \in D
          PROVE  items[n].quantity = cart[n].quantity
        <3> DEFINE p == cart[n].product
        <3>1. /\ Units(cart, DOMAIN cart, p) \in Nat
              /\ cart[n].quantity <= Units(cart, DOMAIN cart, p)
            <4> HIDE DEF cart, D
            <4> QED BY <1>1, <2>2, UnitsPositive
        <3>2. p \in ProductsOf(cart)
            BY <1>1 DEF ProductsOf
        <3>3. quantityByProduct(cart)[p] = Units(cart, DOMAIN cart, p)
            BY <1>6, <3>2, Int64Facts DEF Exact, quantityByProduct
        <3>4. quantityByProduct(cart)[p] <= MaxStock
            BY <1>1, CommittedLines
        <3>5. cart[n].quantity \in 0 .. MaxStock
            BY <2>2, <3>1, <3>3, <3>4, CatalogAssumption
        <3> QED BY <1>1, <3>5, Int32Identity
    <2>4. Int64(exact) = exact
        BY <1>4, <1>6, Int64Facts DEF Exact
    <2> QED BY <1>3, <2>1, <2>3, <2>4
<1> QED BY <1>3, <1>4, <1>5, <1>6 DEF TotalsAgree

\* The request an order is named after keeps its input.
LEMMA InputKept ==
    ASSUME TypeOK, Inv, [Next]_vars, NEW o \in Requests, orders[o].status # "none"
    PROVE  input'[o] = input[o]
<1>a. pc[o] # "idle"
    BY DEF Inv, TxInv
<1>1. ASSUME NEW r \in Requests, pc[r] = "idle", NEW i, input' = [input EXCEPT ![r] = i]
      PROVE  input'[o] = input[o]
    BY <1>a, <1>1 DEF TypeOK
<1>2. ASSUME NEW r \in Requests,
             \/ LockProductRefused(r) \/ InsertItemRefused(r) \/ CancelRefused(r)
             \/ RestoreRefused(r) \/ PayOrderNotFound(r) \/ PaySettled(r)
             \/ StatementFails(r)
      PROVE  UNCHANGED input
    BY <1>2, RolledBack DEF Rollback, Finish
<1>3. ASSUME NEW r \in Requests, LockProduct(r) \/ InsertOrder(r) \/ InsertItem(r)
      PROVE  UNCHANGED input
    BY <1>3 DEF LockProduct, InsertOrder, InsertItem, Rollback, Finish
<1>4. ASSUME NEW r \in Requests, CancelLockOrder(r) \/ RestoreItem(r) \/ PayLockOrder(r)
                                 \/ LockPayment(r) \/ Charge(r)
      PROVE  UNCHANGED input
    BY <1>4 DEF CancelLockOrder, RestoreItem, PayLockOrder, LockPayment, Charge
<1>5. ASSUME NEW r \in Requests, CommitCreate(r) \/ CommitCancel(r) \/ CommitPay(r)
      PROVE  UNCHANGED input
    BY <1>5 DEF CommitCreate, CommitCancel, CommitPay, Commit, Finish
<1>6. ASSUME NEW r \in Requests, RejectCart(r) \/ BeginCreate(r) \/ BeginCancel(r) \/ BeginPay(r)
      PROVE  input'[o] = input[o]
    <2>1. PICK i \in Inputs : pc[r] = "idle" /\ input' = [input EXCEPT ![r] = i]
        BY <1>6 DEF RejectCart, BeginCreate, BeginCancel, BeginPay, BeginOnOrder
    <2> QED BY <1>1, <2>1
<1>7. ASSUME NEW r \in Requests,
             CatalogRefused(r) \/ CreateProduct(r) \/ UpdateProduct(r) \/ DeleteProduct(r)
      PROVE  input'[o] = input[o]
    <2>1. PICK i \in Inputs : pc[r] = "idle" /\ input' = [input EXCEPT ![r] = i]
        BY <1>7, CatalogSteps DEF CatalogAnswer
    <2> QED BY <1>1, <2>1
<1>8. CASE UNCHANGED vars
    BY <1>8 DEF vars
<1> QED BY <1>2, <1>3, <1>4, <1>5, <1>6, <1>7, <1>8 DEF Next, Step, Quiescent

LEMMA TotalsState ==
    /\ OrderTotals <=> \A o \in Requests : orders[o].status # "none" =>
            TotalsAgree(orders[o].items, input[o].cart, orders[o].total)
    /\ OrderTotals' <=> \A o \in Requests : orders'[o].status # "none" =>
            TotalsAgree(orders'[o].items, input'[o].cart, orders'[o].total)
BY DEF OrderTotals, TotalsAgree, Exact

LEMMA TotalsInit == Init => OrderTotals
BY TotalsState DEF Init, NoOrder

LEMMA TotalsStep ==
    ASSUME TypeOK, Inv, ClientInv, WorkInv, OrderTotals, [Next]_vars
    PROVE  OrderTotals'
<1> SUFFICES ASSUME NEW o \in Requests, orders'[o].status # "none"
             PROVE  TotalsAgree(orders'[o].items, input'[o].cart, orders'[o].total)
    BY TotalsState
<1>1. CASE orders[o].status = "none"
    <2>1. CommitCreate(o) /\ pc[o] = "insertPayment"
        BY <1>1, OrderAppears DEF CommitCreate
    <2>2. orders'[o].items = RowsOf(o) /\ orders'[o].total = total[o]
        BY <2>1 DEF CommitCreate, RowsOf, TypeOK
    <2>3. input'[o] = input[o]
        BY <2>1 DEF CommitCreate, Commit, Finish
    <2> QED BY <2>1, <2>2, <2>3, CommittedTotals
<1>2. CASE orders[o].status # "none"
    <2>1. OrderStep(o)
        BY OrdersWriters, OrderStepFrame, CommitOrderStep
    <2>2. orders'[o].items = orders[o].items /\ orders'[o].total = orders[o].total
        BY <1>2, <2>1 DEF OrderStep
    <2>3. input'[o] = input[o]
        BY <1>2, InputKept
    <2> QED BY <1>2, <2>2, <2>3, TotalsState
<1> QED BY <1>1, <1>2

\* An order's total is what its lines say: the 64-bit sum of the subtotals even
\* where both wrap, and, unless 64 bits are too few for the cart, the exact cost
\* of the quantities that were asked for, which are those on its lines.
THEOREM TotalsExact == Spec => []OrderTotals
<1>1. TypeOK /\ Inv /\ ClientInv /\ WorkInv /\ OrderTotals /\ [Next]_vars => OrderTotals'
    BY TotalsStep
<1> QED BY <1>1, TotalsInit, WorkInvariance, PTL DEF Spec

-----------------------------------------------------------------------------
(* The transactions implement the ledger.                                  *)

\* Module OrderLedger counts the units on a list of lines as this one does.
LEMMA LedgerUnits ==
    ASSUME NEW items, NEW p
    PROVE  Ledger!Units(items, p) = Units(items, DOMAIN items, p)
<1>1. ASSUME NEW f, NEW S PROVE Ledger!SumFunctionOnSet(f, S) = SumFunctionOnSet(f, S)
    BY DEF Ledger!SumFunctionOnSet, SumFunctionOnSet, FoldFunctionOnSet,
           Ledger!FoldFunctionOnSet, MapThenFoldSet, Ledger!MapThenFoldSet
<1> QED BY <1>1 DEF Ledger!Units, Units

\* A commit whose uncommitted changes are the units of a list of lines moves
\* those units.
LEMMA UnitsMoved ==
    ASSUME TypeOK, NEW r \in Requests, NEW items, NEW sign \in Int,
           products' = CommittedProducts(r),
           \A p \in Products : delta[r][p] = sign * Units(items, DOMAIN items, p)
    PROVE  products' = Ledger!Move(items, sign)
<1>1. \A p \in Products : products[p].stock + delta[r][p]
                            = products[p].stock + sign * Ledger!Units(items, p)
    BY LedgerUnits
<1>2. \A p \in Products : [products[p] EXCEPT !.stock = View(r, p)]
            = [products[p] EXCEPT !.stock = @ + sign * Ledger!Units(items, p)]
    BY <1>1 DEF View
<1> QED BY <1>2 DEF CommittedProducts, Ledger!Move

LEMMA PlaceStep ==
    ASSUME TypeOK, TypeOK', Inv, ClientInv, WorkInv, NEW r \in Requests, CommitCreate(r)
    PROVE  Ledger!Place(r)
<1> DEFINE items == RowsOf(r)
           new == orders'[r]
<1>a. pc[r] = "insertPayment" /\ pc[r] \in CreatePCs
    BY DEF CommitCreate, CreatePCs
<1>1. /\ orders[r].status = "none"
      /\ orders' = [orders EXCEPT ![r] = [status |-> "pending", user |-> input[r].user,
                                          total |-> total[r], items |-> items]]
      /\ items \in Seq(Item)
      /\ \A p \in Products :
            /\ Units(items, DOMAIN items, p) \in Int
            /\ products'[p].stock = products[p].stock - Units(items, DOMAIN items, p)
    BY PlacedStock
<1>2. new = [status |-> "pending", user |-> input[r].user, total |-> total[r], items |-> items]
    BY <1>1 DEF TypeOK
<1>3. new.status = "pending" /\ new.user \in Users /\ new.items = items /\ new.total = total[r]
    <2>1. input[r].user \in Users
        BY <1>a, CartTypes DEF CreateInputs
    <2> QED BY <1>2, <2>1
<1>4. items # <<>>
    <2>1. input[r].cart # <<>> /\ input[r].cart \in Seq(Line)
        BY <1>a, CartTypes DEF WorkInv, WorkOK, TotalOK, CreateInputs
    <2>2. DOMAIN input[r].cart # {} /\ DOMAIN items = DOMAIN input[r].cart
        <3>1. \A s \in Seq(Line) : s # <<>> => 1 \in DOMAIN s
            OBVIOUS
        <3> QED BY <2>1, <3>1 DEF RowsOf
    <2>3. DOMAIN <<>> = {}
        OBVIOUS
    <2> QED BY <2>2, <2>3
<1>5. ASSUME NEW n \in DOMAIN items
      PROVE  LET p == items[n].product IN
             /\ products[p].state = "live" /\ products[p].price = items[n].price
             /\ Ledger!Units(items, p) \in 1 .. products[p].stock
    <2>1. PICK p \in Products : p = items[n].product
        <3>1. \A m \in DOMAIN items : items[m] \in Item
            BY <1>1
        <3> QED BY <3>1 DEF Item
    <2>2. n \in DOMAIN input[r].cart /\ p = input[r].cart[n].product
          /\ items[n].price = prices[r][p]
        BY <2>1 DEF RowsOf, ItemOf
    <2>3. p \in ProductsOf(input[r].cart)
        BY <2>2 DEF ProductsOf
    <2>4. products[p].price = items[n].price
        BY <1>a, <2>2, <2>3 DEF ClientInv, RequestOK, PriceOK
    <2>5. products[p].state = "live"
        <3>1. productLock[p] = r
            BY <1>a, <2>3 DEF Inv, LockInv, LockOK
        <3> QED BY <3>1, NoneAssumption DEF Inv, StockInv
    <2>6. Units(items, DOMAIN items, p) \in 1 .. products[p].stock
        <3>1. IsFiniteSet(DOMAIN items)
            BY <1>1, LinesFinite
        <3>2. \A m \in DOMAIN items : items[m].quantity \in 1 .. MaxStock
            <4>1. \A m \in DOMAIN items : items[m] \in Item
                BY <1>1
            <4> QED BY <4>1 DEF Item
        <3>3. \A m \in DOMAIN items : items[m].quantity \in Nat
            BY <3>2, CatalogAssumption
        <3> HIDE DEF items
        <3>4. Units(items, DOMAIN items, p) \in Nat /\ items[n].quantity <= Units(items, DOMAIN items, p)
            BY <2>1, <3>1, <3>3, UnitsPositive
        <3>5. products[p].stock \in Nat /\ products'[p].stock \in Nat
            BY CatalogAssumption DEF TypeOK, Product
        <3>6. products'[p].stock = products[p].stock - Units(items, DOMAIN items, p)
            BY <1>1
        <3>7. items[n].quantity \in Nat /\ items[n].quantity >= 1
            BY <3>2, CatalogAssumption
        <3> QED BY <3>4, <3>5, <3>6, <3>7
    <2> QED BY <2>1, <2>4, <2>5, <2>6, LedgerUnits
<1>6. payments' = [payments EXCEPT ![r] = [status |-> "pending", amount |-> new.total]]
    BY <1>3 DEF CommitCreate
<1>7. products' = Ledger!Move(items, -1)
    <2>1. products' = CommittedProducts(r) /\ todo[r] = {}
        BY <1>a DEF CommitCreate, Inv, LineInv, LineOK
    <2>2. DOMAIN items \ todo[r] = DOMAIN items
        BY <2>1
    <2>3. \A p \in Products : delta[r][p] = -Units(items, DOMAIN items, p)
        BY <1>a, <2>2 DEF WorkInv, WorkOK, DeltaOK
    <2> HIDE DEF items
    <2>4. \A x \in Int : -x = (-1) * x
        OBVIOUS
    <2>5. \A p \in Products : delta[r][p] = (-1) * Units(items, DOMAIN items, p)
        BY <1>1, <2>3, <2>4
    <2> QED BY <2>1, <2>5, UnitsMoved
<1>8. orders' = [orders EXCEPT ![r] = new]
    BY <1>1, <1>2
<1> HIDE DEF items
<1> QED BY <1>1, <1>3, <1>4, <1>5, <1>6, <1>7, <1>8 DEF Ledger!Place

LEMMA CancelStep ==
    ASSUME TypeOK, Inv, WorkInv, ReferencesLive, NEW r \in Requests, CommitCancel(r)
    PROVE  input[r].order \in Requests /\ Ledger!Cancel(input[r].order)
<1> DEFINE o == input[r].order
           items == orders[o].items
<1>1. /\ o \in Requests /\ orders[o].status = "pending"
      /\ orders' = [orders EXCEPT ![o].status = "cancelled"]
      /\ \A p \in Products : Units(items, DOMAIN items, p) \in Int
    BY CancelledStock
<1>2. \A n \in DOMAIN items : products[items[n].product].state = "live"
    BY <1>1 DEF ReferencesLive
<1>3. /\ pc[r] = "markCancelled" /\ products' = CommittedProducts(r)
      /\ UNCHANGED payments
    BY DEF CommitCancel
<1>4. DOMAIN items \ todo[r] = DOMAIN items
    BY <1>3 DEF WorkInv, WorkOK, DeltaOK
<1>5. \A p \in Products : delta[r][p] = Units(items, DOMAIN items, p)
    BY <1>3, <1>4 DEF WorkInv, WorkOK, DeltaOK
<1>6. products' = Ledger!Move(items, 1)
    <2> HIDE DEF items
    <2>1. \A x \in Int : x = 1 * x
        OBVIOUS
    <2>2. \A p \in Products : delta[r][p] = 1 * Units(items, DOMAIN items, p)
        BY <1>1, <1>5, <2>1
    <2> QED BY <1>3, <2>2, UnitsMoved
<1> QED BY <1>1, <1>2, <1>3, <1>6 DEF Ledger!Cancel

LEMMA SettleStep ==
    ASSUME TypeOK, Inv, NEW r \in Requests, CommitPay(r)
    PROVE  input[r].order \in Requests /\ Ledger!Settle(input[r].order)
<1> DEFINE o == input[r].order
<1>1. /\ pc[r] = "recordCharge" /\ UNCHANGED products
      /\ payments' = [payments EXCEPT ![o].status = charge[r]]
      /\ orders' = [orders EXCEPT ![o].status = IF charge[r] = "success" THEN "paid" ELSE @]
    BY DEF CommitPay
<1>2. o \in Requests
    BY <1>1, OrderOf DEF PayPCs
<1>3. orders[o].status = "pending" /\ charge[r] \in {"success", "failed"}
    BY <1>1 DEF Inv, PayInv, PayOK
<1>4. payments[o].status # "success"
    BY <1>2, <1>3 DEF Inv, PaymentAgreement
<1>5. CASE charge[r] = "success"
    BY <1>1, <1>2, <1>3, <1>4, <1>5 DEF Ledger!Settle
<1>6. CASE charge[r] = "failed"
    <2>1. orders' = [orders EXCEPT ![o].status = @]
        BY <1>1, <1>6
    <2>2. orders' = orders
        BY <1>2, <2>1 DEF TypeOK, Order
    <2> QED BY <1>1, <1>2, <1>3, <1>4, <1>6, <2>2 DEF Ledger!Settle
<1> QED BY <1>2, <1>3, <1>5, <1>6

LEMMA AdministerStep ==
    ASSUME TypeOK, TypeOK', NEW p \in Products, Administered(p)
    PROVE  Ledger!Administer(p)
<1>1. /\ UNCHANGED <<orders, payments>>
      /\ products' = [products EXCEPT ![p] = products'[p]]
    BY DEF Administered
<1>2. products'[p].stock \in 0 .. MaxStock
    BY DEF TypeOK, Product
<1>3. ~Referenced(p) => \A o \in Requests : Ledger!Units(orders[o].items, p) = 0
    BY UnitsAbsent, LedgerUnits DEF Referenced
<1> QED BY <1>1, <1>2, <1>3 DEF Administered, Ledger!Administer

LEMMA LedgerInit == Init => Ledger!Init
BY DEF Init, Ledger!Init, NoProduct, NoOrder, NoPayment

LEMMA LedgerNext ==
    ASSUME TypeOK, TypeOK', Inv, ClientInv, WorkInv, ReferencesLive, [Next]_vars
    PROVE  [Ledger!Next]_(Ledger!tables)
<1>1. CASE UNCHANGED <<products, orders, payments, supply>>
    BY <1>1 DEF Ledger!tables
<1>2. ASSUME NEW r \in Requests, CommitCreate(r) PROVE Ledger!Next
    BY <1>2, PlaceStep DEF Ledger!Next
<1>3. ASSUME NEW r \in Requests, CommitCancel(r) PROVE Ledger!Next
    BY <1>3, CancelStep DEF Ledger!Next
<1>4. ASSUME NEW r \in Requests, CommitPay(r) PROVE Ledger!Next
    BY <1>4, SettleStep DEF Ledger!Next
<1>5. ASSUME NEW p \in Products, Administered(p) PROVE Ledger!Next
    BY <1>5, AdministerStep DEF Ledger!Next
<1> QED BY <1>1, <1>2, <1>3, <1>4, <1>5, TableWriters, CatalogRows

\* The concurrent transactions implement the ledger of indivisible orders, for
\* any requests, products, carts and inputs, with or without faults: what the
\* tables show of a create, a cancel or a payment is one step that takes,
\* returns or settles the whole order, on a shelf that has it, at the prices of
\* that moment.
THEOREM LedgerRefinement == Spec => ImplementsLedger
<1>1. TypeOK /\ TypeOK' /\ Inv /\ ClientInv /\ WorkInv /\ ReferencesLive /\ [Next]_vars
        => [Ledger!Next]_(Ledger!tables)
    BY LedgerNext
<1> QED BY <1>1, LedgerInit, WorkInvariance, ReferencesInvariance, PTL
           DEF Spec, ImplementsLedger, Ledger!Spec
=============================================================================
