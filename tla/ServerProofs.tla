----------------------------- MODULE ServerProofs -----------------------------
(***************************************************************************)
(* Proofs about Server, for any requests, keys, carts, products and pool.  *)
(*                                                                         *)
(* The server implements Idempotency, so what is proved of the middleware  *)
(* with the order's transaction as one step holds of the server that       *)
(* executes it statement by statement.  The mapping is the identity on the *)
(* middleware's variables and reads placed off the orders table; that the  *)
(* steps of a transaction leave it alone until the commit needs StageInv,  *)
(* which ties the statement a request is at to its stage in the            *)
(* middleware, and the invariant of OrdersProofs: a cancel and a payment   *)
(* only change the status of an order that is there.                       *)
(*                                                                         *)
(* That the ledger and the responses survive a shutdown needs DrainInv:    *)
(* what main waits for before it goes on.                                  *)
(*                                                                         *)
(* The invariant of OrdersStock holds of the server, too, so that what is  *)
(* proved there of stock, totals and the ledger outlives its processes.    *)
(***************************************************************************)
EXTENDS Server, OrdersStock

\* IdempotencyProofs, with the substitution of Idem.
IP == INSTANCE IdempotencyProofs WITH
    Attempts <- Requests, Bodies <- Carts, Skew <- 0, Faults <- TRUE,
    pc <- stage, req <- claim, placed <- Placed

Stages == {"idle", "lookup", "cutoff", "reclaim", "run", "save", "done"}

\* The stage a create is at in the middleware and its statement go together.
StageOK(r) ==
    /\ stage[r] \in {"lookup", "cutoff", "reclaim"} => pc[r] = "idle"
    /\ stage[r] = "run" => pc[r] \in CreatePCs \cup {"idle"}
    /\ stage[r] = "save" => pc[r] = "done"
    /\ pc[r] \in CreatePCs => stage[r] = "run"
    /\ pc[r] \in CancelPCs \cup PayPCs => stage[r] = "idle"

StageInv ==
    /\ stage \in [Requests -> Stages]
    /\ \A r \in Requests : StageOK(r)

ServerInv == TypeOK /\ Inv /\ StageInv

-----------------------------------------------------------------------------
(* What a step of the server is to Orders and to the orders table.         *)

\* A transaction that the end of its process rolls back does not need a fault;
\* every other step is one of Orders.
LEMMA OrdersSteps ==
    ASSUME ServerNext
    PROVE  [Next]_vars \/ \E r \in Requests : phase = "dying" /\ r \in Busy /\ Rollback(r, "error")
<1>1. ASSUME NEW r \in Requests,
             ReceiveCreate(r) \/ Check(r) \/ Save(r) \/ PoolClosed(r)
      PROVE  UNCHANGED vars
    BY <1>1 DEF ReceiveCreate, Check, Save, PoolClosed
<1>2. ASSUME NEW r \in Requests,
             ReceiveOnOrder(r) \/ Refuse(r) \/ BeginTx(r) \/ Execute(r)
      PROVE  Next
    BY <1>2 DEF ReceiveOnOrder, Refuse, BeginTx, Execute, Next
<1>3. ASSUME NEW r \in Requests, Die(r)
      PROVE  Next \/ UNCHANGED vars \/ (phase = "dying" /\ r \in Busy /\ Rollback(r, "error"))
    BY <1>3 DEF Die, Next, Step
<1>4. ASSUME \/ Ping \/ GiveUp \/ BuildFails \/ Signal \/ ListenerFails \/ ShutdownReturns
             \/ CloseReturns \/ Exit \/ Restart \/ TimePasses \/ Stopped
      PROVE  UNCHANGED vars
    BY <1>4 DEF Ping, GiveUp, BuildFails, Signal, ListenerFails, ShutdownReturns, CloseReturns,
        Exit, Restart, TimePasses, Stopped, serverVars
<1> QED BY <1>1, <1>2, <1>3, <1>4 DEF ServerNext, Serve

LEMMA OrdersInv ==
    ASSUME TypeOK, Inv, [ServerNext]_serverVars
    PROVE  TypeOK' /\ Inv'
<1>1. CASE \E r \in Requests : Rollback(r, "error")
    BY <1>1, RollbackInv DEF Outcomes
<1>2. CASE [Next]_vars
    BY <1>2, NextInv
<1>3. CASE UNCHANGED serverVars
    <2>1. UNCHANGED vars
        BY <1>3 DEF serverVars
    <2> QED BY <1>2, <2>1
<1> QED BY <1>1, <1>2, <1>3, OrdersSteps

\* An open transaction places nothing before its commit, and a cancel or a
\* payment places nothing at all.
LEMMA PlacedFrame ==
    ASSUME TypeOK, Inv, NEW r \in Requests,
           \/ Step(r) \/ StatementFails(r) \/ Rollback(r, "error")
           \/ CommitCreate(r) \/ CommitCancel(r) \/ CommitPay(r),
           ~CommitCreate(r)
    PROVE  Placed' = Placed
<1>1. CASE CommitCancel(r) \/ CommitPay(r)
    <2>1. pc[r] \in {"markCancelled", "recordCharge"} /\ input[r].order \in Requests
        BY <1>1, OrderOf DEF CommitCancel, CommitPay, CancelPCs, PayPCs
    <2>2. orders[input[r].order].status = "pending"
        BY <2>1 DEF Inv, PayInv, PayOK
    <2>3. PICK st \in {"cancelled", "paid", "pending"} :
            orders' = [orders EXCEPT ![input[r].order].status = st]
        BY <1>1, <2>2 DEF CommitCancel, CommitPay
    <2>4. orders'[input[r].order].status = st
        BY <2>1, <2>3 DEF TypeOK, Order
    <2>5. \A o \in Requests \ {input[r].order} : orders'[o] = orders[o]
        BY <2>1, <2>3 DEF TypeOK
    <2> QED BY <2>2, <2>4, <2>5 DEF Placed
<1>2. CASE ~CommitCancel(r) /\ ~CommitPay(r)
    <2>1. UNCHANGED orders
        BY <1>2 DEF Step, StatementFails, Rollback, rows, LockProductRefused, LockProduct,
            InsertOrder, InsertItemRefused, InsertItem, CancelRefused, CancelLockOrder,
            RestoreRefused, RestoreItem, PayOrderNotFound, PayLockOrder, PaySettled,
            LockPayment, Charge
    <2> QED BY <2>1 DEF Placed
<1> QED BY <1>1, <1>2

-----------------------------------------------------------------------------
(* Stages.                                                                 *)

\* A step moves one request, to a stage and a statement that go together.
LEMMA StageStep ==
    ASSUME TypeOK, StageInv, NEW r \in Requests,
           NEW v \in InTx \cup {"idle", "done"}, NEW w \in Stages,
           pc' = [pc EXCEPT ![r] = v], stage' = [stage EXCEPT ![r] = w],
           w \in {"lookup", "cutoff", "reclaim"} => v = "idle",
           w = "run" => v \in CreatePCs \cup {"idle"},
           w = "save" => v = "done",
           v \in CreatePCs => w = "run",
           v \in CancelPCs \cup PayPCs => w = "idle"
    PROVE  StageInv'
<1>1. pc'[r] = v /\ stage'[r] = w
    BY DEF TypeOK, StageInv
<1>2. \A s \in Requests \ {r} : pc'[s] = pc[s] /\ stage'[s] = stage[s]
    BY DEF TypeOK, StageInv
<1>3. \A s \in Requests : StageOK(s)'
    BY <1>1, <1>2 DEF StageInv, StageOK
<1>4. stage' \in [Requests -> Stages]
    BY DEF StageInv, Stages
<1> QED BY <1>3, <1>4 DEF StageInv, Stages

\* The statement may stay as it is, and so may the stage.
LEMMA Same ==
    ASSUME TypeOK, StageInv, NEW r \in Requests
    PROVE  /\ UNCHANGED pc => pc' = [pc EXCEPT ![r] = pc[r]]
           /\ UNCHANGED stage => stage' = [stage EXCEPT ![r] = stage[r]]
BY DEF TypeOK, StageInv

\* A statement of a transaction leads to another of the same kind, or ends it.
LEMMA StatementOrder ==
    ASSUME NEW r \in Requests, pc[r] \in InTx,
           \/ Step(r) \/ StatementFails(r) \/ Rollback(r, "error")
           \/ CommitCreate(r) \/ CommitCancel(r) \/ CommitPay(r)
    PROVE  \E v \in InTx \cup {"done"} :
             /\ pc' = [pc EXCEPT ![r] = v]
             /\ pc[r] \in CreatePCs => v \in CreatePCs \cup {"done"}
             /\ pc[r] \in CancelPCs \cup PayPCs => v \in CancelPCs \cup PayPCs \cup {"done"}
<1> USE DEF InTx, CreatePCs, CancelPCs, PayPCs
<1>1. CASE \/ LockProductRefused(r) \/ InsertItemRefused(r) \/ CancelRefused(r)
           \/ RestoreRefused(r) \/ PayOrderNotFound(r) \/ PaySettled(r)
           \/ StatementFails(r) \/ Rollback(r, "error")
           \/ CommitCreate(r) \/ CommitCancel(r) \/ CommitPay(r)
    <2>1. pc' = [pc EXCEPT ![r] = "done"]
        BY <1>1 DEF LockProductRefused, InsertItemRefused, CancelRefused, RestoreRefused,
            PayOrderNotFound, PaySettled, StatementFails, Rollback, Finish,
            CommitCreate, CommitCancel, CommitPay, Commit
    <2> QED BY <2>1
<1>2. CASE LockProduct(r)
    BY <1>2 DEF LockProduct
<1>3. CASE InsertOrder(r)
    BY <1>3 DEF InsertOrder, Rollback, Finish
<1>4. CASE InsertItem(r)
    BY <1>4 DEF InsertItem
<1>5. CASE CancelLockOrder(r) \/ RestoreItem(r)
    BY <1>5 DEF CancelLockOrder, RestoreItem
<1>6. CASE PayLockOrder(r) \/ LockPayment(r) \/ Charge(r)
    BY <1>6 DEF PayLockOrder, LockPayment, Charge
<1> QED BY <1>1, <1>2, <1>3, <1>4, <1>5, <1>6 DEF Step

\* What the middleware's actions do to the stage.
LEMMA IdemStages ==
    ASSUME NEW r \in Requests
    PROVE  /\ Idem!Claim(r) =>
                \E w \in {"run", "lookup"} : stage' = [stage EXCEPT ![r] = w]
           /\ Idem!Lookup(r) \/ Idem!TakeCutoff(r) \/ Idem!Reclaim(r) =>
                /\ stage[r] \in {"lookup", "cutoff", "reclaim"}
                /\ \E w \in {"cutoff", "reclaim", "run", "done"} : stage' = [stage EXCEPT ![r] = w]
           /\ Idem!CreateOrder(r) =>
                /\ stage[r] = "run"
                /\ \E w \in {"save", "done"} : stage' = [stage EXCEPT ![r] = w]
           /\ Idem!SaveResponse(r) =>
                stage[r] = "save" /\ stage' = [stage EXCEPT ![r] = "done"]
           /\ Idem!Lost(r) =>
                stage[r] \notin {"idle", "done"} /\ stage' = [stage EXCEPT ![r] = "done"]
<1> USE DEF Idem!Reply, Idem!Claimed
<1>1. Idem!Claim(r) =>
            \E w \in {"run", "lookup"} : stage' = [stage EXCEPT ![r] = w]
    BY DEF Idem!Claim
<1>2. Idem!Lookup(r) \/ Idem!TakeCutoff(r) \/ Idem!Reclaim(r) =>
            /\ stage[r] \in {"lookup", "cutoff", "reclaim"}
            /\ \E w \in {"cutoff", "reclaim", "run", "done"} : stage' = [stage EXCEPT ![r] = w]
    BY DEF Idem!Lookup, Idem!TakeCutoff, Idem!Reclaim
<1>3. Idem!CreateOrder(r) =>
            /\ stage[r] = "run"
            /\ \E w \in {"save", "done"} : stage' = [stage EXCEPT ![r] = w]
    BY DEF Idem!CreateOrder
<1>4. Idem!SaveResponse(r) =>
            stage[r] = "save" /\ stage' = [stage EXCEPT ![r] = "done"]
    BY DEF Idem!SaveResponse
<1>5. Idem!Lost(r) =>
            stage[r] \notin {"idle", "done"} /\ stage' = [stage EXCEPT ![r] = "done"]
    BY DEF Idem!Lost
<1> QED BY <1>1, <1>2, <1>3, <1>4, <1>5

LEMMA StageInvStep ==
    ASSUME ServerInv, [ServerNext]_serverVars
    PROVE  StageInv'
<1> USE DEF ServerInv
<1>a. \A r \in Requests : pc[r] \in InTx \cup {"idle", "done"} /\ stage[r] \in Stages /\ StageOK(r)
    BY DEF TypeOK, StageInv, Stages
<1>b. /\ InTx = CreatePCs \cup (CancelPCs \cup PayPCs)
      /\ CreatePCs \cap (CancelPCs \cup PayPCs) = {}
      /\ "idle" \notin InTx /\ "done" \notin InTx
    BY DEF InTx, CreatePCs, CancelPCs, PayPCs
<1>c. ASSUME UNCHANGED <<pc, stage>>
      PROVE  StageInv'
    BY <1>c DEF StageInv, StageOK
<1>1. ASSUME NEW r \in Requests, ReceiveCreate(r)
      PROVE  StageInv'
    <2>1. pc[r] = "idle" /\ UNCHANGED pc /\ Idem!Claim(r)
        BY <1>1 DEF ReceiveCreate, Unused, vars
    <2>2. PICK w \in {"run", "lookup"} : stage' = [stage EXCEPT ![r] = w]
        BY <2>1, IdemStages
    <2>3. pc' = [pc EXCEPT ![r] = "idle"]
        BY <2>1, Same
    <2>4. w \in Stages
        BY DEF Stages
    <2> QED BY <2>2, <2>3, <2>4, <1>b, StageStep
<1>2. ASSUME NEW r \in Requests, ReceiveOnOrder(r)
      PROVE  StageInv'
    <2>1. stage[r] = "idle" /\ UNCHANGED stage
        BY <1>2 DEF ReceiveOnOrder, Unused, middleware
    <2>2. PICK v \in {"cancelLock", "payLockOrder"} : pc' = [pc EXCEPT ![r] = v]
        BY <1>2 DEF ReceiveOnOrder, BeginCancel, BeginPay, BeginOnOrder
    <2>3. stage' = [stage EXCEPT ![r] = "idle"]
        BY <2>1, Same
    <2>4. v \in CancelPCs \cup PayPCs /\ "idle" \in Stages
        BY DEF CancelPCs, PayPCs, Stages
    <2> QED BY <2>2, <2>3, <2>4, <1>b, StageStep
<1>3. ASSUME NEW r \in Requests, Check(r)
      PROVE  StageInv'
    <2>1. UNCHANGED pc /\ (Idem!Lookup(r) \/ Idem!TakeCutoff(r) \/ Idem!Reclaim(r))
        BY <1>3 DEF Check, vars
    <2>2. PICK w \in {"cutoff", "reclaim", "run", "done"} : stage' = [stage EXCEPT ![r] = w]
        BY <2>1, IdemStages
    <2>3. pc[r] = "idle"
        BY <2>1, <1>a, IdemStages DEF StageOK
    <2>4. pc' = [pc EXCEPT ![r] = "idle"]
        BY <2>1, <2>3, Same
    <2>5. w \in Stages
        BY DEF Stages
    <2> QED BY <2>2, <2>4, <2>5, <1>b, StageStep
<1>4. ASSUME NEW r \in Requests, Refuse(r)
      PROVE  StageInv'
    <2>1. pc' = [pc EXCEPT ![r] = "done"] /\ Idem!CreateOrder(r)
        BY <1>4 DEF Refuse, RejectCart
    <2>2. PICK w \in {"save", "done"} : stage' = [stage EXCEPT ![r] = w]
        BY <2>1, IdemStages
    <2>3. w \in Stages
        BY DEF Stages
    <2> QED BY <2>1, <2>2, <2>3, <1>b, StageStep
<1>5. ASSUME NEW r \in Requests, BeginTx(r)
      PROVE  StageInv'
    <2>1. stage[r] = "run" /\ UNCHANGED stage /\ pc' = [pc EXCEPT ![r] = "lockProducts"]
        BY <1>5 DEF BeginTx, BeginCreate, middleware
    <2>2. stage' = [stage EXCEPT ![r] = "run"]
        BY <2>1, Same
    <2>3. "lockProducts" \in CreatePCs /\ "run" \in Stages
        BY DEF CreatePCs, Stages
    <2> QED BY <2>1, <2>2, <2>3, <1>b, StageStep
<1>6. ASSUME NEW r \in Requests, Execute(r)
      PROVE  StageInv'
    <2>1. /\ pc[r] \in InTx /\ (Step(r) \/ StatementFails(r))
          /\ IF stage[r] = "run" /\ pc'[r] = "done" THEN Idem!CreateOrder(r) ELSE UNCHANGED stage
        BY <1>6 DEF Execute, OwnConnection, Busy, EndCreate, middleware
    <2>2. PICK v \in InTx \cup {"done"} :
             /\ pc' = [pc EXCEPT ![r] = v]
             /\ pc[r] \in CreatePCs => v \in CreatePCs \cup {"done"}
             /\ pc[r] \in CancelPCs \cup PayPCs => v \in CancelPCs \cup PayPCs \cup {"done"}
        BY <2>1, StatementOrder
    <2>3. pc'[r] = v
        BY <2>2 DEF TypeOK
    <2>4. CASE stage[r] = "run" /\ v = "done"
        <3>1. PICK w \in {"save", "done"} : stage' = [stage EXCEPT ![r] = w]
            BY <2>1, <2>3, <2>4, IdemStages
        <3>2. w \in Stages
            BY DEF Stages
        <3> QED BY <2>2, <2>4, <3>1, <3>2, <1>b, StageStep
    <2>5. CASE ~(stage[r] = "run" /\ v = "done")
        <3>1. stage' = [stage EXCEPT ![r] = stage[r]]
            BY <2>1, <2>3, <2>5, Same
        <3>2. pc[r] \in CreatePCs => stage[r] = "run" /\ v \in CreatePCs
            BY <1>a, <2>2, <2>5 DEF StageOK
        <3>3. pc[r] \in CancelPCs \cup PayPCs =>
                stage[r] = "idle" /\ v \in CancelPCs \cup PayPCs \cup {"done"}
            BY <1>a, <2>2 DEF StageOK
        <3> QED BY <2>1, <2>2, <3>1, <3>2, <3>3, <1>a, <1>b, StageStep
    <2> QED BY <2>4, <2>5
<1>7. ASSUME NEW r \in Requests, Save(r) \/ PoolClosed(r)
      PROVE  StageInv'
    <2>1. UNCHANGED pc
        BY <1>7 DEF Save, PoolClosed, vars
    <2>2. stage' = [stage EXCEPT ![r] = "done"] /\ (stage[r] = "save" \/ pc[r] \notin InTx)
        BY <1>7, IdemStages DEF Save, PoolClosed, Busy
    <2>3. pc[r] \notin InTx
        BY <2>2, <1>a, <1>b DEF StageOK
    <2>4. pc' = [pc EXCEPT ![r] = pc[r]] /\ "done" \in Stages
        BY <2>1, Same DEF Stages
    <2> QED BY <2>2, <2>3, <2>4, <1>a, <1>b, StageStep
<1>8. ASSUME NEW r \in Requests, Die(r)
      PROVE  StageInv'
    <2>1. CASE r \in Busy
        <3>1. pc[r] \in InTx
            BY <2>1 DEF Busy
        <3>2. pc' = [pc EXCEPT ![r] = "done"]
            BY <1>8, <2>1 DEF Die, Rollback, Finish, CommitCreate, CommitCancel, CommitPay, Commit
        <3>3. IF stage[r] = "run" THEN Idem!Lost(r) \/ Idem!CreateOrder(r) ELSE UNCHANGED stage
            BY <1>8, <2>1 DEF Die, middleware
        <3>4. CASE stage[r] = "run"
            <4>1. PICK w \in {"save", "done"} : stage' = [stage EXCEPT ![r] = w]
                BY <3>3, <3>4, IdemStages
            <4>2. w \in Stages
                BY DEF Stages
            <4> QED BY <3>2, <4>1, <4>2, <1>b, StageStep
        <3>5. CASE stage[r] # "run"
            <4>1. stage[r] = "idle"
                BY <3>1, <3>5, <1>a, <1>b DEF StageOK
            <4>2. stage' = [stage EXCEPT ![r] = "idle"] /\ "idle" \in Stages
                BY <3>3, <3>5, <4>1, Same DEF Stages
            <4> QED BY <3>2, <4>2, <1>b, StageStep
        <3> QED BY <3>4, <3>5
    <2>2. CASE r \notin Busy
        <3>1. UNCHANGED pc /\ Idem!Lost(r) /\ pc[r] \notin InTx
            BY <1>8, <2>2 DEF Die, vars, Busy
        <3>2. pc' = [pc EXCEPT ![r] = pc[r]] /\ stage' = [stage EXCEPT ![r] = "done"]
            BY <3>1, Same, IdemStages
        <3>3. "done" \in Stages
            BY DEF Stages
        <3> QED BY <3>1, <3>2, <3>3, <1>a, <1>b, StageStep
    <2> QED BY <2>1, <2>2
<1>9. ASSUME \/ Ping \/ GiveUp \/ BuildFails \/ Signal \/ ListenerFails \/ ShutdownReturns
             \/ CloseReturns \/ Exit \/ Restart \/ TimePasses \/ Stopped \/ UNCHANGED serverVars
      PROVE  StageInv'
    <2>1. UNCHANGED <<pc, stage>>
        BY <1>9 DEF Ping, GiveUp, BuildFails, Signal, ListenerFails, ShutdownReturns, CloseReturns,
            Exit, Restart, TimePasses, Stopped, Idem!Tick, serverVars, vars, middleware
    <2> QED BY <2>1, <1>c
<1> QED BY <1>1, <1>2, <1>3, <1>4, <1>5, <1>6, <1>7, <1>8, <1>9 DEF ServerNext, Serve

LEMMA ServerInitInv == ServerInit => ServerInv
<1> SUFFICES ASSUME ServerInit PROVE ServerInv
    OBVIOUS
<1>1. TypeOK /\ Inv
    BY InitInv DEF ServerInit
<1>2. pc = [r \in Requests |-> "idle"] /\ stage = [r \in Requests |-> "idle"]
    BY DEF ServerInit, Init, Idem!Init
<1>3. StageInv
    BY <1>2 DEF StageInv, StageOK, Stages, CreatePCs, CancelPCs, PayPCs
<1> QED BY <1>1, <1>3 DEF ServerInv

LEMMA ServerInvStep == ServerInv /\ [ServerNext]_serverVars => ServerInv'
BY OrdersInv, StageInvStep DEF ServerInv

\* The rows, locks and statements of the orders keep their invariant when the
\* transactions share a pool and their process is shut down and restarted.
THEOREM ServerInvariance == ServerSpec => []ServerInv
BY ServerInitInv, ServerInvStep, PTL DEF ServerSpec

-----------------------------------------------------------------------------
(* The refinement of Idempotency.                                          *)

LEMMA IdemInit == ServerInit => Idem!Init
<1> SUFFICES ASSUME ServerInit PROVE Idem!Init
    OBVIOUS
<1> QED BY DEF ServerInit

\* Every step of the server is a step of the middleware, or changes nothing the
\* middleware knows of.
LEMMA IdemStep ==
    ASSUME ServerInv, [ServerNext]_serverVars
    PROVE  [Idem!Next]_(Idem!vars)
<1> USE DEF ServerInv
<1>a. ASSUME UNCHANGED middleware, Placed' = Placed
      PROVE  UNCHANGED Idem!vars
    BY <1>a DEF middleware, Idem!vars
<1>b. ASSUME UNCHANGED <<vars, middleware>>
      PROVE  UNCHANGED Idem!vars
    <2>1. Placed' = Placed
        BY <1>b DEF vars, rows, Placed
    <2> QED BY <1>b, <2>1, <1>a
<1>1. ASSUME NEW r \in Requests,
             ReceiveCreate(r) \/ Check(r) \/ Refuse(r) \/ Save(r) \/ PoolClosed(r)
      PROVE  Idem!Next
    BY <1>1 DEF ReceiveCreate, Check, Refuse, Save, PoolClosed, Idem!Next
<1>2. ASSUME NEW r \in Requests, ReceiveOnOrder(r) \/ BeginTx(r)
      PROVE  UNCHANGED Idem!vars
    <2>1. UNCHANGED <<orders, middleware>>
        BY <1>2 DEF ReceiveOnOrder, BeginTx, BeginCancel, BeginPay, BeginOnOrder, BeginCreate, rows
    <2> QED BY <2>1, <1>a DEF Placed
<1>3. ASSUME NEW r \in Requests, Execute(r)
      PROVE  Idem!Next \/ UNCHANGED Idem!vars
    <2>1. /\ pc[r] \in InTx /\ (Step(r) \/ StatementFails(r))
          /\ IF stage[r] = "run" /\ pc'[r] = "done" THEN Idem!CreateOrder(r) ELSE UNCHANGED middleware
        BY <1>3 DEF Execute, OwnConnection, Busy, EndCreate
    <2>2. CASE stage[r] = "run" /\ pc'[r] = "done"
        BY <2>1, <2>2 DEF Idem!Next
    <2>3. CASE ~(stage[r] = "run" /\ pc'[r] = "done")
        <3>1. ~CommitCreate(r)
            <4>1. CommitCreate(r) => pc[r] \in CreatePCs /\ pc' = [pc EXCEPT ![r] = "done"]
                BY DEF CommitCreate, Commit, Finish, CreatePCs
            <4>2. pc[r] \in CreatePCs => stage[r] = "run"
                BY DEF StageInv, StageOK
            <4> QED BY <2>3, <4>1, <4>2 DEF TypeOK
        <3> QED BY <2>1, <2>3, <3>1, <1>a, PlacedFrame
    <2> QED BY <2>2, <2>3
<1>4. ASSUME NEW r \in Requests, Die(r)
      PROVE  Idem!Next \/ UNCHANGED Idem!vars
    <2>1. CASE Idem!Lost(r) \/ Idem!CreateOrder(r)
        BY <2>1 DEF Idem!Next
    <2>2. CASE ~Idem!Lost(r) /\ ~Idem!CreateOrder(r)
        <3>1. /\ pc[r] \in InTx /\ stage[r] # "run" /\ UNCHANGED middleware
              /\ Rollback(r, "error") \/ CommitCreate(r) \/ CommitCancel(r) \/ CommitPay(r)
            BY <1>4, <2>2 DEF Die, Busy
        <3>2. ~CommitCreate(r)
            BY <3>1 DEF CommitCreate, CreatePCs, StageInv, StageOK
        <3> QED BY <3>1, <3>2, <1>a, PlacedFrame
    <2> QED BY <2>1, <2>2
<1>5. CASE Restart \/ TimePasses
    BY <1>5 DEF Restart, TimePasses, Idem!Next
<1>6. ASSUME \/ Ping \/ GiveUp \/ BuildFails \/ Signal \/ ListenerFails \/ ShutdownReturns
             \/ CloseReturns \/ Exit \/ Stopped \/ UNCHANGED serverVars
      PROVE  UNCHANGED Idem!vars
    <2>1. UNCHANGED <<vars, middleware>>
        BY <1>6 DEF Ping, GiveUp, BuildFails, Signal, ListenerFails, ShutdownReturns, CloseReturns,
            Exit, Stopped, serverVars
    <2> QED BY <2>1, <1>b
<1> QED BY <1>1, <1>2, <1>3, <1>4, <1>5, <1>6 DEF ServerNext, Serve

\* The server, with its transactions statement by statement, its pool, its
\* shutdown and its restarts, implements the Idempotency-Key middleware of
\* module Idempotency, in which the handler's transaction is one step.
THEOREM Refinement == ServerSpec => ImplementsIdempotency
BY IdemInit, IdemStep, ServerInvariance, PTL DEF ServerSpec, ImplementsIdempotency, Idem!Spec

-----------------------------------------------------------------------------
(* What the middleware promises holds of the server.                       *)

LEMMA IdemAssumptions == IP!TimeAssumption /\ IP!FaultAssumption /\ IP!NoneAssumption
BY ServerAssumption, NoneAssumption
   DEF IP!TimeAssumption, IP!FaultAssumption, IP!NoneAssumption

\* Idem and IP are the same specification.
LEMMA SameInit == Idem!Init => IP!Init
BY DEF IP!Init, Idem!Init, IP!NoRow, Idem!NoRow, IP!Never, Idem!Never

LEMMA SameNext == [Idem!Next]_(Idem!vars) => [IP!Next]_(IP!vars)
<1>1. ASSUME NEW a \in Requests
      PROVE  /\ Idem!Claim(a) => IP!Claim(a)
             /\ Idem!Lookup(a) => IP!Lookup(a)
             /\ Idem!TakeCutoff(a) => IP!TakeCutoff(a)
             /\ Idem!Reclaim(a) => IP!Reclaim(a)
    BY DEF IP!Claim, Idem!Claim, IP!Claimed, Idem!Claimed, IP!Request, Idem!Request,
        IP!Lookup, Idem!Lookup, IP!Reply, Idem!Reply, IP!OwnRow, Idem!OwnRow,
        IP!TakeCutoff, Idem!TakeCutoff, IP!Reclaim, Idem!Reclaim, IP!StaleRow, Idem!StaleRow
<1>2. ASSUME NEW a \in Requests
      PROVE  /\ Idem!CreateOrder(a) => IP!CreateOrder(a)
             /\ Idem!SaveResponse(a) => IP!SaveResponse(a)
             /\ Idem!Lost(a) => IP!Lost(a)
    BY DEF IP!CreateOrder, Idem!CreateOrder, IP!SaveResponse, Idem!SaveResponse, IP!Lost,
        Idem!Lost, IP!Reply, Idem!Reply, IP!UpdateIdempotency, Idem!UpdateIdempotency
<1>3. Idem!Tick => IP!Tick
    BY DEF Idem!Tick, IP!Tick, Idem!Running, IP!Running
<1>4. UNCHANGED Idem!vars => UNCHANGED IP!vars
    BY DEF Idem!vars, IP!vars
<1> QED BY <1>1, <1>2, <1>3, <1>4 DEF Idem!Next, IP!Next, Idem!Quiescent

LEMMA MiddlewareInv == ServerSpec => []IP!Inv
<1>1. IP!Init /\ [][IP!Next]_(IP!vars) => []IP!Inv
    BY IdemAssumptions, IP!Invariance DEF IP!Spec
<1> QED BY <1>1, SameInit, SameNext, Refinement, PTL DEF ImplementsIdempotency, Idem!Spec

\* Claims are exclusive for staleClaimTimeout and replays faithful, also over
\* connections that are not to be had, closed pools and dead processes.
THEOREM ServerClaims == ServerSpec => [](IP!ClaimsSpaced /\ IP!ReplayFaithful)
<1>1. IP!Inv => IP!ClaimsSpaced /\ IP!ReplayFaithful
    BY DEF IP!Inv
<1> QED BY <1>1, MiddlewareInv, PTL

ProcessInv ==
    phase \in Phases /\ attempt \in 0 .. maxAttempts /\ abrupt \subseteq {"timeout", "listener"}

LEMMA ProcessStep == ProcessInv /\ [ServerNext]_serverVars => ProcessInv'
<1> SUFFICES ASSUME ProcessInv, [ServerNext]_serverVars PROVE ProcessInv'
    OBVIOUS
<1>1. ASSUME NEW r \in Requests, ReceiveCreate(r) \/ ReceiveOnOrder(r) \/ Serve(r)
      PROVE  UNCHANGED process
    BY <1>1 DEF ReceiveCreate, ReceiveOnOrder, Serve, Check, Refuse, BeginTx, Execute, Save,
        PoolClosed, Die
<1>2. CASE \/ Ping \/ GiveUp \/ BuildFails \/ Signal \/ ListenerFails \/ ShutdownReturns
           \/ CloseReturns \/ Exit \/ Restart
    <2>1. phase' \in Phases
        BY <1>2 DEF Ping, GiveUp, BuildFails, Signal, ListenerFails, ShutdownReturns, CloseReturns,
            Exit, Restart, ProcessInv, Phases
    <2>2. attempt' \in 0 .. maxAttempts
        BY <1>2, ServerAssumption DEF Ping, GiveUp, BuildFails, Signal, ListenerFails, ShutdownReturns,
            CloseReturns, Exit, Restart, ProcessInv
    <2>3. abrupt' \subseteq {"timeout", "listener"}
        BY <1>2 DEF Ping, GiveUp, BuildFails, Signal, ListenerFails, ShutdownReturns, CloseReturns,
            Exit, Restart, ProcessInv
    <2> QED BY <2>1, <2>2, <2>3 DEF ProcessInv
<1>3. CASE TimePasses \/ Stopped \/ UNCHANGED serverVars
    BY <1>3 DEF TimePasses, Stopped, serverVars, process, ProcessInv
<1> QED BY <1>1, <1>2, <1>3 DEF ServerNext, process, ProcessInv

\* Type correctness of the composition, the tables' constraints and the keys'
\* rows included.
THEOREM ServerTypeCorrectness == ServerSpec => []ServerTypeOK
<1>1. ServerInit => ProcessInv
    BY ServerAssumption DEF ServerInit, ProcessInv, Phases
<1>2. IP!TypeOK => Idem!TypeOK
    BY DEF IP!TypeOK, Idem!TypeOK, IP!Row, Idem!Row, IP!Request, Idem!Request, IP!Never,
        Idem!Never, IP!Answers, Idem!Answers
<1>3. ServerInv /\ IP!Inv /\ ProcessInv => ServerTypeOK
    BY <1>2 DEF ServerInv, IP!Inv, ProcessInv, ServerTypeOK
<1> QED BY <1>1, <1>3, ProcessStep, ServerInvariance, MiddlewareInv, PTL DEF ServerSpec

-----------------------------------------------------------------------------
(* Shutting down.                                                          *)

\* What main has waited for: a drain that completed leaves no request at work,
\* and a closed pool no connection in use.
DrainInv ==
    /\ phase \in {"closing", "dying"} /\ abrupt = {} => \A r \in Requests : ~AtWork(r)
    /\ phase = "dying" /\ "listener" \notin abrupt => Busy = {}

\* The server only works for requests it has accepted.
LEMMA ServeWorks ==
    ASSUME StageInv, NEW r \in Requests, Serve(r)
    PROVE  AtWork(r)
<1>1. CASE Check(r) \/ Save(r)
    BY <1>1, IdemStages DEF Check, Save, AtWork
<1>2. CASE Refuse(r) \/ BeginTx(r) \/ Execute(r)
    BY <1>2 DEF Refuse, BeginTx, Execute, OwnConnection, Busy, AtWork
<1>3. CASE PoolClosed(r) \/ Die(r)
    BY <1>3, IdemStages DEF PoolClosed, Die, AtWork
<1> QED BY <1>1, <1>2, <1>3 DEF Serve

\* The steps of the process leave the requests alone.
LEMMA ProcessFrame ==
    ASSUME UNCHANGED <<vars, middleware>>
    PROVE  /\ Busy' = Busy /\ \A r \in Requests : AtWork(r)' <=> AtWork(r)
BY DEF vars, middleware, Busy, AtWork

LEMMA DrainStep ==
    ASSUME ServerInv, DrainInv, [ServerNext]_serverVars
    PROVE  DrainInv'
<1>1. ASSUME NEW r \in Requests, ReceiveCreate(r) \/ ReceiveOnOrder(r)
      PROVE  DrainInv'
    <2>1. phase' = "serving"
        BY <1>1 DEF ReceiveCreate, ReceiveOnOrder, process
    <2> QED BY <2>1 DEF DrainInv
<1>2. ASSUME NEW r \in Requests, Serve(r)
      PROVE  DrainInv'
    <2>1. AtWork(r) /\ UNCHANGED <<phase, abrupt>>
        BY <1>2, ServeWorks
           DEF ServerInv, Serve, Check, Refuse, BeginTx, Execute, Save, PoolClosed, Die, process
    <2>2. ~(phase \in {"closing", "dying"} /\ abrupt = {})
        BY <2>1 DEF DrainInv
    <2>3. ASSUME phase = "dying", "listener" \notin abrupt
          PROVE  Busy' = {}
        <3>1. Busy = {} /\ ~Acquire
            BY <2>3 DEF DrainInv, Acquire
        <3>2. Die(r)
            BY <1>2, <2>3 DEF Serve, Check, Refuse, BeginTx, Execute, Save, PoolClosed
        <3>3. UNCHANGED vars
            BY <3>1, <3>2 DEF Die
        <3> QED BY <3>1, <3>3 DEF vars, Busy
    <2> QED BY <2>1, <2>2, <2>3 DEF DrainInv
<1>3. CASE Ping \/ GiveUp \/ BuildFails \/ Signal \/ Exit \/ Restart
    <2>1. phase' \notin {"closing", "dying"}
        BY <1>3 DEF Ping, GiveUp, BuildFails, Signal, Exit, Restart
    <2> QED BY <2>1 DEF DrainInv
<1>4. CASE ListenerFails
    <2>1. "listener" \in abrupt'
        BY <1>4 DEF ListenerFails
    <2> QED BY <2>1 DEF DrainInv
<1>5. CASE ShutdownReturns
    <2>1. /\ phase' = "closing" /\ UNCHANGED <<vars, middleware>>
          /\ abrupt' = {} => \A r \in Requests : ~AtWork(r)
        BY <1>5 DEF ShutdownReturns
    <2> QED BY <2>1, ProcessFrame DEF DrainInv
<1>6. CASE CloseReturns
    <2>1. phase = "closing" /\ Busy = {} /\ UNCHANGED <<vars, middleware, abrupt>>
        BY <1>6 DEF CloseReturns
    <2> QED BY <2>1, ProcessFrame DEF DrainInv
<1>7. CASE Stopped \/ UNCHANGED serverVars
    <2>1. UNCHANGED <<vars, middleware, phase, abrupt>>
        BY <1>7 DEF Stopped, serverVars, process
    <2> QED BY <2>1, ProcessFrame DEF DrainInv
<1>8. CASE TimePasses
    <2>1. UNCHANGED <<pc, stage, phase, abrupt>>
        BY <1>8 DEF TimePasses, Idem!Tick, vars, process
    <2> QED BY <2>1 DEF DrainInv, Busy, AtWork
<1> QED BY <1>1, <1>2, <1>3, <1>4, <1>5, <1>6, <1>7, <1>8 DEF ServerNext

LEMMA Draining == ServerSpec => []DrainInv
<1>1. ServerInit => DrainInv
    BY DEF ServerInit, DrainInv
<1>2. ServerInv /\ DrainInv /\ [ServerNext]_serverVars => DrainInv'
    BY DrainStep
<1> QED BY <1>1, <1>2, ServerInvariance, PTL DEF ServerSpec

\* abrupt only grows.
LEMMA AbruptGrows ==
    ASSUME [ServerNext]_serverVars
    PROVE  abrupt \subseteq abrupt'
<1>1. ASSUME NEW r \in Requests, ReceiveCreate(r) \/ ReceiveOnOrder(r) \/ Serve(r)
      PROVE  UNCHANGED abrupt
    BY <1>1 DEF ReceiveCreate, ReceiveOnOrder, Serve, Check, Refuse, BeginTx, Execute, Save,
        PoolClosed, Die, process
<1>2. ASSUME \/ Ping \/ GiveUp \/ BuildFails \/ Signal \/ ListenerFails \/ ShutdownReturns
             \/ CloseReturns \/ Exit \/ Restart \/ TimePasses \/ Stopped \/ UNCHANGED serverVars
      PROVE  abrupt \subseteq abrupt'
    BY <1>2 DEF Ping, GiveUp, BuildFails, Signal, ListenerFails, ShutdownReturns, CloseReturns,
        Exit, Restart, TimePasses, Stopped, serverVars, process
<1> QED BY <1>1, <1>2 DEF ServerNext

LEMMA LedgerServerStep ==
    ASSUME ~Faults, ServerInv, DrainInv, "listener" \notin abrupt => LedgerInv,
           [ServerNext]_serverVars, "listener" \notin abrupt'
    PROVE  LedgerInv'
<1>1. LedgerInv
    BY AbruptGrows
<1>2. [Next]_vars
    <2>1. CASE ServerNext
        BY <2>1, OrdersSteps, AbruptGrows DEF DrainInv
    <2>2. CASE UNCHANGED serverVars
        BY <2>2 DEF serverVars
    <2> QED BY <2>1, <2>2
<1> QED BY <1>1, <1>2, LedgerStep DEF ServerInv

\* Money taken means paid, and taken once, across any number of shutdowns, also
\* ones whose ten seconds expire, and restarts: DB.Close waits for the payment
\* that has been charged.
THEOREM LedgerSurvives ==
    ASSUME ~Faults
    PROVE  ServerSpec => []LedgerSurvivesShutdown
<1>1. ServerInit => LedgerInv
    BY DEF ServerInit, Init, LedgerInv, InFlight, NoOrder
<1>2. ServerInv /\ DrainInv /\ ("listener" \notin abrupt => LedgerInv) /\ [ServerNext]_serverVars
        => ("listener" \notin abrupt => LedgerInv)'
    BY LedgerServerStep
<1>3. ("listener" \notin abrupt => LedgerInv) => LedgerSurvivesShutdown
    BY DEF LedgerInv, LedgerSurvivesShutdown, ChargedAtMostOnce, LedgerAgreesWithOrders, InFlight
<1> QED BY <1>1, <1>2, <1>3, ServerInvariance, Draining, PTL DEF ServerSpec

-----------------------------------------------------------------------------
(* Responses.                                                              *)

\* While every drain completed, an order is about to have its response saved,
\* or has it.
SavedOK(r) == stage[r] = "save" \/ keys[claim[r].key].response # None

SavedInv == abrupt = {} => \A r \in Placed : SavedOK(r)

\* A step leaves the claim of an order alone.
LEMMA ClaimStays ==
    ASSUME ServerInv, [ServerNext]_serverVars, NEW s \in Placed
    PROVE  claim'[s] = claim[s]
<1>1. s \in Requests /\ pc[s] # "idle"
    BY DEF ServerInv, Inv, TxInv, Placed
<1>2. ASSUME NEW r \in Requests, ReceiveCreate(r)
      PROVE  claim'[s] = claim[s]
    BY <1>1, <1>2 DEF ReceiveCreate, Unused, Idem!Claim
<1>3. ASSUME NEW r \in Requests, ReceiveOnOrder(r) \/ Serve(r)
      PROVE  UNCHANGED claim
    BY <1>3 DEF ReceiveOnOrder, Serve, Check, Refuse, BeginTx, Execute, EndCreate, Save,
        PoolClosed, Die, middleware, Idem!Lookup, Idem!TakeCutoff, Idem!Reclaim,
        Idem!CreateOrder, Idem!SaveResponse, Idem!Lost
<1>4. ASSUME \/ Ping \/ GiveUp \/ BuildFails \/ Signal \/ ListenerFails \/ ShutdownReturns
             \/ CloseReturns \/ Exit \/ Restart \/ TimePasses \/ Stopped \/ UNCHANGED serverVars
      PROVE  UNCHANGED claim
    BY <1>4 DEF Ping, GiveUp, BuildFails, Signal, ListenerFails, ShutdownReturns, CloseReturns,
        Exit, Restart, TimePasses, Stopped, serverVars, middleware, Idem!Tick
<1> QED BY <1>2, <1>3, <1>4 DEF ServerNext

\* Only SaveResponse takes an order out of the stage "save", and then the
\* response is in the table, or the pool was closed or the process gone.
LEMMA SaveSaves ==
    ASSUME ServerInv, IP!Inv, [ServerNext]_serverVars, NEW s \in Requests, stage[s] = "save",
           ~(phase \in {"closing", "dying"})
    PROVE  stage'[s] = "save" \/ keys'[claim[s].key].response # None
<1> USE DEF ServerInv
<1>1. pc[s] = "done" /\ "done" \notin InTx
    BY DEF StageInv, StageOK, InTx, CreatePCs, CancelPCs, PayPCs
<1>2. claim[s].key \in Keys /\ keys \in [Keys -> IP!Row] /\ s # None
    BY NoneAssumption DEF IP!Inv, IP!PcInv, IP!TypeOK, IP!Request
<1>3. ASSUME NEW r \in Requests, Save(r)
      PROVE  stage'[s] = "save" \/ keys'[claim[s].key].response # None
    <2>1. stage' = [stage EXCEPT ![r] = "done"] /\ keys' = [keys EXCEPT ![claim[r].key].response = r]
        BY <1>3, IdemStages DEF Save, Idem!UpdateIdempotency
    <2>2. CASE r = s
        BY <1>2, <2>1, <2>2 DEF IP!Row
    <2>3. CASE r # s
        BY <2>1, <2>3 DEF StageInv
    <2> QED BY <2>2, <2>3
<1>4. ASSUME NEW r \in Requests,
             \/ ReceiveCreate(r) \/ ReceiveOnOrder(r) \/ Check(r) \/ Refuse(r) \/ BeginTx(r)
             \/ Execute(r) \/ PoolClosed(r) \/ Die(r)
      PROVE  stage'[s] = "save"
    <2>1. r # s
        BY <1>1, <1>4, IdemStages DEF ReceiveCreate, ReceiveOnOrder, Unused, Check, Refuse,
            BeginTx, Execute, OwnConnection, Busy, PoolClosed, Die
    <2>2. UNCHANGED stage \/ \E w : stage' = [stage EXCEPT ![r] = w]
        BY <1>4, IdemStages DEF ReceiveCreate, ReceiveOnOrder, Check, Refuse,
            BeginTx, Execute, EndCreate, PoolClosed, Die, middleware
    <2> QED BY <2>1, <2>2 DEF StageInv
<1>5. ASSUME \/ Ping \/ GiveUp \/ BuildFails \/ Signal \/ ListenerFails \/ ShutdownReturns
             \/ CloseReturns \/ Exit \/ Restart \/ TimePasses \/ Stopped \/ UNCHANGED serverVars
      PROVE  UNCHANGED stage
    BY <1>5 DEF Ping, GiveUp, BuildFails, Signal, ListenerFails, ShutdownReturns, CloseReturns,
        Exit, Restart, TimePasses, Stopped, serverVars, middleware, Idem!Tick
<1> QED BY <1>3, <1>4, <1>5 DEF ServerNext, Serve

\* When nothing fails, the commit of an order leads to SaveResponse.
LEMMA CommitLeadsToSave ==
    ASSUME ~Faults, ServerInv, NEW r \in Requests, Execute(r), CommitCreate(r)
    PROVE  stage'[r] = "save"
<1>1. pc[r] \in CreatePCs /\ pc' = [pc EXCEPT ![r] = "done"]
      /\ outcome' = [outcome EXCEPT ![r] = "ok"]
    BY DEF CommitCreate, Commit, Finish, CreatePCs
<1>2. stage[r] = "run" /\ pc'[r] = "done" /\ outcome'[r] = "ok"
    BY <1>1 DEF ServerInv, TypeOK, StageInv, StageOK
<1> QED BY <1>2 DEF Execute, EndCreate

LEMMA SavedStep ==
    ASSUME ~Faults, ServerInv, IP!Inv, DrainInv, SavedInv, [ServerNext]_serverVars
    PROVE  SavedInv'
<1> SUFFICES ASSUME abrupt' = {}, NEW s \in Placed'
             PROVE  SavedOK(s)'
    BY DEF SavedInv
<1>1. abrupt = {} /\ s \in Requests
    BY AbruptGrows DEF Placed
<1>2. CASE s \in Placed
    <2>1. claim'[s] = claim[s] /\ SavedOK(s)
        BY <1>1, <1>2, ClaimStays DEF SavedInv
    <2>2. CASE keys[claim[s].key].response # None
        <3>1. claim[s].key \in Keys
            BY <1>1, <1>2 DEF IP!Inv, IP!PlacedInv, IP!ClaimInv, IP!PcInv, IP!Request, Placed
        <3>2. IP!ClosedStep(claim[s].key)
            BY <3>1, IdemStep, SameNext, IdemAssumptions, IP!StepsKeepKeysClosed
        <3> QED BY <2>1, <2>2, <3>2 DEF IP!ClosedStep, SavedOK
    <2>3. CASE stage[s] = "save"
        <3>1. AtWork(s)
            BY <2>3 DEF AtWork
        <3>2. phase \notin {"closing", "dying"}
            BY <1>1, <3>1 DEF DrainInv
        <3> QED BY <1>1, <2>1, <2>3, <3>2, SaveSaves DEF SavedOK
    <2> QED BY <2>1, <2>2, <2>3 DEF SavedOK
<1>3. CASE s \notin Placed
    <2>1. ~(UNCHANGED orders)
        BY <1>3 DEF Placed
    <2>2. PICK r \in Requests : Execute(r) \/ Die(r)
        BY <2>1 DEF ServerNext, Serve, ReceiveCreate, ReceiveOnOrder, BeginCancel, BeginPay,
            BeginOnOrder, Check, Refuse, RejectCart, BeginTx, BeginCreate, Save, PoolClosed,
            Ping, GiveUp, BuildFails, Signal, ListenerFails, ShutdownReturns, CloseReturns,
            Exit, Restart, TimePasses, Stopped, serverVars, vars, rows
    <2>3. ~Die(r)
        BY <1>1 DEF DrainInv, Die
    <2>4. CommitCreate(r)
        BY <1>3, <2>2, <2>3, PlacedFrame DEF Execute, ServerInv
    <2>5. r = s
        BY <1>1, <1>3, <2>4 DEF CommitCreate, Placed, ServerInv, TypeOK
    <2> QED BY <2>2, <2>3, <2>4, <2>5, CommitLeadsToSave DEF SavedOK
<1> QED BY <1>2, <1>3

\* A graceful shutdown that completes in time loses no response: every order
\* whose handler is through is replayed to a retry after the restart.
THEOREM ResponsesSurvive ==
    ASSUME ~Faults
    PROVE  ServerSpec => []ResponsesSurviveShutdown
<1>1. ServerInit => SavedInv
    BY DEF ServerInit, Init, NoOrder, SavedInv, Placed
<1>2. ServerInv /\ IP!Inv /\ DrainInv /\ SavedInv /\ [ServerNext]_serverVars => SavedInv'
    BY SavedStep
<1>3. SavedInv => ResponsesSurviveShutdown
    BY DEF SavedInv, SavedOK, ResponsesSurviveShutdown, AtWork
<1> QED BY <1>1, <1>2, <1>3, ServerInvariance, MiddlewareInv, Draining, PTL DEF ServerSpec

-----------------------------------------------------------------------------
(* The orders of the server.                                               *)

\* What the transactions have done and what the clients were told, as in
\* OrdersStock.
BooksInv == ClientInv /\ WorkInv /\ ReferencesLive

\* To the tables a step of the server is one of Orders, or the rollback of a
\* transaction whose process is gone.
LEMMA ServerSteps ==
    ASSUME [ServerNext]_serverVars
    PROVE  [Next]_vars \/ \E r \in Requests : pc[r] \in InTx /\ Rollback(r, "error")
<1>1. CASE ServerNext
    BY <1>1, OrdersSteps DEF Busy
<1>2. CASE UNCHANGED serverVars
    BY <1>2 DEF serverVars
<1> QED BY <1>1, <1>2

LEMMA BooksStep ==
    ASSUME ServerInv, BooksInv, [ServerNext]_serverVars
    PROVE  BooksInv'
<1> USE DEF ServerInv, BooksInv
<1>1. CASE [Next]_vars
    BY <1>1, ClientStep, WorkStep, ReferencesStep
<1>2. ASSUME NEW r \in Requests, pc[r] \in InTx, Rollback(r, "error")
      PROVE  BooksInv'
    <2>1. ClientInv' /\ WorkInv'
        BY <1>2, RollbackClient, RollbackWork
    <2>2. ReferencesLive'
        BY <1>2, ReferencesFrame DEF Rollback, rows
    <2> QED BY <2>1, <2>2
<1> QED BY <1>1, <1>2, ServerSteps

\* The strengthened invariant of the orders outlives the process that works on
\* them: a restart finds rows that no half of a transaction has touched.
THEOREM ServerBooks == ServerSpec => [](ServerInv /\ BooksInv)
<1>1. ServerInit => BooksInv
    <2>1. Init => ReferencesLive
        BY DEF Init, ReferencesLive, NoOrder
    <2> QED BY <2>1, ClientInit, WorkInit DEF ServerInit, BooksInv
<1>2. ServerInv /\ BooksInv /\ [ServerNext]_serverVars => BooksInv'
    BY BooksStep
<1> QED BY <1>1, <1>2, ServerInvariance, PTL DEF ServerSpec

\* A rollback by the end of a process is nothing to the tables.
LEMMA RolledBackRows ==
    ASSUME NEW r \in Requests, Rollback(r, "error")
    PROVE  UNCHANGED <<products, orders, payments, supply, input>>
BY DEF Rollback, Finish, rows, ghosts

LEMMA ServerLedgerStep ==
    ASSUME ServerInv, ServerInv', BooksInv, [ServerNext]_serverVars
    PROVE  [Ledger!Next]_(Ledger!tables)
<1>1. CASE [Next]_vars
    BY <1>1, LedgerNext DEF ServerInv, BooksInv
<1>2. CASE \E r \in Requests : Rollback(r, "error")
    BY <1>2, RolledBackRows DEF Ledger!tables
<1> QED BY <1>1, <1>2, ServerSteps

\* The whole server implements the ledger of indivisible orders: neither the
\* middleware, nor the pool, nor a drain that expires, nor a process that dies
\* with transactions open, nor a restart lets the tables show half an order.
THEOREM ServerLedger == ServerSpec => ImplementsLedger
<1>1. ServerInit => Ledger!Init
    BY LedgerInit DEF ServerInit
<1>2. ServerInv /\ ServerInv' /\ BooksInv /\ [ServerNext]_serverVars
        => [Ledger!Next]_(Ledger!tables)
    BY ServerLedgerStep
<1> QED BY <1>1, <1>2, ServerBooks, PTL DEF ServerSpec, ImplementsLedger, Ledger!Spec

LEMMA ServerConservationStep ==
    ASSUME IsFiniteSet(Requests), ServerInv, ServerInv', BooksInv, StockConservation,
           [ServerNext]_serverVars
    PROVE  StockConservation'
<1>1. CASE [Next]_vars
    BY <1>1, ConservationStep DEF ServerInv, BooksInv
<1>2. CASE \E r \in Requests : Rollback(r, "error")
    BY <1>2, RolledBackRows DEF StockConservation, Ordered
<1> QED BY <1>1, <1>2, ServerSteps

\* No unit of stock is lost or invented when processes are shut down, killed in
\* the middle of transactions, and restarted.
THEOREM ServerConserves ==
    ASSUME IsFiniteSet(Requests)
    PROVE  ServerSpec => []StockConservation
<1>1. ServerInit => StockConservation
    BY ConservationInit DEF ServerInit
<1>2. /\ ServerInv /\ ServerInv' /\ BooksInv /\ StockConservation /\ [ServerNext]_serverVars
      => StockConservation'
    BY ServerConservationStep
<1> QED BY <1>1, <1>2, ServerBooks, PTL DEF ServerSpec

LEMMA ServerTotalsStep ==
    ASSUME ServerInv, BooksInv, OrderTotals, [ServerNext]_serverVars
    PROVE  OrderTotals'
<1>1. CASE [Next]_vars
    BY <1>1, TotalsStep DEF ServerInv, BooksInv
<1>2. CASE \E r \in Requests : Rollback(r, "error")
    BY <1>2, RolledBackRows, TotalsState
<1> QED BY <1>1, <1>2, ServerSteps

\* What Orders promises its clients holds of the server: payments agree with
\* orders, totals with lines, answers with rows, and no product of an order is
\* deleted.
THEOREM ServerPromises ==
    ServerSpec => [](PaymentAgreement /\ OrderTotals /\ AnswersAgreeWithRows
                        /\ OrderedProductsLive)
<1>1. ServerInit => OrderTotals
    BY TotalsInit DEF ServerInit
<1>2. ServerInv /\ BooksInv /\ OrderTotals /\ [ServerNext]_serverVars => OrderTotals'
    BY ServerTotalsStep
<1>3. ServerInv /\ BooksInv => PaymentAgreement
    BY DEF ServerInv, Inv
<1>4. ServerInv /\ BooksInv => AnswersAgreeWithRows
    BY DEF BooksInv, ClientInv, RequestOK, AnswerOK, AnswersAgreeWithRows
<1>5. ServerInv /\ BooksInv => OrderedProductsLive
    BY DEF BooksInv, ReferencesLive, OrderedProductsLive, Referenced
<1> QED BY <1>1, <1>2, <1>3, <1>4, <1>5, ServerBooks, PTL DEF ServerSpec

\* No group of the server's transactions waits in a circle.
THEOREM ServerDeadlockFreedom ==
    ASSUME IsFiniteSet(Products)
    PROVE  ServerSpec => []NoWaitCycle
<1>1. ServerInv => NoWaitCycle
    BY NoWaitCycleState DEF ServerInv
<1> QED BY <1>1, ServerInvariance, PTL
=============================================================================
