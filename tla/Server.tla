-------------------------------- MODULE Server --------------------------------
(***************************************************************************)
(* The API process: the order transactions of Orders behind the            *)
(* Idempotency-Key middleware, the connection pool they share, and the     *)
(* life of the process itself: the pings of start-up, serving, the         *)
(* graceful shutdown on a signal, and the restart on the same database.    *)
(*                                                                         *)
(* A request is a create, which goes through the middleware (the actions   *)
(* of Idempotency, on the variables below), or a cancel or a payment.      *)
(* Between the middleware's claim and its SaveResponse a create is a       *)
(* transaction of Orders, statement by statement.  A transaction keeps its *)
(* connection from BEGIN to COMMIT or ROLLBACK; a statement outside a      *)
(* transaction takes one from the pool and returns it.  When the process   *)
(* ends, what it was working on is lost and the tables stay.               *)
(***************************************************************************)
EXTENDS Orders

CONSTANTS
    Keys,         \* values of the Idempotency-Key header
    Carts,        \* carts in the bodies of creates, told apart by their hash
    Stale,        \* staleClaimTimeout
    MaxRun,       \* the longest a handler runs after its claim
    MaxTime,      \* bound: the clock, and with it the restarts, stop here
    MaxConns,     \* connections of the pool
    maxAttempts   \* of database.New

VARIABLES
    now, keys, stage, claim, cutoff, claimedAt, answer, shown,  \* see Idempotency
    phase,     \* what main is doing
    attempt,   \* the loop variable i of database.New, 0 outside the loop
    abrupt     \* history: "timeout" a drain expired, "listener" one failed

ASSUME ServerAssumption ==
    /\ MaxConns \in Nat \ {0} /\ maxAttempts \in Nat \ {0}
    /\ Stale \in Nat /\ MaxRun \in Nat /\ MaxTime \in Nat
    /\ None \notin Carts

middleware == <<now, keys, stage, claim, cutoff, claimedAt, answer, shown>>
process == <<phase, attempt, abrupt>>
serverVars == <<vars, middleware, process>>

\* The orders in the table, named after the requests that placed them.
Placed == {r \in Requests : orders[r].status # "none"}

\* The middleware's own view of a create.  A statement may fail to get a
\* connection and a process may end, so its faults are switched on.
Idem == INSTANCE Idempotency WITH
    Attempts <- Requests, Bodies <- Carts, Skew <- 0, Faults <- TRUE,
    pc <- stage, req <- claim, placed <- Placed

Phases == {"starting", "serving", "draining", "closing", "dying", "exited", "failed"}

ServerTypeOK ==
    /\ TypeOK
    /\ Idem!TypeOK
    /\ phase \in Phases
    /\ attempt \in 0 .. maxAttempts
    /\ abrupt \subseteq {"timeout", "listener"}

ServerInit ==
    /\ Init
    /\ Idem!Init
    /\ phase = "starting" /\ attempt = 1 /\ abrupt = {}

-----------------------------------------------------------------------------
(* The pool.                                                               *)

\* Mutant: a refused transaction is not rolled back and keeps its connection.
BusyOrRefused == {r \in Requests : pc[r] \in InTx \/ outcome[r] \in Refusals}

\* The requests that hold a connection: those with an open transaction.
Busy == {r \in Requests : pc[r] \in InTx}

\* Until DB.Close a connection is handed out while one is left.
Acquire == phase \in {"serving", "draining"} /\ Cardinality(Busy) < MaxConns

\* Mutant: a statement of the transaction is sent to the pool.
SecondConnection(r) == Acquire

\* Every statement of a transaction runs on the connection of its tx.
OwnConnection(r) == r \in Busy

-----------------------------------------------------------------------------
(* Requests.                                                               *)

\* r has been accepted and is not answered.
AtWork(r) == stage[r] \notin {"idle", "done"} \/ pc[r] \in InTx

Unused(r) == stage[r] = "idle" /\ pc[r] = "idle"

\* A create arrives: CheckAndClaim's INSERT.  The listener accepts until Shutdown.
ReceiveCreate(r) ==
    /\ phase = "serving" /\ Unused(r) /\ Acquire
    /\ UNCHANGED <<vars, process>>
    /\ Idem!Claim(r)

\* A cancel or a payment arrives: its BEGIN.
ReceiveOnOrder(r) ==
    /\ phase = "serving" /\ Unused(r) /\ Acquire
    /\ BeginCancel(r) \/ BeginPay(r)
    /\ UNCHANGED <<middleware, process>>

\* The rest of CheckAndClaim; TakeCutoff is no statement.
Check(r) ==
    /\ phase # "dying"
    /\ UNCHANGED <<vars, process>>
    /\ \/ Acquire /\ Idem!Lookup(r)
       \/ Idem!TakeCutoff(r)
       \/ Acquire /\ Idem!Reclaim(r)

\* The handler decodes the body whose hash was claimed, for the user who did.
FromClaim(r) ==
    input'[r] = [op |-> "create", user |-> claim[r].user, cart |-> claim[r].hash]

\* The handler refuses the cart; the claim stays behind.
Refuse(r) ==
    /\ phase # "dying" /\ stage[r] = "run"
    /\ RejectCart(r) /\ FromClaim(r)
    /\ Idem!CreateOrder(r) /\ answer'[r] = "refused"
    /\ UNCHANGED process

\* pool.Begin of WithinTx.
BeginTx(r) ==
    /\ phase # "dying" /\ stage[r] = "run" /\ Acquire
    /\ BeginCreate(r) /\ FromClaim(r)
    /\ UNCHANGED <<middleware, process>>

\* Mutant: the handler answers without SaveResponse.
AnswerUnsaved(r) ==
    /\ stage' = [stage EXCEPT ![r] = "done"]
    /\ answer' = [answer EXCEPT ![r] = "created"]
    /\ shown' = [shown EXCEPT ![r] = r]
    /\ UNCHANGED <<now, keys, claim, cutoff, claimedAt>>

\* What the end of the transaction means to a create: committed, the handler
\* goes on to SaveResponse; otherwise it answers with the error.
EndCreate(r) ==
    /\ Idem!CreateOrder(r)
    /\ stage'[r] = (IF outcome'[r] = "ok" THEN "save" ELSE "done")

\* One statement of an open transaction, or a fault that rolls it back.
Execute(r) ==
    /\ phase # "dying" /\ OwnConnection(r)
    /\ Step(r) \/ StatementFails(r)
    /\ IF stage[r] = "run" /\ pc'[r] = "done" THEN EndCreate(r) ELSE UNCHANGED middleware
    /\ UNCHANGED process

\* SaveResponse, and the answer.
Save(r) ==
    /\ phase # "dying" /\ stage[r] = "save" /\ Acquire
    /\ UNCHANGED <<vars, process>>
    /\ Idem!UpdateIdempotency(r) /\ Idem!SaveResponse(r)

\* The pool is closed: a statement outside a transaction, or BEGIN, fails.  The
\* handler answers 500, and 201 without a saved response after the commit.
PoolClosed(r) ==
    /\ phase = "closing" /\ r \notin Busy
    /\ UNCHANGED <<vars, process>>
    /\ \/ stage[r] \in {"lookup", "reclaim", "run"} /\ Idem!Lost(r)
       \/ UNCHANGED keys /\ Idem!SaveResponse(r)

-----------------------------------------------------------------------------
(* The process: main, BuildApp, database.New.                              *)

\* pool.Ping: the first that succeeds ends the loop, and the server listens.
Ping ==
    /\ phase = "starting" /\ attempt < maxAttempts
    /\ \/ phase' = "serving" /\ attempt' = 0
       \/ attempt' = attempt + 1 /\ UNCHANGED phase
    /\ UNCHANGED <<vars, middleware, abrupt>>

\* The loop has run out: database.New fails, os.Exit(1).  (Another start of the
\* process would only repeat the loop.)
GiveUp ==
    /\ phase = "starting" /\ attempt >= maxAttempts
    /\ phase' = "failed" /\ attempt' = 0
    /\ UNCHANGED <<vars, middleware, abrupt>>

\* A step of BuildApp other than the pings fails (the pool's configuration,
\* instrumenting Redis, registering the pool's metrics): os.Exit(1).
BuildFails ==
    /\ phase = "starting" /\ attempt < maxAttempts
    /\ phase' = "failed" /\ attempt' = 0
    /\ UNCHANGED <<vars, middleware, abrupt>>

\* SIGINT or SIGTERM: serv.Shutdown closes the listener and waits.
Signal ==
    /\ phase = "serving"
    /\ phase' = "draining"
    /\ UNCHANGED <<vars, middleware, attempt, abrupt>>

\* One of the two listeners fails: main returns without a shutdown.
ListenerFails ==
    /\ phase = "serving"
    /\ phase' = "dying" /\ abrupt' = abrupt \cup {"listener"}
    /\ UNCHANGED <<vars, middleware, attempt>>

\* Mutant: DB.Close does not wait for serv.Shutdown.
ShutdownAtOnce ==
    /\ phase = "draining"
    /\ phase' = "closing"
    /\ UNCHANGED <<vars, middleware, attempt, abrupt>>

\* serv.Shutdown returns: no request is left, or the ten seconds are over.
ShutdownReturns ==
    /\ phase = "draining"
    /\ \/ (\A r \in Requests : ~AtWork(r)) /\ UNCHANGED abrupt
       \/ (\E r \in Requests : AtWork(r)) /\ abrupt' = abrupt \cup {"timeout"}
    /\ phase' = "closing"
    /\ UNCHANGED <<vars, middleware, attempt>>

\* Mutant: DB.Close abandons the connections that are in use.
CloseAbandons ==
    /\ phase = "closing"
    /\ phase' = "dying"
    /\ UNCHANGED <<vars, middleware, attempt, abrupt>>

\* DB.Close returns when every connection has been given back; main returns.
CloseReturns ==
    /\ phase = "closing" /\ Busy = {}
    /\ phase' = "dying"
    /\ UNCHANGED <<vars, middleware, attempt, abrupt>>

\* The process is gone.  PostgreSQL rolls the open transaction of r back, or
\* its COMMIT was already under way; nobody hears the answer.
Die(r) ==
    /\ phase = "dying" /\ AtWork(r)
    /\ \/ /\ r \in Busy
          /\ Rollback(r, "error")
          /\ IF stage[r] = "run" THEN Idem!Lost(r) ELSE UNCHANGED middleware
       \/ /\ r \in Busy
          /\ CommitCreate(r) \/ CommitCancel(r) \/ CommitPay(r)
          /\ IF stage[r] = "run"
             THEN Idem!CreateOrder(r) /\ answer'[r] = "error"
             ELSE UNCHANGED middleware
       \/ /\ r \notin Busy
          /\ UNCHANGED vars
          /\ Idem!Lost(r)
    /\ UNCHANGED process

Exit ==
    /\ phase = "dying" /\ \A r \in Requests : ~AtWork(r)
    /\ phase' = "exited"
    /\ UNCHANGED <<vars, middleware, attempt, abrupt>>

\* The process is started again on the same database, some time later.
Restart ==
    /\ phase = "exited"
    /\ UNCHANGED <<vars, abrupt>>
    /\ Idem!Tick
    /\ phase' = "starting" /\ attempt' = 1

\* Time passes, and the claims that were left behind grow stale, also under the
\* process that made them.
TimePasses ==
    /\ UNCHANGED <<vars, process>>
    /\ Idem!Tick

\* The end of the run: no process, or no further start within the bound.
Stopped ==
    /\ phase = "failed" \/ (phase = "exited" /\ now = MaxTime)
    /\ UNCHANGED serverVars

-----------------------------------------------------------------------------
\* What the server does by itself for a request it has accepted.
Serve(r) ==
    \/ Check(r) \/ Refuse(r) \/ BeginTx(r) \/ Execute(r) \/ Save(r)
    \/ PoolClosed(r) \/ Die(r)

ServerNext ==
    \/ \E r \in Requests : ReceiveCreate(r) \/ ReceiveOnOrder(r) \/ Serve(r)
    \/ Ping \/ GiveUp \/ BuildFails \/ Signal \/ ListenerFails
    \/ ShutdownReturns \/ CloseReturns \/ Exit \/ Restart
    \/ TimePasses \/ Stopped

ServerSpec == ServerInit /\ [][ServerNext]_serverVars

\* Go runs the handlers whose statements can be executed, PostgreSQL grants free
\* locks, the pool hands out free connections, and main goes through its
\* shutdown: while any of them can move, something does.
ServerFairness ==
    WF_serverVars((\E r \in Requests : Serve(r)) \/ ShutdownReturns \/ CloseReturns \/ Exit)

FairServerSpec == ServerSpec /\ ServerFairness

-----------------------------------------------------------------------------
(* Properties.                                                             *)

\* The middleware may take the handler's transaction for one step: the whole
\* server, with its pool, its shutdown and its restarts, is an implementation
\* of module Idempotency, whose theorems therefore hold of it.
ImplementsIdempotency == Idem!Spec

\* Every request that was accepted is answered or lost with its process, however
\* few connections there are: no transaction waits for a second connection and
\* no handler for a connection that never comes (MaxConns in database.New).
EveryRequestEnds == \A r \in Requests : AtWork(r) ~> ~AtWork(r)

\* A shutdown ends: DB.Close, which has no timeout, gets every connection back.
ShutdownEnds == (phase = "draining") ~> (phase = "exited")

\* As long as every drain completed and no listener failed, an order that was
\* committed has its response saved once its handler is through: the order in
\* which main shuts the server and the pool down loses no response, so a retry
\* after the restart is a replay and not a second order.
ResponsesSurviveShutdown ==
    abrupt = {} =>
        \A r \in Placed : ~AtWork(r) => keys[claim[r].key].response # None

\* As long as no listener failed, the provider's ledger and the orders agree and
\* no order is charged twice, across restarts and expired drains: a payment that
\* was charged holds its connection, and DB.Close waits for it.
LedgerSurvivesShutdown ==
    "listener" \notin abrupt => ChargedAtMostOnce /\ LedgerAgreesWithOrders

=============================================================================
