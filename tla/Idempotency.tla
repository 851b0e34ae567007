----------------------------- MODULE Idempotency -----------------------------
(***************************************************************************)
(* The Idempotency-Key middleware in front of POST /api/orders/, the table *)
(* idempotency_keys and the SaveResponse at the end of                     *)
(* OrderHandler.CreateOrder, with client retries, slow handlers, failing   *)
(* statements, cancelled requests and the 30 s takeover of stale claims.   *)
(*                                                                         *)
(* An attempt is one HTTP call that carries a key.  Every statement on     *)
(* idempotency_keys commits by itself, so it is one step, and other        *)
(* attempts and the clock may move between two statements.  The            *)
(* transaction that creates the order (module Orders) is one step here: it *)
(* commits an order, named after its attempt, or it does not.              *)
(*                                                                         *)
(* created_at is stamped by PostgreSQL's now(); the cutoff of a takeover   *)
(* comes from the clock of the API process, which is Skew ahead of it.     *)
(***************************************************************************)
EXTENDS Integers, FiniteSets

CONSTANTS
    Attempts,  \* POST /api/orders/ calls
    Keys,      \* values of the Idempotency-Key header
    Users,     \* authenticated users
    Bodies,    \* SHA-256 hashes of request bodies
    Stale,     \* staleClaimTimeout
    Skew,      \* clock of the API process minus clock of the database
    MaxRun,    \* the longest a handler runs after its claim
    MaxTime,   \* bound: the clock stops here
    Faults,    \* TRUE: statements, commits and processes may fail
    None

ASSUME TimeAssumption ==
    Stale \in Nat /\ Skew \in Int /\ MaxRun \in Nat /\ MaxTime \in Nat

ASSUME FaultAssumption == Faults \in BOOLEAN

ASSUME NoneAssumption == None \notin Attempts \cup Users \cup Bodies

VARIABLES
    now,        \* the database's clock
    keys,       \* table idempotency_keys
    pc,         \* the statement an attempt is at
    req,        \* key, user and body hash of each attempt
    cutoff,     \* the created_at an attempt's takeover compares with
    claimedAt,  \* history: when the attempt was told New, or Never
    placed,     \* the orders that are committed, named after their attempts
    answer,     \* the reply: its kind, or "none" so far
    shown       \* the order in the body of the reply, or None

vars == <<now, keys, pc, req, cutoff, claimedAt, placed, answer, shown>>

Never == -1
Row == [user : Users \cup {None}, hash : Bodies \cup {None},
        response : Attempts \cup {None}, createdAt : Int]
Request == [key : Keys, user : Users, hash : Bodies]
NoRow == [user |-> None, hash |-> None, response |-> None, createdAt |-> Never]

Answers == {"none", "created", "refused", "replayed", "mismatch", "inProgress", "error"}

TypeOK ==
    /\ now \in Nat
    /\ keys \in [Keys -> Row]
    /\ pc \in [Attempts -> {"idle", "lookup", "cutoff", "reclaim", "run", "save", "done"}]
    /\ req \in [Attempts -> Request \cup {None}]
    /\ cutoff \in [Attempts -> Int]
    /\ claimedAt \in [Attempts -> Nat \cup {Never}]
    /\ placed \subseteq Attempts
    /\ answer \in [Attempts -> Answers]
    /\ shown \in [Attempts -> Attempts \cup {None}]

Init ==
    /\ now = 0
    /\ keys = [k \in Keys |-> NoRow]
    /\ pc = [a \in Attempts |-> "idle"]
    /\ req = [a \in Attempts |-> None]
    /\ cutoff = [a \in Attempts |-> 0]
    /\ claimedAt = [a \in Attempts |-> Never]
    /\ placed = {}
    /\ answer = [a \in Attempts |-> "none"]
    /\ shown = [a \in Attempts |-> None]

-----------------------------------------------------------------------------
Reply(a, kind, order) ==
    /\ pc' = [pc EXCEPT ![a] = "done"]
    /\ answer' = [answer EXCEPT ![a] = kind]
    /\ shown' = [shown EXCEPT ![a] = order]

\* The attempt may run the handler: CheckAndClaim answered New.
Claimed(a) ==
    /\ pc' = [pc EXCEPT ![a] = "run"]
    /\ claimedAt' = [claimedAt EXCEPT ![a] = now]

\* CreateIdempotency: INSERT ... ON CONFLICT (key) DO NOTHING.
Claim(a) ==
    /\ pc[a] = "idle"
    /\ \E r \in Request :
        /\ req' = [req EXCEPT ![a] = r]
        /\ \/ /\ keys[r.key].user = None
              /\ keys' = [keys EXCEPT ![r.key] =
                    [user |-> r.user, hash |-> r.hash, response |-> None, createdAt |-> now]]
              /\ Claimed(a)
           \/ /\ keys[r.key].user # None
              /\ pc' = [pc EXCEPT ![a] = "lookup"]
              /\ UNCHANGED <<keys, claimedAt>>
    /\ UNCHANGED <<now, cutoff, placed, answer, shown>>

\* GetIdempotencyByUserID, WHERE key AND user_id: not found is another's key.
OwnRow(a) == keys[req[a].key].user = req[a].user

\* Mutant: the body hash is not compared.
LookupAnyBody(a) ==
    /\ pc[a] = "lookup"
    /\ LET row == keys[req[a].key] IN
        \/ /\ ~OwnRow(a)
           /\ Reply(a, "error", None)
        \/ /\ OwnRow(a) /\ row.response # None
           /\ Reply(a, "replayed", row.response)
        \/ /\ OwnRow(a) /\ row.response = None
           /\ pc' = [pc EXCEPT ![a] = "cutoff"]
           /\ UNCHANGED <<answer, shown>>
    /\ UNCHANGED <<now, keys, req, cutoff, claimedAt, placed>>

\* CheckAndClaim's decisions on the row: a key of another user is a 500, another
\* body a Mismatch, a saved response is replayed.
Lookup(a) ==
    /\ pc[a] = "lookup"
    /\ LET row == keys[req[a].key] IN
        \/ /\ ~OwnRow(a)
           /\ Reply(a, "error", None)
        \/ /\ OwnRow(a) /\ row.hash # req[a].hash
           /\ Reply(a, "mismatch", None)
        \/ /\ OwnRow(a) /\ row.hash = req[a].hash /\ row.response # None
           /\ Reply(a, "replayed", row.response)
        \/ /\ OwnRow(a) /\ row.hash = req[a].hash /\ row.response = None
           /\ pc' = [pc EXCEPT ![a] = "cutoff"]
           /\ UNCHANGED <<answer, shown>>
    /\ UNCHANGED <<now, keys, req, cutoff, claimedAt, placed>>

\* Mutant: the cutoff forgets the timeout.
TakeCutoffNow(a) ==
    /\ pc[a] = "cutoff"
    /\ cutoff' = [cutoff EXCEPT ![a] = now + Skew]
    /\ pc' = [pc EXCEPT ![a] = "reclaim"]
    /\ UNCHANGED <<now, keys, req, claimedAt, placed, answer, shown>>

\* time.Now().Add(-staleAfter), before the statement is sent.
TakeCutoff(a) ==
    /\ pc[a] = "cutoff"
    /\ cutoff' = [cutoff EXCEPT ![a] = now + Skew - Stale]
    /\ pc' = [pc EXCEPT ![a] = "reclaim"]
    /\ UNCHANGED <<now, keys, req, claimedAt, placed, answer, shown>>

\* Mutant: the row is compared with the wrong side of the cutoff.
StaleRowFresh(a) == LET row == keys[req[a].key]
                    IN  row.response = None /\ row.createdAt > cutoff[a]

\* Mutant: created_at <= $4.
StaleRowLate(a) == LET row == keys[req[a].key]
                   IN  row.response = None /\ row.createdAt <= cutoff[a]

\* Mutant: without response IS NULL.
StaleRowAnyResponse(a) == keys[req[a].key].createdAt < cutoff[a]

\* WHERE ... response IS NULL AND created_at < $4: the row a takeover updates.
StaleRow(a) == LET row == keys[req[a].key]
               IN  row.response = None /\ row.createdAt < cutoff[a]

\* ReclaimStaleIdempotency: the claim is taken over, or it is not stale (or was
\* answered meanwhile) and the attempt is told InProgress.
Reclaim(a) ==
    /\ pc[a] = "reclaim"
    /\ \/ /\ StaleRow(a)
          /\ keys' = [keys EXCEPT ![req[a].key].hash = req[a].hash,
                                  ![req[a].key].createdAt = now]
          /\ Claimed(a)
          /\ UNCHANGED <<answer, shown>>
       \/ /\ ~StaleRow(a)
          /\ Reply(a, "inProgress", None)
          /\ UNCHANGED <<keys, claimedAt>>
    /\ UNCHANGED <<now, req, cutoff, placed>>

\* OrderService.CreateOrder commits the order, refuses it (and nothing is saved
\* under the key), or commits it and the acknowledgement is lost.
CreateOrder(a) ==
    /\ pc[a] = "run"
    /\ \/ /\ placed' = placed \cup {a}
          /\ pc' = [pc EXCEPT ![a] = "save"]
          /\ UNCHANGED <<answer, shown>>
       \/ /\ Reply(a, "refused", None)
          /\ UNCHANGED placed
       \/ /\ Faults
          /\ placed' = placed \cup {a}
          /\ Reply(a, "error", None)
    /\ UNCHANGED <<now, keys, req, cutoff, claimedAt>>

\* Mutant: the kind of the answer is saved in place of its body.
SaveStatus(a) ==
    /\ pc[a] = "save"
    /\ keys' = [keys EXCEPT ![req[a].key].response = "created"]
    /\ Reply(a, "created", a)
    /\ UNCHANGED <<now, req, cutoff, claimedAt, placed>>

\* UPDATE ... WHERE key AND user_id: also over a response that an attempt which
\* took the claim over has saved.
UpdateIdempotency(a) == keys' = [keys EXCEPT ![req[a].key].response = a]

\* SaveResponse: the client gets its 201 whether or not the statement succeeds.
SaveResponse(a) ==
    /\ pc[a] = "save"
    /\ \/ UpdateIdempotency(a)
       \/ Faults /\ UNCHANGED keys
    /\ Reply(a, "created", a)
    /\ UNCHANGED <<now, req, cutoff, claimedAt, placed>>

\* The process dies, the client goes away (r.Context() is cancelled) or a
\* statement fails before it had an effect: the attempt ends where it is.
Lost(a) ==
    /\ Faults
    /\ pc[a] \notin {"idle", "done"}
    /\ Reply(a, "error", None)
    /\ UNCHANGED <<now, keys, req, cutoff, claimedAt, placed>>

\* The handler of a claimed attempt is still at work.
Running(a) == pc[a] \in {"run", "save"}

Tick ==
    /\ now < MaxTime
    /\ \A a \in Attempts : Running(a) => now < claimedAt[a] + MaxRun
    /\ now' = now + 1
    /\ UNCHANGED <<keys, pc, req, cutoff, claimedAt, placed, answer, shown>>

Quiescent ==
    /\ \A a \in Attempts : pc[a] = "done"
    /\ UNCHANGED vars

Next ==
    \/ \E a \in Attempts :
        \/ Claim(a) \/ Lookup(a) \/ TakeCutoff(a) \/ Reclaim(a)
        \/ CreateOrder(a) \/ SaveResponse(a) \/ Lost(a)
    \/ Tick
    \/ Quiescent

Spec == Init /\ [][Next]_vars

\* The server keeps executing the requests it has accepted.
Fairness ==
    \A a \in Attempts :
        WF_vars(Lookup(a) \/ TakeCutoff(a) \/ Reclaim(a) \/ CreateOrder(a) \/ SaveResponse(a))

FairSpec == Spec /\ Fairness

-----------------------------------------------------------------------------
(* Properties.                                                             *)

\* a and b are different attempts with the same key, and both were told New.
BothClaimed(a, b) ==
    /\ a # b
    /\ claimedAt[a] # Never /\ claimedAt[b] # Never
    /\ req[a].key = req[b].key

\* A claim is exclusive for staleClaimTimeout, less what the API's clock is
\* ahead: of two attempts that were ever told New under one key, one came more
\* than that after the other, whatever crashed, however slow the handlers are
\* and however long ago the later one looked at the row (README: "in-flight
\* requests are protected from being replayed twice").
ClaimsSpaced ==
    \A a, b \in Attempts :
        BothClaimed(a, b) =>
            \/ claimedAt[b] > claimedAt[a] + Stale - Skew
            \/ claimedAt[a] > claimedAt[b] + Stale - Skew

\* A replay shows an order that was really committed, and that an attempt of
\* the same user placed with the same key and the same body.
ReplayFaithful ==
    \A a \in Attempts :
        answer[a] = "replayed" => shown[a] \in placed /\ req[shown[a]] = req[a]

\* Once a key has a response, it always has one and nobody is told New under it.
ClosedStep(k) ==
    keys[k].response # None =>
        /\ keys'[k].response # None
        /\ \A a \in Attempts :
            claimedAt'[a] # claimedAt[a] => req'[a].key # k

\* A saved response closes its key for good, also for an attempt that read the
\* row before it was saved and reclaims afterwards (response IS NULL in
\* ReclaimStaleIdempotency).
SavedKeyIsClosed == [][\A k \in Keys : ClosedStep(k)]_vars

\* A claim that was left behind does not block its key forever (README: "stale
\* in-flight keys (>30s) can be reclaimed"): when a retry is about to take its
\* cutoff and the claim of time t is stale, the claim is taken over or the
\* response turns up.
StaleClaimFreed ==
    \A k \in Keys, t \in 0 .. MaxTime :
        (/\ \E a \in Attempts : pc[a] = "cutoff" /\ req[a].key = k
         /\ keys[k].createdAt = t
         /\ t + Stale < now + Skew)
        ~> (keys[k].createdAt # t \/ keys[k].response # None)

\* The README: "no duplicate orders on client retries".
OneOrderPerKey ==
    \A a, b \in placed : req[a].key = req[b].key => a = b

\* docs/mvp.md: a retry returns the same order.  All replays of a key show one.
ReplaysAgree ==
    \A a, b \in Attempts :
        /\ answer[a] = "replayed" /\ answer[b] = "replayed"
        /\ req[a].key = req[b].key
        => shown[a] = shown[b]

=============================================================================
