-------------------------- MODULE IdempotencyProofs --------------------------
(***************************************************************************)
(* Proofs about Idempotency, for any number of attempts, keys, users and   *)
(* bodies and for any timeout, clock skew and running time.                *)
(*                                                                         *)
(* The invariant says who may have claimed a key.  The row of a key never  *)
(* changes its user or its hash, so every attempt that was told New has    *)
(* the row's user and hash (ClaimInv); its claim is not younger than the   *)
(* row's created_at.  A takeover compares created_at with a cutoff that    *)
(* was at most now + Skew - Stale when it was taken and has only become    *)
(* older since (PcInv), hence it comes late after every earlier claim.     *)
(***************************************************************************)
EXTENDS Idempotency, TLAPS

ClaimInv ==
    \A a \in Attempts : claimedAt[a] # Never =>
        /\ pc[a] \in {"run", "save", "done"}
        /\ keys[req[a].key].user = req[a].user
        /\ keys[req[a].key].hash = req[a].hash
        /\ claimedAt[a] <= keys[req[a].key].createdAt

CreatedInv == \A k \in Keys : keys[k].createdAt <= now

PcInv ==
    \A a \in Attempts :
        /\ pc[a] # "idle" => req[a] \in Request
        /\ pc[a] = "idle" => answer[a] = "none"
        /\ pc[a] \in {"cutoff", "reclaim"} =>
            keys[req[a].key].user = req[a].user /\ keys[req[a].key].hash = req[a].hash
        /\ pc[a] = "reclaim" => cutoff[a] <= now + Skew - Stale
        /\ Running(a) => claimedAt[a] # Never
        /\ pc[a] = "save" => a \in placed

PlacedInv == \A a \in placed : claimedAt[a] # Never

ResponseInv ==
    \A k \in Keys : keys[k].response # None =>
        keys[k].response \in placed /\ req[keys[k].response].key = k

Inv ==
    /\ TypeOK
    /\ ClaimInv
    /\ CreatedInv
    /\ PcInv
    /\ PlacedInv
    /\ ResponseInv
    /\ ClaimsSpaced
    /\ ReplayFaithful

LEMMA InitInv == Init => Inv
  BY TimeAssumption, NoneAssumption
  DEF Init, Inv, TypeOK, ClaimInv, CreatedInv, PcInv, PlacedInv, ResponseInv, ClaimsSpaced,
      ReplayFaithful, BothClaimed, Running, Row, NoRow, Never, Answers

\* INSERT ... ON CONFLICT DO NOTHING claims a key nobody has claimed.
LEMMA ClaimKeeps ==
  ASSUME Inv, NEW a \in Attempts, Claim(a)
  PROVE  Inv'
<1> USE TimeAssumption, NoneAssumption
<1>1. PICK r \in Request :
        /\ req' = [req EXCEPT ![a] = r]
        /\ \/ /\ keys[r.key].user = None
              /\ keys' = [keys EXCEPT ![r.key] =
                    [user |-> r.user, hash |-> r.hash, response |-> None, createdAt |-> now]]
              /\ Claimed(a)
           \/ /\ keys[r.key].user # None
              /\ pc' = [pc EXCEPT ![a] = "lookup"]
              /\ UNCHANGED <<keys, claimedAt>>
  BY DEF Claim
<1>2. pc[a] = "idle" /\ UNCHANGED <<now, cutoff, placed, answer, shown>>
  BY DEF Claim
<1>3. /\ req' \in [Attempts -> Request \cup {None}] /\ req'[a] = r
      /\ \A b \in Attempts : b # a => req'[b] = req[b]
  BY <1>1 DEF Inv, TypeOK
<1>4. claimedAt[a] = Never /\ a \notin placed /\ answer[a] = "none"
  BY <1>2 DEF Inv, ClaimInv, PcInv, PlacedInv
<1>5. CASE keys[r.key].user # None
  <2>1. UNCHANGED <<keys, claimedAt>> /\ pc' = [pc EXCEPT ![a] = "lookup"]
    BY <1>1, <1>5
  <2>2. TypeOK'
    BY <1>2, <1>3, <2>1 DEF Inv, TypeOK
  <2>3. ClaimInv' /\ CreatedInv' /\ PcInv' /\ PlacedInv'
    BY <1>2, <1>3, <1>4, <2>1
    DEF Inv, TypeOK, ClaimInv, CreatedInv, PcInv, PlacedInv, Running
  <2>4. ResponseInv' /\ ClaimsSpaced' /\ ReplayFaithful'
    <3>1. ResponseInv'
      BY <1>2, <1>3, <1>4, <2>1 DEF Inv, TypeOK, ResponseInv
    <3>2. ClaimsSpaced'
      BY <1>3, <1>4, <2>1 DEF Inv, ClaimsSpaced, BothClaimed
    <3>3. ReplayFaithful'
      BY <1>2, <1>3, <1>4 DEF Inv, TypeOK, ReplayFaithful
    <3> QED  BY <3>1, <3>2, <3>3
  <2> QED  BY <2>2, <2>3, <2>4 DEF Inv
<1>6. CASE keys[r.key].user = None
  <2>1. /\ keys' = [keys EXCEPT ![r.key] =
                    [user |-> r.user, hash |-> r.hash, response |-> None, createdAt |-> now]]
        /\ pc' = [pc EXCEPT ![a] = "run"]
        /\ claimedAt' = [claimedAt EXCEPT ![a] = now]
    BY <1>1, <1>6 DEF Claimed
  <2>2. r.key \in Keys /\ r.user \in Users /\ r.hash \in Bodies
    BY DEF Request
  <2>3. TypeOK'
    BY <1>2, <1>3, <2>1, <2>2 DEF Inv, TypeOK, Row
  <2>4. \A b \in Attempts : claimedAt[b] # Never => req[b] \in Request /\ req[b].key # r.key
    BY <1>6 DEF Inv, ClaimInv, PcInv, Request
  <2>5. \A k \in Keys : k # r.key => keys'[k] = keys[k]
    BY <2>1 DEF Inv, TypeOK
  <2>6. /\ keys'[r.key].user = r.user /\ keys'[r.key].hash = r.hash
        /\ keys'[r.key].response = None /\ keys'[r.key].createdAt = now
    BY <2>1, <2>2 DEF Inv, TypeOK
  <2>7. now \in Nat /\ claimedAt'[a] = now
        /\ \A b \in Attempts : b # a => claimedAt'[b] = claimedAt[b]
    BY <2>1 DEF Inv, TypeOK
  <2>8. \A b \in Attempts : pc[b] \in {"cutoff", "reclaim"} => req[b].key # r.key
    BY <1>6 DEF Inv, PcInv, Request
  <2>9. ClaimInv'
    <3> SUFFICES ASSUME NEW b \in Attempts, claimedAt'[b] # Never
                 PROVE  /\ pc'[b] \in {"run", "save", "done"}
                        /\ keys'[req'[b].key].user = req'[b].user
                        /\ keys'[req'[b].key].hash = req'[b].hash
                        /\ claimedAt'[b] <= keys'[req'[b].key].createdAt
      BY DEF ClaimInv
    <3>1. CASE b = a
      BY <3>1, <1>3, <2>1, <2>6, <2>7 DEF Inv, TypeOK
    <3>2. CASE b # a
      <4>1. req'[b] = req[b] /\ req[b].key \in Keys /\ req[b].key # r.key
        BY <3>2, <1>3, <2>4, <2>7 DEF Request
      <4> QED  BY <3>2, <4>1, <2>1, <2>5, <2>7 DEF Inv, TypeOK, ClaimInv
    <3> QED  BY <3>1, <3>2
  <2>10. CreatedInv'
    BY <1>2, <2>5, <2>6, <2>7 DEF Inv, CreatedInv
  <2>11. PcInv'
    <3> SUFFICES ASSUME NEW b \in Attempts
                 PROVE  PcInv!(b)'
      BY DEF PcInv
    <3>1. CASE b = a
      BY <3>1, <1>2, <1>3, <1>4, <2>1, <2>7 DEF Inv, TypeOK, PcInv, Running, Never
    <3>2. CASE b # a
      <4>1. pc'[b] = pc[b] /\ req'[b] = req[b] /\ claimedAt'[b] = claimedAt[b]
        BY <3>2, <1>3, <2>1, <2>7 DEF Inv, TypeOK
      <4>2. pc[b] \in {"cutoff", "reclaim"} => keys'[req[b].key] = keys[req[b].key]
        BY <2>5, <2>8 DEF Inv, PcInv, Request
      <4> QED  BY <4>1, <4>2, <1>2 DEF Inv, PcInv, Running
    <3> QED  BY <3>1, <3>2
  <2>12. PlacedInv'
    BY <1>2, <1>4, <2>7 DEF Inv, TypeOK, PlacedInv, Never
  <2>13. ResponseInv'
    <3> SUFFICES ASSUME NEW k \in Keys, keys'[k].response # None
                 PROVE  keys'[k].response \in placed' /\ req'[keys'[k].response].key = k
      BY DEF ResponseInv
    <3>1. k # r.key
      BY <2>6
    <3> QED  BY <3>1, <1>2, <1>3, <1>4, <2>5 DEF Inv, TypeOK, ResponseInv
  <2>14. ClaimsSpaced'
    BY <1>3, <2>4, <2>7 DEF Inv, ClaimsSpaced, BothClaimed
  <2>15. ReplayFaithful'
    BY <1>2, <1>3, <1>4 DEF Inv, TypeOK, ReplayFaithful
  <2> QED  BY <2>3, <2>9, <2>10, <2>11, <2>12, <2>13, <2>14, <2>15 DEF Inv
<1> QED  BY <1>5, <1>6

\* A step that only moves one attempt past the table keeps what the row says.
LEMMA LookupKeeps ==
  ASSUME Inv, NEW a \in Attempts, Lookup(a)
  PROVE  Inv'
<1> USE TimeAssumption, NoneAssumption
<1> DEFINE row == keys[req[a].key]
<1>1. /\ pc[a] = "lookup"
      /\ UNCHANGED <<now, keys, req, cutoff, claimedAt, placed>>
      /\ req[a] \in Request /\ req[a].key \in Keys
  BY DEF Lookup, Inv, PcInv, Request
<1>2. claimedAt[a] = Never
  BY <1>1 DEF Inv, ClaimInv
<1>3. \/ /\ pc' = [pc EXCEPT ![a] = "cutoff"] /\ UNCHANGED <<answer, shown>>
         /\ row.user = req[a].user /\ row.hash = req[a].hash
      \/ \E kind \in {"error", "mismatch"} : Reply(a, kind, None)
      \/ /\ Reply(a, "replayed", row.response)
         /\ row.user = req[a].user /\ row.hash = req[a].hash /\ row.response # None
  BY DEF Lookup, OwnRow
<1>4. row.response \in Attempts \cup {None}
  BY <1>1 DEF Inv, TypeOK, Row
<1>5. TypeOK'
  BY <1>1, <1>3, <1>4 DEF Inv, TypeOK, Reply, Answers
<1>6. ClaimInv' /\ CreatedInv' /\ PlacedInv' /\ ResponseInv' /\ ClaimsSpaced'
  BY <1>1, <1>2, <1>3
  DEF Inv, TypeOK, Reply, ClaimInv, CreatedInv, PlacedInv, ResponseInv, ClaimsSpaced, BothClaimed
<1>7. PcInv'
  BY <1>1, <1>3 DEF Inv, TypeOK, Reply, PcInv, Running
<1>8. row.response # None /\ row.user = req[a].user /\ row.hash = req[a].hash =>
        row.response \in placed /\ req[row.response] = req[a]
  <2> HAVE row.response # None /\ row.user = req[a].user /\ row.hash = req[a].hash
  <2>1. row.response \in placed /\ req[row.response].key = req[a].key
    BY <1>1 DEF Inv, ResponseInv
  <2>2. row.response \in Attempts /\ claimedAt[row.response] # Never
    BY <2>1 DEF Inv, TypeOK, PlacedInv
  <2>3. /\ req[row.response].user = req[a].user
        /\ req[row.response].hash = req[a].hash
        /\ req[row.response] \in Request
    BY <2>1, <2>2 DEF Inv, ClaimInv, PcInv
  <2> QED  BY <1>1, <2>1, <2>3 DEF Request
<1>9. ReplayFaithful'
  BY <1>1, <1>3, <1>8 DEF Inv, TypeOK, Reply, ReplayFaithful
<1> QED  BY <1>5, <1>6, <1>7, <1>9 DEF Inv

LEMMA TakeCutoffKeeps ==
  ASSUME Inv, NEW a \in Attempts, TakeCutoff(a)
  PROVE  Inv'
<1> USE TimeAssumption
<1>1. TypeOK'
  BY DEF TakeCutoff, Inv, TypeOK
<1>2. ClaimInv' /\ CreatedInv' /\ PlacedInv' /\ ResponseInv' /\ ClaimsSpaced' /\ ReplayFaithful'
  BY DEF TakeCutoff, Inv, TypeOK, ClaimInv, CreatedInv, PlacedInv, ResponseInv, ClaimsSpaced,
         BothClaimed, ReplayFaithful
<1>3. PcInv'
  BY DEF TakeCutoff, Inv, TypeOK, PcInv, Running
<1> QED  BY <1>1, <1>2, <1>3 DEF Inv

\* A takeover comes more than Stale - Skew after every claim on its key: the
\* latest of them is the row's created_at, which is before the cutoff.
LEMMA TakeoverIsLate ==
  ASSUME Inv, NEW a \in Attempts, pc[a] = "reclaim", StaleRow(a),
         NEW b \in Attempts, claimedAt[b] # Never, req[b].key = req[a].key
  PROVE  now > claimedAt[b] + Stale - Skew
<1>1. claimedAt[b] <= keys[req[a].key].createdAt /\ keys[req[a].key].createdAt < cutoff[a]
  BY DEF Inv, ClaimInv, StaleRow
<1>2. cutoff[a] <= now + Skew - Stale
  BY DEF Inv, PcInv
<1>3. /\ claimedAt[b] \in Int /\ keys[req[a].key].createdAt \in Int
      /\ cutoff[a] \in Int /\ now \in Int
  BY DEF Inv, TypeOK, PcInv, Row, Request, Never
<1> QED  BY <1>1, <1>2, <1>3, TimeAssumption

LEMMA ReclaimKeeps ==
  ASSUME Inv, NEW a \in Attempts, Reclaim(a)
  PROVE  Inv'
<1> USE TimeAssumption, NoneAssumption
<1> DEFINE k == req[a].key
<1>1. /\ pc[a] = "reclaim" /\ UNCHANGED <<now, req, cutoff, placed>>
      /\ req[a] \in Request /\ k \in Keys
      /\ keys[k].user = req[a].user /\ keys[k].hash = req[a].hash
  BY DEF Reclaim, Inv, PcInv, Request
<1>2. claimedAt[a] = Never /\ a \notin placed
  BY <1>1 DEF Inv, ClaimInv, PlacedInv
<1>3. CASE ~StaleRow(a)
  <2>1. Reply(a, "inProgress", None) /\ UNCHANGED <<keys, claimedAt>>
    BY <1>3 DEF Reclaim
  <2>2. TypeOK'
    BY <1>1, <2>1 DEF Inv, TypeOK, Reply, Answers
  <2>3. ClaimInv' /\ CreatedInv' /\ PlacedInv' /\ ResponseInv' /\ ClaimsSpaced'
    BY <1>1, <1>2, <2>1
    DEF Inv, TypeOK, Reply, ClaimInv, CreatedInv, PlacedInv, ResponseInv, ClaimsSpaced, BothClaimed
  <2>4. PcInv' /\ ReplayFaithful'
    BY <1>1, <2>1 DEF Inv, TypeOK, Reply, PcInv, Running, ReplayFaithful
  <2> QED  BY <2>2, <2>3, <2>4 DEF Inv
<1>4. CASE StaleRow(a)
  <2>1. /\ keys' = [keys EXCEPT ![k].hash = req[a].hash, ![k].createdAt = now]
        /\ pc' = [pc EXCEPT ![a] = "run"]
        /\ claimedAt' = [claimedAt EXCEPT ![a] = now]
        /\ UNCHANGED <<answer, shown>>
    BY <1>4 DEF Reclaim, Claimed
  <2>2. /\ keys' \in [Keys -> Row]
        /\ keys'[k].user = keys[k].user /\ keys'[k].hash = keys[k].hash
        /\ keys'[k].response = keys[k].response /\ keys'[k].createdAt = now
        /\ \A j \in Keys : j # k => keys'[j] = keys[j]
    BY <1>1, <2>1 DEF Inv, TypeOK, Row, Request
  <2>3. /\ now \in Nat /\ claimedAt'[a] = now
        /\ \A b \in Attempts : b # a => claimedAt'[b] = claimedAt[b]
    BY <2>1 DEF Inv, TypeOK
  <2>4. TypeOK'
    BY <1>1, <2>1, <2>2, <2>3 DEF Inv, TypeOK
  <2>5. \A j \in Keys : /\ keys'[j].user = keys[j].user /\ keys'[j].hash = keys[j].hash
                        /\ keys'[j].response = keys[j].response
                        /\ keys[j].createdAt <= keys'[j].createdAt
                        /\ keys'[j].createdAt <= now
    BY <2>2, <2>3 DEF Inv, TypeOK, CreatedInv, Row
  <2>6. ClaimInv'
    <3> SUFFICES ASSUME NEW b \in Attempts, claimedAt'[b] # Never
                 PROVE  /\ pc'[b] \in {"run", "save", "done"}
                        /\ keys'[req[b].key].user = req[b].user
                        /\ keys'[req[b].key].hash = req[b].hash
                        /\ claimedAt'[b] <= keys'[req[b].key].createdAt
      BY <1>1 DEF ClaimInv
    <3>1. CASE b = a
      BY <3>1, <1>1, <2>1, <2>2, <2>3 DEF Inv, TypeOK
    <3>2. CASE b # a
      <4>1. /\ claimedAt'[b] = claimedAt[b] /\ claimedAt[b] # Never /\ pc'[b] = pc[b]
            /\ claimedAt[b] \in Int
        BY <3>2, <2>1, <2>3 DEF Inv, TypeOK, Never
      <4>2. req[b].key \in Keys
        BY <4>1 DEF Inv, ClaimInv, PcInv, Request
      <4>3. keys[req[b].key].createdAt \in Int /\ keys'[req[b].key].createdAt \in Int
        BY <4>2, <2>2 DEF Inv, TypeOK, Row
      <4> QED  BY <4>1, <4>2, <4>3, <2>5 DEF Inv, ClaimInv
    <3> QED  BY <3>1, <3>2
  <2>7. CreatedInv' /\ PlacedInv' /\ ResponseInv'
    BY <1>1, <1>2, <2>3, <2>5 DEF Inv, TypeOK, CreatedInv, PlacedInv, ResponseInv, Never
  <2>8. PcInv'
    <3>1. \A b \in Attempts : pc[b] # "idle" => req[b].key \in Keys
      BY DEF Inv, PcInv, Request
    <3> QED  BY <3>1, <1>1, <2>1, <2>3, <2>5 DEF Inv, TypeOK, PcInv, Running, Never
  <2>9. ClaimsSpaced'
    <3>1. \A b \in Attempts : claimedAt[b] # Never /\ req[b].key = k =>
                now > claimedAt[b] + Stale - Skew
      BY <1>1, <1>4, TakeoverIsLate
    <3> QED  BY <3>1, <1>1, <2>3 DEF Inv, ClaimsSpaced, BothClaimed
  <2>10. ReplayFaithful'
    BY <1>1, <2>1 DEF Inv, ReplayFaithful
  <2> QED  BY <2>4, <2>6, <2>7, <2>8, <2>9, <2>10 DEF Inv
<1> QED  BY <1>3, <1>4

LEMMA CreateOrderKeeps ==
  ASSUME Inv, NEW a \in Attempts, CreateOrder(a)
  PROVE  Inv'
<1> USE TimeAssumption, NoneAssumption
<1>1. /\ pc[a] = "run" /\ UNCHANGED <<now, keys, req, cutoff, claimedAt>>
      /\ claimedAt[a] # Never /\ req[a] \in Request
  BY DEF CreateOrder, Inv, PcInv, Running
<1>2. placed' \in {placed, placed \cup {a}}
  BY DEF CreateOrder
<1>3. \/ pc' = [pc EXCEPT ![a] = "save"] /\ a \in placed' /\ UNCHANGED <<answer, shown>>
      \/ \E kind \in {"refused", "error"} : Reply(a, kind, None)
  BY DEF CreateOrder
<1>4. TypeOK'
  BY <1>1, <1>2, <1>3 DEF Inv, TypeOK, Reply, Answers
<1>5. ClaimInv' /\ CreatedInv' /\ PlacedInv' /\ ResponseInv' /\ ClaimsSpaced'
  BY <1>1, <1>2, <1>3
  DEF Inv, TypeOK, Reply, ClaimInv, CreatedInv, PlacedInv, ResponseInv, ClaimsSpaced, BothClaimed
<1>6. PcInv'
  BY <1>1, <1>2, <1>3 DEF Inv, TypeOK, Reply, PcInv, Running
<1>7. ReplayFaithful'
  BY <1>1, <1>2, <1>3 DEF Inv, TypeOK, Reply, ReplayFaithful
<1> QED  BY <1>4, <1>5, <1>6, <1>7 DEF Inv

LEMMA SaveResponseKeeps ==
  ASSUME Inv, NEW a \in Attempts, SaveResponse(a)
  PROVE  Inv'
<1> USE TimeAssumption, NoneAssumption
<1>1. /\ pc[a] = "save" /\ UNCHANGED <<now, req, cutoff, claimedAt, placed>>
      /\ Reply(a, "created", a)
      /\ claimedAt[a] # Never /\ a \in placed /\ req[a] \in Request /\ req[a].key \in Keys
  BY DEF SaveResponse, Inv, PcInv, Running, Request
<1>2. /\ keys' \in [Keys -> Row]
      /\ \A k \in Keys : /\ keys'[k].user = keys[k].user /\ keys'[k].hash = keys[k].hash
                         /\ keys'[k].createdAt = keys[k].createdAt
                         /\ \/ keys'[k].response = keys[k].response
                            \/ keys'[k].response = a /\ k = req[a].key
  <2>1. \/ keys' = keys
        \/ keys' = [keys EXCEPT ![req[a].key].response = a]
    BY DEF SaveResponse, UpdateIdempotency
  <2> QED  BY <1>1, <2>1 DEF Inv, TypeOK, Row
<1>3. TypeOK'
  BY <1>1, <1>2 DEF Inv, TypeOK, Reply, Answers
<1>4. \A b \in Attempts : pc[b] # "idle" => req[b].key \in Keys
  BY DEF Inv, PcInv, Request
<1>5. ClaimInv' /\ CreatedInv' /\ PlacedInv' /\ ResponseInv' /\ ClaimsSpaced'
  <2>1. ClaimInv'
    BY <1>1, <1>2, <1>4 DEF Inv, TypeOK, Reply, ClaimInv
  <2>2. CreatedInv' /\ PlacedInv' /\ ResponseInv'
    BY <1>1, <1>2 DEF Inv, CreatedInv, PlacedInv, ResponseInv
  <2>3. ClaimsSpaced'
    BY <1>1 DEF Inv, ClaimsSpaced, BothClaimed
  <2> QED  BY <2>1, <2>2, <2>3
<1>6. PcInv'
  BY <1>1, <1>2, <1>4 DEF Inv, TypeOK, Reply, PcInv, Running
<1>7. ReplayFaithful'
  BY <1>1 DEF Inv, TypeOK, Reply, ReplayFaithful
<1> QED  BY <1>3, <1>5, <1>6, <1>7 DEF Inv

LEMMA LostKeeps ==
  ASSUME Inv, NEW a \in Attempts, Lost(a)
  PROVE  Inv'
<1> USE NoneAssumption
<1>1. TypeOK'
  BY DEF Lost, Reply, Inv, TypeOK, Answers
<1>2. ClaimInv' /\ CreatedInv' /\ PlacedInv' /\ ResponseInv' /\ ClaimsSpaced'
  BY DEF Lost, Reply, Inv, TypeOK, ClaimInv, CreatedInv, PlacedInv, ResponseInv, ClaimsSpaced,
         BothClaimed
<1>3. PcInv' /\ ReplayFaithful'
  BY DEF Lost, Reply, Inv, TypeOK, PcInv, Running, ReplayFaithful
<1> QED  BY <1>1, <1>2, <1>3 DEF Inv

LEMMA TickKeeps ==
  ASSUME Inv, Tick
  PROVE  Inv'
<1> USE TimeAssumption
<1>1. TypeOK' /\ now \in Nat /\ now' = now + 1
  BY DEF Tick, Inv, TypeOK
<1>2. ClaimInv' /\ PlacedInv' /\ ResponseInv' /\ ClaimsSpaced' /\ ReplayFaithful'
  BY DEF Tick, Inv, ClaimInv, PlacedInv, ResponseInv, ClaimsSpaced, BothClaimed, ReplayFaithful
<1>3. CreatedInv' /\ PcInv'
  BY <1>1 DEF Tick, Inv, TypeOK, Row, CreatedInv, PcInv, Running
<1> QED  BY <1>1, <1>2, <1>3 DEF Inv

LEMMA StutterKeeps ==
  ASSUME Inv, UNCHANGED vars
  PROVE  Inv'
<1>1. TypeOK' /\ CreatedInv' /\ PcInv'
  BY DEF vars, Inv, TypeOK, CreatedInv, PcInv, Running
<1>2. ClaimInv' /\ PlacedInv' /\ ResponseInv' /\ ClaimsSpaced' /\ ReplayFaithful'
  BY DEF vars, Inv, ClaimInv, PlacedInv, ResponseInv, ClaimsSpaced, BothClaimed, ReplayFaithful
<1> QED  BY <1>1, <1>2 DEF Inv

LEMMA NextKeeps == Inv /\ [Next]_vars => Inv'
<1> SUFFICES ASSUME Inv, [Next]_vars
             PROVE  Inv'
  OBVIOUS
<1>1. ASSUME NEW a \in Attempts,
             \/ Claim(a) \/ Lookup(a) \/ TakeCutoff(a) \/ Reclaim(a)
             \/ CreateOrder(a) \/ SaveResponse(a) \/ Lost(a)
      PROVE  Inv'
  BY <1>1, ClaimKeeps, LookupKeeps, TakeCutoffKeeps, ReclaimKeeps, CreateOrderKeeps,
     SaveResponseKeeps, LostKeeps
<1> QED  BY <1>1, TickKeeps, StutterKeeps DEF Next, Quiescent

\* The inductive invariant holds in every reachable state.
THEOREM Invariance == Spec => []Inv
  BY InitInv, NextKeeps, PTL DEF Spec

\* Every variable keeps its type under any faults and any clock skew; in
\* particular what a key replays is an attempt's order, never anything else.
THEOREM TypeCorrectness == Spec => []TypeOK
<1>1. Inv => TypeOK
  BY DEF Inv
<1> QED  BY <1>1, Invariance, PTL

\* In-flight requests are protected: two attempts that CheckAndClaim tells New
\* under one key are more than staleClaimTimeout apart, less the clock skew.
THEOREM ExclusiveClaims == Spec => []ClaimsSpaced
<1>1. Inv => ClaimsSpaced
  BY DEF Inv
<1> QED  BY <1>1, Invariance, PTL

\* What the middleware replays is a committed order of the same user, key and
\* body, with every fault and every interleaving.
THEOREM FaithfulReplays == Spec => []ReplayFaithful
<1>1. Inv => ReplayFaithful
  BY DEF Inv
<1> QED  BY <1>1, Invariance, PTL

\* Only the insert of a fresh row and the takeover of an unanswered one tell an
\* attempt New, and no statement empties a response.
LEMMA StepsKeepKeysClosed ==
  ASSUME Inv, [Next]_vars, NEW k \in Keys
  PROVE  ClosedStep(k)
<1> USE NoneAssumption
<1> SUFFICES ASSUME keys[k].response # None
             PROVE  /\ keys'[k].response # None
                    /\ \A b \in Attempts : claimedAt'[b] # claimedAt[b] => req'[b].key # k
  BY DEF ClosedStep
<1>1. keys[k].user # None
  <2>1. keys[k].response \in placed /\ req[keys[k].response].key = k
    BY DEF Inv, ResponseInv
  <2>2. keys[k].response \in Attempts /\ claimedAt[keys[k].response] # Never
    BY <2>1 DEF Inv, TypeOK, PlacedInv
  <2>3. req[keys[k].response] \in Request /\ keys[k].user = req[keys[k].response].user
    BY <2>1, <2>2 DEF Inv, ClaimInv, PcInv
  <2> QED  BY <2>3 DEF Request
<1>2. CASE UNCHANGED <<keys, claimedAt>>
  BY <1>2
<1>3. ASSUME NEW a \in Attempts, Claim(a)
      PROVE  /\ keys'[k].response # None
             /\ \A b \in Attempts : claimedAt'[b] # claimedAt[b] => req'[b].key # k
  <2>1. PICK r \in Request :
          /\ req' = [req EXCEPT ![a] = r]
          /\ \/ /\ keys[r.key].user = None
                /\ keys' = [keys EXCEPT ![r.key] =
                      [user |-> r.user, hash |-> r.hash, response |-> None, createdAt |-> now]]
                /\ Claimed(a)
             \/ UNCHANGED <<keys, claimedAt>>
    BY <1>3 DEF Claim
  <2>2. CASE UNCHANGED <<keys, claimedAt>>
    BY <2>2
  <2>3. CASE keys[r.key].user = None /\ Claimed(a) /\ keys' = [keys EXCEPT ![r.key] =
                [user |-> r.user, hash |-> r.hash, response |-> None, createdAt |-> now]]
    <3>1. r.key # k /\ req'[a].key = r.key
      BY <1>1, <2>1, <2>3 DEF Inv, TypeOK
    <3>2. \A b \in Attempts : b # a => claimedAt'[b] = claimedAt[b]
      BY <2>3 DEF Claimed, Inv, TypeOK
    <3>3. keys'[k] = keys[k]
      BY <2>3, <3>1 DEF Inv, TypeOK
    <3> QED  BY <3>1, <3>2, <3>3
  <2> QED  BY <2>1, <2>2, <2>3
<1>4. ASSUME NEW a \in Attempts, Reclaim(a), StaleRow(a)
      PROVE  /\ keys'[k].response # None
             /\ \A b \in Attempts : claimedAt'[b] # claimedAt[b] => req'[b].key # k
  <2>1. /\ req[a].key # k /\ req' = req
        /\ keys' = [keys EXCEPT ![req[a].key].hash = req[a].hash,
                                ![req[a].key].createdAt = now]
        /\ claimedAt' = [claimedAt EXCEPT ![a] = now]
    BY <1>4 DEF Reclaim, StaleRow, Claimed
  <2>2. keys'[k] = keys[k] /\ \A b \in Attempts : b # a => claimedAt'[b] = claimedAt[b]
    BY <2>1 DEF Inv, TypeOK
  <2> QED  BY <2>1, <2>2
<1>5. ASSUME NEW a \in Attempts, SaveResponse(a)
      PROVE  keys'[k].response # None /\ claimedAt' = claimedAt
  BY <1>5 DEF SaveResponse, UpdateIdempotency, Inv, TypeOK, Row
<1>6. ASSUME NEW a \in Attempts,
             \/ Lookup(a) \/ TakeCutoff(a) \/ CreateOrder(a) \/ Lost(a)
             \/ Reclaim(a) /\ ~StaleRow(a)
      PROVE  UNCHANGED <<keys, claimedAt>>
  BY <1>6 DEF Lookup, TakeCutoff, CreateOrder, Lost, Reclaim
<1>7. Tick \/ Quiescent \/ UNCHANGED vars => UNCHANGED <<keys, claimedAt>>
  BY DEF Tick, Quiescent, vars
<1> QED  BY <1>2, <1>3, <1>4, <1>5, <1>6, <1>7 DEF Next

\* A saved response closes its key for good: nobody is told New under it again,
\* whenever they read the row.
THEOREM ClosedKeys == Spec => SavedKeyIsClosed
<1>1. Inv /\ [Next]_vars => [\A k \in Keys : ClosedStep(k)]_vars
  BY StepsKeepKeysClosed
<1> QED  BY <1>1, Invariance, PTL DEF Spec, SavedKeyIsClosed

-----------------------------------------------------------------------------
(* One order per key, when no statement fails and every handler is done    *)
(* before its claim may be taken over.  A takeover then finds no attempt   *)
(* of its key at work and no order placed: a handler at work has a claim   *)
(* too young, and a placed order has its response saved.                   *)

Busy(a) == Running(a) \/ a \in placed

PromptInv ==
    /\ \A a \in Attempts : Running(a) => now <= claimedAt[a] + MaxRun
    /\ \A a \in placed : pc[a] = "save" \/ keys[req[a].key].response # None
    /\ \A a, b \in Attempts : BothClaimed(a, b) => ~Busy(a) \/ ~Busy(b)

LEMMA PromptInit == Init => PromptInv
  BY DEF Init, PromptInv, Running, BothClaimed

LEMMA PromptNext ==
  ASSUME ~Faults, MaxRun + Skew <= Stale, Inv, PromptInv, [Next]_vars
  PROVE  PromptInv'
<1> USE TimeAssumption, NoneAssumption
<1>0. Inv'
  BY NextKeeps
<1>1. ASSUME NEW a \in Attempts, Claim(a)
      PROVE  PromptInv'
  <2>1. PICK r \in Request :
          /\ req' = [req EXCEPT ![a] = r]
          /\ \/ /\ keys[r.key].user = None
                /\ keys' = [keys EXCEPT ![r.key] =
                      [user |-> r.user, hash |-> r.hash, response |-> None, createdAt |-> now]]
                /\ Claimed(a)
             \/ /\ pc' = [pc EXCEPT ![a] = "lookup"]
                /\ UNCHANGED <<keys, claimedAt>>
    BY <1>1 DEF Claim
  <2>2. pc[a] = "idle" /\ UNCHANGED <<now, placed>>
    BY <1>1 DEF Claim
  <2>3. claimedAt[a] = Never /\ a \notin placed
    BY <2>2 DEF Inv, ClaimInv, PlacedInv
  <2>4. req'[a] = r /\ \A b \in Attempts : b # a => req'[b] = req[b]
    BY <2>1 DEF Inv, TypeOK
  <2>5. CASE pc' = [pc EXCEPT ![a] = "lookup"] /\ UNCHANGED <<keys, claimedAt>>
    BY <2>2, <2>3, <2>4, <2>5 DEF Inv, TypeOK, PromptInv, Running, Busy, BothClaimed
  <2>6. CASE keys[r.key].user = None /\ Claimed(a) /\ keys' = [keys EXCEPT ![r.key] =
                [user |-> r.user, hash |-> r.hash, response |-> None, createdAt |-> now]]
    <3>1. \A b \in Attempts : claimedAt[b] # Never => req[b].key \in Keys /\ req[b].key # r.key
      BY <2>6 DEF Inv, ClaimInv, PcInv, Request
    <3>2. /\ now \in Nat /\ claimedAt'[a] = now /\ pc'[a] = "run"
          /\ \A b \in Attempts : b # a => claimedAt'[b] = claimedAt[b] /\ pc'[b] = pc[b]
      BY <2>6 DEF Claimed, Inv, TypeOK
    <3>3. \A k \in Keys : k # r.key => keys'[k] = keys[k]
      BY <2>6 DEF Inv, TypeOK
    <3>4. \A b \in Attempts : Running(b)' => now' <= claimedAt'[b] + MaxRun
      BY <2>2, <3>2 DEF PromptInv, Running
    <3>5. \A b \in placed' : pc'[b] = "save" \/ keys'[req'[b].key].response # None
      BY <2>2, <2>3, <2>4, <3>1, <3>2, <3>3 DEF Inv, TypeOK, PlacedInv, PromptInv
    <3>6. \A b, c \in Attempts : BothClaimed(b, c)' => ~Busy(b)' \/ ~Busy(c)'
      BY <2>2, <2>3, <2>4, <3>1, <3>2 DEF PromptInv, BothClaimed, Busy, Running
    <3> QED  BY <3>4, <3>5, <3>6 DEF PromptInv
  <2> QED  BY <2>1, <2>5, <2>6
<1>2. ASSUME NEW a \in Attempts, Reclaim(a), StaleRow(a)
      PROVE  PromptInv'
  <2>1. /\ pc[a] = "reclaim" /\ UNCHANGED <<now, req, placed>>
        /\ req[a].key \in Keys /\ keys[req[a].key].response = None
        /\ keys' = [keys EXCEPT ![req[a].key].hash = req[a].hash,
                                ![req[a].key].createdAt = now]
        /\ pc' = [pc EXCEPT ![a] = "run"]
        /\ claimedAt' = [claimedAt EXCEPT ![a] = now]
    BY <1>2 DEF Reclaim, StaleRow, Claimed, Inv, PcInv, Request
  <2>2. /\ now \in Nat /\ claimedAt'[a] = now /\ pc'[a] = "run"
        /\ \A b \in Attempts : b # a => claimedAt'[b] = claimedAt[b] /\ pc'[b] = pc[b]
        /\ \A k \in Keys : keys'[k].response = keys[k].response
    BY <2>1 DEF Inv, TypeOK, Row
  <2>3. \A b \in Attempts : claimedAt[b] # Never /\ req[b].key = req[a].key => ~Busy(b)
    <3> SUFFICES ASSUME NEW b \in Attempts, claimedAt[b] # Never, req[b].key = req[a].key,
                        Busy(b)
                 PROVE  FALSE
      OBVIOUS
    <3>1. now > claimedAt[b] + Stale - Skew
      BY <1>2, <2>1, TakeoverIsLate
    <3>2. Running(b)
      BY <2>1 DEF Busy, PromptInv, Running
    <3>3. now <= claimedAt[b] + MaxRun /\ claimedAt[b] \in Int
      BY <3>2 DEF PromptInv, Inv, TypeOK, Never
    <3> QED  BY <2>2, <3>1, <3>3
  <2>4. a \notin placed /\ claimedAt[a] = Never
    BY <2>1 DEF Inv, ClaimInv, PlacedInv
  <2>5. \A b \in Attempts : Running(b)' => now' <= claimedAt'[b] + MaxRun
    BY <2>1, <2>2 DEF PromptInv, Running
  <2>6. \A b \in placed' : pc'[b] = "save" \/ keys'[req'[b].key].response # None
    <3>1. \A b \in placed : b \in Attempts /\ claimedAt[b] # Never /\ req[b].key \in Keys
      BY DEF Inv, TypeOK, PlacedInv, ClaimInv, PcInv, Request
    <3> SUFFICES ASSUME NEW b \in placed
                 PROVE  pc'[b] = "save" \/ keys'[req[b].key].response # None
      BY <2>1
    <3>2. b # a /\ pc'[b] = pc[b] /\ keys'[req[b].key].response = keys[req[b].key].response
      BY <3>1, <2>2, <2>4
    <3> QED  BY <3>2 DEF PromptInv
  <2>7. \A b, c \in Attempts : BothClaimed(b, c)' => ~Busy(b)' \/ ~Busy(c)'
    BY <2>1, <2>2, <2>3, <2>4 DEF PromptInv, BothClaimed, Busy, Running
  <2> QED  BY <2>5, <2>6, <2>7 DEF PromptInv
<1>3. ASSUME NEW a \in Attempts, CreateOrder(a)
      PROVE  PromptInv'
  <2>1. /\ pc[a] = "run" /\ UNCHANGED <<now, keys, req, claimedAt>>
        /\ \/ placed' = placed \cup {a} /\ pc' = [pc EXCEPT ![a] = "save"]
           \/ placed' = placed /\ pc' = [pc EXCEPT ![a] = "done"]
    BY <1>3 DEF CreateOrder, Reply
  <2>2. \A b \in Attempts : Busy(b)' => Busy(b)
    BY <2>1 DEF Busy, Running, Inv, TypeOK
  <2> QED  BY <2>1, <2>2 DEF Inv, TypeOK, PromptInv, BothClaimed, Running
<1>4. ASSUME NEW a \in Attempts, SaveResponse(a)
      PROVE  PromptInv'
  <2>1. /\ pc[a] = "save" /\ UNCHANGED <<now, req, claimedAt, placed>>
        /\ pc' = [pc EXCEPT ![a] = "done"]
        /\ keys' = [keys EXCEPT ![req[a].key].response = a]
    BY <1>4 DEF SaveResponse, UpdateIdempotency, Reply
  <2>2. req[a].key \in Keys
    BY <2>1 DEF Inv, PcInv, Request
  <2>3. \A k \in Keys : keys[k].response # None => keys'[k].response # None
    BY <2>1, <2>2 DEF Inv, TypeOK, Row
  <2>4. keys'[req[a].key].response # None
    BY <2>1, <2>2 DEF Inv, TypeOK, Row
  <2>5. \A b \in placed : b \in Attempts /\ req[b].key \in Keys
    BY DEF Inv, TypeOK, PlacedInv, ClaimInv, PcInv, Request
  <2>6. \A b \in placed' : pc'[b] = "save" \/ keys'[req'[b].key].response # None
    BY <2>1, <2>3, <2>4, <2>5 DEF Inv, TypeOK, PromptInv
  <2>7. /\ \A b \in Attempts : Running(b)' => now' <= claimedAt'[b] + MaxRun
        /\ \A b, c \in Attempts : BothClaimed(b, c)' => ~Busy(b)' \/ ~Busy(c)'
    BY <2>1 DEF Inv, TypeOK, PromptInv, BothClaimed, Busy, Running
  <2> QED  BY <2>6, <2>7 DEF PromptInv
<1>5. ASSUME NEW a \in Attempts,
             Lookup(a) \/ TakeCutoff(a) \/ (Reclaim(a) /\ ~StaleRow(a))
      PROVE  PromptInv'
  <2>1. /\ pc[a] \in {"lookup", "cutoff", "reclaim"}
        /\ UNCHANGED <<now, keys, req, claimedAt, placed>>
        /\ \E next \in {"cutoff", "reclaim", "done"} : pc' = [pc EXCEPT ![a] = next]
    BY <1>5 DEF Lookup, TakeCutoff, Reclaim, Reply
  <2> QED  BY <2>1 DEF Inv, TypeOK, PromptInv, BothClaimed, Busy, Running
<1>6. CASE Tick
  BY <1>6 DEF Tick, Inv, TypeOK, Never, PromptInv, BothClaimed, Busy, Running
<1>7. CASE UNCHANGED vars
  BY <1>7 DEF vars, PromptInv, BothClaimed, Busy, Running
<1>8. ASSUME NEW a \in Attempts,
             \/ Claim(a) \/ Lookup(a) \/ TakeCutoff(a) \/ Reclaim(a)
             \/ CreateOrder(a) \/ SaveResponse(a) \/ Lost(a)
      PROVE  PromptInv'
  <2>1. ~Lost(a)
    BY DEF Lost
  <2>2. CASE Reclaim(a)
    <3>1. CASE StaleRow(a)
      BY <2>2, <3>1, <1>2
    <3>2. CASE ~StaleRow(a)
      BY <2>2, <3>2, <1>5
    <3> QED  BY <3>1, <3>2
  <2>3. CASE Claim(a)  BY <2>3, <1>1
  <2>4. CASE Lookup(a) \/ TakeCutoff(a)  BY <2>4, <1>5
  <2>5. CASE CreateOrder(a)  BY <2>5, <1>3
  <2>6. CASE SaveResponse(a)  BY <2>6, <1>4
  <2> QED  BY <1>8, <2>1, <2>2, <2>3, <2>4, <2>5, <2>6
<1> QED  BY <1>6, <1>7, <1>8 DEF Next, Quiescent

\* No duplicate orders on client retries, when nothing fails between the claim
\* and the saved response and no handler outlives staleClaimTimeout less the
\* clock skew.
THEOREM NoDuplicateOrders ==
  ASSUME ~Faults, MaxRun + Skew <= Stale
  PROVE  Spec => []OneOrderPerKey
<1>1. Init => Inv /\ PromptInv
  BY InitInv, PromptInit
<1>2. Inv /\ PromptInv /\ [Next]_vars => (Inv /\ PromptInv)'
  BY NextKeeps, PromptNext
<1>3. Inv /\ PromptInv => OneOrderPerKey
  BY DEF Inv, TypeOK, PlacedInv, PromptInv, BothClaimed, Busy, OneOrderPerKey
<1> QED  BY <1>1, <1>2, <1>3, PTL DEF Spec

\* Under the same assumptions every retry is shown the same order.
THEOREM RetriesAgree ==
  ASSUME ~Faults, MaxRun + Skew <= Stale
  PROVE  Spec => []ReplaysAgree
<1>1. Inv /\ OneOrderPerKey => ReplaysAgree
  BY DEF Inv, ReplayFaithful, OneOrderPerKey, ReplaysAgree
<1> QED  BY <1>1, Invariance, NoDuplicateOrders, PTL
=============================================================================
