-------------------------- MODULE RateLimiterProofs --------------------------
(***************************************************************************)
(* Proofs about RateLimiter, for any finite set of clients, any addresses, *)
(* limit and window and any number of faults.                              *)
(*                                                                         *)
(* OvershootBounded is an invariant by counting: a login that Allow lets   *)
(* in finds the counter below the limit, and the logins in flight are      *)
(* clients; a recorded failure moves one login from in flight into the     *)
(* counter.  It needs that a missing counter is 0 (AbsentInv).             *)
(* NoTTLOnlyByRace needs that a login about to INCR has a counter, unless  *)
(* the counter went away meanwhile (MidInv).                               *)
(***************************************************************************)
EXTENDS RateLimiter, FiniteSetTheorems, TLAPS

AbsentInv == \A i \in IPs : ttl[i] = Absent => count[i] = 0

MidInv == \A c \in Clients : pc[c] = "incr" /\ ttl[ip[c]] = Absent => ip[c] \in raced

Inv ==
    /\ TypeOK
    /\ AbsentInv
    /\ MidInv
    /\ NoTTLOnlyByRace
    /\ OvershootBounded

-----------------------------------------------------------------------------
(* Counting the logins in flight.                                          *)

LEMMA InFlightSize ==
  ASSUME NEW i
  PROVE  /\ IsFiniteSet(InFlight(i))
         /\ Cardinality(InFlight(i)) \in Nat
         /\ Cardinality(Clients) \in Nat
         /\ Cardinality(InFlight(i)) <= Cardinality(Clients)
<1>1. InFlight(i) \in SUBSET Clients
  BY DEF InFlight
<1>2. IsFiniteSet(InFlight(i)) /\ Cardinality(InFlight(i)) <= Cardinality(Clients)
  BY <1>1, FS_Subset, ClientsAssumption
<1>3. Cardinality(InFlight(i)) \in Nat /\ Cardinality(Clients) \in Nat
  BY <1>2, FS_CardinalityType, ClientsAssumption
<1> QED
  BY <1>2, <1>3

\* A login that is let in is one more in flight, and still no more than clients.
LEMMA Join ==
  ASSUME TypeOK, NEW c \in Clients, NEW i \in IPs, pc[c] = "idle",
         At(c, "login"), ip' = [ip EXCEPT ![c] = i]
  PROVE  /\ Cardinality(InFlight(i)') = Cardinality(InFlight(i)) + 1
         /\ Cardinality(InFlight(i)) + 1 <= Cardinality(Clients)
         /\ \A j \in IPs \ {i} : InFlight(j)' = InFlight(j)
<1>1. InFlight(i)' = InFlight(i) \cup {c} /\ c \notin InFlight(i)
  BY DEF TypeOK, At, InFlight
<1>2. Cardinality(InFlight(i) \cup {c}) = Cardinality(InFlight(i)) + 1
  BY <1>1, InFlightSize, FS_AddElement
<1>3. InFlight(i) \cup {c} \in SUBSET Clients
  BY DEF InFlight
<1>4. Cardinality(InFlight(i) \cup {c}) <= Cardinality(Clients)
  BY <1>3, FS_Subset, ClientsAssumption
<1>5. \A j \in IPs \ {i} : InFlight(j)' = InFlight(j)
  BY DEF TypeOK, At, InFlight
<1> QED
  BY <1>1, <1>2, <1>4, <1>5

\* A login that is answered is one less.
LEMMA Leave ==
  ASSUME TypeOK, NEW c \in Clients, pc[c] # "idle", At(c, "idle"), UNCHANGED ip,
         NEW i \in IPs, i = ip[c]
  PROVE  /\ Cardinality(InFlight(i)') = Cardinality(InFlight(i)) - 1
         /\ \A j \in IPs \ {i} : InFlight(j)' = InFlight(j)
<1>1. InFlight(i)' = InFlight(i) \ {c} /\ c \in InFlight(i)
  BY DEF TypeOK, At, InFlight
<1>2. Cardinality(InFlight(i) \ {c}) = Cardinality(InFlight(i)) - 1
  BY <1>1, InFlightSize, FS_RemoveElement
<1>3. \A j \in IPs \ {i} : InFlight(j)' = InFlight(j)
  BY DEF TypeOK, At, InFlight
<1> QED
  BY <1>1, <1>2, <1>3

\* Any other step of a login leaves the logins in flight as they are.
LEMMA Stay ==
  ASSUME TypeOK, NEW c \in Clients, NEW label, pc[c] # "idle", label # "idle",
         At(c, label), UNCHANGED ip, NEW j
  PROVE  InFlight(j)' = InFlight(j)
  BY DEF TypeOK, At, InFlight

-----------------------------------------------------------------------------
(* Each step keeps the invariant.                                          *)

LEMMA InitInv == Init => Inv
<1> SUFFICES ASSUME Init PROVE Inv
  OBVIOUS
<1>1. TypeOK /\ AbsentInv /\ MidInv /\ NoTTLOnlyByRace
  BY LimitAssumption DEF Init, TypeOK, AbsentInv, MidInv, NoTTLOnlyByRace, Absent, NoTTL
<1>2. Headroom \in Nat
  BY LimitAssumption DEF Headroom
<1>3. OvershootBounded
  BY <1>2, InFlightSize DEF Init, OvershootBounded
<1> QED
  BY <1>1, <1>3 DEF Inv

LEMMA HeadroomType == Headroom \in Nat /\ (Limit > 0 => Headroom = Limit - 1)
  BY LimitAssumption DEF Headroom

\* A counter that Allow finds below the limit has room for the login it lets in.
LEMMA AllowKeeps ==
  ASSUME Inv, NEW c \in Clients, Allow(c)
  PROVE  Inv'
<1> USE LimitAssumption DEF Inv
<1>1. PICK i \in IPs :
        /\ ip' = [ip EXCEPT ![c] = i]
        /\ IF Allows(i) THEN At(c, "login") ELSE UNCHANGED pc
  BY DEF Allow
<1>2. TypeOK' /\ AbsentInv' /\ MidInv' /\ NoTTLOnlyByRace'
  BY <1>1 DEF Allow, At, TypeOK, AbsentInv, MidInv, NoTTLOnlyByRace
<1>3. CASE Allows(i)
  <2>1. At(c, "login") /\ pc[c] = "idle" /\ UNCHANGED <<count, faults>>
    BY <1>1, <1>3 DEF Allow
  <2>2. count[i] <= Headroom
    BY <1>3, HeadroomType DEF Allows, AbsentInv, Absent, TypeOK
  <2>3. /\ Cardinality(InFlight(i)') = Cardinality(InFlight(i)) + 1
        /\ Cardinality(InFlight(i)) + 1 <= Cardinality(Clients)
        /\ \A j \in IPs \ {i} : InFlight(j)' = InFlight(j)
    BY <1>1, <2>1, Join
  <2>4. count'[i] + Cardinality(InFlight(i)') <= Headroom + Cardinality(Clients) + faults'
    BY <2>1, <2>2, <2>3, InFlightSize, HeadroomType DEF TypeOK
  <2>5. \A j \in IPs \ {i} :
          count'[j] + Cardinality(InFlight(j)') <= Headroom + Cardinality(Clients) + faults'
    BY <2>1, <2>3 DEF OvershootBounded
  <2>6. \A j \in IPs :
          count'[j] + Cardinality(InFlight(j)') <= Headroom + Cardinality(Clients) + faults'
    BY <2>4, <2>5
  <2> QED
    BY <1>2, <2>6 DEF OvershootBounded, Headroom
<1>4. CASE ~Allows(i)
  <2>1. \A j \in IPs : InFlight(j)' = InFlight(j)
    BY <1>1, <1>4 DEF Allow, InFlight, TypeOK
  <2> QED
    BY <1>2, <2>1 DEF OvershootBounded, Headroom, Allow
<1> QED
  BY <1>3, <1>4

\* A login that is let in because Redis failed is paid for by the fault.
LEMMA AllowFailsKeeps ==
  ASSUME Inv, NEW c \in Clients, AllowFails(c)
  PROVE  Inv'
<1> USE LimitAssumption DEF Inv
<1>1. PICK i \in IPs : ip' = [ip EXCEPT ![c] = i]
  BY DEF AllowFails
<1>2. TypeOK' /\ AbsentInv' /\ MidInv' /\ NoTTLOnlyByRace'
  BY <1>1 DEF AllowFails, At, TypeOK, AbsentInv, MidInv, NoTTLOnlyByRace
<1>3. At(c, "login") /\ pc[c] = "idle" /\ count' = count /\ faults' = faults + 1
  BY DEF AllowFails
<1>4. /\ Cardinality(InFlight(i)') = Cardinality(InFlight(i)) + 1
      /\ \A j \in IPs \ {i} : InFlight(j)' = InFlight(j)
  BY <1>1, <1>3, Join
<1>5. count'[i] + Cardinality(InFlight(i)') <= Headroom + Cardinality(Clients) + faults'
  BY <1>3, <1>4, InFlightSize, HeadroomType DEF TypeOK, OvershootBounded
<1>6. ASSUME NEW j \in IPs \ {i}
      PROVE  count'[j] + Cardinality(InFlight(j)') <= Headroom + Cardinality(Clients) + faults'
  BY <1>3, <1>4, InFlightSize, HeadroomType DEF TypeOK, OvershootBounded
<1>7. \A j \in IPs :
        count'[j] + Cardinality(InFlight(j)') <= Headroom + Cardinality(Clients) + faults'
  BY <1>5, <1>6
<1> QED
  BY <1>2, <1>7 DEF OvershootBounded, Headroom

LEMMA LoginKeeps ==
  ASSUME Inv, NEW c \in Clients, Login(c)
  PROVE  Inv'
<1> USE LimitAssumption DEF Inv
<1>1. TypeOK' /\ AbsentInv' /\ MidInv' /\ NoTTLOnlyByRace'
  BY DEF Login, At, TypeOK, AbsentInv, MidInv, NoTTLOnlyByRace
<1>2. pc[c] # "idle" /\ UNCHANGED <<count, ip, faults>>
  BY DEF Login
<1>3. ASSUME NEW j \in IPs
      PROVE  Cardinality(InFlight(j)') <= Cardinality(InFlight(j))
  <2>0. ip[c] \in IPs /\ UNCHANGED ip
    BY <1>2 DEF TypeOK
  <2>1. CASE At(c, "idle")
    BY <1>2, <2>1, <2>0, Leave, InFlightSize
  <2>2. CASE At(c, "setnx") \/ At(c, "del")
    BY <1>2, <2>2, Stay, InFlightSize
  <2> QED
    BY <2>1, <2>2 DEF Login
<1>4. ASSUME NEW j \in IPs
      PROVE  IsFiniteSet(InFlight(j)') /\ Cardinality(InFlight(j)') \in Nat
  <2>1. InFlight(j)' \in SUBSET Clients
    BY DEF InFlight
  <2> QED
    BY <2>1, FS_Subset, FS_CardinalityType, ClientsAssumption
<1>5. ASSUME NEW j \in IPs
      PROVE  count'[j] + Cardinality(InFlight(j)')
                 <= Headroom + Cardinality(Clients) + faults'
  BY <1>2, <1>3, <1>4, InFlightSize, HeadroomType DEF OvershootBounded, TypeOK
<1> QED
  BY <1>1, <1>5 DEF OvershootBounded, Headroom

\* What a Redis command may do, whether or not it is acknowledged and sent
\* again: INCR finds its counter gone only after a race.
LEMMA CommandEffect ==
  ASSUME Inv, NEW c \in Clients, Command(c), UNCHANGED ip, faults' \in 0 .. MaxFaults,
         \/ UNCHANGED pc
         \/ At(c, "idle")
         \/ pc[c] = "setnx" /\ At(c, "incr")
  PROVE  /\ TypeOK' /\ AbsentInv' /\ MidInv' /\ NoTTLOnlyByRace'
         /\ count'[ip[c]] <= count[ip[c]] + 1
         /\ \A j \in IPs \ {ip[c]} : count'[j] = count[j]
<1> USE LimitAssumption DEF Inv
<1>1. ip[c] \in IPs
  BY DEF TypeOK
<1>2. pc' \in [Clients -> {"idle", "login", "setnx", "incr", "del"}]
  BY DEF TypeOK, At
<1>3. \A d \in Clients : pc'[d] = "incr" => pc[d] = "incr" \/ (d = c /\ pc[c] = "setnx")
  BY DEF TypeOK, At
<1>4. CASE pc[c] = "setnx" /\ SetNX(ip[c])
  BY <1>1, <1>2, <1>3, <1>4
  DEF SetNX, TypeOK, AbsentInv, MidInv, NoTTLOnlyByRace, Absent, NoTTL
<1>5. CASE pc[c] = "incr" /\ Incr(ip[c])
  <2>1. TypeOK' /\ AbsentInv'
    BY <1>1, <1>2, <1>5 DEF Incr, TypeOK, AbsentInv, Absent, NoTTL
  <2>2. MidInv'
    BY <1>1, <1>3, <1>5 DEF Incr, TypeOK, MidInv, Absent, NoTTL
  <2>3. NoTTLOnlyByRace'
    BY <1>1, <1>5 DEF Incr, TypeOK, MidInv, NoTTLOnlyByRace, Absent, NoTTL
  <2> QED
    BY <1>1, <1>5, <2>1, <2>2, <2>3 DEF Incr, TypeOK
<1>6. CASE pc[c] = "del" /\ Del(ip[c])
  <2>1. TypeOK' /\ AbsentInv' /\ NoTTLOnlyByRace'
    BY <1>1, <1>2, <1>6 DEF Del, TypeOK, AbsentInv, NoTTLOnlyByRace, Absent, NoTTL
  <2>2. ASSUME NEW d \in Clients, pc'[d] = "incr", ttl'[ip[d]] = Absent
        PROVE  ip[d] \in raced'
    <3>1. pc[d] = "incr"
      BY <1>3, <1>6, <2>2
    <3>2. CASE ttl[ip[d]] = Absent
      BY <1>6, <3>1, <3>2 DEF Del, MidInv
    <3>3. CASE ttl[ip[d]] # Absent
      BY <1>1, <1>6, <2>2, <3>1, <3>3 DEF Del, MidRecord, TypeOK
    <3> QED
      BY <3>2, <3>3
  <2>3. MidInv'
    BY <2>2 DEF MidInv
  <2> QED
    BY <1>1, <1>6, <2>1, <2>3 DEF Del, TypeOK
<1> QED
  BY <1>4, <1>5, <1>6 DEF Command

LEMMA CommandDoneKeeps ==
  ASSUME Inv, NEW c \in Clients, CommandDone(c)
  PROVE  Inv'
<1> USE LimitAssumption DEF Inv
<1>0. PICK i \in IPs : i = ip[c]
  BY DEF TypeOK
<1>1. /\ Command(c) /\ UNCHANGED <<ip, faults>>
      /\ pc[c] \in {"setnx", "incr", "del"}
      /\ count \in [IPs -> Nat] /\ faults \in 0 .. MaxFaults
  BY DEF CommandDone, Command, TypeOK
<1>2. (pc[c] = "setnx" /\ At(c, "incr")) \/ (pc[c] # "setnx" /\ At(c, "idle"))
  BY DEF CommandDone
<1>3. /\ TypeOK' /\ AbsentInv' /\ MidInv' /\ NoTTLOnlyByRace'
      /\ count'[i] <= count[i] + 1
      /\ \A j \in IPs \ {i} : count'[j] = count[j]
  BY <1>0, <1>1, <1>2, CommandEffect
<1>4. /\ count'[i] + Cardinality(InFlight(i)') <= Headroom + Cardinality(Clients) + faults'
      /\ \A j \in IPs \ {i} : InFlight(j)' = InFlight(j)
  <2>1. CASE pc[c] = "setnx" /\ At(c, "incr")
    <3>1. \A j \in IPs : InFlight(j)' = InFlight(j)
      BY <1>1, <2>1, Stay
    <3>2. count' = count
      BY <1>1, <2>1 DEF Command, SetNX
    <3> QED
      BY <1>1, <3>1, <3>2 DEF OvershootBounded
  <2>2. CASE pc[c] # "setnx" /\ At(c, "idle")
    <3>1. /\ Cardinality(InFlight(i)') = Cardinality(InFlight(i)) - 1
          /\ \A j \in IPs \ {i} : InFlight(j)' = InFlight(j)
      BY <1>0, <1>1, <2>2, Leave
    <3>2. count'[i] \in Nat
      BY <1>1, <1>3 DEF TypeOK
    <3> QED
      BY <1>1, <1>3, <3>1, <3>2, InFlightSize, HeadroomType DEF OvershootBounded
  <2> QED
    BY <1>2, <2>1, <2>2
<1>5. \A j \in IPs :
        count'[j] + Cardinality(InFlight(j)') <= Headroom + Cardinality(Clients) + faults'
  BY <1>1, <1>3, <1>4 DEF OvershootBounded
<1> QED
  BY <1>3, <1>5 DEF OvershootBounded, Headroom

\* A failure that is counted twice, or not at all, is paid for by the fault.
LEMMA CommandFailsKeeps ==
  ASSUME Inv, NEW c \in Clients, CommandFails(c)
  PROVE  Inv'
<1> USE LimitAssumption DEF Inv
<1>0. PICK i \in IPs : i = ip[c]
  BY DEF TypeOK
<1>1. /\ UNCHANGED ip /\ faults' = faults + 1
      /\ pc[c] \in {"setnx", "incr", "del"}
      /\ count \in [IPs -> Nat] /\ faults \in 0 .. MaxFaults /\ faults' \in 0 .. MaxFaults
      /\ At(c, "idle") \/ UNCHANGED pc
  BY DEF CommandFails, TypeOK
<1>2. /\ TypeOK' /\ AbsentInv' /\ MidInv' /\ NoTTLOnlyByRace'
      /\ count'[i] <= count[i] + 1
      /\ \A j \in IPs \ {i} : count'[j] = count[j]
  <2>1. CASE Command(c)
    BY <1>0, <1>1, <2>1, CommandEffect
  <2>2. CASE UNCHANGED <<count, ttl, raced>>
    <3>1. pc' \in [Clients -> {"idle", "login", "setnx", "incr", "del"}]
      BY <1>1 DEF TypeOK, At
    <3>2. \A d \in Clients : pc'[d] = "incr" => pc[d] = "incr"
      BY <1>1 DEF TypeOK, At
    <3> QED
      BY <1>1, <2>2, <3>1, <3>2 DEF TypeOK, AbsentInv, MidInv, NoTTLOnlyByRace
  <2> QED
    BY <2>1, <2>2 DEF CommandFails
<1>3. /\ Cardinality(InFlight(i)') \in Nat
      /\ Cardinality(InFlight(i)') <= Cardinality(InFlight(i))
      /\ \A j \in IPs \ {i} : InFlight(j)' = InFlight(j)
  <2>1. CASE At(c, "idle")
    <3>1. /\ Cardinality(InFlight(i)') = Cardinality(InFlight(i)) - 1
          /\ \A j \in IPs \ {i} : InFlight(j)' = InFlight(j)
      BY <1>0, <1>1, <2>1, Leave
    <3>2. InFlight(i)' \in SUBSET Clients
      BY DEF InFlight
    <3>3. Cardinality(InFlight(i)') \in Nat
      BY <3>2, FS_Subset, FS_CardinalityType, ClientsAssumption
    <3> QED
      BY <3>1, <3>3, InFlightSize
  <2>2. CASE UNCHANGED pc
    <3>1. \A j : InFlight(j)' = InFlight(j)
      BY <1>1, <2>2 DEF InFlight
    <3> QED
      BY <3>1, InFlightSize
  <2> QED
    BY <1>1, <2>1, <2>2
<1>4. count'[i] + Cardinality(InFlight(i)') <= Headroom + Cardinality(Clients) + faults'
  <2>1. count'[i] \in Nat
    BY <1>1, <1>2 DEF TypeOK
  <2> QED
    BY <1>1, <1>2, <1>3, <2>1, InFlightSize, HeadroomType DEF OvershootBounded
<1>5. ASSUME NEW j \in IPs \ {i}
      PROVE  count'[j] + Cardinality(InFlight(j)') <= Headroom + Cardinality(Clients) + faults'
  BY <1>1, <1>2, <1>3, InFlightSize, HeadroomType DEF OvershootBounded
<1>6. \A j \in IPs :
        count'[j] + Cardinality(InFlight(j)') <= Headroom + Cardinality(Clients) + faults'
  BY <1>4, <1>5
<1> QED
  BY <1>2, <1>6 DEF OvershootBounded, Headroom

\* Expiry under a RecordFailure is the other race.
LEMMA TickKeeps ==
  ASSUME Inv, Tick
  PROVE  Inv'
<1> USE LimitAssumption DEF Inv
<1>1. TypeOK'
  BY DEF Tick, TypeOK, Absent, NoTTL
<1>2. AbsentInv' /\ NoTTLOnlyByRace'
  BY DEF Tick, TypeOK, AbsentInv, NoTTLOnlyByRace, Absent, NoTTL
<1>3. ASSUME NEW d \in Clients, pc[d] = "incr", ttl'[ip[d]] = Absent
      PROVE  ip[d] \in raced'
  <2>1. ip[d] \in IPs /\ (ttl[ip[d]] = Absent \/ ttl[ip[d]] = 1)
    BY <1>3 DEF Tick, TypeOK, Absent, NoTTL
  <2>2. MidRecord(ip[d])
    BY <1>3 DEF MidRecord
  <2> QED
    BY <1>3, <2>1, <2>2 DEF Tick, MidInv
<1>4. MidInv'
  BY <1>3 DEF MidInv, Tick
<1>5. \A j \in IPs : InFlight(j)' = InFlight(j) /\ count'[j] \in Nat /\ count'[j] <= count[j]
  BY DEF Tick, InFlight, TypeOK
<1>6. ASSUME NEW j \in IPs
      PROVE  count'[j] + Cardinality(InFlight(j)') <= Headroom + Cardinality(Clients) + faults'
  BY <1>5, InFlightSize, HeadroomType DEF OvershootBounded, TypeOK, Tick
<1> QED
  BY <1>1, <1>2, <1>4, <1>6 DEF OvershootBounded, Headroom

-----------------------------------------------------------------------------
(* Theorems.                                                               *)

LEMMA StutterKeeps ==
  ASSUME Inv, UNCHANGED vars
  PROVE  Inv'
<1>1. \A j : InFlight(j)' = InFlight(j)
  BY DEF InFlight, vars
<1> QED
  BY <1>1 DEF Inv, TypeOK, AbsentInv, MidInv, NoTTLOnlyByRace, OvershootBounded, Headroom, vars

\* The invariant holds of every reachable state.
THEOREM Invariance == Spec => []Inv
<1>1. Inv /\ [Next]_vars => Inv'
  BY AllowKeeps, AllowFailsKeeps, LoginKeeps, CommandDoneKeeps, CommandFailsKeeps,
     TickKeeps, StutterKeeps DEF Next
<1> QED
  BY InitInv, <1>1, PTL DEF Spec

\* Every variable keeps its type; in particular no counter goes below zero and
\* no TTL beyond the window, whatever fails and is sent again.
THEOREM TypeCorrectness == Spec => []TypeOK
<1>1. Inv => TypeOK
  BY DEF Inv
<1> QED
  BY Invariance, <1>1, PTL

\* The failures of a window exceed the limit by no more than the logins in
\* flight and the Redis commands that failed (Allow and RecordFailure).
THEOREM LimitHolds == Spec => []OvershootBounded
<1>1. Inv => OvershootBounded
  BY DEF Inv
<1> QED
  BY Invariance, <1>1, PTL

\* A counter without a TTL (RecordFailure's INCR) was lost between SET NX and
\* INCR.
THEOREM TTLLostOnlyByRace == Spec => []NoTTLOnlyByRace
<1>1. Inv => NoTTLOnlyByRace
  BY DEF Inv
<1> QED
  BY Invariance, <1>1, PTL

\* No step gives a counter more time: SET NX leaves an existing counter alone
\* and INCR keeps its TTL.
THEOREM WindowsFixed == Spec => WindowFixed
<1>1. ASSUME Inv, [Next]_vars, NEW i \in IPs
      PROVE  WindowStep(i)
  <2> USE LimitAssumption DEF Inv, TypeOK, WindowStep, Absent, NoTTL
  <2>1. ASSUME NEW c \in Clients, Command(c)
        PROVE  WindowStep(i)
    BY <1>1, <2>1 DEF Command, SetNX, Incr, Del
  <2>2. CASE Tick
    BY <1>1, <2>2 DEF Tick
  <2>3. CASE UNCHANGED ttl
    BY <1>1, <2>3
  <2> QED
    BY <1>1, <2>1, <2>2, <2>3
    DEF Next, vars, Allow, AllowFails, Login, CommandDone, CommandFails
<1>2. Inv /\ [Next]_vars => [\A i \in IPs : WindowStep(i)]_vars
  BY <1>1
<1> QED
  BY Invariance, <1>2, PTL DEF Spec, WindowFixed
=============================================================================
