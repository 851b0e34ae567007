----------------------------- MODULE RateLimiter -----------------------------
(***************************************************************************)
(* The login rate limiter: the middleware that reads an address's counter, *)
(* the login behind it, and the counter's commands on Redis, with expiry,  *)
(* concurrent logins, commands that fail and commands that are retried.    *)
(*                                                                         *)
(* A client is a connection: it logs in, gets its answer and logs in       *)
(* again, from any address.  Every Redis command is one step.  A counter   *)
(* is a Redis key: its value and the time it has left.                     *)
(***************************************************************************)
EXTENDS Integers, FiniteSets

CONSTANTS
    Clients,   \* logins the server works on at a time
    IPs,       \* addresses that logins come from
    Limit,     \* LOGIN_RATE_LIMIT
    Window,    \* LOGIN_RATE_WINDOW
    MaxFaults  \* bound: Redis commands that fail

ASSUME ClientsAssumption == IsFiniteSet(Clients)

ASSUME LimitAssumption == Limit \in Int /\ Window \in Nat \ {0} /\ MaxFaults \in Nat

VARIABLES
    count,   \* value of an address's counter, 0 while there is none
    ttl,     \* what the counter has left: Absent when there is none
    pc,      \* the command or call a login is at
    ip,      \* the address a login comes from
    faults,  \* Redis commands that failed so far
    raced    \* history: addresses whose counter went away under a RecordFailure

vars == <<count, ttl, pc, ip, faults, raced>>

Absent == 0    \* there is no such key
NoTTL == -1    \* the key never expires

TypeOK ==
    /\ count \in [IPs -> Nat]
    /\ ttl \in [IPs -> {NoTTL, Absent} \cup 1 .. Window]
    /\ pc \in [Clients -> {"idle", "login", "setnx", "incr", "del"}]
    /\ ip \in [Clients -> IPs]
    /\ faults \in 0 .. MaxFaults
    /\ raced \subseteq IPs

Init ==
    /\ count = [i \in IPs |-> 0]
    /\ ttl = [i \in IPs |-> Absent]
    /\ pc = [c \in Clients |-> "idle"]
    /\ ip \in [Clients -> IPs]
    /\ faults = 0
    /\ raced = {}

-----------------------------------------------------------------------------
(* What a command does to the counters.                                    *)

\* RecordFailure is between its two commands on the counter of i.
MidRecord(i) == \E c \in Clients : pc[c] = "incr" /\ ip[c] = i

\* Mutant: SET NX without the TTL.
SetWithoutTTL(i) ==
    /\ ttl' = [ttl EXCEPT ![i] = IF @ = Absent THEN NoTTL ELSE @]
    /\ UNCHANGED <<count, raced>>

\* SET key 0 NX with the window as its TTL.
SetNX(i) ==
    /\ ttl' = [ttl EXCEPT ![i] = IF @ = Absent THEN Window ELSE @]
    /\ UNCHANGED <<count, raced>>

\* Mutant: every failure starts the window again.
IncrAndExpire(i) ==
    /\ count' = [count EXCEPT ![i] = @ + 1]
    /\ ttl' = [ttl EXCEPT ![i] = Window]
    /\ UNCHANGED raced

\* INCR keeps the TTL of its key and creates a missing key without one.
Incr(i) ==
    /\ count' = [count EXCEPT ![i] = @ + 1]
    /\ ttl' = [ttl EXCEPT ![i] = IF @ = Absent THEN NoTTL ELSE @]
    /\ UNCHANGED raced

\* Mutant: a login that succeeds takes one failure back.
Decr(i) ==
    /\ count' = [count EXCEPT ![i] = @ - 1]
    /\ UNCHANGED <<ttl, raced>>

\* DEL key.
Del(i) ==
    /\ count' = [count EXCEPT ![i] = 0]
    /\ ttl' = [ttl EXCEPT ![i] = Absent]
    /\ raced' = raced \cup {j \in {i} : ttl[j] # Absent /\ MidRecord(j)}

\* The command a login is at.
Command(c) ==
    \/ pc[c] = "setnx" /\ SetNX(ip[c])
    \/ pc[c] = "incr" /\ Incr(ip[c])
    \/ pc[c] = "del" /\ Del(ip[c])

-----------------------------------------------------------------------------
(* The steps of a login.                                                   *)

At(c, label) == pc' = [pc EXCEPT ![c] = label]

\* Mutant: one failure more than the limit.
AllowsUpTo(i) == ttl[i] = Absent \/ count[i] <= Limit

\* Allow: a missing counter, or one below the limit.
Allows(i) == ttl[i] = Absent \/ count[i] < Limit

\* LoginRateLimiter, before the handler: GET, then on to the login or a 429.
Allow(c) ==
    /\ pc[c] = "idle"
    /\ \E i \in IPs :
        /\ ip' = [ip EXCEPT ![c] = i]
        /\ IF Allows(i) THEN At(c, "login") ELSE UNCHANGED pc
    /\ UNCHANGED <<count, ttl, faults, raced>>

\* The GET fails: the limiter fails open.
AllowFails(c) ==
    /\ pc[c] = "idle" /\ faults < MaxFaults
    /\ \E i \in IPs : ip' = [ip EXCEPT ![c] = i]
    /\ At(c, "login")
    /\ faults' = faults + 1
    /\ UNCHANGED <<count, ttl, raced>>

\* Login: a bad request or a database error touches no counter, wrong
\* credentials are recorded, the right ones reset the counter.
Login(c) ==
    /\ pc[c] = "login"
    /\ At(c, "idle") \/ At(c, "setnx") \/ At(c, "del")
    /\ UNCHANGED <<count, ttl, ip, faults, raced>>

\* A command succeeds: INCR follows SET NX, the others are the last of a login.
CommandDone(c) ==
    /\ Command(c)
    /\ At(c, IF pc[c] = "setnx" THEN "incr" ELSE "idle")
    /\ UNCHANGED <<ip, faults>>

\* A command fails, before or after it had its effect; the Redis client sends
\* it again, or the handler logs the error and gives its answer regardless.
CommandFails(c) ==
    /\ pc[c] \in {"setnx", "incr", "del"} /\ faults < MaxFaults
    /\ Command(c) \/ UNCHANGED <<count, ttl, raced>>
    /\ At(c, "idle") \/ UNCHANGED pc
    /\ faults' = faults + 1
    /\ UNCHANGED ip

\* Time passes; a counter with no time left is gone.
Tick ==
    /\ \E i \in IPs : ttl[i] > 0
    /\ ttl' = [i \in IPs |-> IF ttl[i] > 0 THEN ttl[i] - 1 ELSE ttl[i]]
    /\ count' = [i \in IPs |-> IF ttl[i] = 1 THEN 0 ELSE count[i]]
    /\ raced' = raced \cup {i \in IPs : ttl[i] = 1 /\ MidRecord(i)}
    /\ UNCHANGED <<pc, ip, faults>>

Next ==
    \/ \E c \in Clients :
        Allow(c) \/ AllowFails(c) \/ Login(c) \/ CommandDone(c) \/ CommandFails(c)
    \/ Tick

Spec == Init /\ [][Next]_vars

\* Time does not stop, and the server executes the logins it has accepted.
Fairness ==
    /\ WF_vars(Tick)
    /\ \A c \in Clients : WF_vars(Login(c) \/ CommandDone(c))

FairSpec == Spec /\ Fairness

-----------------------------------------------------------------------------
(* Properties.                                                             *)

\* The logins that have passed Allow and are not answered.
InFlight(i) == {c \in Clients : pc[c] # "idle" /\ ip[c] = i}

\* Failures a counter takes before Allow refuses, less the one that is refused.
Headroom == IF Limit > 0 THEN Limit - 1 ELSE 0

\* Allow reads the counter long before the failure is recorded, so logins that
\* come together pass it together: but the failures of a window, recorded or
\* about to be, exceed the limit by no more than the logins the server works on
\* at a time, and by one for every Redis command that failed.
OvershootBounded ==
    \A i \in IPs :
        count[i] + Cardinality(InFlight(i)) <= Headroom + Cardinality(Clients) + faults

\* No step gives a counter more time, or takes its TTL away.
WindowStep(i) ==
    ttl[i] > 0 /\ ttl'[i] # Absent => ttl'[i] \in 1 .. ttl[i]

\* The window of a counter is fixed when SET NX creates it: no failure recorded
\* later extends it, nor does one on a counter that refuses already.
WindowFixed == [][\A i \in IPs : WindowStep(i)]_vars

\* SET NX gives every counter its TTL before INCR counts.  Only a counter that
\* went away (expired, or reset by a login that succeeded) between the two
\* commands of one RecordFailure may come back without one.
NoTTLOnlyByRace == \A i \in IPs : ttl[i] = NoTTL => i \in raced

Blocked(i) == ~Allows(i)

\* An address that is refused is let in again, unless its counter was lost
\* between SET NX and INCR.
BlockLifts == \A i \in IPs : Blocked(i) ~> ~Blocked(i) \/ i \in raced

\* TestLoginRateLimitWindowExpires: a block ends by itself, "otherwise the
\* address is locked out for ever".
BlockedRecover == \A i \in IPs : Blocked(i) ~> ~Blocked(i)

=============================================================================
