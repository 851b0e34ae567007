------------------------------- MODULE Accounts -------------------------------
(***************************************************************************)
(* Users: registering, logging in, and the token that authenticates every  *)
(* later request, on the table users.                                      *)
(*                                                                         *)
(* A call is one HTTP request.  Register looks the address up and inserts  *)
(* it in two statements, with the slow hashing of the password between     *)
(* them; Login reads the row and compares later.  A token is signed, not   *)
(* stored: a client keeps the tokens it was given and may present one for  *)
(* ever.  Its times are whole seconds (jwt.NumericDate).                   *)
(***************************************************************************)
EXTENDS Integers

CONSTANTS
    Calls,      \* HTTP requests
    Emails,     \* addresses as clients write them
    Lower,      \* LOWER(email)
    Passwords,  \* passwords; no two agree in the 72 bytes that bcrypt compares
    Weak,       \* those that validate:"min=8" refuses
    Long,       \* those that bcrypt refuses to hash (over 72 bytes)
    Expiry,     \* JWT_EXPIRY
    Second,     \* ticks of the clock in a second
    MaxTime,    \* bound: the clock stops here
    Faults,     \* TRUE: statements may fail
    None

ASSUME AddressAssumption ==
    /\ Lower \in [Emails -> Emails]
    /\ \A e \in Emails : Lower[Lower[e]] = Lower[e]

ASSUME TokenAssumption ==
    Expiry \in Nat /\ Second \in Nat \ {0} /\ MaxTime \in Nat /\ Faults \in BOOLEAN

ASSUME NobodyAssumption == None \notin Calls \cup Emails \cup Passwords

VARIABLES
    users,   \* table users: the password (its hash) and the call that inserted it
    tokens,  \* the tokens handed out
    now,     \* the clock of the API process
    pc,      \* the statement a call is at
    cred,    \* the e-mail and password of a call
    row,     \* the password hash a login has read, or None
    answer   \* the answer, or "none" so far

vars == <<users, tokens, now, pc, cred, row, answer>>

User == [password : Passwords \cup {None}, by : Calls \cup {None}]
Credentials == [email : Emails, password : Passwords]
NoUser == [password |-> None, by |-> None]

\* login is history: which call a token was issued to, and when.
Token == [user : Emails, iat : Nat, exp : Nat, login : Calls, at : Nat]

Answers == {"none", "created", "ErrEmailRegistered", "ErrLoginGeneric", "loggedIn",
            "invalid", "unauthorized", "authenticated", "error"}

TypeOK ==
    /\ users \in [Emails -> User]
    /\ tokens \subseteq Token
    /\ now \in 0 .. MaxTime
    /\ pc \in [Calls -> {"idle", "insert", "compare", "done"}]
    /\ cred \in [Calls -> Credentials \cup {None}]
    /\ row \in [Calls -> Passwords \cup {None}]
    /\ answer \in [Calls -> Answers]

Init ==
    /\ users = [e \in Emails |-> NoUser]
    /\ tokens = {}
    /\ now = 0
    /\ pc = [c \in Calls |-> "idle"]
    /\ cred = [c \in Calls |-> None]
    /\ row = [c \in Calls |-> None]
    /\ answer = [c \in Calls |-> "none"]

-----------------------------------------------------------------------------
Exists(e) == users[e].by # None

Reply(c, kind) ==
    /\ pc' = [pc EXCEPT ![c] = "done"]
    /\ answer' = [answer EXCEPT ![c] = kind]

\* Register up to hashPassword: the validator, then GetUserByEmail.  An error of
\* the lookup is ignored, as if there were no such user.
Register(c) ==
    /\ pc[c] = "idle"
    /\ \E i \in Credentials :
        /\ cred' = [cred EXCEPT ![c] = i]
        /\ \/ /\ i.password \in Weak
              /\ Reply(c, "invalid")
           \/ /\ i.password \notin Weak /\ Exists(i.email)
              /\ Reply(c, "ErrEmailRegistered")
           \/ /\ i.password \notin Weak /\ (Exists(i.email) => Faults)
              /\ pc' = [pc EXCEPT ![c] = "insert"]
              /\ UNCHANGED answer
    /\ UNCHANGED <<users, tokens, now, row>>

\* Mutant: users without CHECK (email = LOWER(email)).
FreeAddress(e) == ~Exists(e)

\* The constraints of users: the address is lower case and unique.
MayInsert(e) == Lower[e] = e /\ ~Exists(e)

\* Mutant: INSERT ... ON CONFLICT (email) DO UPDATE.
UpsertUser(c) ==
    /\ pc[c] = "insert"
    /\ users' = [users EXCEPT ![cred[c].email] = [password |-> cred[c].password, by |-> c]]
    /\ Reply(c, "created")
    /\ UNCHANGED <<tokens, now, cred, row>>

\* hashPassword and CreateUser: the row is inserted and acknowledged, or the
\* answer is a 500: bcrypt or a constraint refused, the statement failed, or its
\* acknowledgement was lost.
CreateUser(c) ==
    /\ pc[c] = "insert"
    /\ \/ /\ MayInsert(cred[c].email) /\ cred[c].password \notin Long
          /\ users' = [users EXCEPT ![cred[c].email] = [password |-> cred[c].password, by |-> c]]
          /\ Reply(c, "created") \/ (Faults /\ Reply(c, "error"))
       \/ /\ Faults \/ ~MayInsert(cred[c].email) \/ cred[c].password \in Long
          /\ Reply(c, "error")
          /\ UNCHANGED users
    /\ UNCHANGED <<tokens, now, cred, row>>

\* Login up to comparePassword: GetUserByEmail.
Login(c) ==
    /\ pc[c] = "idle"
    /\ \E i \in Credentials :
        /\ cred' = [cred EXCEPT ![c] = i]
        /\ \/ /\ Exists(i.email)
              /\ row' = [row EXCEPT ![c] = users[i.email].password]
              /\ pc' = [pc EXCEPT ![c] = "compare"]
              /\ UNCHANGED answer
           \/ /\ ~Exists(i.email)
              /\ Reply(c, "ErrLoginGeneric")
              /\ UNCHANGED row
           \/ /\ Faults
              /\ Reply(c, "error")
              /\ UNCHANGED row
    /\ UNCHANGED <<users, tokens, now>>

\* Mutant: a whole second is taken off.
SecondBefore(t) == t - Second

\* What jwt.NewNumericDate keeps of a time.
NumericDate(t) == t - (t % Second)

\* Mutant: the expiry is rounded up.
RoundedUpToken(c) ==
    [user |-> cred[c].email, iat |-> NumericDate(now), exp |-> NumericDate(now + Expiry + Second),
     login |-> c, at |-> now]

\* The claims GenerateToken signs.
GenerateToken(c) ==
    [user |-> cred[c].email, iat |-> NumericDate(now), exp |-> NumericDate(now + Expiry),
     login |-> c, at |-> now]

\* comparePassword with the row that was read, then GenerateToken.
ComparePassword(c) ==
    /\ pc[c] = "compare"
    /\ \/ /\ row[c] = cred[c].password
          /\ tokens' = tokens \cup {GenerateToken(c)}
          /\ Reply(c, "loggedIn")
       \/ /\ row[c] # cred[c].password
          /\ Reply(c, "ErrLoginGeneric")
          /\ UNCHANGED tokens
    /\ UNCHANGED <<users, now, cred, row>>

\* ValidateToken: issued, not yet expired.
Valid(t) == t.iat <= now /\ now < t.exp

\* Auth in front of a handler: a token that was handed out, of any age, or none.
Authenticate(c) ==
    /\ pc[c] = "idle"
    /\ \/ \E t \in tokens : Valid(t) /\ Reply(c, "authenticated")
       \/ Reply(c, "unauthorized")
    /\ UNCHANGED <<users, tokens, now, cred, row>>

Tick ==
    /\ now < MaxTime
    /\ now' = now + 1
    /\ UNCHANGED <<users, tokens, pc, cred, row, answer>>

Quiescent ==
    /\ \A c \in Calls : pc[c] = "done"
    /\ UNCHANGED vars

Next ==
    \/ \E c \in Calls :
        Register(c) \/ CreateUser(c) \/ Login(c) \/ ComparePassword(c) \/ Authenticate(c)
    \/ Tick
    \/ Quiescent

Spec == Init /\ [][Next]_vars

-----------------------------------------------------------------------------
(* Properties.                                                             *)

\* Registrations of one address may race from the lookup to the INSERT, yet what
\* each was told stays true: who was told created owns the account, with the
\* password of that call, for ever, hence one call per address; who was told
\* that the address is registered was told so of an account that exists.
RegistrationHolds ==
    \A c \in Calls :
        /\ answer[c] = "created" =>
            users[cred[c].email] = [password |-> cred[c].password, by |-> c]
        /\ answer[c] = "ErrEmailRegistered" => Exists(cred[c].email)

\* No two accounts differ in the case of their address only, although neither
\* Register nor the validator lowers it (users_email_lowercase).
OneAccountPerAddress ==
    \A e, f \in Emails : Exists(e) /\ Exists(f) /\ Lower[e] = Lower[f] => e = f

\* Every token that would be accepted now was issued, no more than JWT_EXPIRY
\* ago, to a login that gave the password its account has to this day: also when
\* the account's row was read before and compared after other calls.  And no
\* token is refused early: whole seconds cost it less than a second of the
\* expiry at the end, and nothing at the beginning.
TokensEarned ==
    \A t \in tokens :
        /\ cred[t.login].email = t.user
        /\ cred[t.login].password = users[t.user].password
        /\ Valid(t) => now < t.at + Expiry
        /\ now + Second <= t.at + Expiry => Valid(t)

=============================================================================
