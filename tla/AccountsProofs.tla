---------------------------- MODULE AccountsProofs ----------------------------
(***************************************************************************)
(* Proofs about Accounts, for any calls, addresses, passwords and faults.  *)
(*                                                                         *)
(* RegistrationHolds is inductive once it is known who inserted a row: the *)
(* call that a row names has been through its INSERT.  TokensEarned needs  *)
(* what a login has read to stay true, because no row of users is ever     *)
(* changed; and that a token is issued no later than now and expires in    *)
(* the last second before Expiry after its issue, although both times are  *)
(* cut to whole seconds.                                                   *)
(***************************************************************************)
EXTENDS Accounts, TLAPS

\* What a row, a login at work and a token are known to be.
RowInv ==
    \A e \in Emails :
        Exists(e) => users[e].password \in Passwords /\ Lower[e] = e

CallInv ==
    \A c \in Calls :
        /\ pc[c] # "done" => answer[c] = "none"
        /\ pc[c] \in {"insert", "compare"} => cred[c] \in Credentials
        /\ answer[c] \in {"created", "ErrEmailRegistered"} => cred[c] \in Credentials
        /\ pc[c] = "compare" => /\ Exists(cred[c].email)
                                /\ row[c] = users[cred[c].email].password

TokenInv ==
    \A t \in tokens :
        /\ pc[t.login] = "done"
        /\ cred[t.login] \in Credentials
        /\ Exists(t.user)
        /\ t.iat <= now
        /\ t.exp <= t.at + Expiry
        /\ t.at + Expiry < t.exp + Second

Inv == TypeOK /\ RowInv /\ CallInv /\ RegistrationHolds /\ TokenInv /\ TokensEarned

-----------------------------------------------------------------------------
\* Cutting a time to whole seconds gives a time that is not later, by less than
\* a second.
LEMMA NumericDateEarlier ==
    ASSUME NEW t \in Nat
    PROVE  NumericDate(t) \in Nat /\ NumericDate(t) <= t /\ t < NumericDate(t) + Second
<1>1. t % Second \in 0 .. t /\ t % Second < Second
  BY TokenAssumption
<1>2. QED
  BY <1>1, TokenAssumption DEF NumericDate

\* The times of a new token.
LEMMA TokenTimes ==
    ASSUME NEW c \in Calls, TypeOK, cred[c] \in Credentials
    PROVE  /\ GenerateToken(c) \in Token
           /\ GenerateToken(c).iat <= now
           /\ GenerateToken(c).exp <= GenerateToken(c).at + Expiry
           /\ GenerateToken(c).at + Expiry < GenerateToken(c).exp + Second
           /\ GenerateToken(c).user = cred[c].email
           /\ GenerateToken(c).login = c
<1>1. now \in Nat /\ now + Expiry \in Nat
  BY TokenAssumption DEF TypeOK
<1>2. /\ NumericDate(now) \in Nat /\ NumericDate(now) <= now
      /\ NumericDate(now + Expiry) \in Nat
      /\ NumericDate(now + Expiry) <= now + Expiry
      /\ now + Expiry < NumericDate(now + Expiry) + Second
  BY <1>1, NumericDateEarlier
<1>3. cred[c].email \in Emails
  BY DEF Credentials
<1>4. QED
  BY <1>1, <1>2, <1>3 DEF GenerateToken, Token

\* From its issue a token is accepted as long as its expiry is more than a
\* second away, and never after it.
LEMMA TokenAccepted ==
    ASSUME NEW n \in Nat, NEW t \in Token, t.iat <= n,
           t.exp <= t.at + Expiry, t.at + Expiry < t.exp + Second
    PROVE  /\ t.iat <= n /\ n < t.exp => n < t.at + Expiry
           /\ n + Second <= t.at + Expiry => t.iat <= n /\ n < t.exp
<1>1. t.exp \in Nat /\ t.at \in Nat
  BY DEF Token
<1>2. QED
  BY <1>1, TokenAssumption

LEMMA InitInv == Init => Inv
<1> SUFFICES ASSUME Init PROVE Inv
  OBVIOUS
<1>1. TypeOK
  BY TokenAssumption DEF Init, TypeOK, NoUser, User, Answers
<1>2. \A e \in Emails : ~Exists(e)
  BY DEF Init, Exists, NoUser
<1>3. RowInv /\ CallInv /\ RegistrationHolds /\ TokenInv /\ TokensEarned
  BY <1>2 DEF Init, RowInv, CallInv, RegistrationHolds, TokenInv, TokensEarned
<1>4. QED
  BY <1>1, <1>3 DEF Inv

-----------------------------------------------------------------------------
(* The steps.                                                              *)

LEMMA RegisterInv ==
    ASSUME Inv, NEW c \in Calls, Register(c)
    PROVE  Inv'
<1> USE DEF Inv
<1>1. PICK i \in Credentials :
        /\ cred' = [cred EXCEPT ![c] = i]
        /\ \/ Reply(c, "invalid")
           \/ Exists(i.email) /\ Reply(c, "ErrEmailRegistered")
           \/ pc' = [pc EXCEPT ![c] = "insert"] /\ UNCHANGED answer
  BY DEF Register
<1>2. pc[c] = "idle" /\ UNCHANGED <<users, tokens, now, row>>
  BY DEF Register
<1>3. TypeOK'
  BY <1>1, <1>2 DEF TypeOK, Reply, Answers
<1>4. \A e : Exists(e)' <=> Exists(e)
  BY <1>2 DEF Exists
<1>5. \A d \in Calls \ {c} : cred'[d] = cred[d] /\ pc'[d] = pc[d] /\ answer'[d] = answer[d]
  BY <1>1 DEF TypeOK, Reply
<1>6. cred'[c] = i /\ pc'[c] \in {"insert", "done"}
      /\ answer'[c] \in {"invalid", "ErrEmailRegistered", "none"}
      /\ (answer'[c] = "ErrEmailRegistered" => Exists(i.email))
      /\ (pc'[c] = "insert" => answer'[c] = "none")
  BY <1>1, <1>2 DEF TypeOK, CallInv, Reply
<1>7. RowInv'
  BY <1>2, <1>4 DEF RowInv
<1>8. CallInv'
  BY <1>2, <1>4, <1>5, <1>6 DEF CallInv
<1>9. RegistrationHolds'
  BY <1>2, <1>4, <1>5, <1>6 DEF RegistrationHolds
<1>10. \A t \in tokens : t.login \in Calls \ {c}
  BY <1>2 DEF TokenInv, TypeOK, Token
<1>11. TokenInv' /\ TokensEarned'
  BY <1>2, <1>4, <1>5, <1>10 DEF TokenInv, TokensEarned, Valid
<1>12. QED
  BY <1>3, <1>7, <1>8, <1>9, <1>11

LEMMA CreateUserInv ==
    ASSUME Inv, NEW c \in Calls, CreateUser(c)
    PROVE  Inv'
<1> USE DEF Inv
<1> DEFINE e0 == cred[c].email
           new == [password |-> cred[c].password, by |-> c]
<1>1. /\ pc[c] = "insert"
      /\ UNCHANGED <<tokens, now, cred, row>>
      /\ \/ MayInsert(e0) /\ users' = [users EXCEPT ![e0] = new]
            /\ (Reply(c, "created") \/ Reply(c, "error"))
         \/ Reply(c, "error") /\ UNCHANGED users
  BY DEF CreateUser
<1>2. cred[c] \in Credentials /\ e0 \in Emails /\ cred[c].password \in Passwords
  BY <1>1 DEF CallInv, Credentials
<1>3. new \in User /\ c # None
  BY <1>2, NobodyAssumption DEF User
<1>4. TypeOK'
  BY <1>1, <1>2, <1>3 DEF TypeOK, Reply, Answers
<1>5. /\ \A d \in Calls \ {c} : pc'[d] = pc[d] /\ answer'[d] = answer[d]
      /\ pc'[c] = "done" /\ answer'[c] \in {"created", "error"}
  BY <1>1 DEF TypeOK, Reply
<1>6. \A e \in Emails : Exists(e) => users'[e] = users[e] /\ Exists(e)'
  BY <1>1, <1>2 DEF TypeOK, Exists, MayInsert
<1>7. answer'[c] = "created" => users'[e0] = new
  BY <1>1, <1>2, <1>5 DEF TypeOK, Reply
<1>8. \A e \in Emails : users'[e] = users[e] \/ (Lower[e] = e /\ users'[e] = new)
  BY <1>1, <1>2 DEF TypeOK, MayInsert
<1>9. RowInv'
  <2>1. ASSUME NEW e \in Emails, Exists(e)'
        PROVE  users'[e].password \in Passwords /\ Lower[e] = e
    <3>1. CASE users'[e] = users[e]
      BY <3>1, <2>1 DEF RowInv, Exists
    <3>2. CASE Lower[e] = e /\ users'[e] = new
      BY <3>2, <1>2
    <3>3. QED
      BY <3>1, <3>2, <1>8
  <2>2. QED
    BY <2>1 DEF RowInv
<1>10. CallInv'
  <2>1. ASSUME NEW d \in Calls, pc[d] = "compare"
        PROVE  Exists(cred[d].email)' /\ row[d] = users'[cred[d].email].password
    <3>1. cred[d].email \in Emails /\ Exists(cred[d].email)
          /\ row[d] = users[cred[d].email].password
      BY <2>1 DEF CallInv, Credentials
    <3>2. users'[cred[d].email] = users[cred[d].email] /\ users[cred[d].email].by # None
      BY <3>1, <1>6 DEF Exists
    <3>3. QED
      BY <3>1, <3>2, <1>1 DEF Exists
  <2>2. QED
    BY <2>1, <1>1, <1>2, <1>5 DEF CallInv
<1>11. RegistrationHolds'
  <2>1. ASSUME NEW d \in Calls \ {c}, answer[d] = "created"
        PROVE  users'[cred[d].email] = [password |-> cred[d].password, by |-> d]
    <3>1. cred[d].email \in Emails
          /\ users[cred[d].email] = [password |-> cred[d].password, by |-> d]
      BY <2>1 DEF CallInv, Credentials, RegistrationHolds
    <3>2. Exists(cred[d].email)
      BY <3>1, NobodyAssumption DEF Exists
    <3>3. QED
      BY <3>1, <3>2, <1>6
  <2>2. ASSUME NEW d \in Calls \ {c}, answer[d] = "ErrEmailRegistered"
        PROVE  users'[cred[d].email].by # None
    <3>1. cred[d].email \in Emails /\ Exists(cred[d].email)
      BY <2>2 DEF CallInv, Credentials, RegistrationHolds
    <3>2. QED
      BY <3>1, <1>6 DEF Exists
  <2>3. QED
    BY <2>1, <2>2, <1>1, <1>5, <1>7 DEF RegistrationHolds, Exists
<1>12. ASSUME NEW t \in tokens
       PROVE  /\ t.login \in Calls \ {c}
              /\ t.user \in Emails
              /\ users'[t.user] = users[t.user]
              /\ users'[t.user].by # None
  <2>1. t.login \in Calls /\ t.user \in Emails
    BY <1>12 DEF TypeOK, Token
  <2>2. pc[t.login] = "done" /\ Exists(t.user)
    BY <1>12 DEF TokenInv
  <2>3. QED
    BY <2>1, <2>2, <1>1, <1>6 DEF Exists
<1>13. TokenInv' /\ TokensEarned'
  BY <1>1, <1>5, <1>12 DEF TokenInv, TokensEarned, Valid, Exists
<1>14. QED
  BY <1>4, <1>9, <1>10, <1>11, <1>13

LEMMA LoginInv ==
    ASSUME Inv, NEW c \in Calls, Login(c)
    PROVE  Inv'
<1> USE DEF Inv
<1>1. PICK i \in Credentials :
        /\ cred' = [cred EXCEPT ![c] = i]
        /\ \/ /\ Exists(i.email)
              /\ row' = [row EXCEPT ![c] = users[i.email].password]
              /\ pc' = [pc EXCEPT ![c] = "compare"]
              /\ UNCHANGED answer
           \/ UNCHANGED row /\ (Reply(c, "ErrLoginGeneric") \/ Reply(c, "error"))
  BY DEF Login
<1>2. pc[c] = "idle" /\ UNCHANGED <<users, tokens, now>>
  BY DEF Login
<1>3. i.email \in Emails
  BY DEF Credentials
<1>4. TypeOK'
  <2>1. Exists(i.email) => users[i.email].password \in Passwords
    BY <1>3 DEF RowInv
  <2>2. QED
    BY <1>1, <1>2, <2>1 DEF TypeOK, Reply, Answers
<1>5. \A e : Exists(e)' <=> Exists(e)
  BY <1>2 DEF Exists
<1>6. \A d \in Calls \ {c} : /\ cred'[d] = cred[d] /\ pc'[d] = pc[d]
                             /\ answer'[d] = answer[d] /\ row'[d] = row[d]
  BY <1>1 DEF TypeOK, Reply
<1>7. /\ cred'[c] = i
      /\ answer'[c] \in {"ErrLoginGeneric", "error", "none"}
      /\ \/ pc'[c] = "compare" /\ answer'[c] = "none" /\ Exists(i.email)
            /\ row'[c] = users[i.email].password
         \/ pc'[c] = "done"
  BY <1>1, <1>2 DEF TypeOK, CallInv, Reply
<1>8. RowInv'
  BY <1>2, <1>5 DEF RowInv
<1>9. CallInv'
  BY <1>2, <1>5, <1>6, <1>7 DEF CallInv
<1>10. RegistrationHolds'
  BY <1>2, <1>5, <1>6, <1>7 DEF RegistrationHolds
<1>11. \A t \in tokens : t.login \in Calls \ {c}
  BY <1>2 DEF TokenInv, TypeOK, Token
<1>12. TokenInv' /\ TokensEarned'
  BY <1>2, <1>5, <1>6, <1>11 DEF TokenInv, TokensEarned, Valid
<1>13. QED
  BY <1>4, <1>8, <1>9, <1>10, <1>12

LEMMA ComparePasswordInv ==
    ASSUME Inv, NEW c \in Calls, ComparePassword(c)
    PROVE  Inv'
<1> USE DEF Inv
<1>1. /\ pc[c] = "compare"
      /\ UNCHANGED <<users, now, cred, row>>
      /\ \/ /\ row[c] = cred[c].password
            /\ tokens' = tokens \cup {GenerateToken(c)}
            /\ Reply(c, "loggedIn")
         \/ Reply(c, "ErrLoginGeneric") /\ UNCHANGED tokens
  BY DEF ComparePassword
<1>2. cred[c] \in Credentials /\ cred[c].email \in Emails /\ Exists(cred[c].email)
      /\ row[c] = users[cred[c].email].password
  BY <1>1 DEF CallInv, Credentials
<1>3. /\ GenerateToken(c) \in Token
      /\ GenerateToken(c).iat <= now
      /\ GenerateToken(c).exp <= GenerateToken(c).at + Expiry
      /\ GenerateToken(c).at + Expiry < GenerateToken(c).exp + Second
      /\ GenerateToken(c).user = cred[c].email
      /\ GenerateToken(c).login = c
  BY <1>2, TokenTimes
<1>4. TypeOK'
  BY <1>1, <1>3 DEF TypeOK, Reply, Answers
<1>5. /\ \A d \in Calls \ {c} : pc'[d] = pc[d] /\ answer'[d] = answer[d]
      /\ pc'[c] = "done" /\ answer'[c] \in {"loggedIn", "ErrLoginGeneric"}
  BY <1>1 DEF TypeOK, Reply
<1>6. \A e : Exists(e)' <=> Exists(e)
  BY <1>1 DEF Exists
<1>7. RowInv' /\ CallInv' /\ RegistrationHolds'
  BY <1>1, <1>2, <1>5, <1>6 DEF RowInv, CallInv, RegistrationHolds
<1>8. ASSUME NEW t \in tokens'
      PROVE  /\ pc'[t.login] = "done"
             /\ cred[t.login] \in Credentials
             /\ Exists(t.user)
             /\ t.iat <= now
             /\ t.exp <= t.at + Expiry
             /\ t.at + Expiry < t.exp + Second
             /\ cred[t.login].email = t.user
             /\ cred[t.login].password = users[t.user].password
             /\ Valid(t) => now < t.at + Expiry
             /\ now + Second <= t.at + Expiry => Valid(t)
  <2>1. CASE t \in tokens
    <3>1. t.login \in Calls
      BY <2>1 DEF TypeOK, Token
    <3>2. QED
      BY <2>1, <3>1, <1>1, <1>5 DEF TokenInv, TokensEarned
  <2>2. CASE t \notin tokens
    <3>1. t = GenerateToken(c) /\ row[c] = cred[c].password
      BY <2>2, <1>1, <1>8
    <3>2. now \in Nat
      BY DEF TypeOK
    <3>3. /\ Valid(t) => now < t.at + Expiry
          /\ now + Second <= t.at + Expiry => Valid(t)
      BY <3>1, <3>2, <1>3, TokenAccepted DEF Valid
    <3>4. QED
      BY <3>1, <3>3, <1>2, <1>3, <1>5
  <2>3. QED
    BY <2>1, <2>2
<1>9. TokenInv' /\ TokensEarned'
  BY <1>1, <1>6, <1>8 DEF TokenInv, TokensEarned, Valid
<1>10. QED
  BY <1>4, <1>7, <1>9

LEMMA AuthenticateInv ==
    ASSUME Inv, NEW c \in Calls, Authenticate(c)
    PROVE  Inv'
<1> USE DEF Inv
<1>1. /\ pc[c] = "idle"
      /\ UNCHANGED <<users, tokens, now, cred, row>>
      /\ Reply(c, "authenticated") \/ Reply(c, "unauthorized")
  BY DEF Authenticate
<1>2. TypeOK'
  BY <1>1 DEF TypeOK, Reply, Answers
<1>3. /\ \A d \in Calls \ {c} : pc'[d] = pc[d] /\ answer'[d] = answer[d]
      /\ pc'[c] = "done" /\ answer'[c] \in {"authenticated", "unauthorized"}
  BY <1>1 DEF TypeOK, Reply
<1>4. \A e : Exists(e)' <=> Exists(e)
  BY <1>1 DEF Exists
<1>5. RowInv' /\ CallInv' /\ RegistrationHolds'
  BY <1>1, <1>3, <1>4 DEF RowInv, CallInv, RegistrationHolds
<1>6. \A t \in tokens : t.login \in Calls \ {c}
  BY <1>1 DEF TokenInv, TypeOK, Token
<1>7. TokenInv' /\ TokensEarned'
  BY <1>1, <1>3, <1>4, <1>6 DEF TokenInv, TokensEarned, Valid
<1>8. QED
  BY <1>2, <1>5, <1>7

\* Time passes: what is known of a token's times settles when it is accepted.
LEMMA TickInv == Inv /\ Tick => Inv'
<1> SUFFICES ASSUME Inv, Tick PROVE Inv'
  OBVIOUS
<1> USE DEF Inv
<1>1. now' = now + 1 /\ now < MaxTime /\ UNCHANGED <<users, tokens, pc, cred, row, answer>>
  BY DEF Tick
<1>2. TypeOK'
  BY <1>1, TokenAssumption DEF TypeOK
<1>3. \A e : Exists(e)' <=> Exists(e)
  BY <1>1 DEF Exists
<1>4. RowInv' /\ CallInv' /\ RegistrationHolds'
  BY <1>1, <1>3 DEF RowInv, CallInv, RegistrationHolds
<1>5. now' \in Nat /\ \A t \in tokens : t \in Token /\ t.iat <= now'
  BY <1>1 DEF TypeOK, Token, TokenInv
<1>6. TokenInv'
  BY <1>1, <1>3, <1>5 DEF TokenInv
<1>7. ASSUME NEW t \in tokens
      PROVE  /\ t.iat <= now' /\ now' < t.exp => now' < t.at + Expiry
             /\ now' + Second <= t.at + Expiry => t.iat <= now' /\ now' < t.exp
  BY <1>5, TokenAccepted DEF TokenInv
<1>8. TokensEarned'
  BY <1>1, <1>7 DEF TokensEarned, Valid
<1>9. QED
  BY <1>2, <1>4, <1>6, <1>8

LEMMA NextInv == Inv /\ [Next]_vars => Inv'
<1> SUFFICES ASSUME Inv, [Next]_vars PROVE Inv'
  OBVIOUS
<1>1. CASE UNCHANGED vars
  BY <1>1 DEF Inv, vars, TypeOK, RowInv, CallInv, RegistrationHolds, TokenInv, TokensEarned,
              Exists, Valid
<1>2. CASE Quiescent
  BY <1>1, <1>2 DEF Quiescent
<1>3. CASE Next /\ ~Quiescent
  BY <1>3, RegisterInv, CreateUserInv, LoginInv, ComparePasswordInv, AuthenticateInv, TickInv
     DEF Next
<1>4. QED
  BY <1>1, <1>2, <1>3 DEF Next

THEOREM InvHolds == Spec => []Inv
<1>1. QED
  BY InitInv, NextInv, PTL DEF Spec

\* Every variable keeps its type; in particular every token that is handed out
\* carries times that NumericDate can represent.
THEOREM TypeCorrectness == Spec => []TypeOK
<1>1. Inv => TypeOK
  BY DEF Inv
<1>2. QED
  BY <1>1, InvHolds, PTL

\* Racing registrations: what Register answered stays true for ever, for any
\* number of calls and addresses and with any statement failing.
THEOREM RegistrationSound == Spec => []RegistrationHolds
<1>1. Inv => RegistrationHolds
  BY DEF Inv
<1>2. QED
  BY <1>1, InvHolds, PTL

\* Two spellings of an address never have two accounts.
THEOREM AddressUnique == Spec => []OneAccountPerAddress
<1>1. Inv => OneAccountPerAddress
  BY DEF Inv, RowInv, OneAccountPerAddress
<1>2. QED
  BY <1>1, InvHolds, PTL

\* An accepted token is younger than JWT_EXPIRY and was issued against the
\* password of its account, whatever ran between the read and the comparison;
\* and until the last second of JWT_EXPIRY every token is accepted.
THEOREM TokenSound == Spec => []TokensEarned
<1>1. Inv => TokensEarned
  BY DEF Inv
<1>2. QED
  BY <1>1, InvHolds, PTL
=============================================================================
