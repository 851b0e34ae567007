\* Racing registrations and logins of one address in two spellings, failing
\* statements, and tokens of every age.
SPECIFICATION Spec
CONSTANTS
    Calls = {c1, c2, c3, c4}
    Emails = {"ann", "Ann"}
    Lower <- MCLower
    Passwords = {p1, p2, weak, long}
    Weak = {weak}
    Long = {long}
    Expiry = 3
    Second = 2
    MaxTime = 5
    Faults = TRUE
    None = None
SYMMETRY CallSymmetry
INVARIANTS
    TypeOK
    RegistrationHolds
    OneAccountPerAddress
    TokensEarned
