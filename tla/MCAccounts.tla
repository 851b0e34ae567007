------------------------------ MODULE MCAccounts ------------------------------
(***************************************************************************)
(* An instance of Accounts for TLC: one address, in two spellings.         *)
(***************************************************************************)
EXTENDS Accounts, TLC

MCLower == [e \in Emails |-> "ann"]

CallSymmetry == Permutations(Calls)
=============================================================================
