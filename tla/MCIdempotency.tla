---------------------------- MODULE MCIdempotency ----------------------------
(***************************************************************************)
(* Instances of Idempotency for TLC.  Attempts are interchangeable: no     *)
(* definition names one of them.                                           *)
(***************************************************************************)
EXTENDS Idempotency, TLC

AttemptSymmetry == Permutations(Attempts)
=============================================================================
