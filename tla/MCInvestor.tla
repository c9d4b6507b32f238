------------------------------ MODULE MCInvestor ------------------------------
(***************************************************************************)
(* The Investor for TLC.  Owners only compare with each other, so they may *)
(* be permuted; prices differ between tokens only by their moves, so may   *)
(* tokens.                                                                 *)
(***************************************************************************)
EXTENDS Investor, TLC

Interchangeable == Permutations(Owners) \cup Permutations(Tokens)
=============================================================================
