--------------------------- MODULE MCPositionManager ---------------------------
(***************************************************************************)
(* The manager for TLC: users are interchangeable.                         *)
(***************************************************************************)
EXTENDS PositionManager, TLC

Interchangeable == Permutations(Accounts)
=============================================================================
