------------------------------- MODULE MCFrontEnd -------------------------------
(* FrontEnd for TLC: accounts, tabs and runs are only compared. *)
EXTENDS FrontEnd, TLC

Symmetry == Permutations(Accounts) \cup Permutations(Tabs) \cup Permutations(Runs)
=============================================================================
