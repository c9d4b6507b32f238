----------------------------- MODULE MCLeaderboard -----------------------------
(* Leaderboard for TLC: addresses and requests are only compared. *)
EXTENDS Leaderboard, TLC

Symmetry == Permutations(Addresses) \cup Permutations(Reqs)
=============================================================================
