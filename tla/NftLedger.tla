------------------------------- MODULE NftLedger -------------------------------
(***************************************************************************)
(* What the position registry promises: every account holds a set of       *)
(* tokens, a token is issued once, a move takes it out of one set and puts *)
(* it in another, and nobody else's holdings change.                       *)
(***************************************************************************)
EXTENDS Integers

CONSTANTS Accounts, MaxId

VARIABLES holdings, issued

Init ==
  /\ holdings = [a \in Accounts |-> {}]
  /\ issued = {}

\* A fresh id goes to an account, or to somebody outside the ledger.
Issue(id) ==
  /\ id \notin issued
  /\ issued' = issued \cup {id}
  /\ \/ UNCHANGED holdings
     \/ \E to \in Accounts :
           holdings' = [holdings EXCEPT ![to] = @ \cup {id}]

Move(from, to, id) ==
  /\ id \in holdings[from]
  /\ holdings' = [[holdings EXCEPT ![from] = @ \ {id}]
                     EXCEPT ![to] = @ \cup {id}]
  /\ UNCHANGED issued

Retire(from, id) ==
  /\ id \in holdings[from]
  /\ holdings' = [holdings EXCEPT ![from] = @ \ {id}]
  /\ UNCHANGED issued

Next ==
  \E id \in 1..MaxId :
    \/ Issue(id)
    \/ \E from, to \in Accounts : Move(from, to, id)
    \/ \E from \in Accounts : Retire(from, id)

Spec == Init /\ [][Next]_<<holdings, issued>>
=============================================================================
