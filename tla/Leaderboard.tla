------------------------------- MODULE Leaderboard -------------------------------
(***************************************************************************)
(* The leaderboard's points: requests to controllers/leaderboard.go and    *)
(* the hourly job of jobs/leaderboard.go credit users through              *)
(* models.LeaderboardPointCredit.                                          *)
(*                                                                         *)
(* Every database call is a transaction of its own, and every request runs *)
(* beside others.  Points are kept twice, as rows of leaderboards_points   *)
(* and as a total in the user's row; DB.Put writes whole rows, whatever    *)
(* happened to them since they were read.  Users are numbered in the order *)
(* of their rows.                                                          *)
(***************************************************************************)
EXTENDS Naturals, Sequences, FiniteSetsExt

CONSTANTS
  Addresses,    \* wallet addresses, from the cookie or from the chain
  Reqs,         \* requests and jobs that may be in progress at once
  Kinds,        \* what they do: "view", "discord", "x", "job"
  MaxRequests,  \* bound on the requests made
  MaxDeaths     \* bound on requests that die of an error

ASSUME LeaderboardAssumption ==
  /\ IsFiniteSet(Reqs)
  /\ Kinds \subseteq {"view", "discord", "x", "job"}
  /\ MaxRequests \in Nat /\ MaxDeaths \in Nat

Reasons == {"Connect", "User Referred", "Discord", "X", "Lending", "referral"}

VARIABLES
  users,    \* leaderboards_users: rows in the order of creation
  ledger,   \* leaderboards_points: for each user, the points by reason
  req,      \* [Reqs]: the requests in progress
  made, deaths

vars == <<users, ledger, req, made, deaths>>

Ids == 0..MaxRequests      \* 0 is the empty string
Idle == [pc |-> "idle"]

NoPoints == [reason \in Reasons |-> 0]
LedgerSum(u) == SumFunctionOnSet(ledger[u], Reasons)

-----------------------------------------------------------------------------
(* Steps of a request *)

Goto(r, state) == req' = [req EXCEPT ![r] = state]

\* What remains of a request after a credit.
Credit(r, id, reason, points, then) ==
  [req[r] EXCEPT !.pc = "credit", !.id = id, !.reason = reason,
                 !.points = points, !.then = then]

Begin(r, kind, address, code) ==
  /\ req[r].pc = "idle" /\ made < MaxRequests
  /\ Goto(r, [pc |-> "find", kind |-> kind, address |-> address, code |-> code,
              user |-> 0, row |-> <<>>, id |-> 0, reason |-> "none", points |-> 0,
              referrer |-> 0, then |-> "end"])
  /\ made' = made + 1
  /\ UNCHANGED <<users, ledger, deaths>>

\* Mutant: a known user may still be given a referrer.
ViewReferring(r, u) ==
  IF req[r].code = 0 THEN Idle
  ELSE [req[r] EXCEPT !.pc = "refer", !.user = u, !.row = <<users[u]>>]

\* The page of a known user: reads only.
ViewKnown(r, u) == Idle

Found(r, u) ==
  CASE req[r].kind = "view" -> ViewKnown(r, u)
    [] req[r].kind = "discord" -> [req[r] EXCEPT !.pc = "check", !.user = u]
    [] req[r].kind = "x" ->
         [req[r] EXCEPT !.pc = "put", !.user = u, !.row = <<users[u]>>]
    [] OTHER -> Credit(r, u, "Lending", 100, "end")

\* FirstWhere: any row of the address.  MustFirstWhere panics without one.
Find(r) ==
  /\ req[r].pc = "find"
  /\ LET rows == {u \in DOMAIN users : users[u].address = req[r].address}
     IN \/ \E u \in rows : Goto(r, Found(r, u))
        \/ /\ rows = {}
           /\ Goto(r, IF req[r].kind \in {"view", "job"}
                      THEN [req[r] EXCEPT !.pc = "create"] ELSE Idle)
  /\ UNCHANGED <<users, ledger, made, deaths>>

\* The new user's row, and its first points.
Create(r) ==
  /\ req[r].pc = "create"
  /\ LET row == [address |-> req[r].address, referrer |-> 0, social |-> FALSE,
                 points |-> 0, pointsReferral |-> 0]
         u == Len(users) + 1
     IN /\ users' = Append(users, row)
        /\ ledger' = Append(ledger, NoPoints)
        /\ Goto(r, [Credit(r, u, "Connect", 100,
                           IF req[r].kind = "job" THEN "lend"
                           ELSE IF req[r].code = 0 THEN "end" ELSE "refer")
                    EXCEPT !.user = u, !.row = <<row>>])
  /\ UNCHANGED <<made, deaths>>

\* The referrer is found by the code; the row is the one written before.
Refer(r) ==
  /\ req[r].pc = "refer"
  /\ Goto(r, [req[r] EXCEPT !.pc = "put", !.row[1].referrer = req[r].code])
  /\ UNCHANGED <<users, ledger, made, deaths>>

\* DB.Put of the request's row, then the credit.
Put(r) ==
  /\ req[r].pc = "put"
  /\ LET row == req[r].row[1]
         u == req[r].user
     IN IF req[r].kind = "view"
        THEN /\ users' = [users EXCEPT ![u] = row]
             /\ Goto(r, Credit(r, req[r].code, "User Referred", 100, "end"))
        ELSE /\ users' = [users EXCEPT ![u] = [row EXCEPT !.social = TRUE]]
             /\ Goto(r, Credit(r, u, "X", 100, "end"))
  /\ UNCHANGED <<ledger, made, deaths>>

\* No points for Discord yet.
Check(r) ==
  /\ req[r].pc = "check"
  /\ Goto(r, IF ledger[req[r].user]["Discord"] = 0
             THEN Credit(r, req[r].user, "Discord", 100, "end") ELSE Idle)
  /\ UNCHANGED <<users, ledger, made, deaths>>

\* The second credit of a job for a new user.
Lend(r) ==
  /\ req[r].pc = "lend"
  /\ Goto(r, Credit(r, req[r].user, "Lending", 100, "end"))
  /\ UNCHANGED <<users, ledger, made, deaths>>

-----------------------------------------------------------------------------
(* LeaderboardPointCredit *)

CreditRead(r) ==
  /\ req[r].pc = "credit"
  /\ Goto(r, [req[r] EXCEPT !.pc = "insert", !.referrer = users[req[r].id].referrer])
  /\ UNCHANGED <<users, ledger, made, deaths>>

CreditInsert(r) ==
  /\ req[r].pc = "insert"
  /\ ledger' = [ledger EXCEPT ![req[r].id][req[r].reason] = @ + req[r].points]
  /\ Goto(r, [req[r] EXCEPT !.pc = "update"])
  /\ UNCHANGED <<users, made, deaths>>

\* Mutant: both updates are made.
RaisedTwice(r) ==
  LET p == req[r].points
  IN [users EXCEPT ![req[r].id].points = @ + 2 * p,
                   ![req[r].id].pointsReferral = @ + p]

\* points_referral counts what is not from referrals.
Raised(r) ==
  LET p == req[r].points
  IN IF req[r].reason = "referral" THEN [users EXCEPT ![req[r].id].points = @ + p]
     ELSE [users EXCEPT ![req[r].id].points = @ + p,
                        ![req[r].id].pointsReferral = @ + p]

\* Mutants: all goes on; the first in a chain has a referrer too.
Whole(p) == p

HasPoints(r) == req[r].points \div 4 # 0

\* A quarter goes on to the referrer.
Quarter(p) == p \div 4

GoesOn(r) == req[r].referrer # 0 /\ Quarter(req[r].points) # 0

CreditUpdate(r) ==
  /\ req[r].pc = "update"
  /\ users' = Raised(r)
  /\ Goto(r, IF GoesOn(r)
             THEN Credit(r, req[r].referrer, "referral", Quarter(req[r].points),
                         req[r].then)
             ELSE IF req[r].then = "end" THEN Idle
             ELSE [req[r] EXCEPT !.pc = req[r].then])
  /\ UNCHANGED <<ledger, made, deaths>>

\* An error of the database or the server's end: the request's panic is caught,
\* what it has written stays.
Die(r) ==
  /\ req[r].pc # "idle" /\ deaths < MaxDeaths
  /\ deaths' = deaths + 1
  /\ Goto(r, Idle)
  /\ UNCHANGED <<users, ledger, made>>

-----------------------------------------------------------------------------
(* Specification *)

Init ==
  /\ users = <<>>
  /\ ledger = <<>>
  /\ req = [r \in Reqs |-> Idle]
  /\ made = 0 /\ deaths = 0

Step(r) ==
  \/ Find(r) \/ Create(r) \/ Refer(r) \/ Put(r) \/ Check(r) \/ Lend(r)
  \/ CreditRead(r) \/ CreditInsert(r) \/ CreditUpdate(r)

\* A code is one that its owner has handed out: the user has a row.
Next ==
  \E r \in Reqs :
    \/ Step(r) \/ Die(r)
    \/ \E kind \in Kinds, address \in Addresses :
         \E code \in IF kind = "view" THEN 0..Len(users) ELSE {0} :
           Begin(r, kind, address, code)

Spec == Init /\ [][Next]_vars

-----------------------------------------------------------------------------
(* Properties *)

\* Types of the state.
TypeOK ==
  /\ users \in Seq([address : Addresses, referrer : Ids, social : BOOLEAN,
                    points : Nat, pointsReferral : Nat])
  /\ ledger \in Seq([Reasons -> Nat]) /\ Len(ledger) = Len(users)
  /\ \A r \in Reqs :
       /\ req[r].pc \in {"idle", "find", "create", "refer", "put", "check", "lend",
                         "credit", "insert", "update"}
       /\ req[r].pc \in {"credit", "insert", "update"} => req[r].id \in DOMAIN users
  /\ made \in 0..MaxRequests /\ deaths \in 0..MaxDeaths

\* A total never exceeds what the ledger accounts for, though rows read long ago
\* are written back and requests die between the two writes of a credit.
TotalsBacked == \A u \in DOMAIN users : users[u].points <= LedgerSum(u)

\* Referrers come before those they refer, so that a cascade of quarters never
\* comes back to a user it has passed, even if rows are written back.
ReferredByEarlier == \A u \in DOMAIN users : users[u].referrer < u

\* Referrers together never earn more than a third of what is earned otherwise,
\* the sum of a quarter of a quarter of it, however long the chains.
ReferralBudget ==
  LET referred == [u \in DOMAIN ledger |-> ledger[u]["referral"]]
      earned == [u \in DOMAIN ledger |-> LedgerSum(u) - ledger[u]["referral"]]
  IN 3 * SumFunctionOnSet(referred, DOMAIN ledger)
       <= SumFunctionOnSet(earned, DOMAIN ledger)

AtRest == \A r \in Reqs : req[r].pc = "idle"

\* Violated: when no request is in progress and none has died, a user's points
\* are the sum of the ledger's.
PointsAreTheSum ==
  AtRest /\ deaths = 0 =>
    \A u \in DOMAIN users : users[u].points = LedgerSum(u)
=============================================================================
