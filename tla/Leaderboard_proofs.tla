-------------------------- MODULE Leaderboard_proofs --------------------------
(***************************************************************************)
(* Proofs about the leaderboard of Leaderboard, for any number of          *)
(* requests and users: totals never exceed the ledger, no one is among     *)
(* his own referrers' referrers, and referrals never cost more than a      *)
(* third of the rest.                                                      *)
(*                                                                         *)
(* The invariant is the books with the requests in progress in them: a     *)
(* total may lag behind the ledger by the credits still to be added to it, *)
(* and a row read long ago, and to be written back, is never ahead of it   *)
(* either; the cascade of a credit owes at most what its points can still  *)
(* bring to referrers.                                                     *)
(***************************************************************************)
EXTENDS Leaderboard, SumTheorems, SequenceTheorems, TLAPS

\* A row of leaderboards_users, and a request in progress.
User == [address : Addresses, referrer : Ids, social : BOOLEAN,
         points : Nat, pointsReferral : Nat]

Request ==
  [pc : {"find", "create", "refer", "put", "check", "lend", "credit", "insert", "update"},
   kind : {"view", "discord", "x", "job"}, address : Addresses, code : Nat,
   user : Nat, row : Seq(User), id : Nat, reason : Reasons \cup {"none"}, points : Nat,
   referrer : Nat, then : {"end", "refer", "lend"}]

Crediting == {"credit", "insert", "update"}

\* The request s inserted points of user u that are not in its total yet.
Unwritten(s, u) == IF s.pc = "update" /\ s.id = u THEN s.points ELSE 0

\* The request s may still create a user.
Creates(s) == IF s.pc \in {"find", "create"} THEN 1 ELSE 0

\* What s still takes from the budget of referrals: points p yet to go to a referrer
\* cost 3p and may bring p \div 4 to the next, points just inserted p \div 4 only;
\* and 4 * (p \div 4) <= p.
Owes(s) ==
  IF s.pc = "update" THEN s.points
  ELSE IF s.pc \in {"credit", "insert"} /\ s.reason = "referral" THEN 4 * s.points
  ELSE 0

\* What all requests have inserted for a user and not added to its total, how many
\* users they may still create, what they owe in all; and the ledger by users.
Pending == [u \in Nat |-> SumFunctionOnSet([r \in Reqs |-> Unwritten(req[r], u)], Reqs)]
Coming == SumFunctionOnSet([r \in Reqs |-> Creates(req[r])], Reqs)
Owing == SumFunctionOnSet([r \in Reqs |-> Owes(req[r])], Reqs)
Totals == [u \in DOMAIN ledger |-> LedgerSum(u)]
Referrals == [u \in DOMAIN ledger |-> ledger[u]["referral"]]
Earnings == [u \in DOMAIN ledger |-> LedgerSum(u) - ledger[u]["referral"]]
AllReferred == SumFunctionOnSet(Referrals, DOMAIN ledger)
AllEarned == SumFunctionOnSet(Earnings, DOMAIN ledger)

\* Types of the whole state.
Typed ==
  /\ users \in Seq(User)
  /\ ledger \in Seq([Reasons -> Nat]) /\ Len(ledger) = Len(users)
  /\ req \in [Reqs -> {Idle} \cup Request]
  /\ made \in 0..MaxRequests /\ deaths \in 0..MaxDeaths

\* A request creates one user at most: there are no more users than requests made.
Counted == Len(users) + Coming <= made

\* The request s will write its row with the code as referrer.
WillRefer(s) == s.pc = "refer" \/ (s.pc \in Crediting /\ s.then = "refer")

\* The request s is in order: it knows users only, refers to an earlier one, and
\* the row it has read is not ahead of the ledger, less what is pending.
Fine(s) ==
  /\ s.pc \in {"find", "create"} =>
       s.code <= Len(users) /\ (s.kind # "view" => s.code = 0) /\ s.row = <<>>
  /\ s.pc = "create" => s.kind \in {"view", "job"}
  /\ s.pc \in {"refer", "put", "check", "lend"} => s.user \in DOMAIN users
  /\ WillRefer(s) => s.kind = "view" /\ s.code # 0
  /\ WillRefer(s) \/ (s.pc = "put" /\ s.kind = "view") =>
       s.user \in DOMAIN users /\ s.code < s.user
  /\ s.pc = "put" /\ s.kind = "view" => s.code # 0
  /\ WillRefer(s) \/ s.pc = "put" => s.row # <<>>
  /\ s.pc \in Crediting => s.id \in DOMAIN users /\ s.reason \in Reasons
  /\ s.pc \in {"insert", "update"} => s.referrer <= Len(users)
  /\ s.pc \in Crediting /\ s.then = "lend" => s.user \in DOMAIN users
  /\ s.row # <<>> =>
       /\ Len(s.row) = 1
       /\ s.user \in DOMAIN users
       /\ s.row[1].referrer < s.user
       /\ s.row[1].points + Pending[s.user] <= Totals[s.user]

\* Every total is in the ledger with what is still to be added to it.
Backed == \A u \in DOMAIN users : users[u].points + Pending[u] <= Totals[u]

\* Three times what referrers have got and are owed is covered by the rest.
Budget == 3 * AllReferred + Owing <= AllEarned

\* The inductive invariant.
IInv ==
  /\ Typed
  /\ Counted
  /\ ReferredByEarlier
  /\ Backed
  /\ \A r \in Reqs : req[r].pc # "idle" => Fine(req[r])
  /\ Budget

-----------------------------------------------------------------------------
(* The sums *)

\* The reasons of points are finitely many.
LEMMA ReasonsFinite == IsFiniteSet(Reasons)
<1>1. Reasons = {"Connect"} \cup {"User Referred"} \cup {"Discord"} \cup {"X"}
                  \cup {"Lending"} \cup {"referral"}
  BY DEF Reasons
<1>2. \A x : IsFiniteSet({x})
  BY FS_Singleton
<1> QED
  BY <1>1, <1>2, FS_Union

\* What one request contributes to the sums is a natural number.
LEMMA ShareNat ==
  ASSUME NEW s \in {Idle} \cup Request, NEW u
  PROVE  Unwritten(s, u) \in Nat /\ Creates(s) \in Nat /\ Owes(s) \in Nat
BY DEF Idle, Request, Unwritten, Creates, Owes

\* A user's points by the ledger are those of referrals and the rest.
LEMMA TotalsNat ==
  ASSUME Typed, NEW u \in DOMAIN users
  PROVE  /\ u \in DOMAIN ledger /\ u \in Nat
         /\ Totals[u] \in Nat /\ Referrals[u] \in Nat /\ Earnings[u] \in Nat
         /\ Totals[u] = Earnings[u] + Referrals[u]
<1>1. /\ u \in DOMAIN ledger /\ u \in Nat /\ ledger[u] \in [Reasons -> Nat]
      /\ "referral" \in Reasons
  <2>1. "referral" \in Reasons
    BY DEF Reasons
  <2>2. /\ users \in Seq(User) /\ ledger \in Seq([Reasons -> Nat]) /\ Len(ledger) = Len(users)
    BY DEF Typed
  <2> HIDE DEF User
  <2> QED
    BY <2>1, <2>2
<1> DEFINE f == ledger[u]
<1>2. LedgerSum(u) \in Nat /\ f["referral"] <= LedgerSum(u)
  <2>1. \A x \in Reasons : f[x] \in Nat
    BY <1>1
  <2> HIDE DEF f
  <2>2. SumFunctionOnSet(f, Reasons) \in Nat /\ f["referral"] <= SumFunctionOnSet(f, Reasons)
    BY <1>1, <2>1, ReasonsFinite, SumNat
  <2> QED
    BY <2>2 DEF LedgerSum, f
<1>3. f["referral"] \in Nat
  BY <1>1
<1>4. /\ Totals[u] = LedgerSum(u) /\ Referrals[u] = f["referral"]
      /\ Earnings[u] = LedgerSum(u) - f["referral"]
  BY <1>1 DEF Totals, Referrals, Earnings
<1> HIDE DEF f
<1> QED
  BY <1>1, <1>2, <1>3, <1>4

\* The users are finitely many.
LEMMA UsersFinite ==
  ASSUME Typed
  PROVE  IsFiniteSet(DOMAIN ledger)
<1>1. ledger \in Seq([Reasons -> Nat])
  BY DEF Typed
<1>2. Len(ledger) \in Int /\ 1 \in Int /\ DOMAIN ledger = 1..Len(ledger)
  BY <1>1
<1>3. IsFiniteSet(1..Len(ledger))
  BY <1>2, FS_Interval
<1> QED
  BY <1>2, <1>3

\* The sums over the requests are natural numbers.
LEMMA SumsNat ==
  ASSUME Typed
  PROVE  /\ \A u \in Nat : Pending[u] \in Nat
         /\ Coming \in Nat /\ Owing \in Nat
<1>1. \A r \in Reqs : req[r] \in {Idle} \cup Request
  BY DEF Typed
<1>2. IsFiniteSet(Reqs)
  BY LeaderboardAssumption
<1>3. Coming \in Nat
  <2> DEFINE f == [r \in Reqs |-> Creates(req[r])]
  <2>1. \A r \in Reqs : f[r] \in Nat
    BY <1>1, ShareNat
  <2> HIDE DEF f
  <2>2. SumFunctionOnSet(f, Reqs) \in Nat
    BY <1>2, <2>1, SumNat
  <2> QED
    BY <2>2 DEF Coming, f
<1>4. Owing \in Nat
  <2> DEFINE f == [r \in Reqs |-> Owes(req[r])]
  <2>1. \A r \in Reqs : f[r] \in Nat
    BY <1>1, ShareNat
  <2> HIDE DEF f
  <2>2. SumFunctionOnSet(f, Reqs) \in Nat
    BY <1>2, <2>1, SumNat
  <2> QED
    BY <2>2 DEF Owing, f
<1>5. ASSUME NEW u \in Nat PROVE Pending[u] \in Nat
  <2> DEFINE f == [r \in Reqs |-> Unwritten(req[r], u)]
  <2>1. \A r \in Reqs : f[r] \in Nat
    BY <1>1, ShareNat
  <2> HIDE DEF f
  <2>2. SumFunctionOnSet(f, Reqs) \in Nat
    BY <1>2, <2>1, SumNat
  <2> QED
    BY <2>2 DEF Pending, f
<1> QED
  BY <1>3, <1>4, <1>5

\* A sum over the requests when only one of them changes.
LEMMA SumOfOneChanged ==
  ASSUME NEW r \in Reqs, NEW f, NEW g,
         \A i \in Reqs : f[i] \in Nat /\ g[i] \in Nat,
         \A i \in Reqs \ {r} : f[i] = g[i]
  PROVE  /\ SumFunctionOnSet(g, Reqs) = SumFunctionOnSet(f, Reqs) - f[r] + g[r]
         /\ SumFunctionOnSet(g, Reqs) \in Nat
BY LeaderboardAssumption, SumChange

\* The sums after the request r has gone on to s.
LEMMA GotoSums ==
  ASSUME Typed, NEW r \in Reqs, NEW s \in {Idle} \cup Request, Goto(r, s)
  PROVE  /\ req' \in [Reqs -> {Idle} \cup Request]
         /\ req'[r] = s /\ \A i \in Reqs \ {r} : req'[i] = req[i]
         /\ \A u \in Nat :
              /\ Pending'[u] = Pending[u] - Unwritten(req[r], u) + Unwritten(s, u)
              /\ Pending'[u] \in Nat
         /\ Coming' = Coming - Creates(req[r]) + Creates(s)
         /\ Owing' = Owing - Owes(req[r]) + Owes(s)
         /\ Coming' \in Nat /\ Owing' \in Nat
<1>1. /\ req \in [Reqs -> {Idle} \cup Request]
      /\ \A i \in Reqs : req[i] \in {Idle} \cup Request
  BY DEF Typed
<1>2. /\ req' \in [Reqs -> {Idle} \cup Request]
      /\ req'[r] = s /\ \A i \in Reqs \ {r} : req'[i] = req[i]
      /\ \A i \in Reqs : req'[i] \in {Idle} \cup Request
  BY <1>1 DEF Goto
<1>4. /\ Coming' = Coming - Creates(req[r]) + Creates(s)
      /\ Coming' \in Nat
  <2> DEFINE f == [i \in Reqs |-> Creates(req[i])]
             g == [i \in Reqs |-> Creates(req'[i])]
  <2>1. \A i \in Reqs : f[i] \in Nat /\ g[i] \in Nat
    BY <1>1, <1>2, ShareNat
  <2>2. \A i \in Reqs \ {r} : f[i] = g[i]
    BY <1>2
  <2>3. f[r] = Creates(req[r]) /\ g[r] = Creates(s)
    BY <1>2
  <2>4. Coming = SumFunctionOnSet(f, Reqs) /\ Coming' = SumFunctionOnSet(g, Reqs)
    BY DEF Coming, Creates
  <2> HIDE DEF f, g
  <2>5. /\ SumFunctionOnSet(g, Reqs) = SumFunctionOnSet(f, Reqs) - f[r] + g[r]
        /\ SumFunctionOnSet(g, Reqs) \in Nat
    BY <2>1, <2>2, SumOfOneChanged, Zenon
  <2> QED
    BY <2>3, <2>4, <2>5
<1>5. /\ Owing' = Owing - Owes(req[r]) + Owes(s)
      /\ Owing' \in Nat
  <2> DEFINE f == [i \in Reqs |-> Owes(req[i])]
             g == [i \in Reqs |-> Owes(req'[i])]
  <2>1. \A i \in Reqs : f[i] \in Nat /\ g[i] \in Nat
    BY <1>1, <1>2, ShareNat
  <2>2. \A i \in Reqs \ {r} : f[i] = g[i]
    BY <1>2
  <2>3. f[r] = Owes(req[r]) /\ g[r] = Owes(s)
    BY <1>2
  <2>4. Owing = SumFunctionOnSet(f, Reqs) /\ Owing' = SumFunctionOnSet(g, Reqs)
    BY DEF Owing, Owes
  <2> HIDE DEF f, g
  <2>5. /\ SumFunctionOnSet(g, Reqs) = SumFunctionOnSet(f, Reqs) - f[r] + g[r]
        /\ SumFunctionOnSet(g, Reqs) \in Nat
    BY <2>1, <2>2, SumOfOneChanged, Zenon
  <2> QED
    BY <2>3, <2>4, <2>5
<1>6. ASSUME NEW u \in Nat
      PROVE  /\ Pending'[u] = Pending[u] - Unwritten(req[r], u) + Unwritten(s, u)
             /\ Pending'[u] \in Nat
  <2> DEFINE f == [i \in Reqs |-> Unwritten(req[i], u)]
             g == [i \in Reqs |-> Unwritten(req'[i], u)]
  <2>1. \A i \in Reqs : f[i] \in Nat /\ g[i] \in Nat
    BY <1>1, <1>2, ShareNat
  <2>2. \A i \in Reqs \ {r} : f[i] = g[i]
    BY <1>2
  <2>3. f[r] = Unwritten(req[r], u) /\ g[r] = Unwritten(s, u)
    BY <1>2
  <2>4. Pending[u] = SumFunctionOnSet(f, Reqs) /\ Pending'[u] = SumFunctionOnSet(g, Reqs)
    BY DEF Pending, Unwritten
  <2> HIDE DEF f, g
  <2>5. /\ SumFunctionOnSet(g, Reqs) = SumFunctionOnSet(f, Reqs) - f[r] + g[r]
        /\ SumFunctionOnSet(g, Reqs) \in Nat
    BY <2>1, <2>2, SumOfOneChanged, Zenon
  <2> QED
    BY <2>3, <2>4, <2>5
<1> QED
  BY <1>2, <1>4, <1>5, <1>6

\* The sums over the ledger stay when the ledger does.
LEMMA StillTotals ==
  ASSUME UNCHANGED ledger
  PROVE  /\ Totals' = Totals /\ Referrals' = Referrals /\ Earnings' = Earnings
         /\ AllReferred' = AllReferred /\ AllEarned' = AllEarned
BY DEF Totals, Referrals, Earnings, AllReferred, AllEarned, LedgerSum

\* What all users have got is a natural number.
LEMMA ReferralsNat ==
  ASSUME Typed
  PROVE  AllReferred \in Nat /\ AllEarned \in Nat
<1> DEFINE D == DOMAIN ledger
<1>1. D = DOMAIN users
  <2>1. users \in Seq(User) /\ Len(ledger) = Len(users) /\ ledger \in Seq([Reasons -> Nat])
    BY DEF Typed
  <2> HIDE DEF User
  <2> QED
    BY <2>1
<1>2. \A u \in D : Referrals[u] \in Nat /\ Earnings[u] \in Nat
  BY <1>1, TotalsNat
<1>3. IsFiniteSet(D)
  BY UsersFinite
<1> HIDE DEF D
<1>4. SumFunctionOnSet(Referrals, D) \in Nat /\ SumFunctionOnSet(Earnings, D) \in Nat
  BY <1>2, <1>3, SumNat
<1> QED
  BY <1>4 DEF AllReferred, AllEarned, D

\* A sum over the users when only one of them changes.
LEMMA SumOfOneUser ==
  ASSUME Typed, NEW D, D = DOMAIN ledger, NEW id \in D, NEW f, NEW g,
         \A u \in D : f[u] \in Nat /\ g[u] \in Nat,
         \A u \in D \ {id} : f[u] = g[u]
  PROVE  /\ SumFunctionOnSet(g, D) = SumFunctionOnSet(f, D) - f[id] + g[id]
         /\ SumFunctionOnSet(f, D) \in Nat
<1>1. IsFiniteSet(D)
  BY UsersFinite
<1> QED
  BY <1>1, SumChange

\* The sums over the ledger after a credit's row has been inserted.
LEMMA InsertedTotals ==
  ASSUME Typed, NEW id \in DOMAIN users, NEW reason \in Reasons, NEW points \in Nat,
         ledger' = [ledger EXCEPT ![id][reason] = @ + points]
  PROVE  /\ ledger' \in Seq([Reasons -> Nat]) /\ Len(ledger') = Len(ledger)
         /\ DOMAIN ledger' = DOMAIN ledger
         /\ Totals'[id] = Totals[id] + points
         /\ \A u \in DOMAIN users \ {id} : Totals'[u] = Totals[u]
         /\ reason = "referral" => /\ AllReferred' = AllReferred + points
                                   /\ AllEarned' = AllEarned
         /\ reason # "referral" => /\ AllReferred' = AllReferred
                                   /\ AllEarned' = AllEarned + points
<1> DEFINE D == DOMAIN ledger
<1>1. /\ ledger \in Seq([Reasons -> Nat]) /\ D = DOMAIN users /\ id \in D
      /\ D = 1..Len(ledger) /\ Len(ledger) \in Nat
  <2>1. /\ users \in Seq(User) /\ ledger \in Seq([Reasons -> Nat]) /\ Len(ledger) = Len(users)
    BY DEF Typed
  <2> HIDE DEF User
  <2> QED
    BY <2>1
<1> DEFINE old == ledger[id]
           new == [ledger[id] EXCEPT ![reason] = @ + points]
<1>2. old \in [Reasons -> Nat] /\ new \in [Reasons -> Nat]
  BY <1>1
<1>3. ledger' = [ledger EXCEPT ![id] = new]
  OBVIOUS
<1> HIDE DEF new
<1>4. ledger' \in Seq([Reasons -> Nat]) /\ Len(ledger') = Len(ledger)
  BY <1>1, <1>2, <1>3, ExceptSeq
<1>5. /\ DOMAIN ledger' = D
      /\ ledger'[id] = new
      /\ \A u \in D \ {id} : ledger'[u] = ledger[u]
  BY <1>1, <1>3
<1>6. LedgerSum(id)' = LedgerSum(id) + points
  <2>1. /\ \A x \in Reasons : old[x] \in Nat /\ new[x] \in Nat
        /\ \A x \in Reasons \ {reason} : old[x] = new[x]
        /\ new[reason] = old[reason] + points
    BY <1>2 DEF new
  <2> HIDE DEF old
  <2>2. /\ SumFunctionOnSet(new, Reasons)
             = SumFunctionOnSet(old, Reasons) - old[reason] + new[reason]
        /\ SumFunctionOnSet(old, Reasons) \in Nat
    BY <2>1, ReasonsFinite, SumChange
  <2>3. SumFunctionOnSet(new, Reasons) = SumFunctionOnSet(old, Reasons) + points
    BY <2>1, <2>2
  <2> QED
    BY <1>5, <2>3 DEF LedgerSum, old
<1>7. \A u \in D \ {id} : LedgerSum(u)' = LedgerSum(u)
  BY <1>5 DEF LedgerSum
<1>8. /\ Totals'[id] = Totals[id] + points
      /\ \A u \in D \ {id} : Totals'[u] = Totals[u]
  BY <1>1, <1>5, <1>6, <1>7 DEF Totals
<1>9. \A u \in D : /\ Totals[u] \in Nat /\ Referrals[u] \in Nat /\ Earnings[u] \in Nat
                   /\ Totals[u] = Earnings[u] + Referrals[u]
  BY <1>1, TotalsNat
<1>10. /\ \A u \in D : Referrals'[u] = IF u = id /\ reason = "referral"
                                       THEN Referrals[u] + points ELSE Referrals[u]
       /\ \A u \in D : Earnings'[u] = IF u = id /\ reason # "referral"
                                      THEN Earnings[u] + points ELSE Earnings[u]
  <2>1. "referral" \in Reasons
    BY DEF Reasons
  <2>2. new["referral"] = IF reason = "referral" THEN old["referral"] + points
                          ELSE old["referral"]
    BY <1>2, <2>1 DEF new
  <2>3. \A u \in D : /\ Referrals[u] = ledger[u]["referral"]
                     /\ Referrals'[u] = ledger'[u]["referral"]
    BY <1>5 DEF Referrals
  <2>4. \A u \in D : /\ Totals[u] = LedgerSum(u)
                     /\ Earnings[u] = LedgerSum(u) - ledger[u]["referral"]
                     /\ Earnings'[u] = LedgerSum(u)' - ledger'[u]["referral"]
    BY <1>5 DEF Totals, Earnings
  <2>5. ledger[id]["referral"] \in Nat
    BY <1>2, <2>1
  <2>6. \A u \in D : Referrals'[u] = IF u = id /\ reason = "referral"
                                     THEN Referrals[u] + points ELSE Referrals[u]
    BY <1>5, <2>2, <2>3
  <2>7. Earnings'[id] = IF reason # "referral" THEN Earnings[id] + points ELSE Earnings[id]
    <3>1. LedgerSum(id) \in Nat
      BY <1>1, <1>9, <2>4
    <3>2. Earnings'[id] = (LedgerSum(id) + points) - new["referral"]
      <4>1. Earnings'[id] = SumFunctionOnSet(ledger'[id], Reasons) - ledger'[id]["referral"]
        BY <1>1, <1>5 DEF Earnings, LedgerSum
      <4>2. ledger'[id] = new
        BY <1>5
      <4>3. SumFunctionOnSet(ledger'[id], Reasons) = LedgerSum(id) + points
        BY <1>6 DEF LedgerSum
      <4>4. ledger'[id]["referral"] = new["referral"]
        BY <4>2
      <4> QED
        BY <4>1, <4>3, <4>4, Zenon
    <3>3. Earnings[id] = LedgerSum(id) - old["referral"]
      BY <1>1, <2>4
    <3> HIDE DEF old
    <3> QED
      BY <2>2, <2>5, <3>1, <3>2, <3>3 DEF old
  <2>8. \A u \in D \ {id} : Earnings'[u] = Earnings[u]
    BY <1>5, <1>7, <2>4
  <2> QED
    BY <2>6, <2>7, <2>8
<1> DEFINE SumTo(f) == SumFunctionOnSet(f, D)
<1>11. /\ \A u \in D : Referrals'[u] \in Nat /\ Earnings'[u] \in Nat
       /\ \A u \in D \ {id} : Referrals'[u] = Referrals[u] /\ Earnings'[u] = Earnings[u]
  BY <1>9, <1>10
<1>12. /\ SumTo(Referrals') = SumTo(Referrals) - Referrals[id] + Referrals'[id]
       /\ SumTo(Referrals) \in Nat
  <2>1. /\ \A u \in D : Referrals[u] \in Nat /\ Referrals'[u] \in Nat
        /\ \A u \in D \ {id} : Referrals[u] = Referrals'[u]
    BY <1>9, <1>11
  <2>2. id \in D /\ D = DOMAIN ledger
    BY <1>1
  <2> HIDE DEF D
  <2> QED
    BY <2>1, <2>2, SumOfOneUser
<1>13. /\ SumTo(Earnings') = SumTo(Earnings) - Earnings[id] + Earnings'[id]
       /\ SumTo(Earnings) \in Nat
  <2>1. /\ \A u \in D : Earnings[u] \in Nat /\ Earnings'[u] \in Nat
        /\ \A u \in D \ {id} : Earnings[u] = Earnings'[u]
    BY <1>9, <1>11
  <2>2. id \in D /\ D = DOMAIN ledger
    BY <1>1
  <2> HIDE DEF D
  <2> QED
    BY <2>1, <2>2, SumOfOneUser
<1>14. /\ AllReferred = SumTo(Referrals) /\ AllReferred' = SumTo(Referrals')
       /\ AllEarned = SumTo(Earnings) /\ AllEarned' = SumTo(Earnings')
  BY <1>5 DEF AllReferred, AllEarned
<1> HIDE DEF SumTo
<1>15. /\ reason = "referral" => AllReferred' = AllReferred + points /\ AllEarned' = AllEarned
       /\ reason # "referral" => AllReferred' = AllReferred /\ AllEarned' = AllEarned + points
  <2>1. /\ reason = "referral" => /\ Referrals'[id] = Referrals[id] + points
                                 /\ Earnings'[id] = Earnings[id]
        /\ reason # "referral" => /\ Referrals'[id] = Referrals[id]
                                 /\ Earnings'[id] = Earnings[id] + points
    BY <1>1, <1>10
  <2>2. Referrals[id] \in Nat /\ Earnings[id] \in Nat
    BY <1>1, <1>9
  <2>3. CASE reason = "referral"
    BY <1>12, <1>13, <1>14, <2>1, <2>2, <2>3
  <2>4. CASE reason # "referral"
    BY <1>12, <1>13, <1>14, <2>1, <2>2, <2>4
  <2> QED
    BY <2>3, <2>4
<1> HIDE DEF D
<1> QED
  BY <1>1, <1>4, <1>5, <1>8, <1>15 DEF D

\* A sum over the users when one without points joins.
LEMMA SumOfOneMore ==
  ASSUME Typed, NEW D, D = DOMAIN ledger, NEW y, y \notin D, NEW f, NEW g,
         \A u \in D : f[u] \in Nat /\ f[u] = g[u],
         g[y] = 0
  PROVE  SumFunctionOnSet(g, D \cup {y}) = SumFunctionOnSet(f, D)
<1> DEFINE S == D \cup {y}
<1>1. IsFiniteSet(D)
  BY UsersFinite
<1>2. IsFiniteSet(S)
  BY <1>1, FS_AddElement
<1>3. y \in S /\ (\A x \in S : g[x] \in Int) /\ S \ {y} = D
  OBVIOUS
<1> HIDE DEF S
<1>4. SumFunctionOnSet(g, S) = g[y] + SumFunctionOnSet(g, S \ {y})
  BY <1>2, <1>3, SumRemove
<1>5. SumFunctionOnSet(f, D) = SumFunctionOnSet(g, D)
  BY <1>1, SumSame
<1>6. SumFunctionOnSet(f, D) \in Nat
  BY <1>1, SumNat
<1> QED
  BY <1>3, <1>4, <1>5, <1>6 DEF S

\* The sums over the ledger after a user has been added.
LEMMA CreatedTotals ==
  ASSUME Typed, ledger' = Append(ledger, NoPoints)
  PROVE  /\ ledger' \in Seq([Reasons -> Nat]) /\ Len(ledger') = Len(ledger) + 1
         /\ \A u \in DOMAIN users : Totals'[u] = Totals[u]
         /\ Totals'[Len(users) + 1] = 0
         /\ AllReferred' = AllReferred /\ AllEarned' = AllEarned
<1> DEFINE D == DOMAIN ledger
           n == Len(users) + 1
<1>1. /\ ledger \in Seq([Reasons -> Nat]) /\ D = DOMAIN users
      /\ D = 1..Len(ledger) /\ Len(ledger) \in Nat /\ n = Len(ledger) + 1
  <2>1. /\ users \in Seq(User) /\ ledger \in Seq([Reasons -> Nat]) /\ Len(ledger) = Len(users)
    BY DEF Typed
  <2> HIDE DEF User
  <2> QED
    BY <2>1
<1>2. NoPoints \in [Reasons -> Nat] /\ "referral" \in Reasons
  BY DEF NoPoints, Reasons
<1>3. /\ ledger' \in Seq([Reasons -> Nat]) /\ Len(ledger') = Len(ledger) + 1
      /\ DOMAIN ledger' = D \cup {n} /\ n \notin D
      /\ ledger'[n] = NoPoints
      /\ \A u \in D : ledger'[u] = ledger[u]
  BY <1>1, <1>2
<1>4. SumFunctionOnSet(ledger'[n], Reasons) = 0
  <2>1. \A x \in Reasons : NoPoints[x] = 0
    BY DEF NoPoints
  <2>2. SumFunctionOnSet(NoPoints, Reasons) = 0
    BY <2>1, ReasonsFinite, SumZero
  <2>3. ledger'[n] = NoPoints
    BY <1>3
  <2> QED
    BY <2>2, <2>3, Zenon
<1>5. \A u \in D : LedgerSum(u)' = LedgerSum(u)
  BY <1>3 DEF LedgerSum
<1>6. /\ \A u \in D : /\ Totals'[u] = Totals[u]
                      /\ Referrals'[u] = Referrals[u]
                      /\ Earnings'[u] = Earnings[u]
      /\ Totals'[n] = 0 /\ Referrals'[n] = 0
  <2> HIDE DEF n, D
  <2>1. \A u \in D : /\ Totals'[u] = Totals[u]
                     /\ Referrals'[u] = Referrals[u]
                     /\ Earnings'[u] = Earnings[u]
    BY <1>3, <1>5 DEF Totals, Referrals, Earnings, D
  <2>2. Totals'[n] = 0
    BY <1>3, <1>4 DEF Totals, LedgerSum
  <2>3. Referrals'[n] = ledger'[n]["referral"]
    BY <1>3 DEF Referrals
  <2>4. ledger'[n]["referral"] = NoPoints["referral"]
    BY <1>3
  <2>5. NoPoints["referral"] = 0
    BY <1>2 DEF NoPoints
  <2> QED
    BY <2>1, <2>2, <2>3, <2>4, <2>5
<1>7. Earnings'[n] = 0
  <2> HIDE DEF n, D
  <2>1. Earnings'[n] = SumFunctionOnSet(ledger'[n], Reasons) - ledger'[n]["referral"]
    BY <1>3 DEF Earnings, LedgerSum
  <2>2. Referrals'[n] = ledger'[n]["referral"]
    BY <1>3 DEF Referrals
  <2>3. Earnings'[n] = 0 - 0
    BY <1>4, <1>6, <2>1, <2>2, Zenon
  <2> QED
    BY <2>3
<1>8. \A u \in D : Referrals[u] \in Nat /\ Earnings[u] \in Nat
  BY <1>1, TotalsNat
<1>9. D = DOMAIN ledger
  OBVIOUS
<1> HIDE DEF D, n
<1>10. /\ SumFunctionOnSet(Referrals', D \cup {n}) = SumFunctionOnSet(Referrals, D)
       /\ SumFunctionOnSet(Earnings', D \cup {n}) = SumFunctionOnSet(Earnings, D)
  BY <1>3, <1>6, <1>7, <1>8, <1>9, SumOfOneMore
<1>11. AllReferred' = AllReferred /\ AllEarned' = AllEarned
  BY <1>3, <1>9, <1>10 DEF AllReferred, AllEarned
<1> QED
  BY <1>1, <1>3, <1>6, <1>11 DEF n

-----------------------------------------------------------------------------
(* Steps that leave the ledger alone *)

\* Every request but r stays in order when nothing is taken from what backs a user.
LEMMA OthersStayFine ==
  ASSUME Typed, NEW r \in Reqs,
         \A i \in Reqs \ {r} : req'[i] = req[i],
         \A i \in Reqs : req[i].pc # "idle" => Fine(req[i]),
         users' \in Seq(User), Len(users) <= Len(users'),
         \A u \in DOMAIN users : /\ Pending'[u] \in Nat /\ Totals'[u] \in Nat
                                 /\ Totals[u] + Pending'[u] <= Totals'[u] + Pending[u]
  PROVE  \A i \in Reqs \ {r} : req'[i].pc # "idle" => Fine(req[i])'
<1> SUFFICES ASSUME NEW i \in Reqs \ {r}, req'[i].pc # "idle"
             PROVE  Fine(req[i])'
  OBVIOUS
<1> DEFINE s == req[i]
<1>1. s \in Request /\ Fine(s) /\ req'[i] = s
  BY DEF Typed, Idle
<1>2. /\ DOMAIN users = 1..Len(users) /\ Len(users) \in Nat
      /\ DOMAIN users' = 1..Len(users') /\ Len(users') \in Nat
      /\ DOMAIN users \subseteq DOMAIN users'
  <2>1. users \in Seq(User)
    BY DEF Typed
  <2> HIDE DEF User
  <2> QED
    BY <2>1
<1>3. ASSUME s.row # <<>>
      PROVE  s.row[1].points + Pending'[s.user] <= Totals'[s.user]
  <2>1. /\ s.user \in DOMAIN users
        /\ s.row[1].points + Pending[s.user] <= Totals[s.user]
    BY <1>1, <1>3 DEF Fine
  <2>2. s.row[1].points \in Nat
    <3>1. s.row \in Seq(User)
      BY <1>1 DEF Request
    <3>2. Len(s.row) = 1
      BY <1>1, <1>3 DEF Fine
    <3>3. s.row[1] \in User
      BY <3>1, <3>2
    <3> QED
      BY <3>3 DEF User
  <2>3. Pending[s.user] \in Nat /\ Totals[s.user] \in Nat
    BY <1>2, <2>1, SumsNat, TotalsNat
  <2>4. /\ Pending'[s.user] \in Nat /\ Totals'[s.user] \in Nat
        /\ Totals[s.user] + Pending'[s.user] <= Totals'[s.user] + Pending[s.user]
    BY <2>1
  <2>5. \A a, b, c, d, e \in Nat : a + b <= c /\ c + d <= e + b => a + d <= e
    OBVIOUS
  <2> HIDE DEF s
  <2> QED
    BY <2>1, <2>2, <2>3, <2>4, <2>5, ZenonT(60)
<1>4. \A x \in Nat : x <= Len(users) => x <= Len(users')
  BY <1>2
<1>5. s.code \in Nat /\ s.referrer \in Nat
  BY <1>1 DEF Request
<1> HIDE DEF s
<1>6. Fine(s)'
  BY <1>1, <1>2, <1>3, <1>4, <1>5 DEF Fine, WillRefer, s
<1> QED
  BY <1>6 DEF s

\* A step that leaves the ledger alone keeps the invariant: what it adds to a
\* user's total it inserted before, and its cascade owes no more than it did.
LEMMA LedgerKept ==
  ASSUME IInv, NEW r \in Reqs, NEW s \in {Idle} \cup Request, Goto(r, s),
         UNCHANGED ledger, users' \in Seq(User), Len(users') = Len(users),
         ReferredByEarlier',
         \A u \in DOMAIN users :
           users'[u].points + Pending[u] <= Totals[u] + Unwritten(req[r], u),
         made' \in 0..MaxRequests, deaths' \in 0..MaxDeaths,
         made + Creates(s) <= made' + Creates(req[r]),
         s.pc # "update", Owes(s) <= Owes(req[r]), s.pc # "idle" => Fine(s)
  PROVE  IInv'
<1>1. Typed /\ Counted /\ Backed /\ Budget
      /\ \A i \in Reqs : req[i].pc # "idle" => Fine(req[i])
  BY DEF IInv
<1>2. /\ DOMAIN users = 1..Len(users) /\ Len(users) \in Nat
      /\ DOMAIN users' = DOMAIN users /\ made \in Nat /\ MaxRequests \in Nat
      /\ Len(ledger) = Len(users) /\ ledger \in Seq([Reasons -> Nat])
  <2>1. users \in Seq(User) /\ Len(ledger) = Len(users) /\ made \in 0..MaxRequests
        /\ ledger \in Seq([Reasons -> Nat])
    BY <1>1 DEF Typed
  <2> HIDE DEF User
  <2> QED
    BY <2>1, LeaderboardAssumption
<1>3. /\ req' \in [Reqs -> {Idle} \cup Request]
      /\ req'[r] = s /\ \A i \in Reqs \ {r} : req'[i] = req[i]
      /\ \A u \in Nat :
           /\ Pending'[u] = Pending[u] - Unwritten(req[r], u) + Unwritten(s, u)
           /\ Pending'[u] \in Nat
      /\ Coming' = Coming - Creates(req[r]) + Creates(s)
      /\ Owing' = Owing - Owes(req[r]) + Owes(s)
      /\ Coming' \in Nat /\ Owing' \in Nat
  BY <1>1, GotoSums
<1>4. /\ \A u \in Nat : Pending[u] \in Nat
      /\ Coming \in Nat /\ Owing \in Nat
  BY <1>1, SumsNat
<1>5. /\ Totals' = Totals /\ AllReferred' = AllReferred /\ AllEarned' = AllEarned
  BY StillTotals
<1>6. /\ req[r] \in {Idle} \cup Request
      /\ Creates(req[r]) \in Nat /\ Creates(s) \in Nat
      /\ Owes(req[r]) \in Nat /\ Owes(s) \in Nat
      /\ \A u : Unwritten(req[r], u) \in Nat /\ Unwritten(s, u) = 0
  <2>1. req[r] \in {Idle} \cup Request
    BY <1>1 DEF Typed
  <2> QED
    BY <2>1, ShareNat DEF Unwritten
<1>7. \A u \in DOMAIN users : Totals[u] \in Nat
  BY <1>1, TotalsNat
<1>8. \A u \in DOMAIN users : /\ Pending'[u] = Pending[u] - Unwritten(req[r], u)
                              /\ Pending'[u] \in Nat
  <2> SUFFICES ASSUME NEW u \in DOMAIN users
               PROVE  /\ Pending'[u] = Pending[u] - Unwritten(req[r], u)
                      /\ Pending'[u] \in Nat
    OBVIOUS
  <2>1. u \in Nat
    BY <1>2
  <2>2. /\ Pending'[u] = Pending[u] - Unwritten(req[r], u) + 0
        /\ Pending'[u] \in Nat /\ Pending[u] \in Nat /\ Unwritten(req[r], u) \in Nat
    BY <1>3, <1>4, <1>6, <2>1, Zenon
  <2>3. \A a, b \in Nat : a - b + 0 = a - b
    OBVIOUS
  <2> QED
    BY <2>2, <2>3
<1>9. Typed'
  BY <1>2, <1>3 DEF Typed
<1>10. Counted'
  <2>1. Len(users) + Coming <= made
    BY <1>1 DEF Counted
  <2>2. /\ Len(users) \in Nat /\ Coming \in Nat /\ made \in Nat /\ made' \in Nat
        /\ Creates(req[r]) \in Nat /\ Creates(s) \in Nat
        /\ Coming' = Coming - Creates(req[r]) + Creates(s)
    BY <1>2, <1>3, <1>4, <1>6
  <2>3. \A n, c, m, m2, a, b \in Nat :
          n + c <= m /\ m + b <= m2 + a => n + (c - a + b) <= m2
    OBVIOUS
  <2>4. Len(users) + Coming' <= made'
    BY <2>1, <2>2, <2>3, ZenonT(60)
  <2> QED
    BY <2>4 DEF Counted
<1>11. Backed'
  <2> SUFFICES ASSUME NEW u \in DOMAIN users
               PROVE  users'[u].points + Pending'[u] <= Totals[u]
    BY <1>2, <1>5 DEF Backed
  <2>1. users'[u] \in User
    <3> HIDE DEF User
    <3> QED
      BY <1>2
  <2>2. users'[u].points \in Nat
    BY <2>1 DEF User
  <2>3. u \in Nat
    BY <1>2
  <2>4. /\ Pending[u] \in Nat /\ Totals[u] \in Nat /\ Unwritten(req[r], u) \in Nat
        /\ Pending'[u] = Pending[u] - Unwritten(req[r], u)
        /\ users'[u].points + Pending[u] <= Totals[u] + Unwritten(req[r], u)
    BY <2>3, <1>4, <1>6, <1>7, <1>8
  <2>5. \A a, b, c, d, e \in Nat : a + b <= c + d => a + (b - d) <= c
    OBVIOUS
  <2> QED
    BY <2>2, <2>4, <2>5
<1>12. \A i \in Reqs : req'[i].pc # "idle" => Fine(req[i])'
  <2>1. \A u \in DOMAIN users : /\ Pending'[u] \in Nat /\ Totals'[u] \in Nat
                                /\ Totals[u] + Pending'[u] <= Totals'[u] + Pending[u]
    <3> SUFFICES ASSUME NEW u \in DOMAIN users
                 PROVE  /\ Pending'[u] \in Nat /\ Totals'[u] \in Nat
                        /\ Totals[u] + Pending'[u] <= Totals'[u] + Pending[u]
      OBVIOUS
    <3>1. u \in Nat
      BY <1>2
    <3>2. /\ Pending[u] \in Nat /\ Totals[u] \in Nat /\ Unwritten(req[r], u) \in Nat
          /\ Pending'[u] = Pending[u] - Unwritten(req[r], u) /\ Pending'[u] \in Nat
          /\ Totals'[u] = Totals[u]
      BY <1>4, <1>5, <1>6, <1>7, <1>8, <3>1
    <3>3. \A a, b, c \in Nat : a + (b - c) <= a + b
      OBVIOUS
    <3> QED
      BY <3>2, <3>3
  <2>2. \A i \in Reqs \ {r} : req'[i].pc # "idle" => Fine(req[i])'
    BY <1>1, <1>2, <1>3, <2>1, OthersStayFine
  <2>3. ASSUME s.pc # "idle" PROVE Fine(req[r])'
    <3>1. s \in Request /\ Fine(s)
      BY <2>3 DEF Idle
    <3>2. ASSUME s.row # <<>>
          PROVE  s.row[1].points + Pending'[s.user] <= Totals'[s.user]
      <4>1. /\ s.user \in DOMAIN users /\ Len(s.row) = 1
            /\ s.row[1].points + Pending[s.user] <= Totals[s.user]
        BY <3>1, <3>2 DEF Fine
      <4>2. s.row \in Seq(User)
        BY <3>1 DEF Request
      <4>3. s.row[1] \in User
        BY <4>1, <4>2
      <4>4. s.row[1].points \in Nat
        BY <4>3 DEF User
      <4>5. /\ Pending[s.user] \in Nat /\ Totals[s.user] \in Nat
            /\ Pending'[s.user] \in Nat /\ Totals'[s.user] \in Nat
            /\ Totals[s.user] + Pending'[s.user] <= Totals'[s.user] + Pending[s.user]
        <5>1. s.user \in Nat
          BY <4>1, <1>2
        <5> QED
          BY <4>1, <5>1, <1>4, <1>7, <2>1, Zenon
      <4>6. \A a, b, c, d, e \in Nat : a + b <= c /\ c + d <= e + b => a + d <= e
        OBVIOUS
      <4> QED
        BY <4>1, <4>4, <4>5, <4>6, SMTT(30)
    <3> QED
      BY <1>2, <1>3, <3>1, <3>2 DEF Fine, WillRefer
  <2> QED
    BY <1>3, <2>2, <2>3
<1>13. Budget'
  <2>1. AllReferred \in Nat /\ AllEarned \in Nat
    BY <1>1, ReferralsNat
  <2>2. 3 * AllReferred + Owing <= AllEarned
    BY <1>1 DEF Budget
  <2>3. /\ Owing \in Nat /\ Owes(req[r]) \in Nat /\ Owes(s) \in Nat
        /\ Owing' = Owing - Owes(req[r]) + Owes(s)
    BY <1>3, <1>4, <1>6
  <2>4. \A a, b, c, d, e \in Nat :
          3 * a + b <= c /\ e <= d => 3 * a + (b - d + e) <= c
    OBVIOUS
  <2>5. 3 * AllReferred + Owing' <= AllEarned
    BY <2>1, <2>2, <2>3, <2>4, ZenonT(60)
  <2> QED
    BY <1>5, <2>5 DEF Budget
<1> QED
  BY <1>9, <1>10, <1>11, <1>12, <1>13 DEF IInv

\* What the actions read in states of the invariant.
LEMMA Facts ==
  ASSUME IInv
  PROVE  /\ users \in Seq(User) /\ DOMAIN users = 1..Len(users) /\ Len(users) \in Nat
         /\ \A u \in DOMAIN users : /\ users[u] \in User /\ users[u].referrer < u
                                    /\ users[u].points + Pending[u] <= Totals[u]
                                    /\ users[u].points \in Nat
                                    /\ Pending[u] \in Nat /\ Totals[u] \in Nat
         /\ Len(users) <= made /\ made <= MaxRequests
         /\ made \in Nat /\ MaxRequests \in Nat /\ made \in 0..MaxRequests
         /\ deaths \in 0..MaxDeaths /\ MaxDeaths \in Nat
         /\ \A r \in Reqs : req[r].pc # "idle" => req[r] \in Request /\ Fine(req[r])
<1>1. Typed /\ Counted /\ Backed /\ ReferredByEarlier
      /\ \A i \in Reqs : req[i].pc # "idle" => Fine(req[i])
  BY DEF IInv
<1>2. /\ users \in Seq(User) /\ DOMAIN users = 1..Len(users) /\ Len(users) \in Nat
      /\ \A u \in DOMAIN users : users[u] \in User
  <2>1. users \in Seq(User)
    BY <1>1 DEF Typed
  <2> HIDE DEF User
  <2> QED
    BY <2>1
<1>3. /\ made \in Nat /\ MaxRequests \in Nat /\ made \in 0..MaxRequests /\ made <= MaxRequests
      /\ deaths \in 0..MaxDeaths /\ MaxDeaths \in Nat
  BY <1>1, LeaderboardAssumption DEF Typed
<1>4. Len(users) <= made
  <2>1. Coming \in Nat /\ Len(users) + Coming <= made
    BY <1>1, SumsNat DEF Counted
  <2> QED
    BY <1>2, <1>3, <2>1
<1>5. \A r \in Reqs : req[r].pc # "idle" => req[r] \in Request /\ Fine(req[r])
  BY <1>1 DEF Typed, Idle
<1>6. \A u \in DOMAIN users : /\ users[u].referrer < u
                              /\ users[u].points + Pending[u] <= Totals[u]
                              /\ users[u].points \in Nat
                              /\ Pending[u] \in Nat /\ Totals[u] \in Nat
  <2> SUFFICES ASSUME NEW u \in DOMAIN users
               PROVE  /\ users[u].referrer < u
                      /\ users[u].points + Pending[u] <= Totals[u]
                      /\ users[u].points \in Nat
                      /\ Pending[u] \in Nat /\ Totals[u] \in Nat
    OBVIOUS
  <2>1. users[u].points \in Nat
    BY <1>2 DEF User
  <2>2. Pending[u] \in Nat
    BY <1>1, <1>2, SumsNat
  <2>3. Totals[u] \in Nat
    BY <1>1, TotalsNat
  <2> QED
    BY <1>1, <2>1, <2>2, <2>3 DEF Backed, ReferredByEarlier
<1> QED
  BY <1>2, <1>3, <1>4, <1>5, <1>6

\* A step that leaves the rows of the users alone as well.
LEMMA UsersKept ==
  ASSUME IInv, NEW r \in Reqs, NEW s \in {Idle} \cup Request, Goto(r, s),
         UNCHANGED <<users, ledger>>, made' \in 0..MaxRequests, deaths' \in 0..MaxDeaths,
         made + Creates(s) <= made' + Creates(req[r]),
         s.pc # "update", Owes(s) <= Owes(req[r]), s.pc # "idle" => Fine(s)
  PROVE  IInv'
<1>1. users' \in Seq(User) /\ Len(users') = Len(users) /\ ReferredByEarlier'
  BY Facts DEF IInv, ReferredByEarlier
<1>2. req[r] \in {Idle} \cup Request
  BY DEF IInv, Typed
<1>3. ASSUME NEW u \in DOMAIN users
      PROVE  users'[u].points + Pending[u] <= Totals[u] + Unwritten(req[r], u)
  <2>1. Unwritten(req[r], u) \in Nat
    BY <1>2, ShareNat
  <2>2. /\ users'[u].points + Pending[u] <= Totals[u]
        /\ users'[u].points \in Nat /\ Pending[u] \in Nat /\ Totals[u] \in Nat
    BY Facts
  <2>3. \A a, b, c, d \in Nat : a + b <= c => a + b <= c + d
    OBVIOUS
  <2> QED
    BY <2>1, <2>2, <2>3
<1> QED
  BY <1>1, <1>3, LedgerKept

-----------------------------------------------------------------------------
(* The actions *)

\* A new request keeps the invariant.
LEMMA BeginKeeps ==
  ASSUME IInv, NEW r \in Reqs, NEW kind \in Kinds, NEW address \in Addresses,
         NEW code \in IF kind = "view" THEN 0..Len(users) ELSE {0},
         Begin(r, kind, address, code)
  PROVE  IInv'
<1> DEFINE s == [pc |-> "find", kind |-> kind, address |-> address, code |-> code,
              user |-> 0, row |-> <<>>, id |-> 0, reason |-> "none", points |-> 0,
              referrer |-> 0, then |-> "end"]
<1>1. code \in Nat /\ code <= Len(users) /\ (kind # "view" => code = 0)
  BY Facts
<1>2. s \in Request
  <2>1. kind \in {"view", "discord", "x", "job"}
    BY LeaderboardAssumption
  <2>2. <<>> \in Seq(User)
    OBVIOUS
  <2> HIDE DEF User
  <2> QED
    BY <1>1, <2>1, <2>2 DEF Request
<1>3. Fine(s)
  BY <1>1 DEF Fine, WillRefer, Crediting
<1>4. Goto(r, s) /\ req[r].pc = "idle" /\ made < MaxRequests /\ made' = made + 1
      /\ UNCHANGED <<users, ledger, deaths>>
  BY DEF Begin
<1>5. Creates(s) = 1 /\ Creates(req[r]) = 0 /\ Owes(s) = 0 /\ Owes(req[r]) = 0
  BY <1>4 DEF Creates, Owes
<1>6. s.pc = "find"
  OBVIOUS
<1> HIDE DEF s
<1>7. made' \in 0..MaxRequests /\ deaths' \in 0..MaxDeaths
      /\ made + Creates(s) <= made' + Creates(req[r]) /\ Owes(s) <= Owes(req[r])
  BY <1>4, <1>5, Facts
<1> QED
  BY <1>2, <1>3, <1>4, <1>6, <1>7, UsersKept

\* A request that dies leaves its last points out of the total, never out of
\* the ledger.
LEMMA DieKeeps ==
  ASSUME IInv, NEW r \in Reqs, Die(r)
  PROVE  IInv'
<1>1. Goto(r, Idle) /\ deaths < MaxDeaths /\ deaths' = deaths + 1
      /\ UNCHANGED <<users, ledger, made>>
  BY DEF Die
<1>2. Creates(req[r]) \in Nat /\ Owes(req[r]) \in Nat
  BY ShareNat DEF IInv, Typed
<1>3. Idle.pc = "idle" /\ Creates(Idle) = 0 /\ Owes(Idle) = 0
  BY DEF Idle, Creates, Owes
<1>4. made' \in 0..MaxRequests /\ deaths' \in 0..MaxDeaths
      /\ made + Creates(Idle) <= made' + Creates(req[r]) /\ Owes(Idle) <= Owes(req[r])
  BY <1>1, <1>2, <1>3, Facts
<1> QED
  BY <1>1, <1>3, <1>4, UsersKept

\* A step within a request that leaves the database alone.
LEMMA StepWithin ==
  ASSUME IInv, NEW r \in Reqs, NEW s \in {Idle} \cup Request, Goto(r, s),
         UNCHANGED <<users, ledger, made, deaths>>,
         Creates(s) <= Creates(req[r]),
         s.pc # "update", Owes(s) <= Owes(req[r]), s.pc # "idle" => Fine(s)
  PROVE  IInv'
<1>1. Creates(req[r]) \in Nat /\ Creates(s) \in Nat
  BY ShareNat DEF IInv, Typed
<1>2. made' \in 0..MaxRequests /\ deaths' \in 0..MaxDeaths
      /\ made + Creates(s) <= made' + Creates(req[r])
  BY <1>1, Facts
<1> QED
  BY <1>2, UsersKept

\* A request whose user is known goes on.
LEMMA FoundKeeps ==
  ASSUME IInv, NEW r \in Reqs, req[r].pc = "find", NEW u \in DOMAIN users,
         Goto(r, Found(r, u)), UNCHANGED <<users, ledger, made, deaths>>
  PROVE  IInv'
<1> DEFINE q == req[r]
<1>1. q \in Request /\ Fine(q) /\ q.pc = "find" /\ q.row = <<>>
  BY Facts DEF Fine
<1>2. u \in Nat /\ users[u] \in User
  BY Facts
<1>3. Creates(q) = 1 /\ Owes(q) = 0
  BY <1>1 DEF Creates, Owes
<1>4. CASE q.kind = "view"
  <2>1. Found(r, u) = Idle
    BY <1>4 DEF Found, ViewKnown
  <2>2. Idle.pc = "idle" /\ Creates(Idle) = 0 /\ Owes(Idle) = 0
    BY DEF Idle, Creates, Owes
  <2> QED
    BY <1>3, <2>1, <2>2, StepWithin
<1>5. CASE q.kind = "discord"
  <2> DEFINE s == [q EXCEPT !.pc = "check", !.user = u]
  <2>1. Found(r, u) = s
    BY <1>5 DEF Found
  <2>2. s \in Request /\ s.pc = "check" /\ s.user = u /\ s.row = <<>>
    BY <1>1, <1>2 DEF Request
  <2> HIDE DEF s
  <2>3. Fine(s) /\ Creates(s) = 0 /\ Owes(s) = 0
    BY <2>2 DEF Fine, WillRefer, Crediting, Creates, Owes
  <2> QED
    BY <1>3, <2>1, <2>2, <2>3, StepWithin
<1>6. CASE q.kind = "x"
  <2> DEFINE s == [q EXCEPT !.pc = "put", !.user = u, !.row = <<users[u]>>]
  <2>1. Found(r, u) = s
    BY <1>6 DEF Found
  <2>2. <<users[u]>> \in Seq(User)
    <3> HIDE DEF User
    <3> QED
      BY <1>2
  <2>3. s \in Request /\ s.pc = "put" /\ s.user = u /\ s.row = <<users[u]>> /\ s.kind = "x"
    BY <1>1, <1>2, <1>6, <2>2 DEF Request
  <2> HIDE DEF s
  <2>4. Len(s.row) = 1 /\ s.row[1] = users[u] /\ s.row # <<>>
    BY <2>3
  <2>5. Fine(s) /\ Creates(s) = 0 /\ Owes(s) = 0
    BY <2>3, <2>4, Facts DEF Fine, WillRefer, Crediting, Creates, Owes
  <2> QED
    BY <1>3, <2>1, <2>3, <2>5, StepWithin
<1>7. CASE q.kind = "job"
  <2> DEFINE s == Credit(r, u, "Lending", 100, "end")
  <2>1. Found(r, u) = s
    BY <1>7 DEF Found
  <2>2. /\ s \in Request /\ s.pc = "credit" /\ s.id = u /\ s.row = <<>>
        /\ s.reason = "Lending" /\ s.then = "end" /\ s.reason \in Reasons
    BY <1>1, <1>2 DEF Request, Credit, Reasons
  <2> HIDE DEF s
  <2>3. Fine(s) /\ Creates(s) = 0 /\ Owes(s) = 0
    BY <2>2 DEF Fine, WillRefer, Crediting, Creates, Owes
  <2> QED
    BY <1>3, <2>1, <2>2, <2>3, StepWithin
<1> QED
  BY <1>1, <1>4, <1>5, <1>6, <1>7 DEF Request

\* Finding the user, or nobody, keeps the invariant.
LEMMA FindKeeps ==
  ASSUME IInv, NEW r \in Reqs, Find(r)
  PROVE  IInv'
<1> DEFINE q == req[r]
           rows == {u \in DOMAIN users : users[u].address = req[r].address}
<1>1. /\ q.pc = "find" /\ UNCHANGED <<users, ledger, made, deaths>>
      /\ \/ \E u \in rows : Goto(r, Found(r, u))
         \/ Goto(r, IF q.kind \in {"view", "job"} THEN [q EXCEPT !.pc = "create"] ELSE Idle)
  BY DEF Find
<1>2. CASE \E u \in rows : Goto(r, Found(r, u))
  BY <1>1, <1>2, FoundKeeps
<1>3. CASE Goto(r, IF q.kind \in {"view", "job"} THEN [q EXCEPT !.pc = "create"] ELSE Idle)
  <2>1. q \in Request /\ Fine(q) /\ Creates(q) = 1 /\ Owes(q) = 0
    BY <1>1, Facts DEF Creates, Owes
  <2>2. CASE q.kind \in {"view", "job"}
    <3> DEFINE s == [q EXCEPT !.pc = "create"]
    <3>1. /\ s \in Request /\ s.pc = "create" /\ s.code = q.code /\ s.kind = q.kind
          /\ s.row = q.row
      BY <2>1 DEF Request
    <3> HIDE DEF s
    <3>2. Fine(s) /\ Creates(s) = 1 /\ Owes(s) = 0
      BY <1>1, <2>1, <2>2, <3>1 DEF Fine, WillRefer, Crediting, Creates, Owes
    <3>3. Goto(r, s)
      BY <1>3, <2>2 DEF s
    <3> QED
      BY <1>1, <2>1, <3>1, <3>2, <3>3, StepWithin
  <2>3. CASE q.kind \notin {"view", "job"}
    <3>1. Goto(r, Idle)
      BY <1>3, <2>3
    <3>2. Idle.pc = "idle" /\ Creates(Idle) = 0 /\ Owes(Idle) = 0
      BY DEF Idle, Creates, Owes
    <3> QED
      BY <1>1, <2>1, <3>1, <3>2, StepWithin
  <2> QED
    BY <2>2, <2>3
<1> QED
  BY <1>1, <1>2, <1>3

\* Looking for Discord points keeps the invariant.
LEMMA CheckKeeps ==
  ASSUME IInv, NEW r \in Reqs, Check(r)
  PROVE  IInv'
<1> DEFINE q == req[r]
<1>1. /\ q.pc = "check" /\ UNCHANGED <<users, ledger, made, deaths>>
      /\ \/ Goto(r, Credit(r, q.user, "Discord", 100, "end"))
         \/ Goto(r, Idle)
  BY DEF Check
<1>2. q \in Request /\ Fine(q) /\ Creates(q) = 0 /\ Owes(q) = 0
  BY <1>1, Facts DEF Creates, Owes
<1>3. CASE Goto(r, Credit(r, q.user, "Discord", 100, "end"))
  <2> DEFINE s == Credit(r, q.user, "Discord", 100, "end")
  <2>1. /\ s \in Request /\ s.pc = "credit" /\ s.id = q.user /\ s.row = q.row /\ s.user = q.user
        /\ s.reason = "Discord" /\ s.then = "end" /\ s.reason \in Reasons
    BY <1>2 DEF Request, Credit, Reasons
  <2>2. Goto(r, s)
    BY <1>3
  <2> HIDE DEF s
  <2>3. Fine(s) /\ Creates(s) = 0 /\ Owes(s) = 0
    BY <1>1, <1>2, <2>1 DEF Fine, WillRefer, Crediting, Creates, Owes
  <2> QED
    BY <1>1, <1>2, <2>1, <2>2, <2>3, StepWithin
<1>4. CASE Goto(r, Idle)
  <2>1. Idle.pc = "idle" /\ Creates(Idle) = 0 /\ Owes(Idle) = 0
    BY DEF Idle, Creates, Owes
  <2> QED
    BY <1>1, <1>2, <1>4, <2>1, StepWithin
<1> QED
  BY <1>1, <1>3, <1>4

\* A job's second credit keeps the invariant.
LEMMA LendKeeps ==
  ASSUME IInv, NEW r \in Reqs, Lend(r)
  PROVE  IInv'
<1> DEFINE q == req[r]
           s == Credit(r, q.user, "Lending", 100, "end")
<1>1. q.pc = "lend" /\ UNCHANGED <<users, ledger, made, deaths>> /\ Goto(r, s)
  BY DEF Lend
<1>2. q \in Request /\ Fine(q) /\ Creates(q) = 0 /\ Owes(q) = 0
  BY <1>1, Facts DEF Creates, Owes
<1>3. /\ s \in Request /\ s.pc = "credit" /\ s.id = q.user /\ s.row = q.row /\ s.user = q.user
      /\ s.reason = "Lending" /\ s.then = "end" /\ s.reason \in Reasons
  BY <1>2 DEF Request, Credit, Reasons
<1> HIDE DEF s
<1>4. Fine(s) /\ Creates(s) = 0 /\ Owes(s) = 0
  BY <1>1, <1>2, <1>3 DEF Fine, WillRefer, Crediting, Creates, Owes
<1> QED
  BY <1>1, <1>2, <1>3, <1>4, StepWithin

\* Reading the referrer keeps the invariant: it is a user.
LEMMA CreditReadKeeps ==
  ASSUME IInv, NEW r \in Reqs, CreditRead(r)
  PROVE  IInv'
<1> DEFINE q == req[r]
           s == [q EXCEPT !.pc = "insert", !.referrer = users[q.id].referrer]
<1>1. q.pc = "credit" /\ UNCHANGED <<users, ledger, made, deaths>> /\ Goto(r, s)
  BY DEF CreditRead
<1>2. q \in Request /\ Fine(q) /\ Creates(q) = 0 /\ q.id \in DOMAIN users
  BY <1>1, Facts DEF Creates, Fine, Crediting
<1>3. users[q.id].referrer \in Nat /\ users[q.id].referrer <= Len(users)
  <2>1. /\ users[q.id] \in User /\ users[q.id].referrer < q.id
        /\ DOMAIN users = 1..Len(users) /\ Len(users) \in Nat
    BY <1>2, Facts
  <2>2. users[q.id].referrer \in Nat
    BY <2>1 DEF User, Ids
  <2> QED
    BY <1>2, <2>1, <2>2
<1>4. /\ s \in Request /\ s.pc = "insert" /\ s.id = q.id /\ s.row = q.row /\ s.user = q.user
      /\ s.reason = q.reason /\ s.then = q.then /\ s.kind = q.kind /\ s.code = q.code
      /\ s.points = q.points /\ s.referrer = users[q.id].referrer
  BY <1>2, <1>3 DEF Request
<1> HIDE DEF s
<1>5. Creates(s) = 0 /\ Owes(s) = Owes(q)
  BY <1>1, <1>4 DEF Creates, Owes
<1>6. Fine(s)
  BY <1>1, <1>2, <1>3, <1>4 DEF Fine, WillRefer, Crediting
<1>7. Owes(q) \in Nat
  BY <1>2, ShareNat
<1> QED
  BY <1>1, <1>2, <1>4, <1>5, <1>6, <1>7, StepWithin

\* Setting the referrer keeps the invariant: the code is of an earlier user.
LEMMA ReferKeeps ==
  ASSUME IInv, NEW r \in Reqs, Refer(r)
  PROVE  IInv'
<1> DEFINE q == req[r]
           s == [q EXCEPT !.pc = "put", !.row[1].referrer = q.code]
<1>1. q.pc = "refer" /\ UNCHANGED <<users, ledger, made, deaths>> /\ Goto(r, s)
  BY DEF Refer
<1>2. q \in Request /\ Fine(q) /\ Creates(q) = 0 /\ Owes(q) = 0
  BY <1>1, Facts DEF Creates, Owes
<1>3. /\ q.kind = "view" /\ q.code # 0 /\ q.user \in DOMAIN users /\ q.code < q.user
      /\ q.row # <<>> /\ Len(q.row) = 1
      /\ q.row[1].points + Pending[q.user] <= Totals[q.user]
  BY <1>1, <1>2 DEF Fine, WillRefer
<1>4. q.row \in Seq(User) /\ q.row[1] \in User /\ DOMAIN q.row = {1}
  <2>1. q.row \in Seq(User)
    BY <1>2 DEF Request
  <2> HIDE DEF User, q
  <2> QED
    BY <1>3, <2>1
<1>5. q.code \in Ids
  <2>1. q.code \in Nat /\ q.user \in Nat
    BY <1>2 DEF Request
  <2> HIDE DEF q
  <2> QED
    BY <1>3, <2>1, Facts DEF Ids
<1> DEFINE row == [q.row EXCEPT ![1].referrer = q.code]
<1>6. row \in Seq(User) /\ Len(row) = 1 /\ row[1].referrer = q.code
      /\ row[1].points = q.row[1].points
  <2> DEFINE new == [q.row[1] EXCEPT !.referrer = q.code]
  <2>1. new \in User /\ new.referrer = q.code /\ new.points = q.row[1].points
    BY <1>4, <1>5 DEF User
  <2>2. row = [q.row EXCEPT ![1] = new]
    OBVIOUS
  <2> HIDE DEF User, new, q, row
  <2>3. row \in Seq(User) /\ Len(row) = Len(q.row) /\ row[1] = new
    BY <1>3, <1>4, <2>1, <2>2, ExceptSeq
  <2> QED
    BY <1>3, <2>1, <2>3
<1>7. /\ s \in Request /\ s.pc = "put" /\ s.row = row /\ s.user = q.user
      /\ s.kind = q.kind /\ s.code = q.code
  <2>1. s = [q EXCEPT !.pc = "put", !.row = row]
    OBVIOUS
  <2> HIDE DEF row, s
  <2> QED
    BY <1>2, <1>6, <2>1 DEF Request
<1> HIDE DEF s, row
<1>8. s.row # <<>>
  <2>1. Len(<<>>) = 0
    OBVIOUS
  <2>2. Len(s.row) = 1
    BY <1>6, <1>7
  <2> QED
    BY <2>1, <2>2
<1>9. Creates(s) = 0 /\ Owes(s) = 0
  BY <1>7 DEF Creates, Owes
<1>10. Fine(s)
  BY <1>1, <1>2, <1>3, <1>6, <1>7, <1>8 DEF Fine, WillRefer, Crediting
<1> QED
  BY <1>1, <1>2, <1>7, <1>9, <1>10, StepWithin

\* Writing a row back keeps the invariant: the row was the user's, and the
\* ledger has not lost anything since.
LEMMA PutKeeps ==
  ASSUME IInv, NEW r \in Reqs, Put(r)
  PROVE  IInv'
<1> DEFINE q == req[r]
           row == q.row[1]
           u == q.user
<1>1. q.pc = "put" /\ UNCHANGED <<ledger, made, deaths>>
  BY DEF Put
<1>2. q \in Request /\ Fine(q) /\ Creates(q) = 0 /\ Owes(q) = 0
  BY <1>1, Facts DEF Creates, Owes
<1>3. /\ u \in DOMAIN users /\ q.row # <<>> /\ Len(q.row) = 1
      /\ row.referrer < u /\ row.points + Pending[u] <= Totals[u]
      /\ (q.kind = "view" => q.code # 0 /\ q.code < u)
  BY <1>1, <1>2 DEF Fine, WillRefer
<1>4. row \in User
  <2>1. q.row \in Seq(User)
    BY <1>2 DEF Request
  <2> HIDE DEF User, q
  <2> QED
    BY <1>3, <2>1 DEF row
<1>6. ASSUME NEW new \in User, new.referrer = row.referrer, new.points = row.points,
             users' = [users EXCEPT ![u] = new]
      PROVE  /\ users' \in Seq(User) /\ Len(users') = Len(users) /\ ReferredByEarlier'
             /\ \A v \in DOMAIN users :
                  users'[v].points + Pending[v] <= Totals[v] + Unwritten(q, v)
  <2> HIDE DEF User, q, u, row
  <2>1. users' \in Seq(User) /\ Len(users') = Len(users) /\ DOMAIN users' = DOMAIN users
    BY <1>3, <1>6, Facts, ExceptSeq
  <2>2. users'[u] = new /\ \A v \in DOMAIN users \ {u} : users'[v] = users[v]
    BY <1>3, <1>6, Facts
  <2>3. ReferredByEarlier'
    BY <1>3, <1>6, <2>1, <2>2, Facts DEF ReferredByEarlier
  <2>4. \A v \in DOMAIN users : users'[v].points + Pending[v] <= Totals[v]
    BY <1>3, <1>6, <2>2, Facts
  <2>5. \A v : Unwritten(q, v) = 0
    BY <1>1 DEF Unwritten, q
  <2>6. \A v \in DOMAIN users : Totals[v] + 0 = Totals[v]
    BY Facts
  <2> QED
    BY <2>1, <2>3, <2>4, <2>5, <2>6
<1>7. made' \in 0..MaxRequests /\ deaths' \in 0..MaxDeaths
  BY <1>1, Facts
<1>8. made \in Nat /\ made' = made
  BY <1>1, Facts
<1>9. CASE q.kind = "view"
  <2> DEFINE s == Credit(r, q.code, "User Referred", 100, "end")
  <2>1. Goto(r, s) /\ users' = [users EXCEPT ![u] = row]
    BY <1>9 DEF Put
  <2>2. /\ s \in Request /\ s.pc = "credit" /\ s.id = q.code /\ s.row = q.row /\ s.user = u
        /\ s.reason = "User Referred" /\ s.then = "end" /\ s.reason \in Reasons
    BY <1>2 DEF Request, Credit, Reasons
  <2>3. q.code \in DOMAIN users
    <3>1. q.code \in Nat /\ u \in Nat
      BY <1>2 DEF Request
    <3> HIDE DEF q, u
    <3> QED
      BY <3>1, <1>3, <1>9, Facts
  <2>4. /\ users' \in Seq(User) /\ Len(users') = Len(users) /\ ReferredByEarlier'
        /\ \A v \in DOMAIN users :
             users'[v].points + Pending[v] <= Totals[v] + Unwritten(q, v)
    BY <1>4, <1>6, <2>1
  <2> HIDE DEF s
  <2>5. Fine(s) /\ Creates(s) = 0 /\ Owes(s) = 0
    BY <1>2, <1>3, <2>2, <2>3 DEF Fine, WillRefer, Crediting, Creates, Owes
  <2>6. /\ Owes(s) <= Owes(req[r]) /\ made + Creates(s) <= made' + Creates(req[r])
        /\ s.pc # "update"
    <3>1. Creates(s) = 0 /\ Owes(s) = 0 /\ Creates(req[r]) = 0 /\ Owes(req[r]) = 0
      BY <1>2, <2>5
    <3>2. s.pc # "update"
      BY <2>2
    <3> QED
      BY <1>8, <3>1, <3>2
  <2> HIDE DEF u, row
  <2> QED
    BY <1>1, <1>7, <2>1, <2>2, <2>4, <2>5, <2>6, LedgerKept
<1>10. CASE q.kind # "view"
  <2> DEFINE s == Credit(r, u, "X", 100, "end")
             new == [row EXCEPT !.social = TRUE]
  <2>1. Goto(r, s) /\ users' = [users EXCEPT ![u] = new]
    BY <1>10 DEF Put
  <2>2. /\ s \in Request /\ s.pc = "credit" /\ s.id = u /\ s.row = q.row /\ s.user = u
        /\ s.reason = "X" /\ s.then = "end" /\ s.reason \in Reasons
    BY <1>2 DEF Request, Credit, Reasons
  <2>3. new \in User /\ new.referrer = row.referrer /\ new.points = row.points
    <3> HIDE DEF row
    <3> QED
      BY <1>4 DEF User
  <2> HIDE DEF new
  <2>4. /\ users' \in Seq(User) /\ Len(users') = Len(users) /\ ReferredByEarlier'
        /\ \A v \in DOMAIN users :
             users'[v].points + Pending[v] <= Totals[v] + Unwritten(q, v)
    BY <1>6, <2>1, <2>3
  <2> HIDE DEF s
  <2>5. Fine(s) /\ Creates(s) = 0 /\ Owes(s) = 0
    BY <1>2, <1>3, <2>2 DEF Fine, WillRefer, Crediting, Creates, Owes
  <2>6. /\ Owes(s) <= Owes(req[r]) /\ made + Creates(s) <= made' + Creates(req[r])
        /\ s.pc # "update"
    <3>1. Creates(s) = 0 /\ Owes(s) = 0 /\ Creates(req[r]) = 0 /\ Owes(req[r]) = 0
      BY <1>2, <2>5
    <3>2. s.pc # "update"
      BY <2>2
    <3> QED
      BY <1>8, <3>1, <3>2
  <2> HIDE DEF u, row
  <2> QED
    BY <1>1, <1>7, <2>1, <2>2, <2>4, <2>5, <2>6, LedgerKept
<1> QED
  BY <1>9, <1>10

\* Raising a total keeps the invariant: the points are in the ledger, and a
\* quarter of them goes on at most.
LEMMA CreditUpdateKeeps ==
  ASSUME IInv, NEW r \in Reqs, CreditUpdate(r)
  PROVE  IInv'
<1> DEFINE q == req[r]
           u == q.id
           p == q.points
           s == IF GoesOn(r) THEN Credit(r, q.referrer, "referral", Quarter(p), q.then)
                ELSE IF q.then = "end" THEN Idle ELSE [q EXCEPT !.pc = q.then]
<1>1. /\ q.pc = "update" /\ UNCHANGED <<ledger, made, deaths>>
      /\ users' = Raised(r) /\ Goto(r, s)
  BY DEF CreditUpdate
<1>2. q \in Request /\ Fine(q) /\ Creates(q) = 0 /\ Owes(q) = p /\ p \in Nat
  BY <1>1, Facts DEF Creates, Owes, Request
<1>3. /\ u \in DOMAIN users /\ q.reason \in Reasons /\ q.referrer <= Len(users)
      /\ q.referrer \in Nat
  BY <1>1, <1>2 DEF Fine, Crediting, Request
<1>4. \E new \in User : /\ users' = [users EXCEPT ![u] = new]
                        /\ new.referrer = users[u].referrer
                        /\ new.points = users[u].points + p
  <2>1. users[u] \in User
    BY <1>3, Facts
  <2>2. CASE q.reason = "referral"
    <3> DEFINE new == [users[u] EXCEPT !.points = @ + p]
    <3>1. new \in User /\ new.referrer = users[u].referrer /\ new.points = users[u].points + p
      BY <1>2, <2>1 DEF User
    <3>2. users' = [users EXCEPT ![u] = new]
      BY <1>1, <2>2 DEF Raised
    <3> QED
      BY <3>1, <3>2
  <2>3. CASE q.reason # "referral"
    <3> DEFINE new == [users[u] EXCEPT !.points = @ + p, !.pointsReferral = @ + p]
    <3>1. new \in User /\ new.referrer = users[u].referrer /\ new.points = users[u].points + p
      <4> DEFINE mid == [users[u] EXCEPT !.points = @ + p]
      <4>1. mid \in User /\ mid.referrer = users[u].referrer /\ mid.points = users[u].points + p
        BY <1>2, <2>1 DEF User
      <4>2. new = [mid EXCEPT !.pointsReferral = @ + p]
        BY <2>1 DEF User
      <4> HIDE DEF mid, new
      <4> QED
        BY <1>2, <4>1, <4>2 DEF User
    <3>2. users' = [users EXCEPT ![u] = new]
      BY <1>1, <1>3, <2>3, Facts DEF Raised
    <3> QED
      BY <3>1, <3>2
  <2> QED
    BY <2>2, <2>3
<1>5. /\ users' \in Seq(User) /\ Len(users') = Len(users) /\ ReferredByEarlier'
      /\ \A v \in DOMAIN users :
           users'[v].points + Pending[v] <= Totals[v] + Unwritten(q, v)
  <2> PICK new \in User : /\ users' = [users EXCEPT ![u] = new]
                          /\ new.referrer = users[u].referrer
                          /\ new.points = users[u].points + p
    BY <1>4
  <2>1. \A v : Unwritten(q, v) = IF v = u THEN p ELSE 0
    BY <1>1 DEF Unwritten
  <2> HIDE DEF User, q, u, p
  <2>2. users' \in Seq(User) /\ Len(users') = Len(users) /\ DOMAIN users' = DOMAIN users
    BY <1>3, Facts, ExceptSeq
  <2>3. users'[u] = new /\ \A v \in DOMAIN users \ {u} : users'[v] = users[v]
    BY <1>3, Facts
  <2>4. ReferredByEarlier'
    BY <1>3, <2>2, <2>3, Facts DEF ReferredByEarlier
  <2>5. ASSUME NEW v \in DOMAIN users
        PROVE  users'[v].points + Pending[v] <= Totals[v] + Unwritten(q, v)
    <3>1. /\ users[v].points + Pending[v] <= Totals[v] /\ users[v].points \in Nat
          /\ Pending[v] \in Nat /\ Totals[v] \in Nat
      BY Facts
    <3>2. ASSUME v = u PROVE users'[v].points + Pending[v] <= Totals[v] + Unwritten(q, v)
      <4>1. users'[v].points = users[v].points + p /\ Unwritten(q, v) = p
        BY <2>1, <2>3, <3>2
      <4>2. \A a, b, c, d \in Nat : a + b <= c => (a + d) + b <= c + d
        OBVIOUS
      <4> QED
        BY <1>2, <3>1, <4>1, <4>2
    <3>3. ASSUME v # u PROVE users'[v].points + Pending[v] <= Totals[v] + Unwritten(q, v)
      <4>1. users'[v].points = users[v].points /\ Unwritten(q, v) = 0
        BY <2>1, <2>3, <3>3
      <4> QED
        BY <3>1, <4>1
    <3> QED
      BY <3>2, <3>3
  <2> QED
    BY <2>2, <2>4, <2>5
<1>6. /\ s \in {Idle} \cup Request /\ Creates(s) = 0 /\ Owes(s) <= p
      /\ s.pc # "update" /\ (s.pc # "idle" => Fine(s))
  <2>1. CASE GoesOn(r)
    <3>1. /\ Quarter(p) \in Nat /\ 4 * Quarter(p) <= p
      BY <1>2 DEF Quarter
    <3>2. q.referrer # 0
      BY <2>1 DEF GoesOn
    <3>3. q.referrer \in DOMAIN users
      <4> HIDE DEF q
      <4> QED
        BY <1>3, <3>2, Facts
    <3>4. s = Credit(r, q.referrer, "referral", Quarter(p), q.then)
      BY <2>1
    <3>5. /\ s \in Request /\ s.pc = "credit" /\ s.id = q.referrer /\ s.row = q.row
          /\ s.user = q.user /\ s.reason = "referral" /\ s.then = q.then
          /\ s.reason \in Reasons /\ s.points = Quarter(p) /\ s.kind = q.kind
          /\ s.code = q.code
      <4> HIDE DEF s
      <4> QED
        BY <1>2, <1>3, <3>1, <3>4 DEF Request, Credit, Reasons
    <3> HIDE DEF s
    <3>6. Creates(s) = 0 /\ Owes(s) = 4 * Quarter(p)
      BY <3>5 DEF Creates, Owes
    <3>7. Fine(s)
      BY <1>1, <1>2, <3>3, <3>5 DEF Fine, WillRefer, Crediting
    <3> QED
      BY <3>1, <3>5, <3>6, <3>7
  <2>2. CASE ~GoesOn(r) /\ q.then = "end"
    <3>1. s = Idle
      BY <2>2
    <3>2. Idle.pc = "idle" /\ Creates(Idle) = 0 /\ Owes(Idle) = 0
      BY DEF Idle, Creates, Owes
    <3> HIDE DEF s
    <3> QED
      BY <1>2, <3>1, <3>2
  <2>3. CASE ~GoesOn(r) /\ q.then # "end"
    <3>1. q.then \in {"refer", "lend"}
      BY <1>2, <2>3 DEF Request
    <3>2. s = [q EXCEPT !.pc = q.then]
      BY <2>3
    <3>3. /\ s \in Request /\ s.pc = q.then /\ s.row = q.row
          /\ s.user = q.user /\ s.kind = q.kind /\ s.code = q.code
      <4> HIDE DEF s
      <4> QED
        BY <1>2, <3>1, <3>2 DEF Request
    <3> HIDE DEF s
    <3>4. Creates(s) = 0 /\ Owes(s) = 0
      BY <3>1, <3>3 DEF Creates, Owes
    <3>5. Fine(s)
      BY <1>1, <1>2, <3>1, <3>3 DEF Fine, WillRefer, Crediting
    <3> QED
      BY <1>2, <3>1, <3>3, <3>4, <3>5
  <2> QED
    BY <2>1, <2>2, <2>3
<1> HIDE DEF s, u, p
<1>7. made' \in 0..MaxRequests /\ deaths' \in 0..MaxDeaths /\ made \in Nat /\ made' = made
  BY <1>1, Facts
<1>8. Owes(s) <= Owes(req[r]) /\ made + Creates(s) <= made' + Creates(req[r])
  BY <1>2, <1>6, <1>7
<1> QED
  BY <1>1, <1>5, <1>6, <1>7, <1>8, LedgerKept

\* A new user keeps the invariant: nothing is pending for a row not yet written.
LEMMA CreateKeeps ==
  ASSUME IInv, NEW r \in Reqs, Create(r)
  PROVE  IInv'
<1> DEFINE q == req[r]
           n == Len(users) + 1
           row == [address |-> q.address, referrer |-> 0, social |-> FALSE,
                   points |-> 0, pointsReferral |-> 0]
           then == IF q.kind = "job" THEN "lend" ELSE IF q.code = 0 THEN "end" ELSE "refer"
           s == [Credit(r, n, "Connect", 100, then) EXCEPT !.user = n, !.row = <<row>>]
<1>1. /\ q.pc = "create" /\ UNCHANGED <<made, deaths>>
      /\ users' = Append(users, row) /\ ledger' = Append(ledger, NoPoints) /\ Goto(r, s)
  BY DEF Create
<1>2. /\ q \in Request /\ Fine(q) /\ Creates(q) = 1 /\ Owes(q) = 0
      /\ q.code \in Nat /\ q.code <= Len(users) /\ q.kind \in {"view", "job"}
      /\ (q.kind # "view" => q.code = 0)
  <2>1. q \in Request /\ Fine(q)
    BY <1>1, Facts
  <2> QED
    BY <1>1, <2>1 DEF Creates, Owes, Fine, Request
<1>3. Typed /\ Counted /\ Budget
  BY DEF IInv
<1>4. row \in User
  <2>1. q.address \in Addresses
    BY <1>2 DEF Request
  <2>2. 0 \in Ids
    BY LeaderboardAssumption DEF Ids
  <2> QED
    BY <2>1, <2>2 DEF User
<1>5. /\ n \in Nat /\ users' \in Seq(User) /\ Len(users') = n /\ n \notin DOMAIN users
      /\ DOMAIN users' = DOMAIN users \cup {n} /\ users'[n] = row
      /\ \A u \in DOMAIN users : users'[u] = users[u]
  <2> HIDE DEF User, row
  <2> QED
    BY <1>1, <1>4, Facts
<1>6. /\ ledger' \in Seq([Reasons -> Nat]) /\ Len(ledger') = Len(users')
      /\ \A u \in DOMAIN users : Totals'[u] = Totals[u]
      /\ Totals'[n] = 0
      /\ AllReferred' = AllReferred /\ AllEarned' = AllEarned
  <2>1. Len(ledger) = Len(users)
    BY <1>3 DEF Typed
  <2> QED
    BY <1>1, <1>3, <1>5, <2>1, CreatedTotals
<1>7. /\ s \in Request /\ s.pc = "credit" /\ s.id = n /\ s.user = n /\ s.row = <<row>>
      /\ s.kind = q.kind /\ s.code = q.code /\ s.then = then /\ s.reason = "Connect"
      /\ s.reason \in Reasons
  <2>1. <<row>> \in Seq(User)
    <3> HIDE DEF User, row
    <3> QED
      BY <1>4
  <2> DEFINE mid == Credit(r, n, "Connect", 100, then)
  <2>2. then \in {"end", "refer", "lend"}
    OBVIOUS
  <2> HIDE DEF row, n, then
  <2>3. /\ mid \in Request /\ mid.pc = "credit" /\ mid.id = n /\ mid.kind = q.kind
        /\ mid.code = q.code /\ mid.then = then /\ mid.reason = "Connect"
    <3>1. q \in Request /\ n \in Nat
      BY <1>2, <1>5
    <3> QED
      BY <2>2, <3>1 DEF Request, Credit, Reasons
  <2>4. s = [mid EXCEPT !.user = n, !.row = <<row>>]
    OBVIOUS
  <2> HIDE DEF mid, s
  <2> QED
    BY <1>5, <2>1, <2>3, <2>4 DEF Request, Reasons
<1>8. Len(s.row) = 1 /\ s.row[1] = row /\ s.row # <<>>
  <2> HIDE DEF row, s
  <2> QED
    BY <1>7
<1> HIDE DEF s
<1>9. Creates(s) = 0 /\ Owes(s) = 0 /\ \A u : Unwritten(s, u) = 0 /\ Unwritten(q, u) = 0
  BY <1>1, <1>7 DEF Creates, Owes, Unwritten
<1>10. /\ req' \in [Reqs -> {Idle} \cup Request]
       /\ req'[r] = s /\ \A i \in Reqs \ {r} : req'[i] = req[i]
       /\ Coming' = Coming - Creates(q) + Creates(s) /\ Coming' \in Nat
       /\ Owing' = Owing - Owes(q) + Owes(s) /\ Owing' \in Nat
       /\ \A u \in Nat : /\ Pending'[u] = Pending[u] - Unwritten(q, u) + Unwritten(s, u)
                         /\ Pending'[u] \in Nat
  BY <1>1, <1>3, <1>7, GotoSums
<1>11. Coming \in Nat /\ Owing \in Nat /\ \A u \in Nat : Pending[u] \in Nat
  BY <1>3, SumsNat
<1>12. \A u \in Nat : Pending'[u] = Pending[u]
  <2>1. \A u \in Nat : Pending'[u] = Pending[u] - 0 + 0
    BY <1>9, <1>10, Zenon
  <2> QED
    BY <1>11, <2>1
<1>13. Pending[n] = 0
  <2> DEFINE f == [i \in Reqs |-> Unwritten(req[i], n)]
  <2>1. \A i \in Reqs : f[i] = 0
    <3> SUFFICES ASSUME NEW i \in Reqs PROVE Unwritten(req[i], n) = 0
      OBVIOUS
    <3>1. req[i].pc = "update" => req[i].id \in DOMAIN users
      BY Facts DEF Fine, Crediting
    <3> HIDE DEF n
    <3> QED
      BY <1>5, <3>1 DEF Unwritten
  <2>2. Pending[n] = SumFunctionOnSet(f, Reqs)
    BY <1>5 DEF Pending
  <2> HIDE DEF f
  <2>3. SumFunctionOnSet(f, Reqs) = 0
    BY <2>1, LeaderboardAssumption, SumZero
  <2> QED
    BY <2>2, <2>3
<1>14. Typed'
  BY <1>1, <1>3, <1>5, <1>6, <1>10 DEF Typed
<1>15. Counted'
  <2>1. Len(users) + Coming <= made /\ made \in Nat /\ Len(users) \in Nat /\ made' = made
    BY <1>1, <1>3, Facts DEF Counted
  <2>2. Coming' = Coming - 1 + 0
    BY <1>2, <1>9, <1>10, Zenon
  <2>3. Len(users') + Coming' <= made'
    BY <1>5, <1>11, <2>1, <2>2
  <2> QED
    BY <2>3 DEF Counted
<1>16. ReferredByEarlier'
  <2>1. row.referrer = 0 /\ 0 < n
    BY Facts
  <2> HIDE DEF n, row
  <2> QED
    BY <1>5, <2>1, Facts DEF ReferredByEarlier
<1>17. Backed'
  <2>1. \A u \in DOMAIN users : users'[u].points + Pending'[u] <= Totals'[u]
    <3> SUFFICES ASSUME NEW u \in DOMAIN users
                 PROVE  users'[u].points + Pending'[u] <= Totals'[u]
      OBVIOUS
    <3>1. u \in Nat /\ users[u].points + Pending[u] <= Totals[u]
      BY Facts
    <3>2. users'[u] = users[u] /\ Totals'[u] = Totals[u] /\ Pending'[u] = Pending[u]
      BY <1>5, <1>6, <1>12, <3>1, Zenon
    <3> QED
      BY <3>1, <3>2
  <2>2. users'[n].points + Pending'[n] <= Totals'[n]
    <3>1. row.points = 0
      OBVIOUS
    <3> HIDE DEF n, row
    <3> QED
      BY <1>5, <1>6, <1>12, <1>13, <3>1
  <2> HIDE DEF n
  <2> QED
    BY <1>5, <2>1, <2>2 DEF Backed
<1>18. \A i \in Reqs : req'[i].pc # "idle" => Fine(req[i])'
  <2>1. \A u \in DOMAIN users : /\ Pending'[u] \in Nat /\ Totals'[u] \in Nat
                                /\ Totals[u] + Pending'[u] <= Totals'[u] + Pending[u]
    <3> HIDE DEF n
    <3> QED
      BY <1>6, <1>12, Facts
  <2>2. Len(users) <= Len(users')
    BY <1>5, Facts
  <2>3. \A i \in Reqs \ {r} : req'[i].pc # "idle" => Fine(req[i])'
    <3>1. \A i \in Reqs : req[i].pc # "idle" => Fine(req[i])
      BY Facts
    <3> HIDE DEF n, row
    <3> QED
      BY <1>3, <1>5, <1>10, <2>1, <2>2, <3>1, OthersStayFine
  <2>4. Fine(req[r])'
    <3>1. row.points + Pending'[n] <= Totals'[n] /\ row.referrer < n /\ n \in DOMAIN users'
      <4>1. row.points = 0 /\ row.referrer = 0 /\ 0 < n
        BY Facts
      <4> HIDE DEF n, row
      <4> QED
        BY <1>5, <1>6, <1>12, <1>13, <4>1
    <3>2. s.then = "refer" => s.kind = "view" /\ s.code # 0
      BY <1>2, <1>7
    <3>3. s.code < n
      <4>1. s.code = q.code
        BY <1>7
      <4> HIDE DEF q
      <4> QED
        BY <1>2, <4>1, Facts
    <3> HIDE DEF n, row, then
    <3> QED
      BY <1>7, <1>8, <1>10, <3>1, <3>2, <3>3 DEF Fine, WillRefer, Crediting
  <2> QED
    BY <2>3, <2>4
<1>19. Budget'
  <2>1. AllReferred \in Nat /\ AllEarned \in Nat
    BY <1>3, ReferralsNat
  <2>2. 3 * AllReferred + Owing <= AllEarned
    BY <1>3 DEF Budget
  <2>3. Owing' = Owing - 0 + 0
    BY <1>2, <1>9, <1>10, Zenon
  <2> QED
    BY <1>6, <1>11, <2>1, <2>2, <2>3 DEF Budget
<1> QED
  BY <1>14, <1>15, <1>16, <1>17, <1>18, <1>19 DEF IInv

\* A row of the ledger keeps the invariant: three times what goes to a referrer
\* was owed before.
LEMMA CreditInsertKeeps ==
  ASSUME IInv, NEW r \in Reqs, CreditInsert(r)
  PROVE  IInv'
<1> DEFINE q == req[r]
           id == q.id
           p == q.points
           s == [q EXCEPT !.pc = "update"]
<1>1. /\ q.pc = "insert" /\ UNCHANGED <<users, made, deaths>>
      /\ ledger' = [ledger EXCEPT ![id][q.reason] = @ + p] /\ Goto(r, s)
  BY DEF CreditInsert
<1>2. /\ q \in Request /\ Fine(q) /\ p \in Nat /\ q.reason \in Reasons
      /\ id \in DOMAIN users /\ id \in Nat
  BY <1>1, Facts DEF Fine, Request, Crediting
<1>3. Typed /\ Counted /\ Budget
  BY DEF IInv
<1>4. /\ ledger' \in Seq([Reasons -> Nat]) /\ Len(ledger') = Len(ledger)
      /\ Totals'[id] = Totals[id] + p
      /\ \A u \in DOMAIN users \ {id} : Totals'[u] = Totals[u]
      /\ q.reason = "referral" => /\ AllReferred' = AllReferred + p
                                  /\ AllEarned' = AllEarned
      /\ q.reason # "referral" => /\ AllReferred' = AllReferred
                                  /\ AllEarned' = AllEarned + p
  <2>1. ledger' = [ledger EXCEPT ![id][q.reason] = @ + p]
    BY <1>1
  <2> HIDE DEF id, p
  <2> QED
    BY <1>2, <1>3, <2>1, InsertedTotals
<1>5. /\ s \in Request /\ s.pc = "update" /\ s.id = id /\ s.points = p /\ s.row = q.row
      /\ s.user = q.user /\ s.kind = q.kind /\ s.code = q.code /\ s.then = q.then
      /\ s.reason = q.reason /\ s.referrer = q.referrer
  BY <1>2 DEF Request
<1> HIDE DEF s
<1>6. /\ Creates(q) = 0 /\ Creates(s) = 0 /\ Owes(s) = p
      /\ Owes(q) = IF q.reason = "referral" THEN 4 * p ELSE 0
      /\ \A u : Unwritten(q, u) = 0
      /\ \A u : Unwritten(s, u) = IF u = id THEN p ELSE 0
  BY <1>1, <1>5 DEF Creates, Owes, Unwritten
<1>7. /\ req' \in [Reqs -> {Idle} \cup Request]
      /\ req'[r] = s /\ \A i \in Reqs \ {r} : req'[i] = req[i]
      /\ Coming' = Coming - Creates(q) + Creates(s) /\ Coming' \in Nat
      /\ Owing' = Owing - Owes(q) + Owes(s) /\ Owing' \in Nat
      /\ \A u \in Nat : /\ Pending'[u] = Pending[u] - Unwritten(q, u) + Unwritten(s, u)
                        /\ Pending'[u] \in Nat
  BY <1>1, <1>3, <1>5, GotoSums
<1>8. Coming \in Nat /\ Owing \in Nat /\ \A u \in Nat : Pending[u] \in Nat
  BY <1>3, SumsNat
<1> HIDE DEF id, p
<1>9. /\ Pending'[id] = Pending[id] + p
      /\ \A u \in Nat \ {id} : Pending'[u] = Pending[u]
  <2>1. Pending'[id] = Pending[id] - 0 + p
    BY <1>2, <1>6, <1>7
  <2>2. \A u \in Nat \ {id} : Pending'[u] = Pending[u] - 0 + 0
    BY <1>6, <1>7
  <2> QED
    BY <1>2, <1>8, <2>1, <2>2
<1>10. \A u \in DOMAIN users :
         /\ u \in Nat /\ Pending'[u] \in Nat /\ Totals'[u] \in Nat
         /\ Totals[u] + Pending'[u] = Totals'[u] + Pending[u]
  <2> SUFFICES ASSUME NEW u \in DOMAIN users
               PROVE  /\ u \in Nat /\ Pending'[u] \in Nat /\ Totals'[u] \in Nat
                      /\ Totals[u] + Pending'[u] = Totals'[u] + Pending[u]
    OBVIOUS
  <2>1. u \in Nat /\ Pending[u] \in Nat /\ Totals[u] \in Nat
    BY Facts
  <2>2. CASE u = id
    BY <1>2, <1>4, <1>9, <2>1, <2>2
  <2>3. CASE u # id
    BY <1>4, <1>9, <2>1, <2>3
  <2> QED
    BY <2>2, <2>3
<1>11. Typed'
  <2>1. /\ users \in Seq(User) /\ Len(ledger) = Len(users)
        /\ made \in 0..MaxRequests /\ deaths \in 0..MaxDeaths
    BY <1>3 DEF Typed
  <2> QED
    BY <1>1, <1>4, <1>7, <2>1 DEF Typed
<1>12. Counted'
  <2>1. Coming' = Coming - 0 + 0
    BY <1>6, <1>7, Zenon
  <2>2. Coming' = Coming
    BY <1>8, <2>1
  <2> QED
    BY <1>1, <1>3, <2>2 DEF Counted
<1>13. ReferredByEarlier'
  BY <1>1 DEF IInv, ReferredByEarlier
<1>14. Backed'
  <2> SUFFICES ASSUME NEW u \in DOMAIN users
               PROVE  users[u].points + Pending'[u] <= Totals'[u]
    BY <1>1 DEF Backed
  <2>1. /\ users[u].points + Pending[u] <= Totals[u] /\ users[u].points \in Nat
        /\ Pending[u] \in Nat /\ Totals[u] \in Nat
    BY Facts
  <2>2. \A a, b, c, d, e \in Nat : a + b <= c /\ c + d = e + b => a + d <= e
    OBVIOUS
  <2> QED
    BY <1>10, <2>1, <2>2
<1>15. \A i \in Reqs : req'[i].pc # "idle" => Fine(req[i])'
  <2>1. \A u \in DOMAIN users : /\ Pending'[u] \in Nat /\ Totals'[u] \in Nat
                                /\ Totals[u] + Pending'[u] <= Totals'[u] + Pending[u]
    <3>1. \A u \in DOMAIN users : Totals'[u] + Pending[u] \in Nat
      BY <1>10, Facts
    <3>2. \A a \in Nat : a <= a
      OBVIOUS
    <3> QED
      BY <1>10, <3>1, <3>2
  <2>2. \A i \in Reqs \ {r} : req'[i].pc # "idle" => Fine(req[i])'
    <3>1. \A i \in Reqs : req[i].pc # "idle" => Fine(req[i])
      BY Facts
    <3>2. users' \in Seq(User) /\ Len(users) <= Len(users')
      BY <1>1, Facts
    <3> QED
      BY <1>3, <1>7, <2>1, <3>1, <3>2, OthersStayFine
  <2>3. Fine(req[r])'
    <3>1. ASSUME s.row # <<>>
          PROVE  s.row[1].points + Pending'[s.user] <= Totals'[s.user]
      <4>1. /\ s.user \in DOMAIN users /\ Len(s.row) = 1
            /\ s.row[1].points + Pending[s.user] <= Totals[s.user]
        BY <1>2, <1>5, <3>1 DEF Fine
      <4>2. s.row \in Seq(User)
        BY <1>5 DEF Request
      <4>3. s.row[1] \in User
        <5> HIDE DEF User
        <5> QED
          BY <4>1, <4>2
      <4>4. s.row[1].points \in Nat
        BY <4>3 DEF User
      <4>5. /\ Pending[s.user] \in Nat /\ Totals[s.user] \in Nat
            /\ Pending'[s.user] \in Nat /\ Totals'[s.user] \in Nat
            /\ Totals[s.user] + Pending'[s.user] = Totals'[s.user] + Pending[s.user]
        BY <1>10, <4>1, Facts
      <4>6. \A a, b, c, d, e \in Nat : a + b <= c /\ c + d = e + b => a + d <= e
        OBVIOUS
      <4> QED
        BY <4>1, <4>4, <4>5, <4>6, SMTT(30)
    <3> QED
      BY <1>1, <1>2, <1>5, <1>7, <3>1 DEF Fine, WillRefer, Crediting
  <2> QED
    BY <2>2, <2>3
<1>16. Budget'
  <2>1. AllReferred \in Nat /\ AllEarned \in Nat
    BY <1>3, ReferralsNat
  <2>2. 3 * AllReferred + Owing <= AllEarned
    BY <1>3 DEF Budget
  <2>3. CASE q.reason = "referral"
    <3>1. AllReferred' = AllReferred + p /\ AllEarned' = AllEarned
      BY <1>4, <2>3
    <3>2. Owing' = Owing - (4 * p) + p
      BY <1>6, <1>7, <2>3
    <3>3. \A a, b, c, d \in Nat : 3 * a + b <= c => 3 * (a + d) + (b - (4 * d) + d) <= c
      OBVIOUS
    <3> QED
      BY <1>2, <1>8, <2>1, <2>2, <3>1, <3>2, <3>3 DEF Budget
  <2>4. CASE q.reason # "referral"
    <3>1. AllReferred' = AllReferred /\ AllEarned' = AllEarned + p
      BY <1>4, <2>4
    <3>2. Owing' = Owing - 0 + p
      BY <1>6, <1>7, <2>4
    <3>3. \A a, b, c, d \in Nat : 3 * a + b <= c => 3 * a + (b - 0 + d) <= c + d
      OBVIOUS
    <3> QED
      BY <1>2, <1>8, <2>1, <2>2, <3>1, <3>2, <3>3 DEF Budget
  <2> QED
    BY <2>3, <2>4
<1> QED
  BY <1>11, <1>12, <1>13, <1>14, <1>15, <1>16 DEF IInv

-----------------------------------------------------------------------------
(* The invariant and what follows from it *)

\* The invariant holds at first.
LEMMA InitIInv == Init => IInv
<1> SUFFICES ASSUME Init PROVE IInv
  OBVIOUS
<1>1. /\ users = <<>> /\ ledger = <<>> /\ made = 0 /\ deaths = 0
      /\ req = [r \in Reqs |-> Idle]
  BY DEF Init
<1>2. Typed
  <2> HIDE DEF User
  <2> QED
    BY <1>1, LeaderboardAssumption DEF Typed
<1>3. DOMAIN users = {} /\ DOMAIN ledger = {} /\ Len(users) = 0
  BY <1>1
<1>4. Coming = 0 /\ Owing = 0
  <2> DEFINE f == [r \in Reqs |-> Creates(req[r])]
             g == [r \in Reqs |-> Owes(req[r])]
  <2>1. \A r \in Reqs : f[r] = 0 /\ g[r] = 0
    BY <1>1 DEF Creates, Owes, Idle
  <2>2. Coming = SumFunctionOnSet(f, Reqs) /\ Owing = SumFunctionOnSet(g, Reqs)
    BY DEF Coming, Owing
  <2> HIDE DEF f, g
  <2> QED
    BY <2>1, <2>2, LeaderboardAssumption, SumZero
<1>5. AllReferred = 0 /\ AllEarned = 0
  BY <1>3, SumEmpty DEF AllReferred, AllEarned
<1>6. \A r \in Reqs : req[r].pc = "idle"
  BY <1>1 DEF Idle
<1> QED
  BY <1>1, <1>2, <1>3, <1>4, <1>5, <1>6
  DEF IInv, Counted, ReferredByEarlier, Backed, Budget

\* A stuttering step keeps the invariant.
LEMMA StillIInv == IInv /\ UNCHANGED vars => IInv'
<1> SUFFICES ASSUME IInv, UNCHANGED vars PROVE IInv'
  OBVIOUS
<1>1. /\ users' = users /\ ledger' = ledger /\ req' = req
      /\ made' = made /\ deaths' = deaths
  BY DEF vars
<1>2. /\ Pending' = Pending /\ Coming' = Coming /\ Owing' = Owing
      /\ Totals' = Totals /\ AllReferred' = AllReferred /\ AllEarned' = AllEarned
  BY <1>1, StillTotals DEF Pending, Coming, Owing, Unwritten, Creates, Owes
<1>3. Typed' /\ Counted' /\ ReferredByEarlier' /\ Backed' /\ Budget'
  BY <1>1, <1>2 DEF IInv, Typed, Counted, ReferredByEarlier, Backed, Budget
<1>4. \A r \in Reqs : req'[r].pc # "idle" => Fine(req[r])'
  BY <1>1, <1>2, Facts DEF Fine, WillRefer
<1> QED
  BY <1>3, <1>4 DEF IInv

\* Every step keeps the invariant.
LEMMA NextIInv == IInv /\ Next => IInv'
<1> SUFFICES ASSUME IInv, Next PROVE IInv'
  OBVIOUS
<1> PICK r \in Reqs : \/ Step(r) \/ Die(r)
                      \/ \E kind \in Kinds, address \in Addresses :
                           \E code \in IF kind = "view" THEN 0..Len(users) ELSE {0} :
                             Begin(r, kind, address, code)
  BY DEF Next
<1>1. CASE Step(r)
  BY <1>1, FindKeeps, CreateKeeps, ReferKeeps, PutKeeps, CheckKeeps, LendKeeps,
     CreditReadKeeps, CreditInsertKeeps, CreditUpdateKeeps DEF Step
<1>2. CASE Die(r)
  BY <1>2, DieKeeps
<1>3. CASE \E kind \in Kinds, address \in Addresses :
             \E code \in IF kind = "view" THEN 0..Len(users) ELSE {0} :
               Begin(r, kind, address, code)
  BY <1>3, BeginKeeps
<1> QED
  BY <1>1, <1>2, <1>3

\* The books of the leaderboard balance, requests in progress included.
THEOREM Inductive == Spec => []IInv
BY InitIInv, NextIInv, StillIInv, PTL DEF Spec

\* Types of the state; a credit is always to a user with a row
\* (LeaderboardPointCredit's MustFirstWhere finds it).
THEOREM TypeCorrect == Spec => []TypeOK
<1>1. IInv => TypeOK
  <2> SUFFICES ASSUME IInv PROVE TypeOK
    OBVIOUS
  <2>1. Typed
    BY DEF IInv
  <2>2. ASSUME NEW r \in Reqs
        PROVE  /\ req[r].pc \in {"idle", "find", "create", "refer", "put", "check", "lend",
                                 "credit", "insert", "update"}
               /\ req[r].pc \in {"credit", "insert", "update"} => req[r].id \in DOMAIN users
    <3>1. req[r] = Idle \/ (req[r] \in Request /\ Fine(req[r]))
      BY <2>1, Facts DEF Typed, Request
    <3>2. CASE req[r] = Idle
      BY <3>2 DEF Idle
    <3>3. CASE req[r] \in Request /\ Fine(req[r])
      BY <3>3 DEF Request, Fine, Crediting
    <3> QED
      BY <3>1, <3>2, <3>3
  <2> QED
    BY <2>1, <2>2 DEF TypeOK, Typed, User
<1> QED
  BY <1>1, Inductive, PTL

\* A user's total is never more than the points of the ledger, though DB.Put
\* writes whole rows read before and requests die between the two writes of a credit.
THEOREM NeverMoreThanTheLedger == Spec => []TotalsBacked
<1>1. IInv => TotalsBacked
  <2> SUFFICES ASSUME IInv, NEW u \in DOMAIN users
               PROVE  users[u].points <= LedgerSum(u)
    BY DEF TotalsBacked
  <2>1. u \in DOMAIN ledger
    BY TotalsNat DEF IInv
  <2>2. Totals[u] = LedgerSum(u)
    BY <2>1 DEF Totals
  <2>3. /\ users[u].points + Pending[u] <= Totals[u] /\ users[u].points \in Nat
        /\ Pending[u] \in Nat /\ Totals[u] \in Nat
    BY Facts
  <2>4. \A a, b, c \in Nat : a + b <= c => a <= c
    OBVIOUS
  <2> QED
    BY <2>2, <2>3, <2>4
<1> QED
  BY <1>1, Inductive, PTL

\* A referrer has an earlier row than those he refers: the cascade of
\* LeaderboardPointCredit ends, whatever rows are written back.
THEOREM NoReferralCycle == Spec => []ReferredByEarlier
<1>1. IInv => ReferredByEarlier
  BY DEF IInv
<1> QED
  BY <1>1, Inductive, PTL

\* Points of referrals are at most a third of all others, for chains of any
\* length.
THEOREM ReferralsAreAThird == Spec => []ReferralBudget
<1>1. IInv => ReferralBudget
  <2> SUFFICES ASSUME IInv PROVE 3 * AllReferred <= AllEarned
    BY DEF ReferralBudget, AllReferred, AllEarned, Referrals, Earnings
  <2>1. Typed /\ 3 * AllReferred + Owing <= AllEarned
    BY DEF IInv, Budget
  <2>2. Owing \in Nat /\ AllReferred \in Nat /\ AllEarned \in Nat
    BY <2>1, SumsNat, ReferralsNat
  <2> QED
    BY <2>1, <2>2
<1> QED
  BY <1>1, Inductive, PTL
=============================================================================
