----------------------------- MODULE FrontEnd_proofs -----------------------------
(***************************************************************************)
(* Proofs about the site's script, for any number of accounts, tabs, runs  *)
(* and transactions: deposits and claims name their signer, forms never    *)
(* burn more than was asked for, a hash comes up once or out of the cache, *)
(* and freed tokens stay behind only where a withdrawal did not go through *)
(* whole.                                                                  *)
(* With one tab, users sign for the account the page was rendered for.     *)
(*                                                                         *)
(* None of these is inductive.  The invariant Inv adds to them what holds  *)
(* between two awaits of a run: its call fits the page it was made from    *)
(* (CallsInv); the hashes it waits for are its own, sent, and not shown    *)
(* yet (HashInv); a withdrawal's two calls come in their order, and one    *)
(* still to be mined is a run's or its account's tokens are given up       *)
(* (WithdrawInv); and what an account has free is at most the sum of what  *)
(* the runs in progress will burn for it (FreeInv).  A withdrawal may free *)
(* tokens that another one of the account burns, so that only the sum,     *)
(* and no run's own part of it, is bounded by an invariant.                *)
(***************************************************************************)
EXTENDS FrontEnd, SumTheorems, TLAPS

\* The calls of app.js, as a form's handler lists them.
Calls == [fn : AllFns, amount : Nat, spender : Spenders \cup {"none"}]

\* What pages and runs are made of.
Views == [allowed : BOOLEAN, shares : Nat, value : Nat]
Bodies == [account : Accounts \cup {None}, form : AllForms, view : Views,
           overlay : BOOLEAN, notice : Hashes]
Pages == [account : Accounts \cup {None}, form : AllForms, view : Views,
          overlay : BOOLEAN, notice : Hashes, visiting : AllForms \cup {"none"},
          cached : BOOLEAN, reloading : BOOLEAN, timers : Nat]
ActiveRuns == [pc : {"simulate", "prompt", "receipt"}, tab : Tabs, form : AllForms,
               signer : Accounts, asked : Nat, view : Views, hashes : Seq(Hashes),
               call : Txs, rest : Seq(Calls)]
Chains == [allowance : SUBSET (Accounts \X Spenders), pool : [Accounts -> Nat],
           farm : [Accounts -> Nat], staked : [Accounts -> Nat],
           free : [Accounts -> Nat], claimed : SUBSET (Accounts \cup {None})]

\* The types of TypeOK, down to the fields.
PagesTyped ==
  /\ page \in [Tabs -> Pages]
  /\ snap \in [Tabs -> [AllForms -> SUBSET Bodies]]
  /\ \A t \in Tabs, form \in AllForms : \A b, c \in snap[t][form] : b = c

CallsTyped ==
  /\ run \in [Runs -> ActiveRuns \cup {Idle}]
  /\ txs \in Seq(Txs) /\ Len(txs) <= MaxTxs

Typed ==
  /\ wallet \in Accounts \cup {None}
  /\ conn \in [Tabs -> Accounts \cup {None}]
  /\ cookie \in [address : Accounts \cup {None}, txhash : Hashes]
  /\ chain \in Chains
  /\ shown \subseteq Hashes /\ spoiled \subseteq Accounts
  /\ PagesTyped /\ CallsTyped

\* What a burn may be, by the figures of the page v.
BurnFits(fn, burned, asked, v) ==
  fn \in {"burn", "editRepay"} =>
    burned <= v.shares /\ burned * v.value <= asked * v.shares

\* A call of a transaction names the account that signs it, and an approval the
\* contract it is for.
WellBound(c) ==
  /\ c.fn \in TakesAddress => c.to = c.from
  /\ c.fn = "approve" => c.spender \in Spenders

\* What a second call never is.
OnlyFirst == {"approve", "burn", "editRepay", "deallocate"}
InWithdrawal == {"deallocate", "burnVesting"}

\* What the handler of q's form has made of it so far.
RunFits(q) ==
  /\ WellBound(q.call) /\ q.call.status = "pending"
  /\ BurnFits(q.call.fn, q.call.amount, q.asked, q.view)
  /\ Len(q.rest) <= 1
  /\ q.rest # <<>> => q.rest[1].fn \notin OnlyFirst
  /\ q.pc = "receipt" => q.hashes # <<>>
  /\ q.form # "siloWithdraw" =>
       /\ q.call.fn \notin InWithdrawal
       /\ q.rest # <<>> => q.rest[1].fn \notin InWithdrawal

CallsInv ==
  /\ \A r \in Runs : Running(r) => RunFits(run[r])
  /\ \A h \in DOMAIN txs : WellBound(txs[h])

\* The hash that waits in the cookie was not shown before.
CookieUnread == cookie.txhash # 0 => cookie.txhash \notin shown

\* Every hash is a run's own until it is put into the cookie, and then shown.
HashInv ==
  /\ cookie.txhash <= Len(txs)
  /\ \A h \in shown : h <= Len(txs)
  /\ CookieUnread
  /\ \A r \in Runs : Running(r) => \A i \in DOMAIN run[r].hashes :
       /\ run[r].hashes[i] \in 1..Len(txs)
       /\ run[r].hashes[i] \notin shown
       /\ run[r].hashes[i] # cookie.txhash
  /\ \A r, q \in Runs : Running(r) /\ Running(q) =>
       \A i \in DOMAIN run[r].hashes, j \in DOMAIN run[q].hashes :
         run[r].hashes[i] = run[q].hashes[j] => r = q /\ i = j

\* Deallocated tokens without the fee of the early exit
Freed(amount) == (amount * 99) \div 100

\* The two calls of a withdrawal q in their order, when ts are the transactions.
Stage(q, ts) ==
  \/ /\ q.hashes = <<>> /\ q.pc # "receipt" /\ Len(q.rest) = 1
     /\ q.call.fn = "deallocate" /\ q.call.from = q.signer /\ q.call.amount = q.asked
  \/ /\ Len(q.hashes) = 1 /\ q.pc = "receipt" /\ Len(q.rest) = 1
  \/ /\ Len(q.hashes) = 1 /\ q.pc # "receipt" /\ Len(q.rest) = 0
     /\ q.call.fn = "burnVesting" /\ q.call.amount = Freed(q.asked)
     /\ ts[q.hashes[1]].status # "pending"
  \/ /\ Len(q.hashes) = 2 /\ q.pc = "receipt" /\ Len(q.rest) = 0
     /\ ts[q.hashes[1]].status # "pending"

Deallocates(tx, q) ==
  tx.fn = "deallocate" /\ tx.from = q.signer /\ tx.amount = q.asked

BurnsFreed(c, q) == c.fn = "burnVesting" /\ c.amount = Freed(q.asked)

Withdrawal(q, ts) ==
  /\ Stage(q, ts)
  /\ Len(q.rest) = 1 => BurnsFreed(q.rest[1], q)
  /\ Len(q.hashes) >= 1 => Deallocates(ts[q.hashes[1]], q)
  /\ Len(q.hashes) = 2 => BurnsFreed(ts[q.hashes[2]], q)

Withdraws(r) == Running(r) /\ run[r].form = "siloWithdraw"

\* The run r has sent h as its first call.
Began(r, h) == Withdraws(r) /\ Len(run[r].hashes) >= 1 /\ run[r].hashes[1] = h

\* A withdrawal still waited for is a run's, or its account is among the spoiled.
WithdrawInv ==
  /\ \A r \in Runs : Withdraws(r) => Withdrawal(run[r], txs)
  /\ \A h \in DOMAIN txs :
       txs[h].fn = "deallocate" /\ txs[h].status = "pending" =>
         txs[h].from \in spoiled \/ \E r \in Runs : Began(r, h)

\* r has freed tokens of a and not burned them yet.
Due(r, a) ==
  /\ Withdraws(r) /\ run[r].signer = a
  /\ Len(run[r].hashes) >= 1 /\ txs[run[r].hashes[1]].status = "success"
  /\ ~ /\ Len(run[r].hashes) = 2
       /\ txs[run[r].hashes[2]].status = "success"
       /\ txs[run[r].hashes[2]].from = a

DueTo(a) == [r \in Runs |-> IF Due(r, a) THEN Freed(run[r].asked) ELSE 0]

\* What an account has free is what its withdrawals in progress will burn.
FreeInv ==
  \A a \in Accounts :
    a \in spoiled \/ chain.free[a] <= SumFunctionOnSet(DueTo(a), Runs)

Inv == Typed /\ CallsInv /\ HashInv /\ WithdrawInv /\ FreeInv

\* With one tab its account, if it has one, is the cookie's; the page and what is
\* cached were rendered for it, and the runs bound to it, or a reload is coming.
OneTab == \A t, u \in Tabs : t = u

TabInv ==
  \A t \in Tabs :
    /\ conn[t] \in {None, cookie.address}
    /\ \/ page[t].reloading
       \/ /\ page[t].account = cookie.address
          /\ \A form \in AllForms : \A b \in snap[t][form] : b.account = cookie.address
          /\ \A r \in Runs : In(r, t) => run[r].call.from = cookie.address

-----------------------------------------------------------------------------
(* Numbers and calls *)

\* The constants, fact by fact.
LEMMA ConstantFacts ==
  /\ None \notin Accounts /\ Approved \subseteq Accounts
  /\ Choices \subseteq Accounts \cup {None}
  /\ Forms \subseteq AllForms
  /\ \A amount \in Amounts : amount \in Nat
  /\ Deposited \in Nat
  /\ Price \in Nat /\ Price > 0
  /\ MaxTxs \in Nat
  /\ IsFiniteSet(Runs)
<1>1. /\ None \notin Accounts /\ Approved \subseteq Accounts
      /\ Choices \subseteq Accounts \cup {None}
      /\ Forms \subseteq AllForms
      /\ Amounts \subseteq Nat \ {0} /\ Deposited \in Nat
      /\ Price \in Nat \ {0} /\ MaxTxs \in Nat
      /\ IsFiniteSet(Runs)
  BY FrontEndAssumption, Zenon DEF FrontEndAssumption
<1> QED
  BY <1>1

\* Division rounds down.
LEMMA Floor ==
  ASSUME NEW n \in Nat, NEW d \in Nat, d > 0
  PROVE  n \div d \in Nat /\ (n \div d) * d <= n
OBVIOUS

\* A product grows with its first factor.
LEMMA TimesMonotone ==
  ASSUME NEW a \in Nat, NEW b \in Nat, NEW c \in Nat, a <= b
  PROVE  a * c <= b * c
<1>1. PICK d \in Nat : b = a + d
  <2>1. b - a \in Nat /\ b = a + (b - a)
    OBVIOUS
  <2> QED
    BY <2>1
<1>2. b * c = a * c + d * c
  BY <1>1
<1>3. d * c \in Nat /\ a * c \in Nat
  BY <1>1
<1> QED
  BY <1>2, <1>3

\* The shares a form computes are no more than the page's, nor worth more than the
\* amount: the quotient is rounded down and then capped.
LEMMA CappedSharesFit ==
  ASSUME NEW amount \in Nat, NEW v \in Views, v.value > 0
  PROVE  /\ CappedShares(amount, v) \in Nat
         /\ CappedShares(amount, v) <= v.shares
         /\ CappedShares(amount, v) * v.value <= amount * v.shares
<1> DEFINE n == amount * v.shares
           q == n \div v.value
<1>1. v.shares \in Nat /\ v.value \in Nat /\ n \in Nat
  BY DEF Views
<1>2. q \in Nat /\ q * v.value <= n
  BY <1>1, Floor
<1>3. CappedShares(amount, v) = IF q > v.shares THEN v.shares ELSE q
  BY DEF CappedShares
<1> HIDE DEF n, q
<1>4. CASE q > v.shares
  <2>1. v.shares * v.value <= q * v.value
    BY <1>1, <1>2, <1>4, TimesMonotone
  <2>2. v.shares * v.value \in Nat /\ q * v.value \in Nat
    BY <1>1, <1>2
  <2>3. v.shares * v.value <= n
    BY <1>1, <1>2, <2>1, <2>2
  <2>4. CappedShares(amount, v) = v.shares /\ v.shares <= v.shares
    BY <1>1, <1>3, <1>4
  <2> QED
    BY <1>1, <2>3, <2>4 DEF n
<1>5. CASE ~(q > v.shares)
  <2>1. CappedShares(amount, v) = q /\ q <= v.shares
    BY <1>1, <1>2, <1>3, <1>5
  <2> QED
    BY <1>2, <2>1 DEF n
<1> QED
  BY <1>4, <1>5

\* What a withdrawal burns is a number.
LEMMA FreedNat ==
  ASSUME NEW amount \in Nat
  PROVE  Freed(amount) \in Nat
BY DEF Freed

\* The sequences a handler's calls are kept in.
LEMMA OneElement ==
  ASSUME NEW c
  PROVE  /\ Head(<<c>>) = c /\ Tail(<<c>>) = <<>>
         /\ Len(<<c>>) = 1 /\ <<c>>[1] = c
OBVIOUS

\* A pair of calls, the second of which is left.
LEMMA TwoElements ==
  ASSUME NEW c, NEW d
  PROVE  Head(<<c, d>>) = c /\ Tail(<<c, d>>) = <<d>>
<1>1. Len(Tail(<<c, d>>)) = 1 /\ Tail(<<c, d>>)[1] = d /\ DOMAIN Tail(<<c, d>>) = 1..1
  OBVIOUS
<1> QED
  OBVIOUS

\* What runTransaction starts with: the first call, `head`, and the others.
Starts(form, amount, v, head, tail) ==
  /\ head \in Calls /\ tail \in Seq(Calls) /\ Len(tail) <= 1
  /\ head.fn = "approve" => head.spender \in Spenders
  /\ BurnFits(head.fn, head.amount, amount, v)
  /\ tail # <<>> => tail[1].fn \notin OnlyFirst
  /\ form = "siloWithdraw" =>
       /\ head.fn = "deallocate" /\ head.amount = amount
       /\ Len(tail) = 1
       /\ tail[1].fn = "burnVesting" /\ tail[1].amount = Freed(amount)
  /\ form # "siloWithdraw" =>
       /\ head.fn \notin InWithdrawal
       /\ tail # <<>> => tail[1].fn \notin InWithdrawal

\* A form of one call,
LEMMA OneCall ==
  ASSUME NEW form, form # "siloWithdraw", NEW amount, NEW v,
         NEW c \in Calls, c.fn # "approve", c.fn \notin InWithdrawal,
         BurnFits(c.fn, c.amount, amount, v)
  PROVE  Starts(form, amount, v, Head(<<c>>), Tail(<<c>>))
<1>1. Head(<<c>>) = c /\ Tail(<<c>>) = <<>> /\ Len(<<>>) = 0
  BY OneElement
<1>2. <<>> \in Seq(Calls)
  OBVIOUS
<1> QED
  BY <1>1, <1>2 DEF Starts

\* and one of a call that may need an approval.
LEMMA ApprovedCall ==
  ASSUME NEW form, form # "siloWithdraw", NEW amount, NEW v,
         NEW c \in Calls, c.fn \notin OnlyFirst \cup InWithdrawal,
         NEW spender \in Spenders
  PROVE  Starts(form, amount, v, Head(ApproveThen(v, spender, c)),
                Tail(ApproveThen(v, spender, c)))
<1> DEFINE approve == [fn |-> "approve", amount |-> 0, spender |-> spender]
<1>1. CASE v.allowed
  <2>1. ApproveThen(v, spender, c) = <<c>>
    BY <1>1 DEF ApproveThen
  <2>2. c.fn # "approve" /\ c.fn \notin InWithdrawal /\ BurnFits(c.fn, c.amount, amount, v)
    BY DEF OnlyFirst, BurnFits
  <2> QED
    BY <2>1, <2>2, OneCall
<1>2. CASE ~v.allowed
  <2>1. ApproveThen(v, spender, c) = <<approve, c>>
    BY <1>2 DEF ApproveThen
  <2>2. approve \in Calls /\ approve.fn = "approve" /\ approve.spender = spender
    BY DEF Calls, AllFns
  <2>3. Head(<<approve, c>>) = approve /\ Tail(<<approve, c>>) = <<c>>
    BY TwoElements
  <2> HIDE DEF approve
  <2>4. <<c>> \in Seq(Calls) /\ Len(<<c>>) = 1 /\ <<c>>[1] = c
    BY OneElement
  <2>5. "approve" \notin InWithdrawal /\ BurnFits("approve", approve.amount, amount, v)
    BY DEF InWithdrawal, BurnFits
  <2>6. Len(<<c>>) <= 1
    BY <2>4
  <2> QED
    BY <2>1, <2>2, <2>3, <2>4, <2>5, <2>6 DEF Starts
<1> QED
  BY <1>1, <1>2

\* The handlers of all forms.
LEMMA ScriptStarts ==
  ASSUME NEW form \in AllForms, NEW amount \in Nat, NEW v \in Views,
         Computable(form, v)
  PROVE  Starts(form, amount, v, Head(Script(form, amount, v)),
                Tail(Script(form, amount, v)))
<1>1. \A fn \in AllFns, n \in Nat :
        Call(fn, n) \in Calls /\ Call(fn, n).fn = fn /\ Call(fn, n).amount = n
  BY DEF Call, Calls
<1>2. ASSUME NEW fn \in AllFns \ (OnlyFirst \cup InWithdrawal), NEW n \in Nat,
             form # "siloWithdraw", Script(form, amount, v) = <<Call(fn, n)>>
      PROVE  Starts(form, amount, v, Head(Script(form, amount, v)),
                    Tail(Script(form, amount, v)))
  <2>1. fn # "approve" /\ fn \notin InWithdrawal /\ BurnFits(fn, n, amount, v)
    BY DEF OnlyFirst, BurnFits
  <2> QED
    BY <1>1, <1>2, <2>1, OneCall
<1>3. ASSUME NEW fn \in {"burn", "editRepay"}, form \in {"earnWithdraw", "farmRepay"},
             Script(form, amount, v) = <<Call(fn, CappedShares(amount, v))>>
      PROVE  Starts(form, amount, v, Head(Script(form, amount, v)),
                    Tail(Script(form, amount, v)))
  <2>1. v.value > 0
    BY <1>3 DEF Computable
  <2> DEFINE n == CappedShares(amount, v)
  <2>2. n \in Nat /\ BurnFits(fn, n, amount, v)
    BY <2>1, CappedSharesFit DEF BurnFits
  <2> HIDE DEF n
  <2>3. fn \in AllFns /\ fn # "approve" /\ fn \notin InWithdrawal /\ form # "siloWithdraw"
    BY <1>3 DEF AllFns, InWithdrawal
  <2>4. Script(form, amount, v) = <<Call(fn, n)>>
    BY <1>3 DEF n
  <2> QED
    BY <1>1, <2>2, <2>3, <2>4, OneCall
<1>4. ASSUME NEW fn \in AllFns \ (OnlyFirst \cup InWithdrawal), NEW spender \in Spenders,
             form # "siloWithdraw",
             Script(form, amount, v) = ApproveThen(v, spender, Call(fn, amount))
      PROVE  Starts(form, amount, v, Head(Script(form, amount, v)),
                    Tail(Script(form, amount, v)))
  BY <1>1, <1>4, ApprovedCall
<1>5. CASE form = "siloWithdraw"
  <2> DEFINE c == Call("deallocate", amount)
             d == Call("burnVesting", Freed(amount))
  <2>1. Script(form, amount, v) = <<c, d>>
    BY <1>5 DEF Script, OnSilos, Freed
  <2>2. /\ c \in Calls /\ c.fn = "deallocate" /\ c.amount = amount
        /\ d \in Calls /\ d.fn = "burnVesting" /\ d.amount = Freed(amount)
    BY <1>1, FreedNat DEF AllFns
  <2> HIDE DEF c, d
  <2>3. Head(<<c, d>>) = c /\ Tail(<<c, d>>) = <<d>>
    BY TwoElements
  <2>4. <<d>> \in Seq(Calls) /\ Len(<<d>>) = 1 /\ <<d>>[1] = d /\ Len(<<d>>) <= 1
    BY <2>2, OneElement
  <2>5. "burnVesting" \notin OnlyFirst /\ BurnFits("deallocate", c.amount, amount, v)
    BY DEF OnlyFirst, BurnFits
  <2> QED
    BY <1>5, <2>1, <2>2, <2>3, <2>4, <2>5 DEF Starts
<1>6. /\ {"mint", "mintAndAllocate", "claim", "claimReward", "claimVested", "open",
          "editDeposit", "editOther"} \subseteq AllFns \ (OnlyFirst \cup InWithdrawal)
      /\ {"pool", "xrdo", "manager"} \subseteq Spenders
  BY DEF AllFns, OnlyFirst, InWithdrawal, Spenders
<1>7. CASE form = "earnDeposit"
  BY <1>4, <1>6, <1>7 DEF Script, OnEarn
<1>8. CASE form = "earnWithdraw"
  BY <1>3, <1>8 DEF Script, OnEarn
<1>9. CASE form = "siloDeposit"
  BY <1>4, <1>6, <1>9 DEF Script, OnSilos
<1>10. CASE form = "siloClaim"
  BY <1>2, <1>6, <1>10 DEF Script, OnSilos
<1>11. CASE form = "rewards"
  BY <1>2, <1>6, <1>11 DEF Script, OnRewards
<1>12. CASE form = "vesting"
  BY <1>2, <1>6, <1>12 DEF Script, OnVesting
<1>13. CASE form = "farmOpen"
  BY <1>4, <1>6, <1>13 DEF Script, OnFarmOpen
<1>14. CASE form = "farmDeposit"
  BY <1>4, <1>6, <1>14 DEF Script, OnFarmEdit
<1>15. CASE form = "farmRepay"
  BY <1>3, <1>15 DEF Script, OnFarmEdit
<1>16. CASE form \in {"farmBorrow", "farmWithdraw", "farmList"}
  BY <1>2, <1>6, <1>16 DEF Script, OnFarmEdit
<1> QED
  BY <1>5, <1>7, <1>8, <1>9, <1>10, <1>11, <1>12, <1>13, <1>14, <1>15, <1>16
  DEF AllForms

-----------------------------------------------------------------------------
(* Contracts and pages *)

\* The contracts' figures stay natural numbers: a call that would make one
\* negative is not accepted.
LEMMA AppliedTyped ==
  ASSUME chain \in Chains, NEW tx \in Txs, WellBound(tx), Accepts(tx)
  PROVE  Applied(tx) \in Chains
<1>1. /\ chain.allowance \in SUBSET (Accounts \X Spenders)
      /\ chain.pool \in [Accounts -> Nat] /\ chain.farm \in [Accounts -> Nat]
      /\ chain.staked \in [Accounts -> Nat] /\ chain.free \in [Accounts -> Nat]
      /\ chain.claimed \in SUBSET (Accounts \cup {None})
      /\ tx.from \in Accounts /\ tx.amount \in Nat /\ tx.to \in Accounts \cup {None}
  BY DEF Chains, Txs
<1>2. CASE tx.fn = "approve"
  <2>1. tx.spender \in Spenders
    BY <1>2 DEF WellBound
  <2>2. Applied(tx) = [chain EXCEPT !.allowance = @ \cup {<<tx.from, tx.spender>>}]
    BY <1>2 DEF Applied
  <2> QED
    BY <1>1, <2>1, <2>2 DEF Chains
<1>3. CASE tx.fn = "mint"
  <2>1. (2 * tx.amount) \div Price \in Nat
    BY <1>1, ConstantFacts, Floor
  <2> DEFINE minted == (2 * tx.amount) \div Price
  <2> HIDE DEF minted
  <2>2. [chain.pool EXCEPT ![tx.to] = @ + minted] \in [Accounts -> Nat]
    BY <1>1, <1>3, <2>1 DEF WellBound, TakesAddress, minted
  <2>3. Applied(tx) = [chain EXCEPT !.pool[tx.to] = @ + minted]
    BY <1>3 DEF Applied, minted
  <2> QED
    BY <2>2, <2>3 DEF Chains
<1>4. CASE tx.fn = "burn"
  <2>1. [chain.pool EXCEPT ![tx.from] = @ - tx.amount] \in [Accounts -> Nat]
    BY <1>1, <1>4 DEF Accepts
  <2>2. Applied(tx) = [chain EXCEPT !.pool[tx.from] = @ - tx.amount]
    BY <1>4 DEF Applied
  <2> QED
    BY <2>1, <2>2 DEF Chains
<1>5. CASE tx.fn = "mintAndAllocate"
  <2>1. [chain.staked EXCEPT ![tx.to] = @ + tx.amount] \in [Accounts -> Nat]
    BY <1>1, <1>5 DEF WellBound, TakesAddress
  <2>2. Applied(tx) = [chain EXCEPT !.staked[tx.to] = @ + tx.amount]
    BY <1>5 DEF Applied
  <2> QED
    BY <2>1, <2>2 DEF Chains
<1>6. CASE tx.fn = "deallocate"
  <2>1. [chain.staked EXCEPT ![tx.from] = @ - tx.amount] \in [Accounts -> Nat]
    BY <1>1, <1>6 DEF Accepts
  <2>2. [chain.free EXCEPT ![tx.from] = @ + Freed(tx.amount)] \in [Accounts -> Nat]
    BY <1>1, FreedNat
  <2>3. Applied(tx) = [chain EXCEPT !.staked[tx.from] = @ - tx.amount,
                                    !.free[tx.from] = @ + Freed(tx.amount)]
    BY <1>6 DEF Applied, Freed
  <2> QED
    BY <2>1, <2>2, <2>3 DEF Chains
<1>7. CASE tx.fn = "burnVesting"
  <2>1. [chain.free EXCEPT ![tx.from] = @ - tx.amount] \in [Accounts -> Nat]
    BY <1>1, <1>7 DEF Accepts
  <2>2. Applied(tx) = [chain EXCEPT !.free[tx.from] = @ - tx.amount]
    BY <1>7 DEF Applied
  <2> QED
    BY <2>1, <2>2 DEF Chains
<1>8. CASE tx.fn = "claimReward"
  <2>1. Applied(tx) = [chain EXCEPT !.claimed = @ \cup {tx.to}]
    BY <1>8 DEF Applied
  <2> QED
    BY <1>1, <2>1 DEF Chains
<1>9. CASE tx.fn = "open"
  <2>1. [chain.farm EXCEPT ![tx.to] = @ + tx.amount] \in [Accounts -> Nat]
    BY <1>1, <1>9 DEF WellBound, TakesAddress
  <2>2. Applied(tx) = [chain EXCEPT !.farm[tx.to] = @ + tx.amount]
    BY <1>9 DEF Applied
  <2> QED
    BY <2>1, <2>2 DEF Chains
<1>10. CASE tx.fn = "editRepay"
  <2>1. [chain.farm EXCEPT ![tx.from] = @ - tx.amount] \in [Accounts -> Nat]
    BY <1>1, <1>10 DEF Accepts
  <2>2. Applied(tx) = [chain EXCEPT !.farm[tx.from] = @ - tx.amount]
    BY <1>10 DEF Applied
  <2> QED
    BY <2>1, <2>2 DEF Chains
<1>11. CASE tx.fn \notin {"approve", "mint", "burn", "mintAndAllocate", "deallocate",
                          "burnVesting", "claimReward", "open", "editRepay"}
  BY <1>11 DEF Applied
<1> QED
  BY <1>2, <1>3, <1>4, <1>5, <1>6, <1>7, <1>8, <1>9, <1>10, <1>11

\* What the server renders is a page of this kind.
LEMMA ViewTyped ==
  ASSUME chain \in Chains, NEW form, NEW a \in Accounts \cup {None}
  PROVE  View(form, a) \in Views
<1> DEFINE shares == IF a = None THEN 0
                     ELSE IF form = "farmRepay" THEN chain.farm[a] ELSE chain.pool[a]
<1>1. shares \in Nat
  BY DEF Chains
<1>2. View(form, a) = [allowed |-> <<a, SpenderOf(form)>> \in chain.allowance,
                       shares |-> shares, value |-> (shares * Price) \div 2]
  BY DEF View
<1> HIDE DEF shares
<1>3. (shares * Price) \div 2 \in Nat
  BY <1>1, ConstantFacts, Floor
<1>4. (<<a, SpenderOf(form)>> \in chain.allowance) \in BOOLEAN
  OBVIOUS
<1> QED
  BY <1>1, <1>2, <1>3, <1>4 DEF Views

\* A page the server renders, for the cookie's account.
LEMMA FreshTyped ==
  ASSUME Typed, NEW form \in AllForms
  PROVE  /\ Fresh(form) \in Bodies
         /\ Fresh(form).account = cookie.address /\ Fresh(form).notice = 0
<1>1. cookie.address \in Accounts \cup {None} /\ chain \in Chains
  BY DEF Typed
<1>2. View(form, cookie.address) \in Views
  BY <1>1, ViewTyped
<1>3. 0 \in Hashes
  BY ConstantFacts DEF Hashes
<1> QED
  BY <1>1, <1>2, <1>3 DEF Fresh, Bodies

\* The body of a page, as it goes into the cache
LEMMA ShotTyped ==
  ASSUME PagesTyped, NEW t \in Tabs
  PROVE  /\ Shot(t) \in Bodies /\ Shot(t).account = page[t].account
         /\ [Shot(t) EXCEPT !.overlay = FALSE] \in Bodies
         /\ [Shot(t) EXCEPT !.overlay = FALSE].account = page[t].account
<1>1. page[t] \in Pages
  BY DEF PagesTyped
<1>2. Shot(t) \in Bodies /\ Shot(t).account = page[t].account
  BY <1>1 DEF Pages, Bodies, Shot
<1> QED
  BY <1>2 DEF Bodies

\* The cache of one tab gets a body in place of what it had of the same form.
Stored(t, body) ==
  /\ snap' \in [Tabs -> [AllForms -> SUBSET Bodies]]
  /\ \A u \in Tabs, form \in AllForms :
       \/ snap'[u][form] = snap[u][form]
       \/ u = t /\ snap'[u][form] = {body}

\* Turbo's cache holds at most one body of a form.
LEMMA CachedTyped ==
  ASSUME PagesTyped, NEW t \in Tabs, NEW body \in Bodies,
         snap' = Cached(t, body) \/ snap' = snap
  PROVE  Stored(t, body)
<1>1. body.form \in AllForms
  BY DEF Bodies
<1>2. CASE snap' = [snap EXCEPT ![t][body.form] = {body}]
  BY <1>1, <1>2 DEF PagesTyped, Stored
<1>3. CASE snap' = snap
  BY <1>3 DEF PagesTyped, Stored
<1> QED
  BY <1>2, <1>3 DEF Cached

\* The page in tab t, or what is cached of the others, changes.
LEMMA StoredTyped ==
  ASSUME PagesTyped, NEW t \in Tabs, NEW body, Stored(t, body), page' \in [Tabs -> Pages]
  PROVE  PagesTyped'
<1>1. ASSUME NEW u \in Tabs, NEW form \in AllForms,
             NEW b \in snap'[u][form], NEW c \in snap'[u][form]
      PROVE  b = c
  BY <1>1 DEF PagesTyped, Stored
<1> QED
  BY <1>1 DEF PagesTyped, Stored

\* A page that shows a body in tab t
Shows(t, body, reloading) ==
  /\ page' \in [Tabs -> Pages]
  /\ page'[t].account = body.account /\ page'[t].notice = body.notice
  /\ page'[t].reloading = reloading
  /\ \A u \in Tabs \ {t} : page'[u] = page[u]

\* A body that is shown, with or without a visit that goes on.
LEMMA ShownTyped ==
  ASSUME PagesTyped, NEW t \in Tabs, NEW body \in Bodies,
         NEW visiting \in AllForms \cup {"none"}, NEW reloading \in BOOLEAN,
         NEW timers \in Nat, Show(t, body, visiting, reloading, timers)
  PROVE  Shows(t, body, reloading)
<1> DEFINE new == [account |-> body.account, form |-> body.form, view |-> body.view,
                   overlay |-> body.overlay, notice |-> body.notice,
                   visiting |-> visiting, cached |-> visiting # "none",
                   reloading |-> reloading, timers |-> timers]
<1>1. /\ new \in Pages /\ new.account = body.account /\ new.notice = body.notice
      /\ new.reloading = reloading
  BY DEF Bodies, Pages
<1>2. page' = [page EXCEPT ![t] = new]
  BY DEF Show
<1> HIDE DEF new
<1> QED
  BY <1>1, <1>2 DEF PagesTyped, Shows

-----------------------------------------------------------------------------
(* Steps on runs and transactions *)

\* A run in progress has the fields of one.
LEMMA RunTyped ==
  ASSUME CallsTyped, NEW r \in Runs, Running(r)
  PROVE  /\ run[r] \in ActiveRuns
         /\ run[r].pc \in {"simulate", "prompt", "receipt"} /\ run[r].tab \in Tabs
         /\ run[r].form \in AllForms /\ run[r].signer \in Accounts
         /\ run[r].asked \in Nat /\ run[r].view \in Views
         /\ run[r].hashes \in Seq(Hashes) /\ run[r].call \in Txs
         /\ run[r].rest \in Seq(Calls)
<1>1. run[r] \in ActiveRuns
  BY DEF CallsTyped, Running, Idle
<1> QED
  BY <1>1 DEF ActiveRuns

\* The first and the other calls of a list of at most one.
LEMMA ShortRest ==
  ASSUME NEW s \in Seq(Calls), Len(s) <= 1
  PROVE  /\ s # <<>> <=> Len(s) = 1
         /\ s # <<>> => /\ Head(s) = s[1] /\ Head(s) \in Calls
                        /\ Tail(s) = <<>> /\ Tail(s) \in Seq(Calls) /\ Len(Tail(s)) = 0
<1>1. s # <<>> <=> Len(s) = 1
  <2>1. s = <<>> => Len(s) = 0
    OBVIOUS
  <2>2. Len(s) = 0 => s = <<>>
    OBVIOUS
  <2>3. Len(s) \in Nat
    OBVIOUS
  <2> QED
    BY <2>1, <2>2, <2>3
<1>2. ASSUME s # <<>>
      PROVE  /\ Head(s) = s[1] /\ Head(s) \in Calls
             /\ Tail(s) \in Seq(Calls) /\ Len(Tail(s)) = 0
  BY <1>1, <1>2
<1>3. s # <<>> => Tail(s) = <<>>
  BY <1>2
<1> QED
  BY <1>1, <1>2, <1>3

\* A call is bound to the tab's account, which is also its address: both are read
\* between the same two awaits.
LEMMA BoundFits ==
  ASSUME Typed, NEW t \in Tabs, conn[t] # None, NEW c \in Calls,
         c.fn = "approve" => c.spender \in Spenders
  PROVE  /\ Bound(c, t, conn[t]) \in Txs
         /\ WellBound(Bound(c, t, conn[t]))
         /\ Bound(c, t, conn[t]).fn = c.fn
         /\ Bound(c, t, conn[t]).amount = c.amount
         /\ Bound(c, t, conn[t]).from = conn[t]
         /\ Bound(c, t, conn[t]).status = "pending"
<1>1. conn[t] \in Accounts /\ page[t].account \in Accounts \cup {None}
  BY DEF Typed, PagesTyped, Pages
<1>2. c.fn \in AllFns /\ c.amount \in Nat /\ c.spender \in Spenders \cup {"none"}
  BY DEF Calls
<1> QED
  BY <1>1, <1>2 DEF Bound, Txs, WellBound

\* One run changes, and no transaction.
LEMMA OneRunKept ==
  ASSUME CallsTyped, CallsInv, NEW r \in Runs, NEW q \in ActiveRuns, RunFits(q),
         run' = [run EXCEPT ![r] = q], txs' = txs
  PROVE  CallsTyped' /\ CallsInv'
<1>1. CallsTyped'
  BY DEF CallsTyped
<1>2. ASSUME NEW p \in Runs, Running(p)'
      PROVE  RunFits(run'[p])
  <2>1. CASE p = r
    BY <2>1 DEF CallsTyped
  <2>2. CASE p # r
    BY <1>2, <2>2 DEF CallsTyped, CallsInv, Running
  <2> QED
    BY <2>1, <2>2
<1>3. \A h \in DOMAIN txs' : WellBound(txs'[h])
  BY DEF CallsInv
<1> QED
  BY <1>1, <1>2, <1>3 DEF CallsInv

\* Runs end, and no transaction changes.
LEMMA RunsEnded ==
  ASSUME CallsTyped, CallsInv, NEW ended \in SUBSET Runs,
         run' = [r \in Runs |-> IF r \in ended THEN Idle ELSE run[r]], txs' = txs
  PROVE  CallsTyped' /\ CallsInv'
<1>1. CallsTyped'
  BY DEF CallsTyped
<1>2. ASSUME NEW p \in Runs, Running(p)'
      PROVE  RunFits(run'[p])
  <2>1. p \notin ended
    BY <1>2 DEF Running, Idle
  <2> QED
    BY <1>2, <2>1 DEF CallsInv, Running
<1>3. \A h \in DOMAIN txs' : WellBound(txs'[h])
  BY DEF CallsInv
<1> QED
  BY <1>1, <1>2, <1>3 DEF CallsInv

\* What runTransaction starts is a run that fits its form.
LEMMA SubmitRun ==
  ASSUME Typed, CallsInv, NEW t \in Tabs, NEW r \in Runs, NEW amount \in Amounts,
         Submit(t, r, amount)
  PROVE  \E q \in ActiveRuns :
           /\ run' = [run EXCEPT ![r] = q] /\ RunFits(q)
           /\ q.pc = "simulate" /\ q.tab = t /\ q.hashes = <<>>
           /\ q.call.from = conn[t] /\ q.signer = conn[t]
           /\ q.form = "siloWithdraw" =>
                /\ q.call.fn = "deallocate" /\ q.call.amount = q.asked
                /\ Len(q.rest) = 1
                /\ q.rest[1].fn = "burnVesting" /\ q.rest[1].amount = Freed(q.asked)
<1> DEFINE form == page[t].form
           v == page[t].view
           script == Script(form, amount, v)
           head == Head(script)
           tail == Tail(script)
           c == Bound(head, t, conn[t])
           q == [pc |-> "simulate", tab |-> t, form |-> form, signer |-> conn[t],
                 asked |-> amount, view |-> v, hashes |-> <<>>, call |-> c, rest |-> tail]
<1>1. /\ form \in AllForms /\ v \in Views /\ amount \in Nat
      /\ conn[t] \in Accounts /\ conn[t] # None
      /\ Computable(form, v) /\ run' = [run EXCEPT ![r] = q]
  BY ConstantFacts DEF Submit, Typed, PagesTyped, Pages
<1>2. Starts(form, amount, v, head, tail)
  BY <1>1, ScriptStarts
<1> HIDE DEF form, v, script, head, tail
<1>3. /\ c \in Txs /\ WellBound(c) /\ c.fn = head.fn /\ c.amount = head.amount
      /\ c.from = conn[t] /\ c.status = "pending"
  BY <1>1, <1>2, BoundFits DEF Starts
<1> HIDE DEF c
<1>4. q \in ActiveRuns
  BY <1>1, <1>2, <1>3 DEF ActiveRuns, Starts
<1>5. /\ q.pc = "simulate" /\ q.tab = t /\ q.hashes = <<>> /\ q.signer = conn[t]
      /\ q.call = c /\ q.rest = tail /\ q.form = form /\ q.asked = amount /\ q.view = v
  OBVIOUS
<1> HIDE DEF q
<1>6. RunFits(q)
  BY <1>2, <1>3, <1>5 DEF RunFits, Starts
<1> QED
  BY <1>1, <1>2, <1>3, <1>4, <1>5, <1>6 DEF Starts

\* The second call is bound like the first.
LEMMA NextCallRun ==
  ASSUME Typed, CallsInv, NEW r \in Runs, NextCall(r)
  PROVE  \E q \in ActiveRuns :
           /\ run' = [run EXCEPT ![r] = q] /\ RunFits(q)
           /\ Running(r) /\ run[r].pc = "receipt" /\ Len(run[r].rest) = 1
           /\ run[r].hashes # <<>> /\ txs[LastHash(r)].status # "pending"
           /\ q.pc = "simulate" /\ q.tab = run[r].tab /\ q.form = run[r].form
           /\ q.signer = run[r].signer /\ q.asked = run[r].asked
           /\ q.hashes = run[r].hashes /\ Len(q.rest) = 0
           /\ q.call.fn = run[r].rest[1].fn /\ q.call.amount = run[r].rest[1].amount
           /\ q.call.from = conn[run[r].tab] /\ conn[run[r].tab] # None
<1>1. /\ Running(r) /\ run[r].pc = "receipt" /\ run[r].rest # <<>>
      /\ txs[LastHash(r)].status # "pending" /\ conn[run[r].tab] # None
  BY DEF NextCall, ReceiptArrived, Running, Callable
<1>2. RunFits(run[r]) /\ CallsTyped
  BY <1>1 DEF CallsInv, Typed
<1> DEFINE p == run[r]
           c == Bound(Head(p.rest), p.tab, conn[p.tab])
           q == [p EXCEPT !.pc = "simulate", !.call = c, !.rest = Tail(@)]
<1>3. run' = [run EXCEPT ![r] = q]
  BY DEF NextCall, getAddress
<1>4. /\ p \in ActiveRuns /\ p.tab \in Tabs /\ p.rest \in Seq(Calls)
  BY <1>1, <1>2, RunTyped
<1> HIDE DEF p
<1>5. /\ Len(p.rest) = 1 /\ Head(p.rest) = p.rest[1] /\ Head(p.rest) \in Calls
      /\ Tail(p.rest) = <<>> /\ Tail(p.rest) \in Seq(Calls) /\ Len(Tail(p.rest)) = 0
  <2>1. Len(p.rest) <= 1 /\ p.rest # <<>>
    BY <1>1, <1>2 DEF RunFits, p
  <2> QED
    BY <1>4, <2>1, ShortRest
<1>6. p.rest[1].fn \notin OnlyFirst
  BY <1>1, <1>2 DEF RunFits, p
<1>7. /\ c \in Txs /\ WellBound(c) /\ c.fn = p.rest[1].fn
      /\ c.amount = p.rest[1].amount /\ c.from = conn[p.tab] /\ c.status = "pending"
  <2>1. conn[p.tab] # None
    BY <1>1 DEF p
  <2> QED
    BY <1>4, <1>5, <1>6, <2>1, BoundFits DEF OnlyFirst
<1> HIDE DEF c
<1>8. q \in ActiveRuns
  BY <1>4, <1>5, <1>7 DEF ActiveRuns
<1>9. /\ q.pc = "simulate" /\ q.call = c /\ q.rest = Tail(p.rest)
      /\ q.tab = p.tab /\ q.form = p.form /\ q.signer = p.signer
      /\ q.asked = p.asked /\ q.hashes = p.hashes /\ q.view = p.view
  BY <1>4 DEF ActiveRuns
<1> HIDE DEF q
<1>10. RunFits(q)
  <2>1. BurnFits(c.fn, c.amount, q.asked, q.view)
    BY <1>6, <1>7 DEF OnlyFirst, BurnFits
  <2>2. p.form # "siloWithdraw" => c.fn \notin InWithdrawal
    BY <1>1, <1>2, <1>7 DEF RunFits, p
  <2>3. q.rest = <<>> /\ Len(q.rest) <= 1 /\ q.pc # "receipt"
    BY <1>5, <1>9
  <2> QED
    BY <1>7, <1>9, <2>1, <2>2, <2>3 DEF RunFits
<1>11. p.hashes # <<>>
  BY <1>1, <1>2 DEF RunFits, p
<1> QED
  BY <1>1, <1>3, <1>5, <1>7, <1>8, <1>9, <1>10, <1>11 DEF p

\* A simulation that succeeds changes the stage of the run only.
LEMMA SimulateRun ==
  ASSUME CallsTyped, CallsInv, NEW r \in Runs, Simulate(r)
  PROVE  \E q \in ActiveRuns :
           /\ run' = [run EXCEPT ![r] = q] /\ RunFits(q)
           /\ Running(r) /\ run[r].pc = "simulate"
           /\ q.pc = "prompt" /\ q.tab = run[r].tab /\ q.form = run[r].form
           /\ q.signer = run[r].signer /\ q.asked = run[r].asked
           /\ q.hashes = run[r].hashes /\ q.rest = run[r].rest /\ q.call = run[r].call
<1> DEFINE p == run[r]
           q == [p EXCEPT !.pc = "prompt"]
<1>1. Running(r) /\ p.pc = "simulate" /\ run' = [run EXCEPT ![r] = q]
  BY DEF Simulate, Running
<1>2. p \in ActiveRuns /\ RunFits(p)
  BY <1>1, RunTyped DEF CallsInv
<1> HIDE DEF p
<1>3. q \in ActiveRuns
  BY <1>2 DEF ActiveRuns
<1>4. /\ q.pc = "prompt" /\ q.tab = p.tab /\ q.form = p.form
      /\ q.signer = p.signer /\ q.asked = p.asked /\ q.view = p.view
      /\ q.hashes = p.hashes /\ q.rest = p.rest /\ q.call = p.call
  BY <1>2 DEF ActiveRuns
<1> HIDE DEF q
<1>5. RunFits(q)
  BY <1>2, <1>4 DEF RunFits
<1> QED
  BY <1>1, <1>3, <1>4, <1>5 DEF p

\* The transaction that is sent is the run's call, and its hash goes to the run.
LEMMA WriteRun ==
  ASSUME CallsTyped, CallsInv, NEW r \in Runs, WriteContract(r)
  PROVE  /\ txs' = Append(txs, run[r].call) /\ run[r].call \in Txs
         /\ Running(r) /\ run[r].pc = "prompt"
         /\ CallsTyped' /\ CallsInv'
         /\ \E q \in ActiveRuns :
              /\ run' = [run EXCEPT ![r] = q] /\ RunFits(q)
              /\ q.pc = "receipt" /\ q.tab = run[r].tab /\ q.form = run[r].form
              /\ q.signer = run[r].signer /\ q.asked = run[r].asked
              /\ q.hashes = Append(run[r].hashes, Len(txs) + 1)
              /\ q.rest = run[r].rest /\ q.call = run[r].call
<1> DEFINE p == run[r]
           more == Append(p.hashes, Len(txs) + 1)
           q == [p EXCEPT !.pc = "receipt", !.hashes = more]
<1>1. /\ Running(r) /\ p.pc = "prompt" /\ run' = [run EXCEPT ![r] = q]
      /\ txs' = Append(txs, p.call) /\ Len(txs) < MaxTxs
  BY DEF WriteContract, Running
<1>2. p \in ActiveRuns /\ RunFits(p)
  BY <1>1, RunTyped DEF CallsInv
<1>3. p.call \in Txs /\ p.hashes \in Seq(Hashes)
  BY <1>2 DEF ActiveRuns
<1>4. txs \in Seq(Txs) /\ Len(txs) \in Nat
  BY DEF CallsTyped
<1>5. more \in Seq(Hashes) /\ more # <<>>
  <2>1. Len(txs) + 1 \in Hashes
    BY <1>1, <1>4, ConstantFacts DEF Hashes
  <2>2. Len(more) = Len(p.hashes) + 1 /\ Len(p.hashes) \in Nat /\ more \in Seq(Hashes)
    BY <1>3, <2>1
  <2> HIDE DEF p, more
  <2>3. Len(more) # 0 /\ Len(<<>>) = 0
    BY <2>2
  <2> QED
    BY <2>2, <2>3
<1> HIDE DEF p, more
<1>6. q \in ActiveRuns
  BY <1>2, <1>5 DEF ActiveRuns
<1>7. /\ q.pc = "receipt" /\ q.tab = p.tab /\ q.form = p.form
      /\ q.signer = p.signer /\ q.asked = p.asked /\ q.view = p.view
      /\ q.hashes = more /\ q.rest = p.rest /\ q.call = p.call
  BY <1>2 DEF ActiveRuns
<1> HIDE DEF q
<1>8. RunFits(q)
  BY <1>2, <1>5, <1>7 DEF RunFits
<1>9. CallsTyped'
  <2>1. run' \in [Runs -> ActiveRuns \cup {Idle}]
    BY <1>1, <1>6 DEF CallsTyped
  <2>2. txs' \in Seq(Txs) /\ Len(txs') = Len(txs) + 1
    BY <1>1, <1>3, <1>4
  <2>3. Len(txs') <= MaxTxs
    BY <1>1, <1>4, <2>2, ConstantFacts
  <2> QED
    BY <2>1, <2>2, <2>3 DEF CallsTyped
<1>10. CallsInv'
  <2>1. ASSUME NEW x \in Runs, Running(x)'
        PROVE  RunFits(run'[x])
    <3>1. CASE x = r
      BY <1>1, <1>8, <3>1 DEF CallsTyped
    <3>2. CASE x # r
      BY <1>1, <2>1, <3>2 DEF CallsTyped, CallsInv, Running
    <3> QED
      BY <3>1, <3>2
  <2>2. ASSUME NEW h \in DOMAIN txs'
        PROVE  WellBound(txs'[h])
    <3>1. CASE h \in DOMAIN txs
      <4>1. txs'[h] = txs[h]
        BY <1>1, <1>3, <1>4, <3>1
      <4> QED
        BY <3>1, <4>1 DEF CallsInv
    <3>2. CASE h \notin DOMAIN txs
      <4>1. txs'[h] = p.call
        BY <1>1, <1>3, <1>4, <3>2
      <4> QED
        BY <1>2, <4>1 DEF RunFits
    <3> QED
      BY <3>1, <3>2
  <2> QED
    BY <2>1, <2>2 DEF CallsInv
<1> QED
  BY <1>1, <1>3, <1>6, <1>7, <1>8, <1>9, <1>10 DEF p, more

\* A pending transaction is mined or replaced by another one.
Settles(h) == Mine(h) \/ Replace(h)

\* It gets its status then, and nothing else of it changes.
LEMMA MineTx ==
  ASSUME Typed, CallsInv, NEW h \in DOMAIN txs, Settles(h)
  PROVE  \E outcome \in {"success", "failed"} :
           /\ txs[h].status = "pending"
           /\ txs' = [txs EXCEPT ![h].status = outcome]
           /\ outcome = "success" => Accepts(txs[h]) /\ chain' = Applied(txs[h])
           /\ outcome = "failed" => chain' = chain
           /\ chain' \in Chains /\ CallsTyped' /\ CallsInv'
           /\ run' = run /\ spoiled' = spoiled /\ cookie' = cookie /\ shown' = shown
<1>1. \E outcome \in {"success", "failed"} :
           /\ txs[h].status = "pending"
           /\ txs' = [txs EXCEPT ![h].status = outcome]
           /\ outcome = "success" => Accepts(txs[h]) /\ chain' = Applied(txs[h])
           /\ outcome = "failed" => chain' = chain
  BY DEF Settles, Mine, Replace
<1> PICK outcome \in {"success", "failed"} :
           /\ txs[h].status = "pending"
           /\ txs' = [txs EXCEPT ![h].status = outcome]
           /\ outcome = "success" => Accepts(txs[h]) /\ chain' = Applied(txs[h])
           /\ outcome = "failed" => chain' = chain
  BY <1>1
<1>2. /\ txs \in Seq(Txs) /\ Len(txs) <= MaxTxs /\ txs[h] \in Txs
      /\ DOMAIN txs = 1..Len(txs) /\ Len(txs) \in Nat
  BY DEF Typed, CallsTyped
<1>3. WellBound(txs[h])
  BY DEF CallsInv
<1>4. chain' \in Chains
  BY <1>2, <1>3, AppliedTyped DEF Typed
<1> DEFINE mined == [txs[h] EXCEPT !.status = outcome]
<1>5. mined \in Txs /\ WellBound(mined)
  BY <1>2, <1>3 DEF Txs, WellBound
<1>6. txs' = [txs EXCEPT ![h] = mined]
  OBVIOUS
<1>7. /\ run' = run /\ spoiled' = spoiled /\ cookie' = cookie /\ shown' = shown
  BY DEF Settles, Mine, Replace
<1> HIDE DEF mined
<1>8. /\ txs' \in Seq(Txs) /\ Len(txs') = Len(txs) /\ DOMAIN txs' = DOMAIN txs
      /\ \A k \in DOMAIN txs : txs'[k] = IF k = h THEN mined ELSE txs[k]
  BY <1>2, <1>5, <1>6
<1>9. CallsTyped'
  BY <1>2, <1>7, <1>8 DEF Typed, CallsTyped
<1>10. CallsInv'
  <2>1. \A r \in Runs : Running(r)' => RunFits(run'[r])
    BY <1>7 DEF CallsInv, Running
  <2>2. \A k \in DOMAIN txs' : WellBound(txs'[k])
    BY <1>5, <1>8 DEF CallsInv
  <2> QED
    BY <2>1, <2>2 DEF CallsInv
<1> QED
  BY <1>4, <1>7, <1>9, <1>10

\* The runs that end in a step.
Ends(ended) ==
  /\ run' = [r \in Runs |-> IF r \in ended THEN Idle ELSE run[r]]
  /\ Ended(ended)
  /\ UNCHANGED <<txs, chain>>

\* Runs end when the handler has returned,
LEMMA FinishEnds ==
  ASSUME Typed, NEW r \in Runs, Finish(r)
  PROVE  Ends({r})
<1>1. run' = [run EXCEPT ![r] = Idle] /\ Ended({r}) /\ UNCHANGED <<txs, chain>>
  BY DEF Finish
<1> QED
  BY <1>1 DEF Ends, Typed, CallsTyped

\* when an await has rejected,
LEMMA FailEnds ==
  ASSUME Typed, NEW r \in Runs, Fail(r)
  PROVE  Ends({r})
<1>1. run' = [run EXCEPT ![r] = Idle] /\ Ended({r}) /\ UNCHANGED <<txs, chain>>
  BY DEF Fail
<1> QED
  BY <1>1 DEF Ends, Typed, CallsTyped

\* and, all those of a tab, when its document is replaced.
LEMMA ReloadEnds ==
  ASSUME NEW t \in Tabs, Reload(t)
  PROVE  Ends({r \in Runs : In(r, t)})
<1>1. /\ run' = [r \in Runs |-> IF In(r, t) THEN Idle ELSE run[r]]
      /\ Ended({r \in Runs : In(r, t)}) /\ UNCHANGED <<txs, chain>>
  BY DEF Reload
<1> QED
  BY <1>1 DEF Ends

\* Whom ended withdrawals spoil
LEMMA EndedSpoils ==
  ASSUME Typed, NEW ended \in SUBSET Runs, \A r \in ended : Running(r), Ends(ended)
  PROVE  /\ spoiled \subseteq spoiled' /\ spoiled' \subseteq Accounts
         /\ \A r \in ended :
              Withdraws(r) /\ run[r].hashes # <<>> /\ ~Whole(r)
                => run[r].signer \in spoiled'
<1>1. spoiled' = spoiled \cup {run[r].signer : r \in {q \in ended :
                    run[q].form = "siloWithdraw" /\ run[q].hashes # <<>> /\ ~Whole(q)}}
  BY DEF Ends, Ended
<1>2. \A r \in ended : run[r].signer \in Accounts
  BY RunTyped DEF Typed
<1> QED
  BY <1>1, <1>2 DEF Typed, Withdraws

-----------------------------------------------------------------------------
(* Types, recipients and burns *)

\* Nothing is typed wrong at first.
LEMMA InitTyped == Init => Typed /\ CallsInv
<1> SUFFICES ASSUME Init PROVE Typed /\ CallsInv
  OBVIOUS
<1>1. chain \in Chains
  <2> DEFINE ledger == [a \in Accounts |-> Deposited]
  <2>1. /\ ledger \in [Accounts -> Nat] /\ [a \in Accounts |-> 0] \in [Accounts -> Nat]
        /\ Approved \X Spenders \subseteq Accounts \X Spenders
    BY ConstantFacts
  <2>2. chain = [allowance |-> Approved \X Spenders, pool |-> ledger, farm |-> ledger,
                 staked |-> ledger, free |-> [a \in Accounts |-> 0], claimed |-> {}]
    BY DEF Init
  <2> HIDE DEF ledger
  <2> QED
    BY <2>1, <2>2 DEF Chains
<1>2. cookie \in [address : Accounts \cup {None}, txhash : Hashes]
  <2>1. 0 \in Hashes
    BY ConstantFacts DEF Hashes
  <2> QED
    BY <2>1 DEF Init
<1>3. PagesTyped
  <2> PICK form \in Forms :
       page = [t \in Tabs |->
                 [account |-> cookie.address, form |-> form,
                  view |-> View(form, cookie.address), overlay |-> FALSE,
                  notice |-> 0, visiting |-> "none", cached |-> FALSE,
                  reloading |-> FALSE, timers |-> 0]]
    BY DEF Init
  <2>1. View(form, cookie.address) \in Views /\ cookie.address \in Accounts \cup {None}
    BY <1>1, <1>2, ViewTyped
  <2>2. form \in AllForms
    BY ConstantFacts
  <2>3. [account |-> cookie.address, form |-> form,
         view |-> View(form, cookie.address), overlay |-> FALSE,
         notice |-> 0, visiting |-> "none", cached |-> FALSE,
         reloading |-> FALSE, timers |-> 0] \in Pages
    <3>1. 0 \in Hashes
      BY ConstantFacts DEF Hashes
    <3> QED
      BY <2>1, <2>2, <3>1 DEF Pages
  <2>4. page \in [Tabs -> Pages]
    BY <2>3
  <2>5. snap = [t \in Tabs |-> [f \in AllForms |-> {}]]
    BY DEF Init, NoSnapshots
  <2> QED
    BY <2>4, <2>5 DEF PagesTyped
<1>4. CallsTyped /\ CallsInv
  <2>1. run = [r \in Runs |-> Idle] /\ txs = <<>>
    BY DEF Init
  <2>2. txs \in Seq(Txs) /\ Len(txs) = 0 /\ DOMAIN txs = {}
    BY <2>1
  <2>3. 0 <= MaxTxs
    BY ConstantFacts
  <2>4. \A r \in Runs : ~Running(r)
    BY <2>1 DEF Running, Idle
  <2> QED
    BY <2>1, <2>2, <2>3, <2>4 DEF CallsTyped, CallsInv
<1>5. /\ wallet \in Accounts \cup {None} /\ conn \in [Tabs -> Accounts \cup {None}]
      /\ shown \subseteq Hashes /\ spoiled \subseteq Accounts
  BY ConstantFacts DEF Init
<1> QED
  BY <1>1, <1>2, <1>3, <1>4, <1>5 DEF Typed

\* The handler of turbo:load shows what waits in the cookie, or what the body showed.
LEMMA LoadTyped ==
  ASSUME Typed, NEW t \in Tabs, NEW body \in Bodies, NEW reloading \in BOOLEAN,
         NEW timers \in Nat, OnTurboLoad(t, body, reloading, timers)
  PROVE  /\ cookie' \in [address : Accounts \cup {None}, txhash : Hashes]
         /\ cookie'.address = cookie.address /\ cookie'.txhash = 0
         /\ shown' \subseteq Hashes
         /\ shown' = IF cookie.txhash = 0 THEN shown ELSE shown \cup {cookie.txhash}
         /\ \/ Shows(t, body, reloading)
            \/ /\ cookie.txhash # 0
               /\ Shows(t, [body EXCEPT !.notice = cookie.txhash], reloading)
<1>1. 0 \in Hashes
  BY ConstantFacts DEF Hashes
<1>2. /\ cookie' \in [address : Accounts \cup {None}, txhash : Hashes]
      /\ cookie'.address = cookie.address /\ cookie'.txhash = 0
  BY <1>1 DEF Typed, OnTurboLoad, CookieCleared
<1>3. CASE cookie.txhash = 0
  <2>1. Show(t, body, "none", reloading, timers) /\ shown' = shown
    BY <1>3 DEF OnTurboLoad
  <2>2. Shows(t, body, reloading)
    BY <2>1, ShownTyped DEF Typed
  <2> QED
    BY <1>2, <1>3, <2>1, <2>2 DEF Typed
<1>4. CASE cookie.txhash # 0
  <2> DEFINE noted == [body EXCEPT !.notice = cookie.txhash]
  <2>1. noted \in Bodies /\ timers + 1 \in Nat
    BY DEF Typed, Bodies
  <2>2. Show(t, noted, "none", reloading, timers + 1) /\ shown' = shown \cup {cookie.txhash}
    BY <1>4 DEF OnTurboLoad
  <2> HIDE DEF noted
  <2>3. Shows(t, noted, reloading)
    BY <2>1, <2>2, ShownTyped DEF Typed
  <2> QED
    BY <1>2, <1>4, <2>2, <2>3 DEF Typed, noted
<1> QED
  BY <1>3, <1>4

\* A body with another notification is of the same account.
LEMMA LoadShows ==
  ASSUME Typed, NEW t \in Tabs, NEW body \in Bodies, NEW reloading \in BOOLEAN,
         NEW timers \in Nat, OnTurboLoad(t, body, reloading, timers)
  PROVE  /\ page' \in [Tabs -> Pages]
         /\ page'[t].account = body.account /\ page'[t].reloading = reloading
         /\ page'[t].notice = body.notice
              \/ (cookie.txhash # 0 /\ page'[t].notice = cookie.txhash)
         /\ \A u \in Tabs \ {t} : page'[u] = page[u]
<1>1. /\ [body EXCEPT !.notice = cookie.txhash].account = body.account
      /\ [body EXCEPT !.notice = cookie.txhash].notice = cookie.txhash
  BY DEF Bodies
<1> QED
  BY <1>1, LoadTyped DEF Shows

\* One field of a page changes.
LEMMA PageFieldTyped ==
  ASSUME PagesTyped, snap' = snap, NEW t \in Tabs, NEW new \in Pages,
         page' = [page EXCEPT ![t] = new]
  PROVE  PagesTyped'
BY DEF PagesTyped

\* The overlay is hidden, or the page also visited again.
LEMMA HiddenTyped ==
  ASSUME NEW p \in Pages, NEW path \in AllForms, NEW c \in BOOLEAN
  PROVE  /\ [p EXCEPT !.overlay = FALSE] \in Pages
         /\ [p EXCEPT !.overlay = FALSE, !.visiting = path, !.cached = c] \in Pages
BY DEF Pages

\* Steps that touch neither runs nor transactions.
LEMMA QuietTyped ==
  ASSUME CallsTyped, CallsInv, UNCHANGED <<run, txs>>
  PROVE  CallsTyped' /\ CallsInv'
BY DEF CallsTyped, CallsInv, Running

\* Every step keeps the types and what is bound.
LEMMA NextTyped == Typed /\ CallsInv /\ [Next]_vars => Typed' /\ CallsInv'
<1> SUFFICES ASSUME Typed, CallsInv, [Next]_vars PROVE Typed' /\ CallsInv'
  OBVIOUS
<1>1. PagesTyped /\ CallsTyped
  BY DEF Typed
<1>2. ASSUME NEW t \in Tabs, TurboLoad(t)
      PROVE  Typed' /\ CallsInv'
  <2>1. page[t].visiting \in AllForms /\ page[t].reloading \in BOOLEAN
    BY <1>1, <1>2 DEF TurboLoad, PagesTyped, Pages
  <2>2. Fresh(page[t].visiting) \in Bodies
    BY <2>1, FreshTyped
  <2>3. /\ OnTurboLoad(t, Fresh(page[t].visiting), page[t].reloading, page[t].timers)
        /\ page[t].timers \in Nat
        /\ snap' = Cached(t, Shot(t)) \/ snap' = snap
        /\ UNCHANGED <<wallet, conn, run, chain, txs, spoiled>>
    BY <1>1, <1>2 DEF TurboLoad, PagesTyped, Pages
  <2>4. page' \in [Tabs -> Pages]
    BY <2>1, <2>2, <2>3, LoadShows
  <2>5. PagesTyped'
    BY <1>1, <2>3, <2>4, ShotTyped, CachedTyped, StoredTyped
  <2>6. CallsTyped' /\ CallsInv'
    BY <1>1, <2>3, QuietTyped
  <2>7. /\ cookie' \in [address : Accounts \cup {None}, txhash : Hashes]
        /\ shown' \subseteq Hashes
    BY <2>1, <2>2, <2>3, LoadTyped
  <2> QED
    BY <2>3, <2>5, <2>6, <2>7 DEF Typed
<1>3. ASSUME NEW t \in Tabs, NEW form \in Forms, Visit(t, form)
      PROVE  Typed' /\ CallsInv'
  <2>1. /\ form \in AllForms /\ page[t].reloading \in BOOLEAN /\ page[t] \in Pages
        /\ page[t].timers \in Nat
    BY <1>1, ConstantFacts DEF PagesTyped, Pages
  <2>2. CASE snap[t][form] = {}
    <3> DEFINE new == [page[t] EXCEPT !.visiting = form, !.cached = FALSE]
    <3>1. page' = [page EXCEPT ![t] = new] /\ snap' = snap
      BY <1>3, <2>2 DEF Visit
    <3>2. new \in Pages
      BY <2>1 DEF Pages
    <3> HIDE DEF new
    <3>3. PagesTyped'
      BY <1>1, <3>1, <3>2, PageFieldTyped
    <3> QED
      BY <1>1, <1>3, <3>3, QuietTyped DEF Visit, Typed
  <2>3. CASE snap[t][form] # {}
    <3>1. PICK body \in snap[t][form] : Show(t, body, form, page[t].reloading, page[t].timers)
      BY <1>3, <2>3 DEF Visit
    <3>2. body \in Bodies
      BY <1>1, <2>1 DEF PagesTyped
    <3>3. snap' = Cached(t, Shot(t))
      BY <1>3, <2>3 DEF Visit
    <3>4. page' \in [Tabs -> Pages]
      BY <1>1, <2>1, <3>1, <3>2, ShownTyped DEF Shows
    <3>5. PagesTyped'
      BY <1>1, <3>3, <3>4, ShotTyped, CachedTyped, StoredTyped
    <3> QED
      BY <1>1, <1>3, <3>5, QuietTyped DEF Visit, Typed
  <2> QED
    BY <2>2, <2>3
<1>4. ASSUME NEW t \in Tabs, NEW form \in Forms, Restore(t, form)
      PROVE  Typed' /\ CallsInv'
  <2>1. form \in AllForms /\ page[t].reloading \in BOOLEAN /\ page[t].timers \in Nat
    BY <1>1, ConstantFacts DEF PagesTyped, Pages
  <2>2. PICK body \in snap[t][form] :
          OnTurboLoad(t, body, page[t].reloading, page[t].timers)
    BY <1>4 DEF Restore
  <2>3. body \in Bodies
    BY <1>1, <2>1 DEF PagesTyped
  <2>4. /\ snap' = Cached(t, Shot(t))
        /\ UNCHANGED <<wallet, conn, run, chain, txs, spoiled>>
    BY <1>4 DEF Restore
  <2>5. page' \in [Tabs -> Pages]
    BY <2>1, <2>2, <2>3, LoadShows
  <2>6. PagesTyped'
    BY <1>1, <2>4, <2>5, ShotTyped, CachedTyped, StoredTyped
  <2>7. CallsTyped' /\ CallsInv'
    BY <1>1, <2>4, QuietTyped
  <2>8. /\ cookie' \in [address : Accounts \cup {None}, txhash : Hashes]
        /\ shown' \subseteq Hashes
    BY <2>1, <2>2, <2>3, LoadTyped
  <2> QED
    BY <2>4, <2>6, <2>7, <2>8 DEF Typed
<1>5. ASSUME NEW a \in Choices, Switch(a)
      PROVE  Typed' /\ CallsInv'
  <2>1. PagesTyped'
    BY <1>1, <1>5 DEF Switch, PagesTyped
  <2> QED
    BY <1>1, <1>5, <2>1, QuietTyped, ConstantFacts DEF Switch, Typed
<1>6. ASSUME NEW t \in Tabs, OnChange(t)
      PROVE  Typed' /\ CallsInv'
  <2>1. /\ snap' = snap /\ conn' \in [Tabs -> Accounts \cup {None}]
        /\ UNCHANGED <<wallet, run, chain, txs, shown, spoiled>>
    BY <1>6 DEF OnChange, Typed
  <2>2. /\ cookie' \in [address : Accounts \cup {None}, txhash : Hashes]
        /\ PagesTyped'
    <3>1. CASE cookie.address = wallet
      BY <1>1, <1>6, <2>1, <3>1 DEF OnChange, Follow, Typed, PagesTyped
    <3>2. CASE cookie.address # wallet
      <4>1. /\ cookie' = [cookie EXCEPT !.address = wallet]
            /\ page' = [page EXCEPT ![t].reloading = TRUE]
        BY <1>6, <3>2 DEF OnChange, Follow
      <4>2. [page[t] EXCEPT !.reloading = TRUE] \in Pages
        BY <1>1 DEF PagesTyped, Pages
      <4>3. page' = [page EXCEPT ![t] = [page[t] EXCEPT !.reloading = TRUE]]
        BY <4>1
      <4> QED
        BY <1>1, <2>1, <4>1, <4>2, <4>3, PageFieldTyped DEF Typed
    <3> QED
      BY <3>1, <3>2
  <2> QED
    BY <1>1, <2>1, <2>2, QuietTyped DEF Typed
<1>7. ASSUME NEW t \in Tabs, Reload(t)
      PROVE  Typed' /\ CallsInv'
  <2>1. /\ OnTurboLoad(t, Fresh(page[t].form), FALSE, 0)
        /\ snap' = [snap EXCEPT ![t] = NoSnapshots]
        /\ conn' = [conn EXCEPT ![t] = None] /\ UNCHANGED <<wallet, chain, txs>>
    BY <1>7 DEF Reload
  <2>2. Fresh(page[t].form) \in Bodies
    BY <1>1, FreshTyped DEF PagesTyped, Pages
  <2>3. page' \in [Tabs -> Pages]
    BY <2>1, <2>2, LoadShows
  <2>4. PagesTyped'
    BY <1>1, <2>1, <2>3 DEF PagesTyped, NoSnapshots
  <2> DEFINE ended == {r \in Runs : In(r, t)}
  <2>5. Ends(ended) /\ ended \in SUBSET Runs /\ \A r \in ended : Running(r)
    BY <1>7, ReloadEnds DEF In
  <2> HIDE DEF ended
  <2>6. CallsTyped' /\ CallsInv'
    BY <1>1, <2>5, RunsEnded DEF Ends
  <2>7. spoiled' \subseteq Accounts
    BY <2>5, EndedSpoils
  <2>8. conn' \in [Tabs -> Accounts \cup {None}]
    BY <2>1 DEF Typed
  <2>9. /\ cookie' \in [address : Accounts \cup {None}, txhash : Hashes]
        /\ shown' \subseteq Hashes
    BY <2>1, <2>2, LoadTyped
  <2> QED
    BY <2>1, <2>4, <2>6, <2>7, <2>8, <2>9 DEF Typed
<1>8. ASSUME NEW t \in Tabs, NEW r \in Runs, NEW amount \in Amounts, Submit(t, r, amount)
      PROVE  Typed' /\ CallsInv'
  <2>1. UNCHANGED <<wallet, conn, cookie, snap, chain, txs, shown, spoiled>>
    BY <1>8 DEF Submit
  <2>2. CallsTyped' /\ CallsInv'
    BY <1>1, <1>8, <2>1, SubmitRun, OneRunKept
  <2>3. page' = [page EXCEPT ![t] = [page[t] EXCEPT !.overlay = TRUE]]
    BY <1>8 DEF Submit
  <2>4. [page[t] EXCEPT !.overlay = TRUE] \in Pages
    BY <1>1 DEF PagesTyped, Pages
  <2>5. PagesTyped'
    BY <1>1, <2>1, <2>3, <2>4, PageFieldTyped
  <2> QED
    BY <2>1, <2>2, <2>5 DEF Typed
<1>9. ASSUME NEW r \in Runs, Simulate(r) \/ NextCall(r)
      PROVE  Typed' /\ CallsInv'
  <2>1. UNCHANGED <<wallet, conn, cookie, page, snap, chain, txs, shown, spoiled>>
    BY <1>9 DEF Simulate, NextCall
  <2>2. CallsTyped' /\ CallsInv'
    BY <1>1, <1>9, <2>1, SimulateRun, NextCallRun, OneRunKept
  <2>3. PagesTyped'
    BY <1>1, <2>1 DEF PagesTyped
  <2> QED
    BY <2>1, <2>2, <2>3 DEF Typed
<1>10. ASSUME NEW r \in Runs, WriteContract(r)
       PROVE  Typed' /\ CallsInv'
  <2>1. UNCHANGED <<wallet, conn, cookie, page, snap, chain, shown, spoiled>>
    BY <1>10 DEF WriteContract
  <2>2. CallsTyped' /\ CallsInv'
    BY <1>1, <1>10, WriteRun
  <2>3. PagesTyped'
    BY <1>1, <2>1 DEF PagesTyped
  <2> QED
    BY <2>1, <2>2, <2>3 DEF Typed
<1>11. ASSUME NEW h \in DOMAIN txs, Settles(h)
       PROVE  Typed' /\ CallsInv'
  <2>1. UNCHANGED <<wallet, conn, cookie, page, snap, run, shown, spoiled>>
    BY <1>11 DEF Settles, Mine, Replace
  <2>2. chain' \in Chains /\ CallsTyped' /\ CallsInv'
    BY <1>11, MineTx
  <2>3. PagesTyped'
    BY <1>1, <2>1 DEF PagesTyped
  <2> QED
    BY <2>1, <2>2, <2>3 DEF Typed
<1>12. ASSUME NEW r \in Runs, Running(r), Ends({r}), PagesTyped',
              UNCHANGED <<wallet, conn, chain, shown>>,
              cookie' \in [address : Accounts \cup {None}, txhash : Hashes]
       PROVE  Typed' /\ CallsInv'
  <2>1. CallsTyped' /\ CallsInv'
    BY <1>1, <1>12, RunsEnded DEF Ends
  <2>2. spoiled' \subseteq Accounts
    BY <1>12, EndedSpoils
  <2> QED
    BY <1>12, <2>1, <2>2 DEF Typed
<1>13. ASSUME NEW r \in Runs, Finish(r)
       PROVE  Typed' /\ CallsInv'
  <2> DEFINE t == run[r].tab
             path == PathDefault(page[t].form)
             new == [page[t] EXCEPT !.overlay = FALSE, !.visiting = path,
                                    !.cached = InCache(t, path)]
             hidden == [Shot(t) EXCEPT !.overlay = FALSE]
  <2>1. Running(r) /\ run[r].pc = "receipt"
    BY <1>13 DEF Finish, ReceiptArrived, Running
  <2>2. t \in Tabs /\ run[r].hashes \in Seq(Hashes) /\ run[r].hashes # <<>>
    BY <1>1, <2>1, RunTyped DEF CallsInv, RunFits
  <2>3. page' = [page EXCEPT ![t] = new]
    BY <1>13 DEF Finish, Revisited
  <2>4. path \in AllForms /\ InCache(t, path) \in BOOLEAN
    BY DEF PathDefault, AllForms, InCache
  <2>5. page[t] \in Pages
    BY <1>1, <2>2 DEF PagesTyped
  <2> HIDE DEF path
  <2>6. new \in Pages
    BY <2>4, <2>5, HiddenTyped
  <2> USE DEF path
  <2>7. /\ UNCHANGED <<wallet, conn, chain, shown>>
        /\ snap' = Cached(t, hidden) \/ snap' = snap
    BY <1>13 DEF Finish, CachedByVisit
  <2>8. cookie' = [cookie EXCEPT !.txhash = LastHash(r)]
    BY <1>13 DEF Finish
  <2>9. LastHash(r) \in Hashes
    BY <2>2 DEF LastHash
  <2>10. cookie' \in [address : Accounts \cup {None}, txhash : Hashes]
    BY <2>8, <2>9 DEF Typed
  <2>11. Ends({r})
    BY <1>13, FinishEnds
  <2>12. hidden \in Bodies
    BY <1>1, <2>2, ShotTyped
  <2> HIDE DEF t, path, new, hidden
  <2>13. page' \in [Tabs -> Pages]
    BY <1>1, <2>3, <2>6 DEF PagesTyped
  <2>14. PagesTyped'
    BY <1>1, <2>2, <2>7, <2>12, <2>13, CachedTyped, StoredTyped
  <2> QED
    BY <1>12, <2>1, <2>7, <2>10, <2>11, <2>14
<1>14. ASSUME NEW r \in Runs, Fail(r)
       PROVE  Typed' /\ CallsInv'
  <2> DEFINE t == run[r].tab
             new == [page[t] EXCEPT !.overlay = FALSE]
  <2>1. Running(r) /\ page' = [page EXCEPT ![t] = new]
    BY <1>14 DEF Fail, OverlayHidden
  <2>2. t \in Tabs
    BY <1>1, <2>1, RunTyped
  <2>3. new \in Pages
    <3>1. page[t] \in Pages
      BY <1>1, <2>2 DEF PagesTyped
    <3>2. PICK path : path \in AllForms
      BY DEF AllForms
    <3> HIDE DEF t
    <3> QED
      BY <3>1, <3>2, HiddenTyped
  <2>4. UNCHANGED <<wallet, conn, cookie, snap, chain, shown>>
    BY <1>14 DEF Fail
  <2>5. cookie' \in [address : Accounts \cup {None}, txhash : Hashes]
    BY <2>4 DEF Typed
  <2>6. Ends({r})
    BY <1>14, FailEnds
  <2> HIDE DEF t, new
  <2>7. PagesTyped'
    BY <1>1, <2>1, <2>2, <2>3, <2>4, PageFieldTyped
  <2> QED
    BY <1>12, <2>1, <2>4, <2>5, <2>6, <2>7
<1>15. ASSUME NEW t \in Tabs, HideNotice(t)
       PROVE  Typed' /\ CallsInv'
  <2> DEFINE new == [page[t] EXCEPT !.notice = 0, !.timers = @ - 1]
  <2>1. 0 \in Hashes
    BY ConstantFacts DEF Hashes
  <2>2. page[t] \in Pages /\ page[t].timers \in Nat /\ page[t].timers > 0
    BY <1>1, <1>15 DEF HideNotice, PagesTyped, Pages
  <2>3. page[t].timers - 1 \in Nat
    BY <2>2
  <2>4. new \in Pages
    BY <2>1, <2>2, <2>3 DEF Pages
  <2>5. /\ page' = [page EXCEPT ![t] = new]
        /\ UNCHANGED <<wallet, conn, cookie, snap, run, chain, txs, shown, spoiled>>
    BY <1>15 DEF HideNotice
  <2> HIDE DEF new
  <2>6. PagesTyped'
    BY <1>1, <2>4, <2>5, PageFieldTyped
  <2> QED
    BY <1>1, <2>5, <2>6, QuietTyped DEF Typed
<1>16. CASE UNCHANGED vars
  BY <1>1, <1>16 DEF vars, Typed, PagesTyped, CallsTyped, CallsInv, Running
<1> QED
  BY <1>2, <1>3, <1>4, <1>5, <1>6, <1>7, <1>8, <1>9, <1>10, <1>11, <1>13, <1>14, <1>15,
     <1>16 DEF Next, Settles

-----------------------------------------------------------------------------
(* Hashes *)

\* Nobody has a hash at first.
LEMMA InitHashes == Init => HashInv
<1> SUFFICES ASSUME Init PROVE HashInv
  OBVIOUS
<1>1. /\ cookie.txhash = 0 /\ shown = {} /\ txs = <<>>
      /\ \A r \in Runs : ~Running(r)
  BY DEF Init, Running, Idle
<1> QED
  BY <1>1 DEF HashInv, CookieUnread

\* The runs that go on keep their hashes.
HashesKept ==
  /\ Len(txs') = Len(txs)
  /\ \A r \in Runs : Running(r)' =>
       \/ run'[r].hashes = <<>>
       \/ Running(r) /\ run'[r].hashes = run[r].hashes

\* A step that neither shows nor announces a hash.
LEMMA KeptHashes ==
  ASSUME HashInv, HashesKept, cookie'.txhash = cookie.txhash, shown' = shown
  PROVE  HashInv'
<1>1. cookie'.txhash <= Len(txs') /\ \A h \in shown' : h <= Len(txs')
  BY DEF HashInv, HashesKept
<1>2. CookieUnread'
  BY DEF HashInv, CookieUnread
<1>3. ASSUME NEW r \in Runs, Running(r)', NEW i \in DOMAIN run'[r].hashes
      PROVE  /\ Running(r) /\ run'[r].hashes = run[r].hashes
             /\ run'[r].hashes[i] \in 1..Len(txs')
             /\ run'[r].hashes[i] \notin shown'
             /\ run'[r].hashes[i] # cookie'.txhash
  BY <1>3 DEF HashInv, HashesKept
<1>4. \A r, q \in Runs : Running(r)' /\ Running(q)' =>
        \A i \in DOMAIN run'[r].hashes, j \in DOMAIN run'[q].hashes :
          run'[r].hashes[i] = run'[q].hashes[j] => r = q /\ i = j
  BY <1>3 DEF HashInv
<1> QED
  BY <1>1, <1>2, <1>3, <1>4 DEF HashInv

\* turbo:load shows the cookie's hash, which no run has, and clears it.
LEMMA LoadHashes ==
  ASSUME Typed, HashInv, HashesKept, NEW t, NEW body, NEW reloading, NEW timers,
         OnTurboLoad(t, body, reloading, timers)
  PROVE  HashInv'
<1>1. /\ cookie'.txhash = 0
      /\ shown' = IF cookie.txhash = 0 THEN shown ELSE shown \cup {cookie.txhash}
  BY DEF OnTurboLoad, CookieCleared, Typed
<1>2. txs \in Seq(Txs) /\ Len(txs) \in Nat
  BY DEF Typed, CallsTyped
<1>3. cookie'.txhash <= Len(txs') /\ \A h \in shown' : h <= Len(txs')
  BY <1>1, <1>2 DEF HashInv, HashesKept
<1>4. CookieUnread'
  BY <1>1 DEF CookieUnread
<1>5. ASSUME NEW r \in Runs, Running(r)', NEW i \in DOMAIN run'[r].hashes
      PROVE  /\ Running(r) /\ run'[r].hashes = run[r].hashes
             /\ run'[r].hashes[i] \in 1..Len(txs')
             /\ run'[r].hashes[i] \notin shown'
             /\ run'[r].hashes[i] # cookie'.txhash
  <2>1. /\ Running(r) /\ run'[r].hashes = run[r].hashes
        /\ run'[r].hashes[i] \in 1..Len(txs)
        /\ run'[r].hashes[i] \notin shown
        /\ run'[r].hashes[i] # cookie.txhash
    BY <1>5 DEF HashInv, HashesKept
  <2> QED
    BY <1>1, <2>1 DEF HashesKept
<1>6. \A r, q \in Runs : Running(r)' /\ Running(q)' =>
        \A i \in DOMAIN run'[r].hashes, j \in DOMAIN run'[q].hashes :
          run'[r].hashes[i] = run'[q].hashes[j] => r = q /\ i = j
  BY <1>5 DEF HashInv
<1> QED
  BY <1>3, <1>4, <1>5, <1>6 DEF HashInv

\* The last hash of a run goes to the cookie, and the run ends.
LEMMA FinishHashes ==
  ASSUME Typed, CallsInv, HashInv, NEW r \in Runs, Finish(r)
  PROVE  HashInv'
<1> DEFINE last == LastHash(r)
<1>1. /\ Running(r) /\ run[r].pc = "receipt" /\ UNCHANGED <<txs, shown>>
      /\ cookie'.txhash = last /\ run' = [run EXCEPT ![r] = Idle]
  BY DEF Finish, ReceiptArrived, Running, Typed
<1>2. run[r].hashes \in Seq(Hashes) /\ run[r].hashes # <<>>
  BY <1>1, RunTyped DEF CallsInv, RunFits, Typed
<1>3. Len(run[r].hashes) \in DOMAIN run[r].hashes /\ last = run[r].hashes[Len(run[r].hashes)]
  BY <1>2 DEF LastHash
<1> HIDE DEF last
<1>4. last \in 1..Len(txs) /\ last \notin shown
  BY <1>1, <1>3 DEF HashInv
<1>5. ASSUME NEW q \in Runs, Running(q)'
      PROVE  q # r /\ Running(q) /\ run'[q] = run[q]
  BY <1>1, <1>5 DEF Running, Idle, Typed, CallsTyped
<1>6. ASSUME NEW q \in Runs, Running(q)', NEW i \in DOMAIN run'[q].hashes
      PROVE  /\ run'[q].hashes[i] \in 1..Len(txs')
             /\ run'[q].hashes[i] \notin shown'
             /\ run'[q].hashes[i] # cookie'.txhash
  <2>1. q # r /\ Running(q) /\ run'[q] = run[q]
    BY <1>5, <1>6
  <2>2. run[q].hashes[i] # last
    BY <1>1, <1>3, <1>6, <2>1 DEF HashInv
  <2> QED
    BY <1>1, <1>6, <2>1, <2>2 DEF HashInv
<1>7. \A p, q \in Runs : Running(p)' /\ Running(q)' =>
        \A i \in DOMAIN run'[p].hashes, j \in DOMAIN run'[q].hashes :
          run'[p].hashes[i] = run'[q].hashes[j] => p = q /\ i = j
  BY <1>5 DEF HashInv
<1>8. cookie'.txhash <= Len(txs') /\ \A h \in shown' : h <= Len(txs')
  BY <1>1, <1>4 DEF HashInv
<1>9. CookieUnread'
  BY <1>1, <1>4 DEF CookieUnread
<1> QED
  BY <1>6, <1>7, <1>8, <1>9 DEF HashInv

\* A new transaction has a hash that nobody has.
LEMMA WriteHashes ==
  ASSUME Typed, CallsInv, HashInv, NEW r \in Runs, WriteContract(r)
  PROVE  HashInv'
<1> DEFINE n == Len(txs) + 1
<1>1. txs \in Seq(Txs) /\ Len(txs) \in Nat
  BY DEF Typed, CallsTyped
<1>2. /\ txs' = Append(txs, run[r].call) /\ Running(r)
      /\ UNCHANGED <<cookie, shown>>
  BY WriteRun DEF Typed, WriteContract
<1>3. PICK q \in ActiveRuns : /\ run' = [run EXCEPT ![r] = q]
                              /\ q.hashes = Append(run[r].hashes, n)
  BY WriteRun DEF Typed
<1>4. run[r].hashes \in Seq(Hashes)
  BY <1>2, RunTyped DEF Typed
<1> DEFINE old == run[r].hashes
           k == Len(old) + 1
<1>5. /\ DOMAIN q.hashes = DOMAIN old \cup {k} /\ k \notin DOMAIN old
      /\ q.hashes[k] = n
      /\ \A i \in DOMAIN old : q.hashes[i] = old[i]
  BY <1>3, <1>4
<1>6. Len(txs') = n
  BY <1>1, <1>2
<1>7. /\ \A h \in 1..Len(txs) : h \in 1..n /\ h # n
      /\ n \in 1..n
      /\ \A h : h <= Len(txs) => ~(h = n)
  BY <1>1
<1>8. n \notin shown /\ cookie'.txhash # n
  BY <1>2, <1>7 DEF HashInv
<1>9. /\ cookie'.txhash <= n /\ \A h \in shown' : h <= n
  <2>1. cookie.txhash \in Nat /\ shown \subseteq Nat
    BY ConstantFacts DEF Typed, Hashes
  <2> QED
    BY <1>1, <1>2, <2>1 DEF HashInv
<1> HIDE DEF n, k
<1>10. ASSUME NEW p \in Runs, Running(p)'
       PROVE  /\ Running(p)
              /\ p # r => run'[p].hashes = run[p].hashes
              /\ p = r => run'[p].hashes = q.hashes
  BY <1>2, <1>3, <1>10 DEF Running, Typed, CallsTyped
<1>11. ASSUME NEW p \in Runs, Running(p)', NEW i \in DOMAIN run'[p].hashes
       PROVE  \/ /\ i \in DOMAIN run[p].hashes /\ run'[p].hashes[i] = run[p].hashes[i]
                 /\ run'[p].hashes[i] # n
              \/ p = r /\ i = k /\ run'[p].hashes[i] = n
  <2>1. Running(p)
    BY <1>10, <1>11
  <2>2. \A j \in DOMAIN run[p].hashes : run[p].hashes[j] # n
    BY <1>7, <2>1 DEF HashInv
  <2> QED
    BY <1>5, <1>10, <1>11, <2>2
<1>12. ASSUME NEW p \in Runs, Running(p)', NEW i \in DOMAIN run'[p].hashes
       PROVE  /\ run'[p].hashes[i] \in 1..Len(txs')
              /\ run'[p].hashes[i] \notin shown'
              /\ run'[p].hashes[i] # cookie'.txhash
  <2>1. Running(p)
    BY <1>10, <1>12
  <2>2. CASE run'[p].hashes[i] = n
    BY <1>2, <1>6, <1>7, <1>8, <2>2
  <2>3. CASE run'[p].hashes[i] # n
    <3>1. i \in DOMAIN run[p].hashes /\ run'[p].hashes[i] = run[p].hashes[i]
      BY <1>11, <1>12, <2>3
    <3> QED
      BY <1>2, <1>6, <1>7, <2>1, <3>1 DEF HashInv
  <2> QED
    BY <2>2, <2>3
<1>13. \A p, x \in Runs : Running(p)' /\ Running(x)' =>
        \A i \in DOMAIN run'[p].hashes, j \in DOMAIN run'[x].hashes :
          run'[p].hashes[i] = run'[x].hashes[j] => p = x /\ i = j
  BY <1>10, <1>11 DEF HashInv
<1>14. CookieUnread'
  BY <1>2 DEF HashInv, CookieUnread
<1> QED
  BY <1>6, <1>9, <1>12, <1>13, <1>14 DEF HashInv

\* Every step keeps hashes apart.
LEMMA NextHashes ==
  ASSUME Typed, CallsInv, HashInv, [Next]_vars
  PROVE  HashInv'
<1>1. CallsTyped
  BY DEF Typed
<1>2. ASSUME UNCHANGED <<run, txs>>
      PROVE  HashesKept
  BY <1>2 DEF HashesKept, Running
<1>3. ASSUME NEW ended \in SUBSET Runs, Ends(ended)
      PROVE  HashesKept
  BY <1>3 DEF Ends, HashesKept, Running, Idle
<1>4. ASSUME NEW r \in Runs, NEW q \in ActiveRuns, run' = [run EXCEPT ![r] = q],
             txs' = txs,
             q.hashes = <<>> \/ (Running(r) /\ q.hashes = run[r].hashes)
      PROVE  HashesKept
  <2>1. run'[r] = q /\ \A p \in Runs \ {r} : run'[p] = run[p]
    BY <1>1, <1>4 DEF CallsTyped
  <2> QED
    BY <1>4, <2>1 DEF HashesKept, Running
<1>5. ASSUME NEW t \in Tabs, TurboLoad(t)
      PROVE  HashInv'
  BY <1>2, <1>5, LoadHashes DEF TurboLoad
<1>6. ASSUME NEW t \in Tabs, NEW form \in Forms, Restore(t, form)
      PROVE  HashInv'
  BY <1>2, <1>6, LoadHashes DEF Restore
<1>7. ASSUME NEW t \in Tabs, Reload(t)
      PROVE  HashInv'
  <2>1. HashesKept
    BY <1>3, <1>7, ReloadEnds
  <2> QED
    BY <1>7, <2>1, LoadHashes DEF Reload
<1>8. ASSUME NEW t \in Tabs, NEW form \in Forms, Visit(t, form)
      PROVE  HashInv'
  BY <1>2, <1>8, KeptHashes DEF Visit
<1>9. ASSUME NEW a \in Choices, Switch(a)
      PROVE  HashInv'
  BY <1>2, <1>9, KeptHashes DEF Switch
<1>10. ASSUME NEW t \in Tabs, OnChange(t)
       PROVE  HashInv'
  <2>1. UNCHANGED <<run, txs, shown>>
    BY <1>10 DEF OnChange
  <2>2. cookie'.txhash = cookie.txhash
    BY <1>10 DEF OnChange, Follow, Typed
  <2> QED
    BY <1>2, <2>1, <2>2, KeptHashes
<1>11. ASSUME NEW t \in Tabs, NEW r \in Runs, NEW amount \in Amounts, Submit(t, r, amount)
       PROVE  HashInv'
  <2>1. UNCHANGED <<txs, cookie, shown>>
    BY <1>11 DEF Submit
  <2> PICK q \in ActiveRuns : run' = [run EXCEPT ![r] = q] /\ q.hashes = <<>>
    BY <1>11, SubmitRun
  <2>2. HashesKept
    BY <1>4, <2>1
  <2> QED
    BY <2>1, <2>2, KeptHashes
<1>12. ASSUME NEW r \in Runs, Simulate(r) \/ NextCall(r)
       PROVE  HashInv'
  <2>1. UNCHANGED <<txs, cookie, shown>>
    BY <1>12 DEF Simulate, NextCall
  <2>2. HashesKept
    BY <1>1, <1>4, <1>12, <2>1, SimulateRun, NextCallRun
  <2> QED
    BY <2>1, <2>2, KeptHashes
<1>13. ASSUME NEW h \in DOMAIN txs, Settles(h)
       PROVE  HashInv'
  <2>1. \E outcome : txs' = [txs EXCEPT ![h].status = outcome]
    BY <1>13, MineTx
  <2>2. Len(txs') = Len(txs)
    BY <1>1, <2>1 DEF CallsTyped
  <2>3. run' = run /\ cookie' = cookie /\ shown' = shown
    BY <1>13, MineTx
  <2>4. HashesKept
    BY <2>2, <2>3 DEF HashesKept, Running
  <2> QED
    BY <2>3, <2>4, KeptHashes
<1>14. ASSUME NEW r \in Runs, Fail(r)
       PROVE  HashInv'
  <2>1. HashesKept
    BY <1>3, <1>14, FailEnds
  <2> QED
    BY <1>14, <2>1, KeptHashes DEF Fail
<1>15. ASSUME NEW t \in Tabs, HideNotice(t)
       PROVE  HashInv'
  BY <1>2, <1>15, KeptHashes DEF HideNotice
<1>16. CASE UNCHANGED vars
  <2>1. UNCHANGED <<run, txs, cookie, shown>>
    BY <1>16 DEF vars
  <2> QED
    BY <1>2, <2>1, KeptHashes
<1> QED
  BY <1>5, <1>6, <1>7, <1>8, <1>9, <1>10, <1>11, <1>12, <1>13, <1>14, <1>15, <1>16,
     FinishHashes, WriteHashes DEF Next, Settles

-----------------------------------------------------------------------------
(* Withdrawals *)

\* The transactions of ts are among us, and those settled stay as they are.
Grown(ts, us) ==
  /\ DOMAIN ts \subseteq DOMAIN us
  /\ \A k \in DOMAIN ts :
       /\ us[k].fn = ts[k].fn /\ us[k].from = ts[k].from /\ us[k].amount = ts[k].amount
       /\ ts[k].status # "pending" => us[k].status = ts[k].status

\* A withdrawal stays one while transactions are sent and mined.
LEMMA WithdrawalGrown ==
  ASSUME NEW q \in ActiveRuns, NEW ts, NEW us, Withdrawal(q, ts), Grown(ts, us),
         \A i \in DOMAIN q.hashes : q.hashes[i] \in DOMAIN ts
  PROVE  Withdrawal(q, us)
<1>1. q.hashes \in Seq(Hashes) /\ Len(q.hashes) \in Nat /\ DOMAIN q.hashes = 1..Len(q.hashes)
  BY DEF ActiveRuns
<1>2. Len(q.hashes) >= 1 => 1 \in DOMAIN q.hashes
  BY <1>1
<1>3. Len(q.hashes) = 2 => 2 \in DOMAIN q.hashes /\ Len(q.hashes) >= 1
  BY <1>1
<1>4. Len(q.hashes) = 1 => Len(q.hashes) >= 1
  BY <1>1
<1>5. Stage(q, us)
  BY <1>2, <1>3, <1>4 DEF Withdrawal, Stage, Grown
<1> QED
  BY <1>2, <1>3, <1>5 DEF Withdrawal, Grown, Deallocates, BurnsFreed

\* Hashes of runs are indices of transactions.
LEMMA HashesSent ==
  ASSUME Typed, HashInv, NEW r \in Runs, Running(r)
  PROVE  \A i \in DOMAIN run[r].hashes : run[r].hashes[i] \in DOMAIN txs
BY DEF HashInv, Typed, CallsTyped

\* Nobody withdraws at first.
LEMMA InitWithdraw == Init => WithdrawInv
<1> SUFFICES ASSUME Init PROVE WithdrawInv
  OBVIOUS
<1>1. txs = <<>> /\ \A r \in Runs : ~Running(r)
  BY DEF Init, Running, Idle
<1> QED
  BY <1>1 DEF WithdrawInv, Withdraws

\* One run changes and no transaction; if it withdraws it is a withdrawal, and has
\* the hashes it had.
LEMMA OneRunWithdraws ==
  ASSUME Typed, WithdrawInv, NEW r \in Runs, NEW q \in ActiveRuns,
         run' = [run EXCEPT ![r] = q], txs' = txs, spoiled' = spoiled,
         q.form = "siloWithdraw" => Withdrawal(q, txs),
         Withdraws(r) => q.form = "siloWithdraw" /\ q.hashes = run[r].hashes
  PROVE  WithdrawInv'
<1>1. run'[r] = q /\ \A p \in Runs \ {r} : run'[p] = run[p]
  BY DEF Typed, CallsTyped
<1>2. q.pc # "idle"
  BY DEF ActiveRuns
<1>3. ASSUME NEW p \in Runs, Withdraws(p)'
      PROVE  Withdrawal(run'[p], txs')
  BY <1>1, <1>3 DEF WithdrawInv, Withdraws, Running
<1>4. ASSUME NEW p \in Runs, NEW h, Began(p, h)
      PROVE  Began(p, h)'
  BY <1>1, <1>2, <1>4 DEF Began, Withdraws, Running
<1> QED
  BY <1>3, <1>4 DEF WithdrawInv

\* A run that ends with its first call still waited for spoils its account.
LEMMA EndsWithdraw ==
  ASSUME Typed, HashInv, WithdrawInv, NEW ended \in SUBSET Runs,
         \A r \in ended : Running(r), Ends(ended)
  PROVE  WithdrawInv'
<1>1. /\ txs' = txs /\ spoiled \subseteq spoiled'
      /\ run' = [r \in Runs |-> IF r \in ended THEN Idle ELSE run[r]]
  BY EndedSpoils DEF Ends
<1>2. ASSUME NEW p \in Runs, Withdraws(p)'
      PROVE  Withdrawal(run'[p], txs')
  BY <1>1, <1>2 DEF WithdrawInv, Withdraws, Running, Idle
<1>3. ASSUME NEW h \in DOMAIN txs, txs[h].fn = "deallocate", txs[h].status = "pending",
             txs[h].from \notin spoiled
      PROVE  txs[h].from \in spoiled' \/ \E r \in Runs : Began(r, h)'
  <2>1. PICK r \in Runs : Began(r, h)
    BY <1>3 DEF WithdrawInv
  <2>2. Withdrawal(run[r], txs) /\ run[r].hashes \in Seq(Hashes)
    BY <2>1, RunTyped DEF Began, Withdraws, WithdrawInv, Typed
  <2>3. CASE r \in ended
    <3>1. txs[h].from = run[r].signer
      BY <2>1, <2>2 DEF Began, Withdrawal, Deallocates
    <3>2. ~Whole(r)
      BY <1>3, <2>1 DEF Began, Whole
    <3>3. run[r].hashes # <<>>
      BY <2>1, <2>2 DEF Began
    <3> QED
      BY <2>1, <2>3, <3>1, <3>2, <3>3, EndedSpoils DEF Began
  <2>4. CASE r \notin ended
    <3>1. run'[r] = run[r]
      BY <1>1, <2>4
    <3>2. Began(r, h)'
      BY <2>1, <3>1 DEF Began, Withdraws, Running
    <3> QED
      BY <3>2
  <2> QED
    BY <2>3, <2>4
<1> QED
  BY <1>1, <1>2, <1>3 DEF WithdrawInv

\* The call that is sent is the withdrawal's first or second.
LEMMA WriteWithdraw ==
  ASSUME Typed, CallsInv, HashInv, WithdrawInv, NEW r \in Runs, WriteContract(r)
  PROVE  WithdrawInv'
<1> DEFINE p == run[r]
<1> PICK n : n = Len(txs) + 1
  OBVIOUS
<1>1. /\ txs' = Append(txs, p.call) /\ Running(r) /\ p.pc = "prompt"
      /\ spoiled' = spoiled
  BY WriteRun DEF Typed, WriteContract
<1>2. PICK q \in ActiveRuns :
         /\ run' = [run EXCEPT ![r] = q]
         /\ q.pc = "receipt" /\ q.form = p.form /\ q.signer = p.signer
         /\ q.asked = p.asked /\ q.hashes = Append(p.hashes, n) /\ q.rest = p.rest
  BY WriteRun DEF Typed
<1>3. p.hashes \in Seq(Hashes) /\ RunFits(p) /\ p.call \in Txs
  BY <1>1, RunTyped DEF Typed, CallsInv
<1>4. /\ DOMAIN txs' = DOMAIN txs \cup {n} /\ n \notin DOMAIN txs /\ txs'[n] = p.call
      /\ \A k \in DOMAIN txs : txs'[k] = txs[k]
  BY <1>1, <1>3 DEF Typed, CallsTyped
<1>5. Grown(txs, txs')
  BY <1>4 DEF Grown
<1>6. run'[r] = q /\ \A x \in Runs \ {r} : run'[x] = run[x]
  BY <1>2 DEF Typed, CallsTyped
<1>7. \A i \in DOMAIN p.hashes : p.hashes[i] \in DOMAIN txs
  BY <1>1, HashesSent
<1> HIDE DEF p
<1>8. ASSUME Withdraws(r)
      PROVE  Withdrawal(q, txs')
  <2>1. Withdrawal(p, txs) /\ p.pc # "receipt"
    BY <1>1, <1>8 DEF WithdrawInv, p
  <2>2. CASE /\ p.hashes = <<>> /\ Len(p.rest) = 1 /\ Deallocates(p.call, p)
    <3>1. Len(q.hashes) = 1 /\ q.hashes[1] = n
      BY <1>2, <2>2
    <3>2. Stage(q, txs')
      BY <1>2, <2>2, <3>1 DEF Stage
    <3>3. Deallocates(txs'[q.hashes[1]], q)
      BY <1>2, <1>4, <2>2, <3>1 DEF Deallocates
    <3>4. Len(q.rest) = 1 => BurnsFreed(q.rest[1], q)
      BY <1>2, <2>1 DEF Withdrawal, BurnsFreed
    <3> QED
      BY <3>1, <3>2, <3>3, <3>4 DEF Withdrawal
  <2>3. CASE /\ Len(p.hashes) = 1 /\ Len(p.rest) = 0 /\ BurnsFreed(p.call, p)
             /\ txs[p.hashes[1]].status # "pending"
    <3>1. /\ Len(q.hashes) = 2 /\ q.hashes[1] = p.hashes[1] /\ q.hashes[2] = n
      BY <1>2, <1>3, <2>3
    <3>2. p.hashes[1] \in DOMAIN txs
      BY <1>3, <1>7, <2>3
    <3>3. Stage(q, txs')
      BY <1>2, <1>4, <2>3, <3>1, <3>2 DEF Stage
    <3>4. Deallocates(txs'[q.hashes[1]], q)
      BY <1>2, <1>4, <2>1, <2>3, <3>1, <3>2 DEF Deallocates, Withdrawal
    <3>5. BurnsFreed(txs'[q.hashes[2]], q)
      BY <1>2, <1>4, <2>3, <3>1 DEF BurnsFreed
    <3>6. Len(q.rest) # 1
      BY <1>2, <2>3
    <3> QED
      BY <3>3, <3>4, <3>5, <3>6 DEF Withdrawal
  <2> QED
    BY <2>1, <2>2, <2>3 DEF Withdrawal, Stage, Deallocates, BurnsFreed
<1>9. ASSUME NEW x \in Runs, Withdraws(x)'
      PROVE  Withdrawal(run'[x], txs')
  <2>1. CASE x = r
    <3>1. Withdraws(r)
      BY <1>1, <1>2, <1>6, <1>9, <2>1 DEF Withdraws, p
    <3> QED
      BY <1>6, <1>8, <2>1, <3>1
  <2>2. CASE x # r
    <3>1. Withdraws(x) /\ run'[x] = run[x]
      BY <1>6, <1>9, <2>2 DEF Withdraws, Running
    <3>2. Withdrawal(run[x], txs) /\ run[x] \in ActiveRuns
      BY <3>1, RunTyped DEF WithdrawInv, Withdraws, Typed
    <3>3. \A i \in DOMAIN run[x].hashes : run[x].hashes[i] \in DOMAIN txs
      BY <3>1, HashesSent DEF Withdraws
    <3> QED
      BY <1>5, <3>1, <3>2, <3>3, WithdrawalGrown
  <2> QED
    BY <2>1, <2>2
<1>10. ASSUME NEW x \in Runs, NEW h, Began(x, h)
       PROVE  Began(x, h)'
  <2>1. CASE x = r
    <3>1. Len(q.hashes) >= 1 /\ q.hashes[1] = p.hashes[1]
      BY <1>2, <1>3, <1>10, <2>1 DEF Began, p
    <3>2. q.pc # "idle" /\ q.form = "siloWithdraw"
      BY <1>2, <1>10, <2>1 DEF Began, Withdraws, p
    <3> QED
      BY <1>6, <1>10, <2>1, <3>1, <3>2 DEF Began, Withdraws, Running, p
  <2>2. CASE x # r
    BY <1>6, <1>10, <2>2 DEF Began, Withdraws, Running
  <2> QED
    BY <2>1, <2>2
<1>11. ASSUME txs'[n].fn = "deallocate"
       PROVE  Began(r, n)'
  <2>1. p.call.fn = "deallocate"
    BY <1>4, <1>11
  <2>2. p.form = "siloWithdraw"
    BY <1>3, <2>1 DEF RunFits, InWithdrawal
  <2>3. Withdraws(r) /\ Withdrawal(p, txs)
    BY <1>1, <2>2 DEF Withdraws, WithdrawInv, p
  <2>4. p.hashes = <<>>
    BY <1>1, <2>1, <2>3 DEF Withdrawal, Stage, p
  <2>5. Len(q.hashes) >= 1 /\ q.hashes[1] = n
    BY <1>2, <2>4
  <2> QED
    BY <1>2, <1>6, <2>2, <2>5 DEF Began, Withdraws, Running
<1>12. ASSUME NEW h \in DOMAIN txs', txs'[h].fn = "deallocate", txs'[h].status = "pending"
       PROVE  txs'[h].from \in spoiled' \/ \E x \in Runs : Began(x, h)'
  <2>1. CASE h = n
    BY <1>11, <1>12, <2>1
  <2>2. CASE h # n
    <3>1. h \in DOMAIN txs /\ txs'[h] = txs[h]
      BY <1>4, <1>12, <2>2
    <3> QED
      BY <1>1, <1>10, <1>12, <3>1 DEF WithdrawInv
  <2> QED
    BY <2>1, <2>2
<1> QED
  BY <1>9, <1>12 DEF WithdrawInv

\* Mining settles a call and changes nothing else of it.
LEMMA MineWithdraw ==
  ASSUME Typed, CallsInv, HashInv, WithdrawInv, NEW h \in DOMAIN txs, Settles(h)
  PROVE  WithdrawInv'
<1>1. /\ run' = run /\ spoiled' = spoiled /\ txs[h].status = "pending"
      /\ \E outcome \in {"success", "failed"} :
           txs' = [txs EXCEPT ![h].status = outcome]
  BY MineTx
<1>2. /\ DOMAIN txs' = DOMAIN txs
      /\ \A k \in DOMAIN txs :
           /\ txs'[k].fn = txs[k].fn /\ txs'[k].from = txs[k].from
           /\ txs'[k].amount = txs[k].amount
           /\ k # h => txs'[k].status = txs[k].status
      /\ txs'[h].status # "pending"
  <2>1. \A k \in DOMAIN txs : txs[k] \in Txs
    BY DEF Typed, CallsTyped
  <2> QED
    BY <1>1, <2>1 DEF Txs
<1>3. Grown(txs, txs')
  BY <1>1, <1>2 DEF Grown
<1>4. ASSUME NEW r \in Runs, Withdraws(r)'
      PROVE  Withdrawal(run'[r], txs')
  <2>1. Withdraws(r) /\ run'[r] = run[r]
    BY <1>1, <1>4 DEF Withdraws, Running
  <2>2. Withdrawal(run[r], txs) /\ run[r] \in ActiveRuns
    BY <2>1, RunTyped DEF WithdrawInv, Withdraws, Typed
  <2>3. \A i \in DOMAIN run[r].hashes : run[r].hashes[i] \in DOMAIN txs
    BY <2>1, HashesSent DEF Withdraws
  <2> QED
    BY <1>3, <2>1, <2>2, <2>3, WithdrawalGrown
<1>5. ASSUME NEW r \in Runs, NEW k, Began(r, k)
      PROVE  Began(r, k)'
  BY <1>1, <1>5 DEF Began, Withdraws, Running
<1>6. ASSUME NEW k \in DOMAIN txs', txs'[k].fn = "deallocate", txs'[k].status = "pending"
      PROVE  txs'[k].from \in spoiled' \/ \E r \in Runs : Began(r, k)'
  <2>1. k \in DOMAIN txs /\ txs[k].fn = "deallocate" /\ txs[k].status = "pending"
        /\ txs'[k].from = txs[k].from
    BY <1>2, <1>6
  <2> QED
    BY <1>1, <1>5, <2>1 DEF WithdrawInv
<1> QED
  BY <1>4, <1>6 DEF WithdrawInv

\* Every step keeps the order of the calls of withdrawals.
LEMMA NextWithdraw ==
  ASSUME Typed, CallsInv, HashInv, WithdrawInv, [Next]_vars
  PROVE  WithdrawInv'
<1>1. ASSUME UNCHANGED <<run, txs, spoiled>>
      PROVE  WithdrawInv'
  BY <1>1 DEF WithdrawInv, Withdraws, Began, Running
<1>2. ASSUME NEW t \in Tabs, NEW r \in Runs, NEW amount \in Amounts, Submit(t, r, amount)
      PROVE  WithdrawInv'
  <2>1. /\ ~Running(r) /\ txs' = txs /\ spoiled' = spoiled
    BY <1>2 DEF Submit
  <2>2. PICK q \in ActiveRuns :
           /\ run' = [run EXCEPT ![r] = q]
           /\ q.pc = "simulate" /\ q.hashes = <<>>
           /\ q.call.from = conn[t] /\ q.signer = conn[t]
           /\ q.form = "siloWithdraw" =>
                /\ q.call.fn = "deallocate" /\ q.call.amount = q.asked
                /\ Len(q.rest) = 1
                /\ q.rest[1].fn = "burnVesting" /\ q.rest[1].amount = Freed(q.asked)
    BY <1>2, SubmitRun
  <2>3. Len(q.hashes) = 0
    BY <2>2
  <2>4. q.form = "siloWithdraw" => Withdrawal(q, txs)
    BY <2>2, <2>3 DEF Withdrawal, Stage, BurnsFreed
  <2> QED
    BY <2>1, <2>2, <2>4, OneRunWithdraws DEF Withdraws
<1>3. ASSUME NEW r \in Runs, Simulate(r)
      PROVE  WithdrawInv'
  <2>1. txs' = txs /\ spoiled' = spoiled
    BY <1>3 DEF Simulate
  <2>2. PICK q \in ActiveRuns :
           /\ run' = [run EXCEPT ![r] = q]
           /\ Running(r) /\ run[r].pc = "simulate"
           /\ q.pc = "prompt" /\ q.form = run[r].form
           /\ q.signer = run[r].signer /\ q.asked = run[r].asked
           /\ q.hashes = run[r].hashes /\ q.rest = run[r].rest /\ q.call = run[r].call
    BY <1>3, SimulateRun DEF Typed
  <2>3. ASSUME q.form = "siloWithdraw"
        PROVE  Withdrawal(q, txs)
    <3>1. Withdrawal(run[r], txs)
      BY <2>2, <2>3 DEF WithdrawInv, Withdraws
    <3>2. Stage(q, txs)
      BY <2>2, <3>1 DEF Withdrawal, Stage
    <3> QED
      BY <2>2, <3>1, <3>2 DEF Withdrawal, Deallocates, BurnsFreed
  <2> QED
    BY <2>1, <2>2, <2>3, OneRunWithdraws DEF Withdraws
<1>4. ASSUME NEW r \in Runs, NextCall(r)
      PROVE  WithdrawInv'
  <2>1. txs' = txs /\ spoiled' = spoiled
    BY <1>4 DEF NextCall
  <2>2. PICK q \in ActiveRuns :
           /\ run' = [run EXCEPT ![r] = q]
           /\ Running(r) /\ run[r].pc = "receipt" /\ Len(run[r].rest) = 1
           /\ txs[LastHash(r)].status # "pending"
           /\ q.pc = "simulate" /\ q.form = run[r].form
           /\ q.signer = run[r].signer /\ q.asked = run[r].asked
           /\ q.hashes = run[r].hashes /\ Len(q.rest) = 0
           /\ q.call.fn = run[r].rest[1].fn /\ q.call.amount = run[r].rest[1].amount
    BY <1>4, NextCallRun
  <2>3. ASSUME q.form = "siloWithdraw"
        PROVE  Withdrawal(q, txs)
    <3>1. Withdrawal(run[r], txs)
      BY <2>2, <2>3 DEF WithdrawInv, Withdraws
    <3>2. Len(q.hashes) = 1
      BY <2>2, <3>1 DEF Withdrawal, Stage
    <3>3. txs[q.hashes[1]].status # "pending"
      BY <2>2, <3>2 DEF LastHash
    <3>4. BurnsFreed(q.call, q)
      BY <2>2, <3>1 DEF Withdrawal, BurnsFreed
    <3>5. Stage(q, txs)
      BY <2>2, <3>2, <3>3, <3>4 DEF Stage, BurnsFreed
    <3>6. Deallocates(txs[q.hashes[1]], q)
      BY <2>2, <3>1, <3>2 DEF Withdrawal, Deallocates
    <3> QED
      BY <2>2, <3>2, <3>5, <3>6 DEF Withdrawal
  <2> QED
    BY <2>1, <2>2, <2>3, OneRunWithdraws DEF Withdraws
<1>5. ASSUME NEW ended \in SUBSET Runs, \A r \in ended : Running(r), Ends(ended)
      PROVE  WithdrawInv'
  BY <1>5, EndsWithdraw
<1>6. ASSUME NEW t \in Tabs, Reload(t)
      PROVE  WithdrawInv'
  <2>1. \A r \in {q \in Runs : In(q, t)} : Running(r)
    BY DEF In
  <2> QED
    BY <1>5, <1>6, <2>1, ReloadEnds
<1>7. ASSUME NEW r \in Runs, Finish(r) \/ Fail(r)
      PROVE  WithdrawInv'
  <2>1. Running(r)
    BY <1>7 DEF Finish, Fail, ReceiptArrived, Running
  <2>2. Ends({r})
    BY <1>7, FinishEnds, FailEnds
  <2> QED
    BY <1>5, <2>1, <2>2
<1>8. \A t \in Tabs : TurboLoad(t) \/ HideNotice(t) \/ OnChange(t)
        => UNCHANGED <<run, txs, spoiled>>
  BY DEF TurboLoad, HideNotice, OnChange
<1>9. \A t \in Tabs, form \in Forms :
        Visit(t, form) \/ Restore(t, form) => UNCHANGED <<run, txs, spoiled>>
  BY DEF Visit, Restore
<1>10. \A a \in Choices : Switch(a) => UNCHANGED <<run, txs, spoiled>>
  BY DEF Switch
<1>11. UNCHANGED vars => UNCHANGED <<run, txs, spoiled>>
  BY DEF vars
<1> QED
  BY <1>1, <1>2, <1>3, <1>4, <1>6, <1>7, <1>8, <1>9, <1>10, <1>11,
     WriteWithdraw, MineWithdraw DEF Next, Settles

-----------------------------------------------------------------------------
(* Freed tokens *)

\* What is due is a natural number for each run.
LEMMA DueNat ==
  ASSUME Typed, NEW a
  PROVE  \A r \in Runs : DueTo(a)[r] \in Nat
<1> SUFFICES ASSUME NEW r \in Runs PROVE DueTo(a)[r] \in Nat
  OBVIOUS
<1>1. CASE Due(r, a)
  <2>1. run[r].asked \in Nat
    BY <1>1, RunTyped DEF Due, Withdraws, Typed
  <2> QED
    BY <1>1, <2>1, FreedNat DEF DueTo
<1>2. CASE ~Due(r, a)
  BY <1>2 DEF DueTo
<1> QED
  BY <1>1, <1>2

\* Nothing is free at first.
LEMMA InitFree == Init => FreeInv
<1> SUFFICES ASSUME Init, NEW a \in Accounts
             PROVE  chain.free[a] <= SumFunctionOnSet(DueTo(a), Runs)
  BY DEF FreeInv
<1>1. chain.free[a] = 0
  BY DEF Init
<1>2. SumFunctionOnSet(DueTo(a), Runs) \in Nat
  BY DueNat, InitTyped, ConstantFacts, SumNat, Zenon
<1> QED
  BY <1>1, <1>2

\* A step that moves no free tokens, and leaves what is due to accounts that it
\* does not spoil.
LEMMA KeptFree ==
  ASSUME FreeInv, chain'.free = chain.free, spoiled \subseteq spoiled',
         \A a \in Accounts, r \in Runs :
           a \in spoiled' \/ DueTo(a)'[r] = DueTo(a)[r]
  PROVE  FreeInv'
<1>1. ASSUME NEW a \in Accounts, a \notin spoiled'
      PROVE  chain'.free[a] <= SumFunctionOnSet(DueTo(a)', Runs)
  <2>1. DueTo(a)' = DueTo(a)
    <3>1. \A r \in Runs : DueTo(a)'[r] = DueTo(a)[r]
      BY <1>1
    <3>2. /\ DueTo(a) = [r \in Runs |-> DueTo(a)[r]]
          /\ DueTo(a)' = [r \in Runs |-> DueTo(a)'[r]]
      BY DEF DueTo
    <3> QED
      BY <3>1, <3>2
  <2> QED
    BY <1>1, <2>1 DEF FreeInv
<1> QED
  BY <1>1 DEF FreeInv

\* One run changes, but not what it has sent.
LEMMA OneRunFree ==
  ASSUME Typed, FreeInv, NEW r \in Runs, NEW q \in ActiveRuns,
         run' = [run EXCEPT ![r] = q], UNCHANGED <<txs, chain, spoiled>>,
         \/ q.hashes = <<>> /\ ~Running(r)
         \/ /\ Running(r) /\ q.hashes = run[r].hashes /\ q.form = run[r].form
            /\ q.signer = run[r].signer /\ q.asked = run[r].asked
  PROVE  FreeInv'
<1>1. run'[r] = q /\ \A p \in Runs \ {r} : run'[p] = run[p]
  BY DEF Typed, CallsTyped
<1>2. q.pc # "idle" /\ q.asked \in Nat
  BY DEF ActiveRuns
<1>3. ASSUME NEW a \in Accounts, NEW p \in Runs
      PROVE  DueTo(a)'[p] = DueTo(a)[p]
  <2>1. CASE p # r
    BY <1>1, <2>1 DEF DueTo, Due, Withdraws, Running
  <2>2. CASE p = r /\ q.hashes = <<>> /\ ~Running(r)
    <3>1. Len(q.hashes) = 0
      BY <2>2
    <3>2. ~Due(r, a)' /\ ~Due(r, a)
      BY <1>1, <2>2, <3>1 DEF Due, Withdraws
    <3> QED
      BY <2>2, <3>2 DEF DueTo
  <2>3. CASE /\ p = r /\ Running(r) /\ q.hashes = run[r].hashes /\ q.form = run[r].form
             /\ q.signer = run[r].signer /\ q.asked = run[r].asked
    <3>1. Due(r, a)' <=> Due(r, a)
      BY <1>1, <1>2, <2>3 DEF Due, Withdraws, Running
    <3> QED
      BY <1>1, <2>3, <3>1 DEF DueTo
  <2> QED
    BY <2>1, <2>2, <2>3
<1> QED
  BY <1>3, KeptFree

\* A withdrawal that ends whole has nothing due; any other spoils its account.
LEMMA EndsFree ==
  ASSUME Typed, WithdrawInv, FreeInv, NEW ended \in SUBSET Runs,
         \A r \in ended : Running(r), Ends(ended)
  PROVE  FreeInv'
<1>1. /\ spoiled \subseteq spoiled' /\ UNCHANGED <<txs, chain>>
      /\ run' = [r \in Runs |-> IF r \in ended THEN Idle ELSE run[r]]
  BY EndedSpoils DEF Ends
<1>2. ASSUME NEW a \in Accounts, NEW r \in Runs, a \notin spoiled'
      PROVE  DueTo(a)'[r] = DueTo(a)[r]
  <2>1. CASE r \notin ended
    BY <1>1, <2>1 DEF DueTo, Due, Withdraws, Running
  <2>2. CASE r \in ended
    <3>1. ~Due(r, a)'
      BY <1>1, <2>2 DEF Due, Withdraws, Running, Idle
    <3>2. ASSUME Due(r, a) PROVE FALSE
      <4>1. run[r].hashes \in Seq(Hashes) /\ run[r].hashes # <<>>
        BY <3>2, RunTyped DEF Due, Withdraws, Typed
      <4>2. Whole(r)
        BY <1>2, <2>2, <3>2, <4>1, EndedSpoils DEF Due
      <4> QED
        BY <3>2, <4>2 DEF Due, Whole
    <3> QED
      BY <3>1, <3>2 DEF DueTo
  <2> QED
    BY <2>1, <2>2
<1> QED
  BY <1>1, <1>2, KeptFree

\* A transaction just sent has no effect yet.
LEMMA WriteFree ==
  ASSUME Typed, CallsInv, HashInv, WithdrawInv, FreeInv, NEW r \in Runs, WriteContract(r)
  PROVE  FreeInv'
<1> DEFINE p == run[r]
<1> PICK n : n = Len(txs) + 1
  OBVIOUS
<1>1. /\ txs' = Append(txs, p.call) /\ Running(r) /\ p.pc = "prompt"
      /\ spoiled' = spoiled /\ chain' = chain
  BY WriteRun DEF Typed, WriteContract
<1>2. PICK q \in ActiveRuns :
         /\ run' = [run EXCEPT ![r] = q] /\ q.form = p.form /\ q.signer = p.signer
         /\ q.asked = p.asked /\ q.hashes = Append(p.hashes, n)
  BY WriteRun DEF Typed
<1>3. /\ p.hashes \in Seq(Hashes) /\ p.call \in Txs /\ p.call.status = "pending"
  BY <1>1, RunTyped DEF Typed, CallsInv, RunFits
<1>4. /\ txs'[n].status = "pending"
      /\ \A k \in DOMAIN txs : txs'[k] = txs[k]
  BY <1>1, <1>3 DEF Typed, CallsTyped
<1>5. run'[r] = q /\ \A x \in Runs \ {r} : run'[x] = run[x]
  BY <1>2 DEF Typed, CallsTyped
<1>6. q.pc # "idle"
  BY DEF ActiveRuns
<1>7. ASSUME NEW a \in Accounts, NEW x \in Runs
      PROVE  DueTo(a)'[x] = DueTo(a)[x]
  <2>1. CASE ~Withdraws(x)
    <3>1. ~Withdraws(x)'
      BY <1>1, <1>2, <1>5, <2>1 DEF Withdraws, Running
    <3> QED
      BY <2>1, <3>1 DEF DueTo, Due
  <2>2. CASE Withdraws(x) /\ x # r
    <3>1. run'[x] = run[x]
      BY <1>5, <2>2
    <3>2. /\ run[x].hashes \in Seq(Hashes)
          /\ \A i \in DOMAIN run[x].hashes : txs'[run[x].hashes[i]] = txs[run[x].hashes[i]]
      BY <1>4, <2>2, RunTyped, HashesSent DEF Withdraws, Typed
    <3>3. /\ Len(run[x].hashes) >= 1 =>
               txs'[run[x].hashes[1]] = txs[run[x].hashes[1]]
          /\ Len(run[x].hashes) = 2 =>
               txs'[run[x].hashes[2]] = txs[run[x].hashes[2]]
      BY <3>2
    <3>4. Due(x, a)' <=> Due(x, a)
      BY <3>1, <3>3 DEF Due, Withdraws, Running
    <3> QED
      BY <3>1, <3>4 DEF DueTo
  <2>3. CASE Withdraws(x) /\ x = r
    <3>1. Withdrawal(p, txs)
      BY <2>3 DEF WithdrawInv
    <3>2. CASE p.hashes = <<>>
      <4>1. Len(p.hashes) = 0 /\ Len(q.hashes) = 1 /\ q.hashes[1] = n
        BY <1>2, <3>2
      <4>2. ~Due(r, a)' /\ ~Due(r, a)
        BY <1>4, <1>5, <4>1 DEF Due
      <4> QED
        BY <2>3, <4>2 DEF DueTo
    <3>3. CASE Len(p.hashes) = 1
      <4>1. /\ Len(q.hashes) = 2 /\ q.hashes[1] = p.hashes[1] /\ q.hashes[2] = n
        BY <1>2, <1>3, <3>3
      <4>2. p.hashes[1] \in DOMAIN txs
        BY <1>1, <1>3, <3>3, HashesSent
      <4>3. Withdraws(r)' /\ run'[r] = q
        BY <1>2, <1>5, <1>6, <2>3 DEF Withdraws, Running
      <4>4. Due(r, a) <=> p.signer = a /\ txs[p.hashes[1]].status = "success"
        BY <2>3, <3>3 DEF Due
      <4>5. Due(r, a)' <=> q.signer = a /\ txs'[q.hashes[1]].status = "success"
        BY <1>4, <4>1, <4>3 DEF Due
      <4>6. Due(r, a)' <=> Due(r, a)
        BY <1>2, <1>4, <4>1, <4>2, <4>4, <4>5
      <4> QED
        BY <1>2, <1>5, <2>3, <4>6 DEF DueTo
    <3> QED
      BY <1>1, <3>1, <3>2, <3>3 DEF Withdrawal, Stage
  <2> QED
    BY <2>1, <2>2, <2>3
<1> QED
  BY <1>1, <1>7, KeptFree

\* What a call that is accepted does to the tokens that are free.
LEMMA AppliedFree ==
  ASSUME chain \in Chains, NEW tx
  PROVE  /\ tx.fn = "deallocate" =>
              Applied(tx).free = [chain.free EXCEPT ![tx.from] = @ + Freed(tx.amount)]
         /\ tx.fn = "burnVesting" =>
              Applied(tx).free = [chain.free EXCEPT ![tx.from] = @ - tx.amount]
         /\ tx.fn \notin InWithdrawal => Applied(tx).free = chain.free
<1>1. CASE tx.fn = "deallocate"
  BY <1>1 DEF Applied, Freed, Chains, InWithdrawal
<1>2. CASE tx.fn = "burnVesting"
  BY <1>2 DEF Applied, Chains, InWithdrawal
<1>3. CASE tx.fn \notin InWithdrawal
  BY <1>3 DEF Applied, Chains, InWithdrawal
<1> QED
  BY <1>1, <1>2, <1>3 DEF InWithdrawal

\* Mining h changes what is due only to the account that signed it, and only for
\* the withdrawal h belongs to.
LEMMA MineDue ==
  ASSUME Typed, CallsInv, HashInv, WithdrawInv, NEW h \in DOMAIN txs, Settles(h),
         NEW r \in Runs, NEW a
  PROVE  /\ txs[h].from # a => DueTo(a)'[r] = DueTo(a)[r]
         /\ ~ /\ Withdraws(r)
              /\ \/ Len(run[r].hashes) >= 1 /\ run[r].hashes[1] = h
                 \/ Len(run[r].hashes) = 2 /\ run[r].hashes[2] = h
            => DueTo(a)'[r] = DueTo(a)[r]
<1>1. /\ run' = run /\ txs[h].status = "pending"
      /\ \E outcome \in {"success", "failed"} :
           txs' = [txs EXCEPT ![h].status = outcome]
  BY MineTx
<1>2. \A k \in DOMAIN txs : /\ txs'[k].from = txs[k].from
                            /\ k # h => txs'[k].status = txs[k].status
  <2>1. \A k \in DOMAIN txs : txs[k] \in Txs
    BY DEF Typed, CallsTyped
  <2> QED
    BY <1>1, <2>1 DEF Txs
<1>3. CASE ~Withdraws(r)
  BY <1>1, <1>3 DEF DueTo, Due, Withdraws, Running
<1>4. CASE Withdraws(r)
  <2> DEFINE s == run[r].hashes
  <2>1. /\ Withdrawal(run[r], txs) /\ s \in Seq(Hashes)
        /\ \A i \in DOMAIN s : s[i] \in DOMAIN txs
    BY <1>4, RunTyped, HashesSent DEF Withdraws, WithdrawInv, Typed
  <2>2. /\ Len(s) >= 1 => s[1] \in DOMAIN txs
        /\ Len(s) = 2 => s[2] \in DOMAIN txs
    BY <2>1
  <2>3. Due(r, a) <=> /\ run[r].signer = a
                      /\ Len(s) >= 1 /\ txs[s[1]].status = "success"
                      /\ ~(Len(s) = 2 /\ txs[s[2]].status = "success" /\ txs[s[2]].from = a)
    BY <1>4 DEF Due
  <2>4. Due(r, a)' <=> /\ run[r].signer = a
                       /\ Len(s) >= 1 /\ txs'[s[1]].status = "success"
                       /\ ~(Len(s) = 2 /\ txs'[s[2]].status = "success" /\ txs'[s[2]].from = a)
    BY <1>1, <1>4 DEF Due, Withdraws, Running
  <2>5. Len(s) >= 1 => txs[s[1]].from = run[r].signer
    BY <2>1 DEF Withdrawal, Deallocates
  <2> HIDE DEF s
  <2>6. /\ txs[h].from # a => (Due(r, a)' <=> Due(r, a))
        /\ ~(Len(s) >= 1 /\ s[1] = h) /\ ~(Len(s) = 2 /\ s[2] = h)
             => (Due(r, a)' <=> Due(r, a))
    BY <1>2, <2>2, <2>3, <2>4, <2>5
  <2>7. (Due(r, a)' <=> Due(r, a)) => DueTo(a)'[r] = DueTo(a)[r]
    BY <1>1 DEF DueTo
  <2> QED
    BY <1>4, <2>6, <2>7 DEF s
<1> QED
  BY <1>3, <1>4

\* A transaction that is mined, and what it applies.
LEMMA Mined ==
  ASSUME Typed, CallsInv, NEW h \in DOMAIN txs, Settles(h)
  PROVE  /\ run' = run /\ spoiled' = spoiled /\ txs[h].status = "pending"
         /\ txs[h] \in Txs /\ chain \in Chains
         /\ \A k \in DOMAIN txs : k # h => txs'[k] = txs[k]
         /\ txs'[h].status = "success" => Accepts(txs[h]) /\ chain' = Applied(txs[h])
         /\ txs'[h].status # "success" => chain' = chain
<1>1. txs[h] \in Txs /\ chain \in Chains /\ txs \in Seq(Txs)
  BY DEF Typed, CallsTyped
<1>2. PICK outcome \in {"success", "failed"} :
         /\ txs[h].status = "pending"
         /\ txs' = [txs EXCEPT ![h].status = outcome]
         /\ outcome = "success" => Accepts(txs[h]) /\ chain' = Applied(txs[h])
         /\ outcome = "failed" => chain' = chain
         /\ run' = run /\ spoiled' = spoiled
  BY MineTx
<1>3. txs'[h].status = outcome
  BY <1>1, <1>2 DEF Txs
<1> QED
  BY <1>1, <1>2, <1>3

\* Nothing changes for an account that did not sign it.
LEMMA MinedForOthers ==
  ASSUME Typed, CallsInv, HashInv, WithdrawInv, FreeInv, NEW h \in DOMAIN txs, Settles(h),
         NEW a \in Accounts, a # txs[h].from, a \notin spoiled',
         chain'.free[a] = chain.free[a]
  PROVE  chain'.free[a] <= SumFunctionOnSet(DueTo(a)', Runs)
<1>1. \A r \in Runs : DueTo(a)'[r] = DueTo(a)[r]
  BY MineDue
<1>2. /\ DueTo(a) = [r \in Runs |-> DueTo(a)[r]]
      /\ DueTo(a)' = [r \in Runs |-> DueTo(a)'[r]]
  BY DEF DueTo
<1>3. DueTo(a)' = DueTo(a)
  BY <1>1, <1>2
<1> QED
  BY <1>3, Mined DEF FreeInv

\* The first call of a withdrawal frees what the run then has due.
LEMMA DeallocationMined ==
  ASSUME Typed, CallsInv, HashInv, WithdrawInv, FreeInv, NEW h \in DOMAIN txs, Settles(h),
         txs'[h].status = "success", txs[h].fn = "deallocate"
  PROVE  FreeInv'
<1> PICK b, m : b = txs[h].from /\ m = txs[h].amount
  OBVIOUS
<1>1. /\ run' = run /\ spoiled' = spoiled /\ txs[h].status = "pending"
      /\ txs[h] \in Txs /\ chain \in Chains
      /\ chain' = Applied(txs[h])
      /\ \A k \in DOMAIN txs : k # h => txs'[k] = txs[k]
  BY Mined
<1>2. b \in Accounts /\ m \in Nat /\ chain.free \in [Accounts -> Nat]
  BY <1>1 DEF Txs, Chains
<1>3. chain'.free = [chain.free EXCEPT ![b] = @ + Freed(m)]
  BY <1>1, AppliedFree
<1>4. ASSUME NEW a \in Accounts, a # b, a \notin spoiled'
      PROVE  chain'.free[a] <= SumFunctionOnSet(DueTo(a)', Runs)
  <2>1. chain'.free[a] = chain.free[a]
    BY <1>2, <1>3, <1>4
  <2> QED
    BY <1>2, <1>4, <2>1, MinedForOthers
<1>5. ASSUME b \notin spoiled'
      PROVE  chain'.free[b] <= SumFunctionOnSet(DueTo(b)', Runs)
  <2>1. PICK r \in Runs : Began(r, h)
    BY <1>1, <1>5 DEF WithdrawInv
  <2> DEFINE f == DueTo(b)
             g == DueTo(b)'
  <2>2. /\ Withdrawal(run[r], txs) /\ Deallocates(txs[h], run[r])
        /\ run[r].hashes \in Seq(Hashes) /\ run[r].asked \in Nat
        /\ Withdraws(r) /\ Len(run[r].hashes) >= 1 /\ run[r].hashes[1] = h
    <3>1. Running(r)
      BY <2>1 DEF Began, Withdraws
    <3>2. run[r].hashes \in Seq(Hashes) /\ run[r].asked \in Nat
      BY <3>1, RunTyped DEF Typed
    <3>3. Withdrawal(run[r], txs)
      BY <2>1 DEF Began, WithdrawInv
    <3> QED
      BY <2>1, <3>2, <3>3 DEF Began, Withdrawal
  <2>3. Len(run[r].hashes) # 2
    BY <1>1, <2>2 DEF Withdrawal, Stage
  <2>4. f[r] = 0
    BY <1>1, <2>2 DEF DueTo, Due
  <2>5. g[r] = Freed(m)
    <3>1. Due(r, b)'
      BY <1>1, <2>2, <2>3 DEF Due, Withdraws, Running, Deallocates
    <3> QED
      BY <1>1, <2>2, <3>1 DEF DueTo, Deallocates
  <2>6. ASSUME NEW x \in Runs \ {r}
        PROVE  f[x] = g[x]
    <3>1. ASSUME Withdraws(x), Len(run[x].hashes) >= 1, run[x].hashes[1] = h
          PROVE  FALSE
      <4>1. 1 \in DOMAIN run[x].hashes /\ 1 \in DOMAIN run[r].hashes
        BY <2>2, <3>1, RunTyped DEF Withdraws, Typed
      <4> QED
        BY <2>2, <3>1, <4>1 DEF HashInv, Withdraws
    <3>2. ASSUME Withdraws(x), Len(run[x].hashes) = 2, run[x].hashes[2] = h
          PROVE  FALSE
      BY <3>2 DEF WithdrawInv, Withdrawal, BurnsFreed
    <3> QED
      BY <3>1, <3>2, MineDue
  <2>7. \A x \in Runs : f[x] \in Nat /\ g[x] \in Nat
    <3>1. \A x \in Runs : f[x] \in Nat
      BY DueNat
    <3>2. Freed(m) \in Nat
      BY <1>2, FreedNat
    <3> QED
      BY <2>5, <2>6, <3>1, <3>2
  <2> HIDE DEF f, g
  <2>8. SumFunctionOnSet(g, Runs) = SumFunctionOnSet(f, Runs) - f[r] + g[r]
    <3>1. \A x \in Runs : f[x] \in Int /\ g[x] \in Int
      BY <2>7
    <3>2. IsFiniteSet(Runs)
      BY ConstantFacts
    <3> QED
      BY <2>6, <3>1, <3>2, SumUpdate
  <2>9. SumFunctionOnSet(f, Runs) \in Nat
    BY <2>7, ConstantFacts, SumNat
  <2>10. chain.free[b] <= SumFunctionOnSet(f, Runs)
    BY <1>1, <1>2, <1>5 DEF FreeInv, f
  <2>11. chain'.free[b] = chain.free[b] + Freed(m) /\ chain.free[b] \in Nat /\ Freed(m) \in Nat
    BY <1>2, <1>3, FreedNat
  <2>12. chain'.free[b] <= SumFunctionOnSet(g, Runs)
    BY <2>4, <2>5, <2>8, <2>9, <2>10, <2>11
  <2> QED
    BY <2>12 DEF g
<1> QED
  BY <1>4, <1>5 DEF FreeInv

\* The second call burns what its run has due, if it is signed by the same account;
\* otherwise it only makes the tokens of another account fewer.
LEMMA VestingMined ==
  ASSUME Typed, CallsInv, HashInv, WithdrawInv, FreeInv, NEW h \in DOMAIN txs, Settles(h),
         txs'[h].status = "success", txs[h].fn = "burnVesting"
  PROVE  FreeInv'
<1> PICK b, m : b = txs[h].from /\ m = txs[h].amount
  OBVIOUS
<1>1. /\ run' = run /\ spoiled' = spoiled /\ txs[h].status = "pending"
      /\ txs[h] \in Txs /\ chain \in Chains
      /\ Accepts(txs[h]) /\ chain' = Applied(txs[h])
      /\ \A k \in DOMAIN txs : k # h => txs'[k] = txs[k]
  BY Mined
<1>2. b \in Accounts /\ m \in Nat /\ chain.free \in [Accounts -> Nat]
  BY <1>1 DEF Txs, Chains
<1>3. chain'.free = [chain.free EXCEPT ![b] = @ - m]
  BY <1>1, AppliedFree
<1>4. ASSUME NEW a \in Accounts, a # b, a \notin spoiled'
      PROVE  chain'.free[a] <= SumFunctionOnSet(DueTo(a)', Runs)
  <2>1. chain'.free[a] = chain.free[a]
    BY <1>2, <1>3, <1>4
  <2> QED
    BY <1>2, <1>4, <2>1, MinedForOthers
<1>5. ASSUME b \notin spoiled'
      PROVE  chain'.free[b] <= SumFunctionOnSet(DueTo(b)', Runs)
  <2> DEFINE f == DueTo(b)
             g == DueTo(b)'
  <2>1. chain'.free[b] = chain.free[b] - m /\ chain.free[b] \in Nat
    BY <1>2, <1>3
  <2>2. chain.free[b] <= SumFunctionOnSet(f, Runs)
    BY <1>1, <1>2, <1>5 DEF FreeInv
  <2>3. \A x \in Runs : f[x] \in Nat
    BY DueNat
  <2>4. SumFunctionOnSet(f, Runs) \in Nat
    BY <2>3, ConstantFacts, SumNat
  <2>5. ASSUME NEW x \in Runs, Withdraws(x), Len(run[x].hashes) >= 1, run[x].hashes[1] = h
        PROVE  FALSE
    BY <2>5 DEF WithdrawInv, Withdrawal, Deallocates
  <2>6. CASE \E r \in Runs : f[r] # g[r]
    <3> PICK r \in Runs : f[r] # g[r]
      BY <2>6
    <3>1. Withdraws(r) /\ Len(run[r].hashes) = 2 /\ run[r].hashes[2] = h
      BY <2>5, MineDue
    <3>2. /\ Withdrawal(run[r], txs) /\ BurnsFreed(txs[h], run[r])
          /\ run[r].hashes \in Seq(Hashes) /\ run[r].asked \in Nat
      BY <3>1, RunTyped DEF Withdraws, WithdrawInv, Withdrawal, Typed
    <3>3. f[r] \in {0, m}
      BY <3>2 DEF DueTo, BurnsFreed
    <3>4. g[r] = 0 /\ f[r] = m
      <4>1. ~Due(r, b)'
        <5>1. txs'[h].from = b
          BY <1>1, MineTx DEF Txs
        <5> QED
          BY <1>1, <3>1, <5>1 DEF Due
      <4>2. g[r] = 0
        BY <4>1 DEF DueTo
      <4> QED
        BY <3>3, <4>2
    <3>5. ASSUME NEW x \in Runs \ {r}
          PROVE  f[x] = g[x]
      <4>1. ASSUME Withdraws(x), Len(run[x].hashes) = 2, run[x].hashes[2] = h
            PROVE  FALSE
        <5>1. 2 \in DOMAIN run[x].hashes /\ 2 \in DOMAIN run[r].hashes
          BY <3>1, <3>2, <4>1, RunTyped DEF Withdraws, Typed
        <5> QED
          BY <3>1, <4>1, <5>1 DEF HashInv, Withdraws
      <4> QED
        BY <2>5, <4>1, MineDue
    <3>6. \A x \in Runs : f[x] \in Int /\ g[x] \in Int
      BY <2>3, <3>4, <3>5
    <3> HIDE DEF f, g
    <3>7. SumFunctionOnSet(g, Runs) = SumFunctionOnSet(f, Runs) - f[r] + g[r]
      <4>1. IsFiniteSet(Runs)
        BY ConstantFacts
      <4> QED
        BY <3>5, <3>6, <4>1, SumUpdate
    <3>8. chain'.free[b] <= SumFunctionOnSet(g, Runs)
      BY <1>2, <2>1, <2>2, <2>4, <3>4, <3>7
    <3> QED
      BY <3>8 DEF g
  <2>7. CASE \A r \in Runs : f[r] = g[r]
    <3>1. g = f
      <4>1. f = [r \in Runs |-> f[r]] /\ g = [r \in Runs |-> g[r]]
        BY DEF DueTo
      <4> HIDE DEF f, g
      <4> QED
        BY <2>7, <4>1
    <3> HIDE DEF f, g
    <3>2. chain'.free[b] <= SumFunctionOnSet(g, Runs)
      BY <1>2, <2>1, <2>2, <2>4, <3>1
    <3> QED
      BY <3>2 DEF g
  <2> QED
    BY <2>6, <2>7
<1> QED
  BY <1>4, <1>5 DEF FreeInv

\* Any other transaction, and one that reverts, moves no free tokens.
LEMMA OtherMined ==
  ASSUME Typed, CallsInv, HashInv, WithdrawInv, FreeInv, NEW h \in DOMAIN txs, Settles(h),
         txs'[h].status # "success" \/ txs[h].fn \notin InWithdrawal
  PROVE  FreeInv'
<1>1. /\ run' = run /\ spoiled' = spoiled /\ txs[h].status = "pending"
      /\ \A k \in DOMAIN txs : k # h => txs'[k] = txs[k]
  BY Mined
<1>2. chain'.free = chain.free
  BY Mined, AppliedFree
<1>3. ASSUME NEW a \in Accounts, NEW r \in Runs
      PROVE  DueTo(a)'[r] = DueTo(a)[r]
  <2>1. CASE ~Withdraws(r)
    BY <2>1, MineDue
  <2>2. CASE Withdraws(r)
    <3> DEFINE s == run[r].hashes
    <3>1. /\ Withdrawal(run[r], txs) /\ s \in Seq(Hashes)
          /\ \A i \in DOMAIN s : s[i] \in DOMAIN txs
      BY <2>2, RunTyped, HashesSent DEF Withdraws, WithdrawInv, Typed
    <3>2. /\ Len(s) >= 1 => s[1] \in DOMAIN txs /\ txs[s[1]].fn \in InWithdrawal
          /\ Len(s) = 2 => s[2] \in DOMAIN txs /\ txs[s[2]].fn \in InWithdrawal
      BY <3>1 DEF Withdrawal, Deallocates, BurnsFreed, InWithdrawal
    <3>3. Due(r, a) <=> /\ run[r].signer = a
                        /\ Len(s) >= 1 /\ txs[s[1]].status = "success"
                        /\ ~(Len(s) = 2 /\ txs[s[2]].status = "success" /\ txs[s[2]].from = a)
      BY <2>2 DEF Due
    <3>4. Due(r, a)' <=> /\ run[r].signer = a
                         /\ Len(s) >= 1 /\ txs'[s[1]].status = "success"
                         /\ ~(Len(s) = 2 /\ txs'[s[2]].status = "success" /\ txs'[s[2]].from = a)
      BY <1>1, <2>2 DEF Due, Withdraws, Running
    <3> HIDE DEF s
    <3>5. Due(r, a)' <=> Due(r, a)
      <4>1. CASE txs'[h].status # "success"
        BY <1>1, <3>2, <3>3, <3>4, <4>1
      <4>2. CASE txs[h].fn \notin InWithdrawal
        BY <1>1, <3>2, <3>3, <3>4, <4>2
      <4> QED
        BY <4>1, <4>2
    <3> QED
      BY <1>1, <3>5 DEF DueTo
  <2> QED
    BY <2>1, <2>2
<1> QED
  BY <1>1, <1>2, <1>3, KeptFree

\* Every step keeps what is free within what withdrawals in progress will burn.
LEMMA NextFree ==
  ASSUME Typed, CallsInv, HashInv, WithdrawInv, FreeInv, [Next]_vars
  PROVE  FreeInv'
<1>1. ASSUME UNCHANGED <<run, txs, chain, spoiled>>
      PROVE  FreeInv'
  <2>1. \A a, r : DueTo(a)'[r] = DueTo(a)[r]
    BY <1>1 DEF DueTo, Due, Withdraws, Running
  <2> QED
    BY <1>1, <2>1, KeptFree
<1>2. ASSUME NEW t \in Tabs, NEW r \in Runs, NEW amount \in Amounts, Submit(t, r, amount)
      PROVE  FreeInv'
  <2>1. ~Running(r) /\ UNCHANGED <<txs, chain, spoiled>>
    BY <1>2 DEF Submit
  <2>2. PICK q \in ActiveRuns : run' = [run EXCEPT ![r] = q] /\ q.hashes = <<>>
    BY <1>2, SubmitRun
  <2> QED
    BY <2>1, <2>2, OneRunFree
<1>3. ASSUME NEW r \in Runs, Simulate(r) \/ NextCall(r)
      PROVE  FreeInv'
  <2>1. UNCHANGED <<txs, chain, spoiled>>
    BY <1>3 DEF Simulate, NextCall
  <2>2. PICK q \in ActiveRuns :
           /\ run' = [run EXCEPT ![r] = q]
           /\ Running(r) /\ q.hashes = run[r].hashes /\ q.form = run[r].form
           /\ q.signer = run[r].signer /\ q.asked = run[r].asked
    BY <1>3, SimulateRun, NextCallRun DEF Typed
  <2> QED
    BY <2>1, <2>2, OneRunFree
<1>4. ASSUME NEW h \in DOMAIN txs, Settles(h)
      PROVE  FreeInv'
  BY <1>4, DeallocationMined, VestingMined, OtherMined DEF InWithdrawal
<1>5. ASSUME NEW ended \in SUBSET Runs, \A r \in ended : Running(r), Ends(ended)
      PROVE  FreeInv'
  BY <1>5, EndsFree
<1>6. ASSUME NEW t \in Tabs, Reload(t)
      PROVE  FreeInv'
  <2>1. \A r \in {q \in Runs : In(q, t)} : Running(r)
    BY DEF In
  <2> QED
    BY <1>5, <1>6, <2>1, ReloadEnds
<1>7. ASSUME NEW r \in Runs, Finish(r) \/ Fail(r)
      PROVE  FreeInv'
  <2>1. Running(r)
    BY <1>7 DEF Finish, Fail, ReceiptArrived, Running
  <2>2. Ends({r})
    BY <1>7, FinishEnds, FailEnds
  <2> QED
    BY <1>5, <2>1, <2>2
<1>8. \A t \in Tabs : TurboLoad(t) \/ HideNotice(t) \/ OnChange(t)
        => UNCHANGED <<run, txs, chain, spoiled>>
  BY DEF TurboLoad, HideNotice, OnChange
<1>9. \A t \in Tabs, form \in Forms :
        Visit(t, form) \/ Restore(t, form) => UNCHANGED <<run, txs, chain, spoiled>>
  BY DEF Visit, Restore
<1>10. \A a \in Choices : Switch(a) => UNCHANGED <<run, txs, chain, spoiled>>
  BY DEF Switch
<1>11. UNCHANGED vars => UNCHANGED <<run, txs, chain, spoiled>>
  BY DEF vars
<1> QED
  BY <1>1, <1>2, <1>3, <1>4, <1>6, <1>7, <1>8, <1>9, <1>10, <1>11, WriteFree
  DEF Next, Settles

-----------------------------------------------------------------------------
(* The theorems *)

\* The invariant holds at first and is kept.
THEOREM InvHolds == Spec => []Inv
<1>1. Init => Inv
  BY InitTyped, InitHashes, InitWithdraw, InitFree DEF Inv
<1>2. Inv /\ [Next]_vars => Inv'
  BY NextTyped, NextHashes, NextWithdraw, NextFree DEF Inv
<1> QED
  BY <1>1, <1>2, PTL DEF Spec

\* The state has its types whatever users and wallets do.
THEOREM TypeCorrect == Spec => []TypeOK
<1>1. ASSUME Typed
      PROVE  TypeOK
  <2>1. \A r \in Runs : Running(r) => /\ run[r].pc \in {"simulate", "prompt", "receipt"}
                                      /\ run[r].tab \in Tabs /\ run[r].call \in Txs
    BY <1>1, RunTyped DEF Typed
  <2>2. txs \in Seq(Txs) /\ Len(txs) <= MaxTxs
    BY <1>1 DEF Typed, CallsTyped
  <2>3. \A t \in Tabs : /\ page[t].account \in Accounts \cup {None}
                        /\ page[t].form \in AllForms
                        /\ page[t].visiting \in AllForms \cup {"none"}
                        /\ page[t].notice \in Hashes /\ page[t].timers \in Nat
    BY <1>1 DEF Typed, PagesTyped, Pages
  <2>4. ASSUME NEW t \in Tabs, NEW form \in AllForms
        PROVE  Cardinality(snap[t][form]) <= 1
    <3>1. CASE snap[t][form] = {}
      BY <3>1, FS_EmptySet
    <3>2. CASE snap[t][form] # {}
      <4>1. PICK b : b \in snap[t][form]
        BY <3>2
      <4>2. \A c \in snap[t][form] : c = b
        BY <1>1, <4>1 DEF Typed, PagesTyped
      <4>3. snap[t][form] = {b}
        BY <4>1, <4>2
      <4>4. Cardinality({b}) = 1
        BY FS_Singleton
      <4> QED
        BY <4>3, <4>4
    <3> QED
      BY <3>1, <3>2
  <2>5. /\ chain.allowance \subseteq Accounts \X Spenders
        /\ \A f \in {"pool", "farm", "staked", "free"} : chain[f] \in [Accounts -> Nat]
    BY <1>1 DEF Typed, Chains
  <2> QED
    BY <1>1, <2>1, <2>2, <2>3, <2>4, <2>5 DEF Typed, TypeOK
<1> QED
  BY <1>1, InvHolds, PTL DEF Inv

\* No deposit, open or claim is sent for an account that did not sign it, however the
\* accounts are switched between the calls of a form.
THEOREM RecipientCorrect == Spec => []RecipientIsSigner
<1>1. Inv => RecipientIsSigner
  BY DEF Inv, CallsInv, WellBound, RecipientIsSigner
<1> QED
  BY <1>1, InvHolds, PTL

\* The rounding of the forms never burns more than was asked for.
THEOREM BurnsCorrect == Spec => []BurnsWhatWasAsked
<1>1. Inv => BurnsWhatWasAsked
  BY DEF Inv, CallsInv, RunFits, BurnFits, BurnsWhatWasAsked
<1> QED
  BY <1>1, InvHolds, PTL

\* Where a notification comes from that a step shows in tab t.
NewOrCached(t) ==
  LET hash == page'[t].notice
  IN hash # 0 /\ hash # page[t].notice =>
       \/ hash \notin shown
       \/ \E form \in AllForms : \E body \in snap[t][form] : body.notice = hash

\* What turbo:load shows was not shown before, or was in the body it found.
LEMMA LoadNotice ==
  ASSUME Typed, HashInv, NEW t \in Tabs, NEW body \in Bodies, NEW reloading \in BOOLEAN,
         NEW timers \in Nat, OnTurboLoad(t, body, reloading, timers),
         \/ body.notice = 0
         \/ \E form \in AllForms : body \in snap[t][form]
  PROVE  \A u \in Tabs : NewOrCached(u)
<1>1. /\ page'[t].notice = body.notice
           \/ (cookie.txhash # 0 /\ page'[t].notice = cookie.txhash)
      /\ \A u \in Tabs \ {t} : page'[u] = page[u]
  BY LoadShows
<1>2. cookie.txhash # 0 => cookie.txhash \notin shown
  BY DEF HashInv, CookieUnread
<1> QED
  BY <1>1, <1>2 DEF NewOrCached

\* A hash comes up once, or out of the cache of its tab, whichever tabs load in
\* whatever order.
THEOREM HashesCorrect == Spec => HashesShownOnce
<1>1. ASSUME Inv, [Next]_vars
      PROVE  \A t \in Tabs : NewOrCached(t)
  <2>1. /\ Typed /\ HashInv /\ CallsTyped
        /\ page \in [Tabs -> Pages] /\ snap \in [Tabs -> [AllForms -> SUBSET Bodies]]
    BY <1>1 DEF Inv, Typed, PagesTyped
  <2>2. ASSUME \A t \in Tabs : page'[t].notice = page[t].notice
        PROVE  \A t \in Tabs : NewOrCached(t)
    BY <2>2 DEF NewOrCached
  <2>3. ASSUME NEW t \in Tabs, TurboLoad(t)
        PROVE  \A u \in Tabs : NewOrCached(u)
    <3>1. /\ page[t].visiting \in AllForms /\ page[t].reloading \in BOOLEAN
          /\ page[t].timers \in Nat
      BY <2>1, <2>3 DEF TurboLoad, Pages
    <3>2. Fresh(page[t].visiting) \in Bodies /\ Fresh(page[t].visiting).notice = 0
      BY <2>1, <3>1, FreshTyped
    <3> QED
      BY <2>1, <2>3, <3>1, <3>2, LoadNotice DEF TurboLoad
  <2>4. ASSUME NEW t \in Tabs, NEW form \in Forms, Restore(t, form)
        PROVE  \A u \in Tabs : NewOrCached(u)
    <3>1. form \in AllForms /\ page[t].reloading \in BOOLEAN /\ page[t].timers \in Nat
      BY <2>1, ConstantFacts DEF Pages
    <3>2. PICK body \in snap[t][form] :
            OnTurboLoad(t, body, page[t].reloading, page[t].timers)
      BY <2>4 DEF Restore
    <3>3. body \in Bodies
      BY <2>1, <3>1
    <3> QED
      BY <2>1, <3>1, <3>2, <3>3, LoadNotice
  <2>5. ASSUME NEW t \in Tabs, Reload(t)
        PROVE  \A u \in Tabs : NewOrCached(u)
    <3>1. Fresh(page[t].form) \in Bodies /\ Fresh(page[t].form).notice = 0
      BY <2>1, FreshTyped DEF Pages
    <3>2. OnTurboLoad(t, Fresh(page[t].form), FALSE, 0)
      BY <2>5 DEF Reload
    <3>3. 0 \in Nat /\ FALSE \in BOOLEAN
      OBVIOUS
    <3> QED
      BY <2>1, <3>1, <3>2, <3>3, LoadNotice
  <2>6. ASSUME NEW t \in Tabs, NEW form \in Forms, Visit(t, form)
        PROVE  \A u \in Tabs : NewOrCached(u)
    <3>1. /\ form \in AllForms /\ page[t].reloading \in BOOLEAN /\ page[t].timers \in Nat
      BY <2>1, ConstantFacts DEF Pages
    <3>2. CASE snap[t][form] = {}
      <4>1. page' = [page EXCEPT ![t].visiting = form, ![t].cached = FALSE]
        BY <2>6, <3>2 DEF Visit
      <4>2. \A u \in Tabs : page'[u].notice = page[u].notice
        BY <2>1, <4>1 DEF Pages
      <4> QED
        BY <2>2, <4>2
    <3>3. CASE snap[t][form] # {}
      <4>1. PICK body \in snap[t][form] :
              Show(t, body, form, page[t].reloading, page[t].timers)
        BY <2>6, <3>3 DEF Visit
      <4>2. body \in Bodies
        BY <2>1, <3>1
      <4>3. Shows(t, body, page[t].reloading)
        BY <2>1, <3>1, <4>1, <4>2, ShownTyped DEF Typed
      <4> QED
        BY <3>1, <4>1, <4>3 DEF Shows, NewOrCached
    <3> QED
      BY <3>2, <3>3
  <2>7. ASSUME NEW t \in Tabs, HideNotice(t)
        PROVE  \A u \in Tabs : NewOrCached(u)
    <3>1. page' = [page EXCEPT ![t].notice = 0, ![t].timers = @ - 1]
      BY <2>7 DEF HideNotice
    <3>2. /\ page'[t].notice = 0
          /\ \A u \in Tabs \ {t} : page'[u] = page[u]
      BY <2>1, <3>1 DEF Pages
    <3> QED
      BY <3>2 DEF NewOrCached
  <2>8. ASSUME NEW t \in Tabs, OnChange(t)
        PROVE  \A u \in Tabs : NewOrCached(u)
    <3>1. page' = page \/ page' = [page EXCEPT ![t].reloading = TRUE]
      BY <2>8 DEF OnChange, Follow
    <3>2. \A u \in Tabs : page'[u].notice = page[u].notice
      BY <2>1, <3>1 DEF Pages
    <3> QED
      BY <2>2, <3>2
  <2>9. ASSUME NEW t \in Tabs, NEW r \in Runs, NEW amount \in Amounts, Submit(t, r, amount)
        PROVE  \A u \in Tabs : NewOrCached(u)
    <3>1. page' = [page EXCEPT ![t].overlay = TRUE]
      BY <2>9 DEF Submit
    <3>2. \A u \in Tabs : page'[u].notice = page[u].notice
      BY <2>1, <3>1 DEF Pages
    <3> QED
      BY <2>2, <3>2
  <2>10. ASSUME NEW r \in Runs, Finish(r) \/ Fail(r)
         PROVE  \A u \in Tabs : NewOrCached(u)
    <3> PICK t : t = run[r].tab
      OBVIOUS
    <3>1. page' = Revisited(t) \/ page' = OverlayHidden(t)
      BY <2>10 DEF Finish, Fail
    <3>2. \A u \in Tabs : page'[u].notice = page[u].notice
      BY <2>1, <3>1 DEF Pages, Revisited, OverlayHidden
    <3> QED
      BY <2>2, <3>2
  <2>11. ASSUME page' = page
         PROVE  \A t \in Tabs : NewOrCached(t)
    BY <2>2, <2>11
  <2>12. /\ \A r \in Runs : Simulate(r) \/ WriteContract(r) \/ NextCall(r) => page' = page
         /\ \A h \in DOMAIN txs : Mine(h) \/ Replace(h) => page' = page
         /\ \A a \in Choices : Switch(a) => page' = page
         /\ UNCHANGED vars => page' = page
    BY DEF Simulate, WriteContract, NextCall, Mine, Replace, Switch, vars
  <2> QED
    BY <1>1, <2>3, <2>4, <2>5, <2>6, <2>7, <2>8, <2>9, <2>10, <2>11, <2>12 DEF Next
<1>2. Inv /\ [Next]_vars =>
        [\A t \in Tabs :
           LET hash == page'[t].notice
           IN hash # 0 /\ hash # page[t].notice =>
                \/ hash \notin shown
                \/ \E form \in AllForms : \E body \in snap[t][form] : body.notice = hash]_vars
  BY <1>1 DEF NewOrCached
<1> QED
  BY <1>2, InvHolds, PTL DEF Spec, HashesShownOnce

\* Freed tokens are left only by withdrawals that did not go through whole, with
\* any number of withdrawals of any accounts in progress at once.
THEOREM NothingLeft == Spec => []NothingStranded
<1>1. ASSUME Inv PROVE NothingStranded
  <2> SUFFICES ASSUME NEW a \in Accounts, chain.free[a] > 0, a \notin spoiled
               PROVE  \E r \in Runs : Running(r) /\ run[r].signer = a /\ run[r].hashes # <<>>
    BY DEF NothingStranded
  <2>1. chain.free[a] <= SumFunctionOnSet(DueTo(a), Runs) /\ chain.free[a] \in Nat
    BY <1>1 DEF Inv, FreeInv, Typed, Chains
  <2>2. PICK r \in Runs : DueTo(a)[r] # 0
    <3>1. ASSUME \A r \in Runs : DueTo(a)[r] = 0
          PROVE  FALSE
      <4>1. SumFunctionOnSet(DueTo(a), Runs) = 0
        BY <3>1, ConstantFacts, SumZero
      <4> QED
        BY <2>1, <4>1
    <3> QED
      BY <3>1
  <2>3. Due(r, a)
    BY <2>2 DEF DueTo
  <2>4. run[r].hashes # <<>>
    BY <2>3 DEF Due
  <2> QED
    BY <2>3, <2>4 DEF Due, Withdraws
<1> QED
  BY <1>1, InvHolds, PTL

-----------------------------------------------------------------------------
(* One tab *)

\* With one tab nothing but its own wallet moves the account of the cookie.
LEMMA InitTab == Init => TabInv
<1> SUFFICES ASSUME Init, NEW t \in Tabs
             PROVE  /\ conn[t] = None
                    /\ page[t].account = cookie.address
                    /\ \A form \in AllForms : snap[t][form] = {}
                    /\ \A r \in Runs : ~In(r, t)
  BY DEF TabInv
<1> QED
  BY DEF Init, NoSnapshots, In, Running, Idle

\* A body of the page or of the cache is shown again, or the page as it is now.
LEMMA ShowTab ==
  ASSUME Typed, TabInv, OneTab, NEW t \in Tabs,
         page[t].reloading \/ page'[t].account = cookie.address,
         page'[t].reloading = page[t].reloading,
         snap' = Cached(t, Shot(t)) \/ snap' = snap,
         cookie'.address = cookie.address, UNCHANGED <<conn, run>>
  PROVE  TabInv'
<1>1. PagesTyped
  BY DEF Typed
<1>2. page'[t].reloading \/ page'[t].account = cookie.address
  OBVIOUS
<1>3. \A form \in AllForms :
        snap'[t][form] = snap[t][form] \/ snap'[t][form] = {Shot(t)}
  <2>1. Shot(t) \in Bodies
    BY <1>1, ShotTyped
  <2>2. Stored(t, Shot(t))
    BY <1>1, <2>1, CachedTyped
  <2> QED
    BY <2>2 DEF Stored
<1>4. Shot(t).account = page[t].account
  BY DEF Shot
<1>5. \A u \in Tabs : u = t
  BY DEF OneTab
<1>6. conn'[t] \in {None, cookie'.address}
  BY DEF TabInv
<1>7. ASSUME ~page[t].reloading
      PROVE  /\ page'[t].account = cookie'.address
             /\ \A form \in AllForms : \A b \in snap'[t][form] : b.account = cookie'.address
             /\ \A r \in Runs : In(r, t)' => run'[r].call.from = cookie'.address
  BY <1>2, <1>3, <1>4, <1>7 DEF TabInv, In, Running
<1> QED
  BY <1>2, <1>5, <1>6, <1>7 DEF TabInv

\* One run changes: its call is the one it had, or bound to the tab's account.
LEMMA RunTab ==
  ASSUME Typed, TabInv, OneTab, NEW r \in Runs, NEW q \in ActiveRuns,
         run' = [run EXCEPT ![r] = q], UNCHANGED <<conn, cookie, snap>>,
         \A t \in Tabs : /\ page'[t].account = page[t].account
                         /\ page'[t].reloading = page[t].reloading,
         \/ Running(r) /\ q.call = run[r].call
         \/ conn[q.tab] # None /\ q.call.from = conn[q.tab]
  PROVE  TabInv'
<1>1. run'[r] = q /\ \A p \in Runs \ {r} : run'[p] = run[p]
  BY DEF Typed, CallsTyped
<1>2. q.tab \in Tabs
  BY DEF ActiveRuns
<1>3. ASSUME NEW t \in Tabs, ~page[t].reloading, NEW p \in Runs, In(p, t)'
      PROVE  run'[p].call.from = cookie.address
  <2>1. CASE p # r
    BY <1>1, <1>3, <2>1 DEF TabInv, In, Running
  <2>2. CASE p = r /\ Running(r) /\ q.call = run[r].call
    <3>1. run[r].tab = t
      BY <2>2, RunTyped DEF OneTab, Typed
    <3> QED
      BY <1>1, <1>3, <2>2, <3>1 DEF TabInv, In
  <2>3. CASE p = r /\ conn[q.tab] # None /\ q.call.from = conn[q.tab]
    BY <1>1, <1>2, <2>3 DEF TabInv
  <2> QED
    BY <2>1, <2>2, <2>3
<1> QED
  BY <1>3 DEF TabInv

\* Runs end, and the page goes on.
LEMMA EndsTab ==
  ASSUME TabInv, NEW ended \in SUBSET Runs, Ends(ended), UNCHANGED conn,
         cookie'.address = cookie.address,
         \A t \in Tabs : /\ page'[t].account = page[t].account
                         /\ page'[t].reloading = page[t].reloading,
         \A t \in Tabs, form \in AllForms : \A b \in snap'[t][form] :
           b \in snap[t][form] \/ b.account = page[t].account
  PROVE  TabInv'
<1>1. ASSUME NEW p \in Runs, NEW t \in Tabs, In(p, t)'
      PROVE  In(p, t) /\ run'[p] = run[p]
  BY <1>1 DEF Ends, In, Running, Idle
<1> QED
  BY <1>1 DEF TabInv

\* Every step keeps the tab, its page and its runs with one account.
LEMMA NextTab ==
  ASSUME Typed, CallsInv, TabInv, OneTab, [Next]_vars
  PROVE  TabInv'
<1>1. /\ \A t, u \in Tabs : t = u
      /\ page \in [Tabs -> Pages] /\ PagesTyped
  BY DEF OneTab, Typed, PagesTyped
<1>2. ASSUME NEW t \in Tabs, TurboLoad(t)
      PROVE  TabInv'
  <2>1. /\ page[t].visiting \in AllForms /\ page[t].reloading \in BOOLEAN
        /\ page[t].timers \in Nat
    BY <1>1, <1>2 DEF TurboLoad, Pages
  <2>2. /\ Fresh(page[t].visiting) \in Bodies
        /\ Fresh(page[t].visiting).account = cookie.address
    BY <2>1, FreshTyped
  <2>3. /\ OnTurboLoad(t, Fresh(page[t].visiting), page[t].reloading, page[t].timers)
        /\ snap' = Cached(t, Shot(t)) \/ snap' = snap
        /\ UNCHANGED <<conn, run>>
    BY <1>2 DEF TurboLoad
  <2>4. /\ cookie'.address = cookie.address
        /\ page'[t].account = cookie.address /\ page'[t].reloading = page[t].reloading
    BY <2>1, <2>2, <2>3, LoadTyped, LoadShows
  <2> QED
    BY <2>3, <2>4, ShowTab
<1>3. ASSUME NEW t \in Tabs, NEW form \in Forms, NEW body \in snap[t][form]
      PROVE  body \in Bodies /\ (page[t].reloading \/ body.account = cookie.address)
  <2>1. form \in AllForms
    BY ConstantFacts
  <2> QED
    BY <1>1, <2>1 DEF PagesTyped, TabInv
<1>4. ASSUME NEW t \in Tabs, NEW form \in Forms, Visit(t, form)
      PROVE  TabInv'
  <2>1. form \in AllForms /\ UNCHANGED <<conn, cookie, run>>
    BY <1>4, ConstantFacts DEF Visit
  <2>2. CASE snap[t][form] = {}
    <3>1. /\ page' = [page EXCEPT ![t].visiting = form, ![t].cached = FALSE]
          /\ snap' = snap
      BY <1>4, <2>2 DEF Visit
    <3>2. \A u \in Tabs : /\ page'[u].account = page[u].account
                          /\ page'[u].reloading = page[u].reloading
      BY <1>1, <3>1 DEF Pages
    <3> QED
      BY <2>1, <3>1, <3>2 DEF TabInv, In, Running
  <2>3. CASE snap[t][form] # {}
    <3>1. PICK body \in snap[t][form] :
            Show(t, body, form, page[t].reloading, page[t].timers)
      BY <1>4, <2>3 DEF Visit
    <3>2. snap' = Cached(t, Shot(t))
      BY <1>4, <2>3 DEF Visit
    <3>3. body \in Bodies /\ (page[t].reloading \/ body.account = cookie.address)
      BY <1>3
    <3>4. page[t].reloading \in BOOLEAN /\ page[t].timers \in Nat
      BY <1>1 DEF Pages
    <3>5. page'[t].account = body.account /\ page'[t].reloading = page[t].reloading
      BY <1>1, <2>1, <3>1, <3>3, <3>4, ShownTyped DEF Shows
    <3> QED
      BY <2>1, <3>2, <3>3, <3>5, ShowTab
  <2> QED
    BY <2>2, <2>3
<1>5. ASSUME NEW t \in Tabs, NEW form \in Forms, Restore(t, form)
      PROVE  TabInv'
  <2>1. PICK body \in snap[t][form] :
          OnTurboLoad(t, body, page[t].reloading, page[t].timers)
    BY <1>5 DEF Restore
  <2>2. snap' = Cached(t, Shot(t)) /\ UNCHANGED <<conn, run>>
    BY <1>5 DEF Restore
  <2>3. body \in Bodies /\ (page[t].reloading \/ body.account = cookie.address)
    BY <1>3
  <2>4. page[t].reloading \in BOOLEAN /\ page[t].timers \in Nat
    BY <1>1 DEF Pages
  <2>5. /\ cookie'.address = cookie.address
        /\ page'[t].account = body.account /\ page'[t].reloading = page[t].reloading
    BY <2>1, <2>3, <2>4, LoadTyped, LoadShows
  <2> QED
    BY <2>2, <2>3, <2>5, ShowTab
<1>6. ASSUME NEW t \in Tabs, OnChange(t)
      PROVE  TabInv'
  <2>1. /\ conn' = [conn EXCEPT ![t] = wallet]
        /\ UNCHANGED <<snap, run>> /\ conn \in [Tabs -> Accounts \cup {None}]
    BY <1>6 DEF OnChange, Typed
  <2>2. CASE cookie.address = wallet
    <3>1. UNCHANGED <<cookie, page>>
      BY <1>6, <2>2 DEF OnChange, Follow
    <3> QED
      BY <1>1, <2>1, <2>2, <3>1 DEF TabInv, In, Running
  <2>3. CASE cookie.address # wallet
    <3>1. /\ cookie'.address = wallet /\ page' = [page EXCEPT ![t].reloading = TRUE]
      BY <1>6, <2>3 DEF OnChange, Follow, Typed
    <3>2. page'[t].reloading
      BY <1>1, <3>1 DEF Pages
    <3> QED
      BY <1>1, <2>1, <3>1, <3>2 DEF TabInv
  <2> QED
    BY <2>2, <2>3
<1>7. ASSUME NEW t \in Tabs, Reload(t)
      PROVE  TabInv'
  <2>1. /\ OnTurboLoad(t, Fresh(page[t].form), FALSE, 0)
        /\ snap' = [snap EXCEPT ![t] = NoSnapshots]
        /\ conn' = [conn EXCEPT ![t] = None]
        /\ run' = [r \in Runs |-> IF In(r, t) THEN Idle ELSE run[r]]
    BY <1>7 DEF Reload
  <2>2. Fresh(page[t].form) \in Bodies /\ Fresh(page[t].form).account = cookie.address
    BY <1>1, FreshTyped DEF Pages
  <2>3. cookie'.address = cookie.address
    BY <2>1, <2>2, LoadTyped
  <2>4. page'[t].account = cookie.address
    BY <2>1, <2>2, LoadShows
  <2>5. \A form \in AllForms : snap'[t][form] = {}
    BY <2>1 DEF Typed, PagesTyped, NoSnapshots
  <2>6. \A r \in Runs : ~In(r, t)'
    BY <2>1 DEF In, Running, Idle
  <2>7. conn'[t] = None
    BY <2>1 DEF Typed
  <2> QED
    BY <1>1, <2>3, <2>4, <2>5, <2>6, <2>7 DEF TabInv
<1>8. ASSUME NEW t \in Tabs, NEW r \in Runs, NEW amount \in Amounts, Submit(t, r, amount)
      PROVE  TabInv'
  <2>1. UNCHANGED <<conn, cookie, snap>> /\ conn[t] # None
    BY <1>8 DEF Submit
  <2>2. PICK q \in ActiveRuns :
           run' = [run EXCEPT ![r] = q] /\ q.tab = t /\ q.call.from = conn[t]
    BY <1>8, SubmitRun
  <2>3. page' = [page EXCEPT ![t].overlay = TRUE]
    BY <1>8 DEF Submit
  <2>4. \A u \in Tabs : /\ page'[u].account = page[u].account
                        /\ page'[u].reloading = page[u].reloading
    BY <1>1, <2>3 DEF Pages
  <2> QED
    BY <2>1, <2>2, <2>4, RunTab
<1>9. ASSUME NEW r \in Runs, Simulate(r) \/ NextCall(r) \/ WriteContract(r)
      PROVE  TabInv'
  <2>1. UNCHANGED <<conn, cookie, page, snap>>
    BY <1>9 DEF Simulate, NextCall, WriteContract
  <2>2. CASE Simulate(r) \/ WriteContract(r)
    <3>1. PICK q \in ActiveRuns :
             run' = [run EXCEPT ![r] = q] /\ q.call = run[r].call
      BY <2>2, SimulateRun, WriteRun DEF Typed
    <3>2. Running(r)
      BY <2>2 DEF Simulate, WriteContract, Running
    <3> QED
      BY <2>1, <3>1, <3>2, RunTab
  <2>3. CASE NextCall(r)
    <3>1. PICK q \in ActiveRuns :
             /\ run' = [run EXCEPT ![r] = q] /\ q.tab = run[r].tab
             /\ q.call.from = conn[run[r].tab] /\ conn[run[r].tab] # None
      BY <2>3, NextCallRun
    <3> QED
      BY <2>1, <3>1, RunTab
  <2> QED
    BY <1>9, <2>2, <2>3
<1>10. ASSUME NEW r \in Runs, Finish(r)
       PROVE  TabInv'
  <2> PICK t : t = run[r].tab
    OBVIOUS
  <2>1. /\ UNCHANGED conn /\ page' = Revisited(t)
        /\ cookie' = [cookie EXCEPT !.txhash = LastHash(r)]
        /\ \/ snap' = Cached(t, [Shot(t) EXCEPT !.overlay = FALSE])
           \/ snap' = snap
    BY <1>10 DEF Finish, CachedByVisit
  <2>2. \A u \in Tabs : /\ page'[u].account = page[u].account
                        /\ page'[u].reloading = page[u].reloading
    BY <1>1, <2>1 DEF Pages, Revisited
  <2>3. cookie'.address = cookie.address
    BY <2>1 DEF Typed
  <2>4. t \in Tabs
    BY <1>10, RunTyped DEF Finish, ReceiptArrived, Running, Typed
  <2>5. \A u \in Tabs, form \in AllForms : \A b \in snap'[u][form] :
          b \in snap[u][form] \/ b.account = page[u].account
    <3>1. PICK hidden : hidden = [Shot(t) EXCEPT !.overlay = FALSE]
      OBVIOUS
    <3>2. hidden \in Bodies /\ hidden.account = page[t].account
      BY <1>1, <2>4, <3>1, ShotTyped
    <3>3. Stored(t, hidden)
      BY <1>1, <2>1, <2>4, <3>1, <3>2, CachedTyped
    <3> QED
      BY <3>2, <3>3 DEF Stored
  <2> QED
    BY <1>10, <2>1, <2>2, <2>3, <2>5, FinishEnds, EndsTab
<1>11. ASSUME NEW r \in Runs, Fail(r)
       PROVE  TabInv'
  <2>1. UNCHANGED <<conn, snap, cookie>> /\ page' = OverlayHidden(run[r].tab)
    BY <1>11 DEF Fail
  <2>2. \A u \in Tabs : /\ page'[u].account = page[u].account
                        /\ page'[u].reloading = page[u].reloading
    BY <1>1, <2>1 DEF Pages, OverlayHidden
  <2> QED
    BY <1>11, <2>1, <2>2, FailEnds, EndsTab
<1>12. ASSUME UNCHANGED <<conn, cookie, page, snap, run>>
       PROVE  TabInv'
  BY <1>12 DEF TabInv, In, Running
<1>13. /\ \A h \in DOMAIN txs :
            Mine(h) \/ Replace(h) => UNCHANGED <<conn, cookie, page, snap, run>>
       /\ \A a \in Choices :
            Switch(a) => UNCHANGED <<conn, cookie, page, snap, run>>
       /\ UNCHANGED vars => UNCHANGED <<conn, cookie, page, snap, run>>
  BY DEF Mine, Replace, Switch, vars
<1>14. ASSUME NEW t \in Tabs, HideNotice(t)
       PROVE  TabInv'
  <2>1. /\ page' = [page EXCEPT ![t].notice = 0, ![t].timers = @ - 1]
        /\ UNCHANGED <<conn, cookie, snap, run>>
    BY <1>14 DEF HideNotice
  <2>2. \A u \in Tabs : /\ page'[u].account = page[u].account
                        /\ page'[u].reloading = page[u].reloading
    BY <1>1, <2>1 DEF Pages
  <2> QED
    BY <2>1, <2>2 DEF TabInv, In, Running
<1> QED
  BY <1>2, <1>4, <1>5, <1>6, <1>7, <1>8, <1>9, <1>10, <1>11, <1>12, <1>13, <1>14 DEF Next

\* In a site open in one tab, users sign for the account the page was rendered for,
\* unless it is about to be reloaded.  Two tabs share the cookie, and there it fails.
THEOREM SignsCorrect == OneTab => (Spec => SignsForRenderedAccount)
<1> SUFFICES ASSUME OneTab PROVE Spec => SignsForRenderedAccount
  OBVIOUS
<1>1. Init => TabInv
  BY InitTab
<1>2. Inv /\ TabInv /\ [Next]_vars => TabInv'
  BY NextTab DEF Inv
<1>3. Inv /\ TabInv /\ [Next]_vars =>
        [\A r \in Runs :
           run[r].pc = "prompt" /\ run'[r].pc = "receipt" =>
             LET t == run[r].tab
             IN run[r].call.from = page[t].account \/ page[t].reloading]_vars
  <2> SUFFICES ASSUME Inv, TabInv, NEW r \in Runs, run[r].pc = "prompt"
               PROVE  \/ run[r].call.from = page[run[r].tab].account
                      \/ page[run[r].tab].reloading
    OBVIOUS
  <2>1. Running(r) /\ run[r].tab \in Tabs
    BY RunTyped DEF Running, Inv, Typed
  <2> QED
    BY <2>1 DEF TabInv, In
<1> QED
  BY <1>1, <1>2, <1>3, InvHolds, PTL DEF Spec, SignsForRenderedAccount
=============================================================================
