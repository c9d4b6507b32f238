-------------------------------- MODULE FrontEnd --------------------------------
(***************************************************************************)
(* support/app/app.js: the script of the site's pages.  A form's handler   *)
(* runs one or two contract calls inside runTransaction; a call binds the  *)
(* wallet's account, simulates, asks the wallet to sign and waits for the  *)
(* receipt, and between any two of these awaits the user may switch        *)
(* accounts or disconnect, follow a link, submit again from the keyboard   *)
(* (the overlay only stops the mouse) or use another tab.  The tabs share  *)
(* the cookies: the account the server renders pages for, and the hash to  *)
(* be shown after the next page load.  The body that shows it may go into  *)
(* Turbo's cache, and comes back as it was.                                *)
(*                                                                         *)
(* A step is the code between two awaits.  The contracts are reduced to    *)
(* what makes a call revert; a transaction accepted in simulation may      *)
(* revert when it is mined, for others came in between.  The xRDO token,   *)
(* the vester and the distributor are not in the repository: they are      *)
(* modelled from the calls, with the early exit fee of a hundredth that    *)
(* the handler expects.                                                    *)
(***************************************************************************)
EXTENDS Integers, Sequences, FiniteSets

CONSTANTS
  Accounts,   \* the wallet's accounts
  None,       \* no account: not connected, or an empty cookie
  Tabs,       \* the site's open tabs
  Runs,       \* runs of runTransaction that may be in progress
  Choices,    \* what users choose in the wallet: accounts, and None to disconnect
  Forms,      \* the forms users open
  Caching,    \* whether Turbo caches pages
  Amounts,    \* amounts users type
  Approved,   \* the accounts that have approved every spender before
  Deposited,  \* what every account has deposited at first
  Price,      \* half units of value of a share
  MaxTxs      \* bound on the transactions sent

AllForms == {"earnDeposit", "earnWithdraw", "siloDeposit", "siloWithdraw",
             "siloClaim", "rewards", "vesting", "farmList", "farmOpen",
             "farmDeposit", "farmRepay", "farmBorrow", "farmWithdraw"}
Spenders == {"pool", "xrdo", "manager"}
AllFns == {"approve", "mint", "burn", "mintAndAllocate", "deallocate", "burnVesting",
           "claim", "claimReward", "claimVested", "open", "editDeposit", "editRepay",
           "editOther"}

ASSUME FrontEndAssumption ==
  /\ None \notin Accounts /\ Approved \subseteq Accounts
  /\ Choices \subseteq Accounts \cup {None}
  /\ Forms \subseteq AllForms /\ Caching \in BOOLEAN
  /\ Amounts \subseteq Nat \ {0} /\ Deposited \in Nat
  /\ Price \in Nat \ {0} /\ MaxTxs \in Nat
  /\ IsFiniteSet(Runs)

VARIABLES
  wallet,     \* the account selected in the wallet, None when disconnected
  conn,       \* [Tabs]: the account wagmi's state holds
  cookie,     \* address and txhash, shared by the tabs
  page,       \* [Tabs]: the body shown; the form visited next and whether this
              \*   visit has cached a body; the reload asked for; running timers
  snap,       \* [Tabs]: Turbo's cached bodies, by form
  run,        \* [Runs]: the calls in progress
  chain,      \* the contracts
  txs,        \* every transaction sent; a hash is an index
  shown,      \* history: the hashes the handler of turbo:load has shown
  spoiled     \* history: accounts whose withdrawal did not go through whole

vars == <<wallet, conn, cookie, page, snap, run, chain, txs, shown, spoiled>>

Hashes == 0..MaxTxs     \* 0 is the empty cookie, and the hidden notification
NoSnapshots == [form \in AllForms |-> {}]
Idle == [pc |-> "idle"]
Running(r) == run[r].pc # "idle"
In(r, t) == Running(r) /\ run[r].tab = t

-----------------------------------------------------------------------------
(* The contracts *)

\* The spender whose allowance a call needs.
Needs(fn) == CASE fn = "mint" -> {"pool"}
               [] fn = "mintAndAllocate" -> {"xrdo"}
               [] fn \in {"open", "editDeposit"} -> {"manager"}
               [] OTHER -> {}

Accepts(tx) ==
  /\ \A s \in Needs(tx.fn) : <<tx.from, s>> \in chain.allowance
  /\ tx.fn = "burn" => tx.amount <= chain.pool[tx.from]
  /\ tx.fn = "deallocate" => tx.amount <= chain.staked[tx.from]
  /\ tx.fn = "burnVesting" => tx.amount <= chain.free[tx.from]
  /\ tx.fn = "claimReward" => tx.to = tx.for /\ tx.to \notin chain.claimed
  /\ tx.fn \in {"editDeposit", "editRepay", "editOther"} => tx.from = tx.for
  /\ tx.fn = "editRepay" => tx.amount <= chain.farm[tx.from]

Applied(tx) ==
  CASE tx.fn = "approve" ->
         [chain EXCEPT !.allowance = @ \cup {<<tx.from, tx.spender>>}]
    [] tx.fn = "mint" ->
         [chain EXCEPT !.pool[tx.to] = @ + (2 * tx.amount) \div Price]
    [] tx.fn = "burn" -> [chain EXCEPT !.pool[tx.from] = @ - tx.amount]
    [] tx.fn = "mintAndAllocate" -> [chain EXCEPT !.staked[tx.to] = @ + tx.amount]
    [] tx.fn = "deallocate" ->
         [chain EXCEPT !.staked[tx.from] = @ - tx.amount,
                       !.free[tx.from] = @ + (tx.amount * 99) \div 100]
    [] tx.fn = "burnVesting" -> [chain EXCEPT !.free[tx.from] = @ - tx.amount]
    [] tx.fn = "claimReward" -> [chain EXCEPT !.claimed = @ \cup {tx.to}]
    [] tx.fn = "open" -> [chain EXCEPT !.farm[tx.to] = @ + tx.amount]
    [] tx.fn = "editRepay" -> [chain EXCEPT !.farm[tx.from] = @ - tx.amount]
    [] OTHER -> chain

-----------------------------------------------------------------------------
(* Pages *)

\* The contract a form's allowance is for.
SpenderOf(form) == CASE form = "earnDeposit" -> "pool"
                     [] form = "siloDeposit" -> "xrdo"
                     [] OTHER -> "manager"

\* What the server puts into the handler's arguments for account a.
View(form, a) ==
  LET shares == IF a = None THEN 0
                ELSE IF form = "farmRepay" THEN chain.farm[a] ELSE chain.pool[a]
  IN [allowed |-> <<a, SpenderOf(form)>> \in chain.allowance,
      shares  |-> shares,
      value   |-> (shares * Price) \div 2]

\* window.location.pathname drops the query: the path's default tab.
PathDefault(form) == CASE form \in {"earnDeposit", "earnWithdraw"} -> "earnDeposit"
                       [] form \in {"rewards", "vesting"} -> form
                       [] form \in {"siloDeposit", "siloWithdraw", "siloClaim"} ->
                            "siloDeposit"
                       [] OTHER -> "farmList"

\* A page as the server renders it now.
Fresh(form) ==
  [account |-> cookie.address, form |-> form, view |-> View(form, cookie.address),
   overlay |-> FALSE, notice |-> 0]

\* Turbo keeps a clone of the body it replaces: the inline styles and the text
\* of loadingOverlay and txhashOverlay included.
Shot(t) ==
  [account |-> page[t].account, form |-> page[t].form, view |-> page[t].view,
   overlay |-> page[t].overlay, notice |-> page[t].notice]

Cached(t, body) ==
  IF Caching THEN [snap EXCEPT ![t][body.form] = {body}] ELSE snap

\* A body takes the place of another; a visit that goes on, for this is its
\* preview, has cached the other one.
Show(t, body, visiting, reloading, timers) ==
  page' = [page EXCEPT ![t] =
             [account |-> body.account, form |-> body.form, view |-> body.view,
              overlay |-> body.overlay, notice |-> body.notice,
              visiting |-> visiting, cached |-> visiting # "none",
              reloading |-> reloading, timers |-> timers]]

\* Mutant: the hash stays in the cookie.
CookieKept == cookie

CookieCleared == [cookie EXCEPT !.txhash = 0]

\* The handler of turbo:load: the last hash is shown in the body just rendered,
\* with a timer to hide it, and cleared.
OnTurboLoad(t, body, reloading, timers) ==
  LET hash == cookie.txhash
  IN /\ cookie' = CookieCleared
     /\ IF hash = 0
        THEN /\ Show(t, body, "none", reloading, timers)
             /\ UNCHANGED shown
        ELSE /\ Show(t, [body EXCEPT !.notice = hash], "none", reloading, timers + 1)
             /\ shown' = shown \cup {hash}

\* The visit's response is rendered.  A visit caches one body, if it has shown a
\* preview that which the preview replaced.
TurboLoad(t) ==
  /\ page[t].visiting # "none"
  /\ OnTurboLoad(t, Fresh(page[t].visiting), page[t].reloading, page[t].timers)
  /\ snap' = IF page[t].cached THEN snap ELSE Cached(t, Shot(t))
  /\ UNCHANGED <<wallet, conn, run, chain, txs, spoiled>>

\* A link is followed, which the overlay prevents: a cached body is shown as a
\* preview until the response is there.
Visit(t, form) ==
  /\ ~page[t].overlay
  /\ IF snap[t][form] = {}
     THEN /\ page' = [page EXCEPT ![t].visiting = form, ![t].cached = FALSE]
          /\ UNCHANGED snap
     ELSE /\ \E body \in snap[t][form] :
               Show(t, body, form, page[t].reloading, page[t].timers)
          /\ snap' = Cached(t, Shot(t))
  /\ UNCHANGED <<wallet, conn, cookie, run, chain, txs, shown, spoiled>>

\* Back or Forward to a page in the cache, which is not asked for again.
Restore(t, form) ==
  /\ \E body \in snap[t][form] :
       OnTurboLoad(t, body, page[t].reloading, page[t].timers)
  /\ snap' = Cached(t, Shot(t))
  /\ UNCHANGED <<wallet, conn, run, chain, txs, spoiled>>

\* A timer hides the notification of the body that is there by then.
HideNotice(t) ==
  /\ page[t].timers > 0
  /\ page' = [page EXCEPT ![t].notice = 0, ![t].timers = @ - 1]
  /\ UNCHANGED <<wallet, conn, cookie, snap, run, chain, txs, shown, spoiled>>

-----------------------------------------------------------------------------
(* The wallet's account *)

\* Another account is selected, or the wallet disconnected.
Switch(a) ==
  /\ a # wallet
  /\ wallet' = a
  /\ UNCHANGED <<conn, cookie, page, snap, run, chain, txs, shown, spoiled>>

\* Mutant: the page is not reloaded.
NoReload(t, address) == UNCHANGED <<cookie, page>>

Follow(t, address) ==
  IF cookie.address = address
  THEN UNCHANGED <<cookie, page>>
  ELSE /\ cookie' = [cookie EXCEPT !.address = address]
       /\ page' = [page EXCEPT ![t].reloading = TRUE]

\* watchAccount: the tab hears of the wallet's account, or after a load, when
\* it has none, that there is nothing to reconnect to.
OnChange(t) ==
  /\ conn[t] # wallet \/ wallet = None
  /\ conn' = [conn EXCEPT ![t] = wallet]
  /\ Follow(t, wallet)
  /\ UNCHANGED <<wallet, snap, run, chain, txs, shown, spoiled>>

\* A withdrawal went through whole when one account signed both calls and
\* both succeeded.
Whole(r) == /\ Len(run[r].hashes) = 2
            /\ \A i \in 1..2 : /\ txs[run[r].hashes[i]].from = run[r].signer
                               /\ txs[run[r].hashes[i]].status = "success"

Ended(rs) ==
  spoiled' = spoiled \cup {run[r].signer : r \in {q \in rs :
                             run[q].form = "siloWithdraw" /\ run[q].hashes # <<>>
                             /\ ~Whole(q)}}

\* The new document replaces the old one, and with it its runs and timers.
Reload(t) ==
  /\ page[t].reloading
  /\ OnTurboLoad(t, Fresh(page[t].form), FALSE, 0)
  /\ snap' = [snap EXCEPT ![t] = NoSnapshots]
  /\ conn' = [conn EXCEPT ![t] = None]
  /\ run' = [r \in Runs |-> IF In(r, t) THEN Idle ELSE run[r]]
  /\ Ended({r \in Runs : In(r, t)})
  /\ UNCHANGED <<wallet, chain, txs>>

-----------------------------------------------------------------------------
(* Handlers: the calls a form makes *)

Call(fn, amount) == [fn |-> fn, amount |-> amount, spender |-> "none"]

\* allowanceOk, from the page's allowance.
ApproveThen(v, spender, c) ==
  IF v.allowed THEN <<c>>
  ELSE <<[fn |-> "approve", amount |-> 0, spender |-> spender], c>>

\* Mutants: the quotient is rounded up; the sign of an edit is used for a burn.
RoundedUp(amount, v) ==
  LET shares == (amount * v.shares + v.value - 1) \div v.value
  IN IF shares > v.shares THEN v.shares ELSE shares

Negated(amount, v) == 0 - (amount * v.shares) \div v.value

CappedShares(amount, v) ==
  LET shares == (amount * v.shares) \div v.value
  IN IF shares > v.shares THEN v.shares ELSE shares

OnEarn(form, amount, v) ==
  IF form = "earnDeposit" THEN ApproveThen(v, "pool", Call("mint", amount))
  ELSE <<Call("burn", CappedShares(amount, v))>>

\* Mutant: less is burned than was deallocated.
BurnsLess(form, amount, v) ==
  CASE form = "siloDeposit" ->
         ApproveThen(v, "xrdo", Call("mintAndAllocate", amount))
    [] form = "siloWithdraw" ->
         <<Call("deallocate", amount), Call("burnVesting", (amount * 98) \div 100)>>
    [] OTHER -> <<Call("claim", 0)>>

OnSilos(form, amount, v) ==
  CASE form = "siloDeposit" ->
         ApproveThen(v, "xrdo", Call("mintAndAllocate", amount))
    [] form = "siloWithdraw" ->
         <<Call("deallocate", amount), Call("burnVesting", (amount * 99) \div 100)>>
    [] OTHER -> <<Call("claim", 0)>>

OnRewards == <<Call("claimReward", 0)>>

OnVesting == <<Call("claimVested", 0)>>

OnFarmOpen(amount, v) == ApproveThen(v, "manager", Call("open", amount))

OnFarmEdit(form, amount, v) ==
  CASE form = "farmDeposit" -> ApproveThen(v, "manager", Call("editDeposit", amount))
    [] form = "farmRepay" -> <<Call("editRepay", CappedShares(amount, v))>>
    [] OTHER -> <<Call("editOther", amount)>>

Script(form, amount, v) ==
  CASE form \in {"earnDeposit", "earnWithdraw"} -> OnEarn(form, amount, v)
    [] form \in {"siloDeposit", "siloWithdraw", "siloClaim"} ->
         OnSilos(form, amount, v)
    [] form = "rewards" -> OnRewards
    [] form = "vesting" -> OnVesting
    [] form = "farmOpen" -> OnFarmOpen(amount, v)
    [] OTHER -> OnFarmEdit(form, amount, v)

\* A division by a value of zero throws: nothing is sent.
Computable(form, v) == form \in {"earnWithdraw", "farmRepay"} => v.value > 0

-----------------------------------------------------------------------------
(* call() and runTransaction() *)

TakesAddress == {"mint", "burn", "mintAndAllocate", "claimReward", "open"}

\* The arguments are evaluated and getConnectorClient binds the account of the
\* tab, all before the first await.
Bound(c, t, address) ==
  [fn |-> c.fn, amount |-> c.amount, spender |-> c.spender,
   for |-> page[t].account, from |-> conn[t],
   to |-> IF c.fn \in TakesAddress THEN address ELSE None, status |-> "pending"]

\* runTransaction up to its first await.  A run begins while the bound leaves room
\* for its calls.
Submit(t, r, amount) ==
  LET form == page[t].form
      v == page[t].view
      script == Script(form, amount, v)
  IN /\ ~Running(r)
     /\ form # "farmList" /\ conn[t] # None
     /\ Computable(form, v)
     /\ Len(txs) + Len(script) <= MaxTxs
     /\ page' = [page EXCEPT ![t].overlay = TRUE]
     /\ run' = [run EXCEPT ![r] =
          [pc |-> "simulate", tab |-> t, form |-> form, signer |-> conn[t],
           asked |-> amount, view |-> v, hashes |-> <<>>,
           call |-> Bound(Head(script), t, conn[t]), rest |-> Tail(script)]]
     /\ UNCHANGED <<wallet, conn, cookie, snap, chain, txs, shown, spoiled>>

Simulate(r) ==
  /\ run[r].pc = "simulate"
  /\ Accepts(run[r].call)
  /\ run' = [run EXCEPT ![r].pc = "prompt"]
  /\ UNCHANGED <<wallet, conn, cookie, page, snap, chain, txs, shown, spoiled>>

\* The user signs.
WriteContract(r) ==
  /\ run[r].pc = "prompt"
  /\ Len(txs) < MaxTxs
  /\ txs' = Append(txs, run[r].call)
  /\ run' = [run EXCEPT ![r].pc = "receipt", ![r].hashes = Append(@, Len(txs) + 1)]
  /\ UNCHANGED <<wallet, conn, cookie, page, snap, chain, shown, spoiled>>

\* A transaction is mined, whatever became of the page that sent it.
Mine(h) ==
  /\ txs[h].status = "pending"
  /\ IF Accepts(txs[h])
     THEN /\ chain' = Applied(txs[h])
          /\ txs' = [txs EXCEPT ![h].status = "success"]
     ELSE /\ txs' = [txs EXCEPT ![h].status = "failed"]
          /\ UNCHANGED chain
  /\ UNCHANGED <<wallet, conn, cookie, page, snap, run, shown, spoiled>>

\* In the wallet a pending transaction is cancelled, or replaced by one of
\* another kind with the same nonce.
Replace(h) ==
  /\ txs[h].status = "pending"
  /\ txs' = [txs EXCEPT ![h].status = "failed"]
  /\ UNCHANGED <<wallet, conn, cookie, page, snap, run, chain, shown, spoiled>>

LastHash(r) == run[r].hashes[Len(run[r].hashes)]

\* waitForTransactionReceipt resolves with any receipt, that of a reverted
\* transaction or of the one that replaced it too; the hash stays the first one.
ReceiptArrived(r) ==
  run[r].pc = "receipt" /\ txs[LastHash(r)].status # "pending"

\* Mutant: the address is read once, when the run starts.
AddressAtStart(r) == run[r].signer

getAddress(r) == conn[run[r].tab]

\* The vesting time is read from the page when the second call is made, and a
\* call without an account throws.
Callable(r) ==
  LET t == run[r].tab
  IN /\ conn[t] # None
     /\ Head(run[r].rest).fn = "burnVesting" => page[t].form = "siloWithdraw"

NextCall(r) ==
  /\ ReceiptArrived(r)
  /\ run[r].rest # <<>>
  /\ Callable(r)
  /\ run' = [run EXCEPT ![r].pc = "simulate",
               ![r].call = Bound(Head(run[r].rest), run[r].tab, getAddress(r)),
               ![r].rest = Tail(@)]
  /\ UNCHANGED <<wallet, conn, cookie, page, snap, chain, txs, shown, spoiled>>

\* Mutant: the page is not visited again.
NoVisit(t) == [page EXCEPT ![t].overlay = FALSE]

InCache(t, form) == snap[t][form] # {}

\* A replacing visit to the page's own path shows no preview.
Revisited(t) ==
  [page EXCEPT ![t].overlay = FALSE,
               ![t].visiting = PathDefault(page[t].form),
               ![t].cached = InCache(t, PathDefault(page[t].form))]

\* Where there would be a preview, the visit caches the page nevertheless, once
\* the finally clause has hidden the overlay.
CachedByVisit(t) ==
  IF InCache(t, PathDefault(page[t].form))
  THEN Cached(t, [Shot(t) EXCEPT !.overlay = FALSE]) ELSE snap

\* The handler returns the last hash: cookie, visit, and the finally clause.
Finish(r) ==
  /\ ReceiptArrived(r)
  /\ run[r].rest = <<>>
  /\ cookie' = [cookie EXCEPT !.txhash = LastHash(r)]
  /\ page' = Revisited(run[r].tab)
  /\ snap' = CachedByVisit(run[r].tab)
  /\ run' = [run EXCEPT ![r] = Idle]
  /\ Ended({r})
  /\ UNCHANGED <<wallet, conn, chain, txs, shown>>

OverlayHidden(t) == [page EXCEPT ![t].overlay = FALSE]

\* An await rejects: a simulation reverts, the user declines, the RPC fails, or
\* the next call cannot be made.
Fail(r) ==
  /\ Running(r)
  /\ page' = OverlayHidden(run[r].tab)
  /\ run' = [run EXCEPT ![r] = Idle]
  /\ Ended({r})
  /\ UNCHANGED <<wallet, conn, cookie, snap, chain, txs, shown>>

-----------------------------------------------------------------------------
(* Specification *)

Init ==
  /\ wallet \in Choices
  /\ conn = [t \in Tabs |-> None]
  /\ cookie \in [address : Accounts \cup {None}, txhash : {0}]
  /\ run = [r \in Runs |-> Idle]
  /\ chain = [allowance |-> Approved \X Spenders,
              pool |-> [a \in Accounts |-> Deposited],
              farm |-> [a \in Accounts |-> Deposited],
              staked |-> [a \in Accounts |-> Deposited],
              free |-> [a \in Accounts |-> 0], claimed |-> {}]
  /\ \E form \in Forms :
       page = [t \in Tabs |->
                 [account |-> cookie.address, form |-> form,
                  view |-> View(form, cookie.address), overlay |-> FALSE,
                  notice |-> 0, visiting |-> "none", cached |-> FALSE,
                  reloading |-> FALSE, timers |-> 0]]
  /\ snap = [t \in Tabs |-> NoSnapshots]
  /\ txs = <<>>
  /\ shown = {}
  /\ spoiled = {}

Next ==
  \/ \E t \in Tabs : \/ TurboLoad(t) \/ HideNotice(t) \/ OnChange(t) \/ Reload(t)
                     \/ \E form \in Forms : Visit(t, form) \/ Restore(t, form)
                     \/ \E r \in Runs, amount \in Amounts : Submit(t, r, amount)
  \/ \E r \in Runs : \/ Simulate(r) \/ WriteContract(r) \/ NextCall(r)
                     \/ Finish(r) \/ Fail(r)
  \/ \E h \in DOMAIN txs : Mine(h) \/ Replace(h)
  \/ \E a \in Choices : Switch(a)

Spec == Init /\ [][Next]_vars

\* The browser finishes the visits and reloads it has begun.
FairSpec == Spec /\ \A t \in Tabs : WF_vars(TurboLoad(t)) /\ WF_vars(Reload(t))

-----------------------------------------------------------------------------
(* Properties *)

Txs == [fn : AllFns, amount : Nat, spender : Spenders \cup {"none"}, from : Accounts,
        for : Accounts \cup {None}, to : Accounts \cup {None},
        status : {"pending", "success", "failed"}]

\* Types of the state.
TypeOK ==
  /\ wallet \in Accounts \cup {None}
  /\ conn \in [Tabs -> Accounts \cup {None}]
  /\ cookie \in [address : Accounts \cup {None}, txhash : Hashes]
  /\ \A t \in Tabs : /\ page[t].account \in Accounts \cup {None}
                     /\ page[t].form \in AllForms
                     /\ page[t].visiting \in AllForms \cup {"none"}
                     /\ page[t].notice \in Hashes /\ page[t].timers \in Nat
                     /\ \A form \in AllForms : Cardinality(snap[t][form]) <= 1
  /\ \A r \in Runs : Running(r) =>
       /\ run[r].pc \in {"simulate", "prompt", "receipt"}
       /\ run[r].tab \in Tabs /\ run[r].call \in Txs
  /\ chain.allowance \subseteq Accounts \X Spenders
  /\ \A f \in {"pool", "farm", "staked", "free"} : chain[f] \in [Accounts -> Nat]
  /\ txs \in Seq(Txs) /\ Len(txs) <= MaxTxs
  /\ shown \subseteq Hashes /\ spoiled \subseteq Accounts

\* What a deposit, an open or a claim hands to "getAddress()" is the account
\* that signs it, even if the user switched accounts after the approval: the
\* address and the client are read between the same two awaits.
RecipientIsSigner ==
  \A h \in DOMAIN txs : txs[h].fn \in TakesAddress => txs[h].to = txs[h].from

\* Repaying and withdrawing never burn shares worth more than the user typed,
\* by the page's figures, nor more shares than the page showed.
BurnsWhatWasAsked ==
  \A r \in Runs :
    Running(r) /\ run[r].call.fn \in {"burn", "editRepay"} =>
      /\ run[r].call.amount <= run[r].view.shares
      /\ run[r].call.amount * run[r].view.value <= run[r].asked * run[r].view.shares

\* Deallocated tokens stay behind unburned only for an account one of whose
\* withdrawals did not go through whole: the others, in whatever order the calls
\* of several of them are mined, burn what the first calls freed.  The fee is the
\* handler's, and a withdrawal that breaks off is excused.
NothingStranded ==
  \A a \in Accounts :
    chain.free[a] > 0 =>
      \/ a \in spoiled
      \/ \E r \in Runs : Running(r) /\ run[r].signer = a /\ run[r].hashes # <<>>

\* With one tab, a page rendered for another account than the one that signs is
\* about to be reloaded.
SignsForRenderedAccount ==
  [][\A r \in Runs :
       run[r].pc = "prompt" /\ run'[r].pc = "receipt" =>
         LET t == run[r].tab
         IN run[r].call.from = page[t].account \/ page[t].reloading]_vars

\* A hash comes up on a page when the handler of turbo:load shows it, which it
\* does once, in whichever tab loads next, or when a body that showed it comes
\* out of the same tab's cache.
HashesShownOnce ==
  [][\A t \in Tabs :
       LET hash == page'[t].notice
       IN hash # 0 /\ hash # page[t].notice =>
            \/ hash \notin shown
            \/ \E form \in AllForms : \E body \in snap[t][form] : body.notice = hash]_vars

\* A hash left in the cookie is shown in the end, that one or a later one that has
\* taken its place: whatever became of the page of its run, another is loading.
HashIsShown == cookie.txhash # 0 ~> cookie.txhash = 0
=============================================================================
