-------------------------------- MODULE Investor --------------------------------
(***************************************************************************)
(* contracts/Investor.sol: leveraged positions.  A position puts up        *)
(* collateral in the Bank, borrows the pool's asset and puts the loan in a *)
(* strategy, which gives it shares.  Its owner edits it while it is        *)
(* healthy; anybody kills it, wholly or in part, when its life is below 1. *)
(*                                                                         *)
(* A call is one step (loop() forbids re-entrance) and a revert is no      *)
(* step.  Amounts are integers with the code's floor divisions; One stands *)
(* for 1e18.  The pool, the price helper and the tokens are not in the     *)
(* repository: they appear as the code uses them.  The strategy is a vault *)
(* of assets and shares, the accounting all three strategies have in       *)
(* common.  A position's start and basis, which nothing reads, are left    *)
(* out; prices are in units of the pool's asset.                           *)
(***************************************************************************)
EXTENDS Integers, FiniteSetsExt

CONSTANTS
  Owners,           \* addresses that open positions
  NoOne,            \* address(0)
  Tokens,           \* collateral tokens
  One,              \* 1e18: the scale of index, price, factor and life
  Factor,           \* COLLATERAL_FACTOR, one for all tokens
  CollateralCap,    \* COLLATERAL_CAP, one for all tokens
  StrategyCap,      \* STRATEGIES_CAP
  Seed,             \* totalShares of a fresh strategy (1_000_000)
  \* The inputs and the environment
  Collaterals,      \* amounts of collateral added
  Borrows,          \* amounts borrowed
  Repayments,       \* amounts partialKill is called with
  Losses,           \* basis points a swap may lose
  Prices,           \* prices of a collateral token
  MaxIndex,         \* bound on the pool's index
  Yields,           \* percentages the strategy's assets may be scaled to
  Statuses,         \* values the admin gives the two statuses
  \* The bounds
  MaxPositions,     \* on the POSITIONS counter
  MaxCalls,         \* on the calls on positions
  MaxMoves          \* on the moves of market, admin and interest

Bps == 10000

\* The initial values of Investor's parameters, in basis points
performanceFee == 2000
killCollateralPadding == 500
closeCollateralPadding == 400

STATUS_LIVE == 4
STATUS_WITHDRAW == 3
STATUS_LIQUIDATE == 2
STATUS_PAUSED == 1

ASSUME InvestorAssumption ==
  /\ NoOne \notin Owners
  /\ One \in Nat \ {0} /\ MaxIndex \in Nat /\ MaxIndex >= One
  /\ Factor \in Nat /\ CollateralCap \in Nat
  /\ StrategyCap \in Nat /\ Seed \in Nat \ {0}
  /\ Collaterals \subseteq Nat /\ Borrows \subseteq Nat
  /\ Repayments \subseteq Nat \ {0}
  /\ Losses \subseteq 0..Bps /\ Prices \subseteq Nat \ {0}
  /\ Yields \subseteq Nat /\ Statuses \subseteq Nat
  /\ MaxPositions \in Nat /\ MaxCalls \in Nat /\ MaxMoves \in Nat

Ids == 1..MaxPositions

VARIABLES
  status,           \* STATUS
  strategyStatus,   \* STRATEGIES_STATUS of the strategy
  count,            \* POSITIONS
  pos,              \* the positions in the store
  sameBlock,        \* the ids with lastBlock[id] = block.number
  bank,             \* tokens the Bank holds
  debt,             \* borrow shares the pool has on the Investor's account
  index,            \* the pool's getUpdatedIndex()
  vault,            \* the strategy: its totalShares, and what they are worth
  cash,             \* pool asset held by the Investor: the fees
  price,            \* helper.price of each token
  calls, moves,     \* calls and environment moves so far
  changed           \* history: the ids whose position changed in this block

books == <<pos, bank, debt, vault, cash>>
admin == <<status, strategyStatus>>
vars == <<status, strategyStatus, count, pos, sameBlock, bank, debt, index,
          vault, cash, price, calls, moves, changed>>

NoPosition ==
  [owner |-> NoOne, token |-> NoOne, collateral |-> 0, borrow |-> 0, shares |-> 0]

Init ==
  /\ status = STATUS_LIVE
  /\ strategyStatus = STATUS_LIVE
  /\ count = 0
  /\ pos = [id \in Ids |-> NoPosition]
  /\ sameBlock = {}
  /\ bank = [t \in Tokens |-> 0]
  /\ debt = 0
  /\ index = One
  /\ vault = [totalShares |-> Seed, assets |-> 0]
  /\ cash = 0
  /\ price \in [Tokens -> Prices]
  /\ calls = 0
  /\ moves = 0
  /\ changed = {}

LowerOf(a, b) == IF a < b THEN a ELSE b

-----------------------------------------------------------------------------
(* The strategy, the helper and the pool *)

\* rate(shares)
Rate(v, shares) == (shares * v.assets) \div v.totalShares

\* What a swap of something worth v may return.
Swapped(v) == {v - (v * l) \div Bps : l \in Losses}

\* Mutant: shares at par, whatever a share is worth.
MintedAtPar(v, out) == out

\* mint: shares for what the swap of the deposit returned
Minted(v, out) == IF v.assets = 0 THEN out ELSE (out * v.totalShares) \div v.assets

AfterMint(v, out) ==
  [totalShares |-> v.totalShares + Minted(v, out), assets |-> v.assets + out]

\* Mutant: the assets go, the totalShares stay.
AfterBurnUncounted(v, shares) == [v EXCEPT !.assets = @ - Rate(v, shares)]

\* burn and kill take the shares' part of the assets out
AfterBurn(v, shares) ==
  [totalShares |-> v.totalShares - shares, assets |-> v.assets - Rate(v, shares)]

\* helper.value(token, amount), and helper.convert(asset, token, amount)
Value(token, amount) == (amount * price[token]) \div One
Convert(token, amount) == (amount * One) \div price[token]

\* pool.borrow(amount) returns borrow shares; pool.repay(shares) pulls the
\* asset they stand for.
BorrowShares(amount) == (amount * One) \div index
Owed(shares) == (shares * index) \div One

\* _life, with One for 1e18
Life(p, v) ==
  IF p.borrow = 0 THEN One
  ELSE LET value == Rate(v, p.shares) + Value(p.token, p.collateral)
       IN (((value * Factor) \div One) * One) \div Owed(p.borrow)

-----------------------------------------------------------------------------
(* One call's books: the position in memory and the balances it touches.    *)
(* Each part of a call maps books to the set of books it may leave; a part  *)
(* that reverts leaves none.                                                *)

Books(p) == [p |-> p, bank |-> bank, debt |-> debt, vault |-> vault, cash |-> cash]

\* setPosition and the end of the call
Commit(id, b) ==
  /\ pos' = [pos EXCEPT ![id] = b.p]
  /\ bank' = b.bank
  /\ debt' = b.debt
  /\ vault' = b.vault
  /\ cash' = b.cash
  /\ sameBlock' = sameBlock \cup {id}
  /\ changed' = IF b.p = pos[id] THEN changed ELSE changed \cup {id}
  /\ calls' = calls + 1
  /\ UNCHANGED <<status, strategyStatus, index, price, moves>>

\* Mutant: the position's collateral is not lowered.
TakenOutTwice(b, amount) == [b EXCEPT !.bank[b.p.token] = @ - amount]

\* pullToBank and the position's collateral
Deposited(b, amount) ==
  [b EXCEPT !.p.collateral = @ + amount, !.bank[b.p.token] = @ + amount]

\* bank.transfer out of the position's collateral
TakenOut(b, amount) ==
  [b EXCEPT !.p.collateral = @ - amount, !.bank[b.p.token] = @ - amount]

\* pool.borrow, push to the strategy proxy, mint
BorrowMore(b, amount) ==
  {[b EXCEPT !.p.borrow = @ + BorrowShares(amount),
             !.p.shares = @ + Minted(b.vault, out),
             !.debt = @ + BorrowShares(amount),
             !.vault = AfterMint(@, out)] : out \in Swapped(amount)}

\* Mutant: the approval is unlimited.
RepaidBeyondApproval(b, repaying, allowance) ==
  LET used == Owed(repaying)
  IN IF used > b.cash + allowance THEN {}
     ELSE {[b EXCEPT !.p.borrow = @ - repaying,
                     !.debt = @ - repaying,
                     !.cash = @ + allowance - used]}

\* Mutant: the borrow of the position is cleared, whatever was repaid.
RepaidInFull(b, repaying, allowance) ==
  IF Owed(repaying) > allowance THEN {}
  ELSE {[b EXCEPT !.p.borrow = 0,
                  !.debt = @ - repaying,
                  !.cash = @ + allowance - Owed(repaying)]}

\* approve(allowance) and pool.repay(repaying): the pool pulls at most what the
\* Investor approved, and what is left goes to the owner but for the fee.
Repaid(b, repaying, allowance) ==
  LET used == Owed(repaying)
      push == ((allowance - used) * (Bps - performanceFee)) \div Bps
  IN IF used > allowance THEN {}
     ELSE {[b EXCEPT !.p.borrow = @ - repaying,
                     !.debt = @ - repaying,
                     !.cash = @ + allowance - used - push]}

\* Mutant: selling the last shares is not a special case.
RepayingProceeds(p, shares, amount) == LowerOf(BorrowShares(amount), p.borrow)

\* Selling the last shares repays the whole borrow; otherwise the proceeds do
\* what they can.
Repaying(p, shares, amount) ==
  IF shares = p.shares THEN p.borrow ELSE LowerOf(BorrowShares(amount), p.borrow)

\* Mutant: more collateral is sold than the position has.
CollateralToSellUncapped(p, missing) ==
  (Convert(p.token, missing) * (Bps + closeCollateralPadding)) \div Bps

\* Mutant: exactly what is missing is sold.
CollateralToSellUnpadded(p, missing) == LowerOf(Convert(p.token, missing), p.collateral)

\* The collateral sold, with some padding, for what is missing
CollateralToSell(p, missing) ==
  LowerOf((Convert(p.token, missing) * (Bps + closeCollateralPadding)) \div Bps,
          p.collateral)

\* Edit's part 2
SellShares(b, shares) ==
  UNION {
    LET left == [b EXCEPT !.p.shares = @ - shares, !.vault = AfterBurn(@, shares)]
        repaying == Repaying(b.p, shares, amount)
        missing == Owed(b.p.borrow) - amount
        sold == CollateralToSell(b.p, missing)
    IN IF shares # b.p.shares \/ missing <= 0
       THEN Repaid(left, repaying, amount)
       ELSE UNION {Repaid(TakenOut(left, sold), repaying, amount + topup) :
                     topup \in Swapped(Value(b.p.token, sold))}
    : amount \in Swapped(Rate(b.vault, shares))}

-----------------------------------------------------------------------------
(* The calls on positions *)

\* Mutant: borrowing while the strategy is winding down.
LiveInvestor == status >= STATUS_LIVE

Live == status >= STATUS_LIVE /\ strategyStatus >= STATUS_LIVE
CanWithdraw == status >= STATUS_WITHDRAW /\ strategyStatus >= STATUS_WITHDRAW
CanLiquidate == status >= STATUS_LIQUIDATE /\ strategyStatus >= STATUS_LIQUIDATE

Open(owner, token, collateral, borrow) ==
  LET id == count + 1
      p == [NoPosition EXCEPT !.owner = owner, !.token = token]
  IN /\ calls < MaxCalls
     /\ id \in Ids
     /\ Live
     /\ CollateralCap # 0
     /\ bank[token] + collateral <= CollateralCap
     /\ vault.totalShares # 0
     /\ count' = id
     /\ \E b \in BorrowMore(Deposited(Books(p), collateral), borrow) :
           /\ Life(b.p, b.vault) >= One
           /\ Rate(b.vault, b.vault.totalShares) <= StrategyCap
           /\ Commit(id, b)

\* An edit sells shares or borrows asset, and adds or takes collateral: the code
\* tells them apart by the signs of its two parameters.  An owner sells, or takes,
\* nothing, half or all.
Parts(n) == {0, n \div 2, n}

Edits(id) ==
  {e \in [sell : Parts(pos[id].shares), borrow : Borrows \cup {0},
          add : Collaterals \cup {0}, take : Parts(pos[id].collateral)] :
     (e.sell = 0 \/ e.borrow = 0) /\ (e.add = 0 \/ e.take = 0)}

EditChecks(caller, id, e) ==
  /\ calls < MaxCalls
  /\ pos[id].owner = caller
  /\ e.sell <= pos[id].shares
  /\ e.borrow > 0 => pos[id].shares # 0
  /\ e.take <= pos[id].collateral
  /\ id \notin sameBlock
  /\ IF e.borrow > 0 THEN Live ELSE CanWithdraw
  /\ e.add > 0 => bank[pos[id].token] + e.add <= CollateralCap

\* Parts 1 and 4 around part 2 or 3
EditBooks(id, e) ==
  LET start == Deposited(Books(pos[id]), e.add)
      traded == IF e.sell > 0 THEN SellShares(start, e.sell)
                ELSE IF e.borrow > 0 THEN BorrowMore(start, e.borrow)
                ELSE {start}
  IN IF e.take = 0 THEN traded
     ELSE {TakenOut(b, LowerOf(e.take, b.p.collateral)) : b \in traded}

Edit(caller, id, e) ==
  /\ EditChecks(caller, id, e)
  /\ \E b \in EditBooks(id, e) :
        /\ Life(b.p, b.vault) >= One
        /\ e.borrow > 0 => Rate(b.vault, b.vault.totalShares) <= StrategyCap
        /\ Commit(id, b)
  /\ UNCHANGED count

\* Mutant: the block of the last change is not looked at.
KillableAtOnce(id) == Life(pos[id], vault) < One /\ CanLiquidate

\* Checks of kill and partialKill
Killable(id) ==
  /\ Life(pos[id], vault) < One
  /\ CanLiquidate
  /\ id \notin sameBlock

\* Mutant: collateral for the whole target, beside the shares.
SeizedCollateralWhole(p, target, worth) ==
  IF worth >= target THEN 0 ELSE LowerOf(Convert(p.token, target), p.collateral)

\* The collateral taken when the shares are worth less than the target
SeizedCollateral(p, target, worth) ==
  IF worth >= target THEN 0
  ELSE LowerOf(Convert(p.token, target - worth), p.collateral)

SeizedShares(p, target, worth) == LowerOf((p.shares * target) \div worth, p.shares)

\* The liquidator pays `repaid` and the fee, takes shares worth up to target
\* and, when those do not do, collateral; the division by the shares' worth
\* reverts when they are worth nothing, the pool's pull when it exceeds the
\* approved `repaid`, the subtraction when `repaying` exceeds the borrow.
Seized(id, repaying, repaid) ==
  LET p == pos[id]
      fee == (repaid * killCollateralPadding) \div (2 * Bps)
      target == repaid + 2 * fee
      worth == Rate(vault, p.shares)
      taken == TakenOut(Books(p), SeizedCollateral(p, target, worth))
      shares == SeizedShares(p, target, worth)
  IN IF worth = 0 \/ Owed(repaying) > repaid \/ repaying > p.borrow THEN {}
     ELSE {[taken EXCEPT !.p.shares = @ - shares,
                         !.p.borrow = @ - repaying,
                         !.debt = @ - repaying,
                         !.vault = AfterBurn(@, shares),
                         !.cash = @ + fee + repaid - Owed(repaying)]}

\* kill repays the whole borrow.
Kill(id) ==
  /\ calls < MaxCalls
  /\ Killable(id)
  /\ \E b \in Seized(id, pos[id].borrow, Owed(pos[id].borrow)) : Commit(id, b)
  /\ UNCHANGED count

\* partialKill passes amount, which it compares with the debt in the pool's
\* asset, to pool.repay and to the position as borrow shares.
PartialKill(id, amount) ==
  /\ calls < MaxCalls
  /\ amount > 0
  /\ Killable(id)
  /\ amount <= Owed(pos[id].borrow)
  /\ \E b \in Seized(id, amount, amount) : Commit(id, b)
  /\ UNCHANGED count

-----------------------------------------------------------------------------
(* The admin and the world *)

Move == moves < MaxMoves /\ moves' = moves + 1

\* file("status", data)
SetStatus(s) ==
  /\ Move
  /\ s \in 1..4
  /\ status' = s
  /\ UNCHANGED <<books, strategyStatus, count, sameBlock, index, price, calls,
                 changed>>

SetStrategyStatus(s) ==
  /\ Move
  /\ strategyStatus' = s
  /\ UNCHANGED <<books, status, count, sameBlock, index, price, calls, changed>>

\* collect(asset)
Collect ==
  /\ Move
  /\ cash > 0
  /\ cash' = 0
  /\ UNCHANGED <<admin, count, pos, sameBlock, bank, debt, vault, index, price,
                 calls, changed>>

\* The pool charges interest.
Accrue ==
  /\ Move
  /\ index < MaxIndex
  /\ index' = index + 1
  /\ UNCHANGED <<books, admin, count, sameBlock, price, calls, changed>>

PriceMove(token, to) ==
  /\ Move
  /\ to # price[token]
  /\ price' = [price EXCEPT ![token] = to]
  /\ UNCHANGED <<books, admin, count, sameBlock, index, calls, changed>>

\* The strategy earns or loses.
Yield(percent) ==
  /\ Move
  /\ vault' = [vault EXCEPT !.assets = (@ * percent) \div 100]
  /\ vault' # vault
  /\ UNCHANGED <<admin, count, pos, sameBlock, bank, debt, cash, index, price,
                 calls, changed>>

NextBlock ==
  /\ sameBlock' = {}
  /\ changed' = {}
  /\ UNCHANGED <<books, admin, count, index, price, calls, moves>>

World ==
  \/ \E s \in Statuses : SetStatus(s)
  \/ \E s \in Statuses : SetStrategyStatus(s)
  \/ Collect
  \/ Accrue
  \/ \E token \in Tokens, to \in Prices : PriceMove(token, to)
  \/ \E percent \in Yields : Yield(percent)
  \/ NextBlock

Next ==
  \/ \E owner \in Owners, token \in Tokens, c \in Collaterals, b \in Borrows :
        Open(owner, token, c, b)
  \/ \E caller \in Owners, id \in Ids : \E e \in Edits(id) : Edit(caller, id, e)
  \/ \E id \in Ids : Kill(id)
  \/ \E id \in Ids, amount \in Repayments : PartialKill(id, amount)
  \/ World

Spec == Init /\ [][Next]_vars

-----------------------------------------------------------------------------
(* Properties *)

Position ==
  [owner : Owners \cup {NoOne}, token : Tokens \cup {NoOne},
   collateral : Nat, borrow : Nat, shares : Nat]

\* The types of the variables.  Every amount is a natural number: the unsigned
\* subtractions of open, edit, kill, partialKill and of the strategy's burn never
\* go below zero.
TypeOK ==
  /\ status \in 1..4
  /\ strategyStatus \in Nat
  /\ count \in 0..MaxPositions
  /\ pos \in [Ids -> Position]
  /\ sameBlock \subseteq Ids
  /\ bank \in [Tokens -> Nat]
  /\ debt \in Nat
  /\ index \in One..MaxIndex
  /\ vault \in [totalShares : Nat, assets : Nat]
  /\ cash \in Nat
  /\ price \in [Tokens -> Prices]
  /\ calls \in 0..MaxCalls
  /\ moves \in 0..MaxMoves
  /\ changed \subseteq sameBlock

\* What each position has of a kind; of collateral, in one token
Held(what) == [id \in Ids |-> pos[id][what]]
HeldIn(token) == [id \in Ids |-> IF pos[id].token = token THEN pos[id].collateral ELSE 0]

\* The strategy's totalShares are the positions' shares and the seed its
\* constructor gives: nobody's shares are counted twice by open, edit, kill and
\* partialKill, and no share of a position is unknown to the strategy.
SharesBacked == vault.totalShares = Seed + SumFunctionOnSet(Held("shares"), Ids)

\* The borrow shares the pool holds against the Investor are the positions'.
DebtMatches == debt = SumFunctionOnSet(Held("borrow"), Ids)

\* The Bank holds of each token the collateral of the positions in it: every
\* position can take its collateral out, whatever the others did.
CollateralBacked ==
  \A t \in Tokens : bank[t] = SumFunctionOnSet(HeldIn(t), Ids)

\* A step of a caller, not of the market or the admin
Called == moves' = moves

\* No open, edit, kill or partialKill lowers what a share of the strategy is
\* worth: minting and burning round against the one who trades.
NoDilution ==
  [][Called => vault'.assets * vault.totalShares >= vault.assets * vault'.totalShares]_vars

Healthy(id) == Life(pos[id], vault) >= One

\* No call, on whatever position, makes a healthy position liquidatable: an
\* edit ends with the check of life, and a trade in the strategy never costs
\* the other positions.  Only prices, interest and yield do.
HealthyStaysHealthy ==
  [][Called => \A id \in Ids : Healthy(id) => Healthy(id)']_vars

\* The fees that the Investor keeps leave it by collect only: no repayment, however
\* short its swaps fall, is paid out of them.
FeesNeverSpent == [][cash' < cash => cash' = 0 /\ ~Called]_vars

\* A position changes at most once in a block, by open, edit, kill or partialKill.
OncePerBlock == \A id \in Ids : pos'[id] # pos[id] => id \notin changed

\* What each status lets callers do: the debt rises when both statuses are live;
\* a healthy position changes when both allow withdrawals; no position changes
\* when either is paused.
StatusGates ==
  LET lowest == LowerOf(status, strategyStatus)
  IN /\ debt' > debt => lowest >= STATUS_LIVE
     /\ \A id \in Ids :
          Healthy(id) /\ pos'[id] # pos[id] => lowest >= STATUS_WITHDRAW
     /\ pos' # pos => lowest >= STATUS_LIQUIDATE

\* Both hold of every step, also when a status is lowered or a block ends between
\* an open and the edits and liquidations that follow it.
ChangesAreGated == [][OncePerBlock /\ StatusGates]_vars

Closing(id) ==
  [sell |-> pos[id].shares, borrow |-> 0, add |-> 0, take |-> pos[id].collateral]

\* The owner of a healthy position can always close it, though the swaps lose: the
\* shares and the collateral sold, with the padding, repay the whole borrow, also
\* after prices, interest and yield have moved.
HealthyCanClose ==
  \A id \in Ids :
    pos[id].shares # 0 /\ Healthy(id) => EditBooks(id, Closing(id)) # {}

Liquidates(id) == Kill(id) \/ \E amount \in Repayments : PartialKill(id, amount)

\* A position whose last shares go owes nothing afterwards, but for a partial
\* liquidation: edit's closing branch and kill repay the whole borrow.
ClosingRepaysAll ==
  [][\A id \in Ids :
       pos[id].shares # 0 /\ pos'[id].shares = 0 /\ pos'[id].borrow # 0
         => \E amount \in Repayments : PartialKill(id, amount)]_vars

\* A liquidator takes no more, in shares and collateral at their prices, than the
\* debt repaid and the padding of 5% on it: every rounding is against the liquidator.
LiquidatorPremium ==
  [][\A id \in Ids :
       Liquidates(id) =>
         LET repaid == Owed(pos[id].borrow) - Owed(pos'[id].borrow)
             got == Rate(vault, pos[id].shares) - Rate(vault', pos'[id].shares)
                    + Value(pos[id].token, pos[id].collateral)
                    - Value(pos[id].token, pos'[id].collateral)
         IN got * Bps <= repaid * (Bps + killCollateralPadding)]_vars

\* partialKill: `require(amount <= totalBorrow, "Amount exceeds borrow")`: any amount
\* of the pool's asset up to the position's debt can be repaid.  It cannot once
\* the pool has charged interest: the amount is handed to the pool as borrow shares.
PartialKillTakesUpToTheBorrow ==
  \A id \in Ids, amount \in Repayments :
    /\ Killable(id)
    /\ Rate(vault, pos[id].shares) # 0
    /\ amount <= Owed(pos[id].borrow)
    => Seized(id, amount, amount) # {}
=============================================================================
