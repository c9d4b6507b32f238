----------------------------- MODULE StrategyGMXGM -----------------------------
(***************************************************************************)
(* contracts/StrategyGMXGM.sol: the one asynchronous strategy.  It keeps a *)
(* reserve of the short token, out of which it pays, and the rest in GM    *)
(* tokens of a GMX market.  earn(), which a keeper calls, moves the excess *)
(* over the reserve into the market, or the missing part out of it: it     *)
(* hands tokens to GMX with a request that GMX executes or cancels later,  *)
(* sending tokens and calling the strategy back.  Between the two, trades  *)
(* go on at a rate that counts the request as pending GM tokens.           *)
(*                                                                         *)
(* A transaction is one step.  GMX is not in the repository: its part is   *)
(* what the strategy relies on: one answer to a request, at or above the   *)
(* request's minimum or with the tokens sent back; it ignores a callback   *)
(* that reverts.  Both tokens of the pool are worth 1; Price is the value  *)
(* of a GM token.                                                          *)
(***************************************************************************)
EXTENDS Integers, FiniteSets

CONSTANTS
  Amounts,        \* amounts minted
  Losses,         \* basis points a swap may lose
  Prices,         \* values of a GM token
  Seed,           \* the initial totalShares (1_000_000)
  slippage,       \* basis points (500)
  reserveRatio,   \* basis points (1000)
  HandlerChanges, \* kinds of request whose handler GMX may replace
  MaxTrades,      \* bound on mints, burns and moves of the price
  MaxRequests     \* bound on the requests to GMX

Bps == 10000
Kinds == {"deposit", "withdrawal"}

ASSUME StrategyAssumption ==
  /\ Amounts \subseteq Nat \ {0} /\ Losses \subseteq 0..Bps
  /\ Prices \subseteq Nat \ {0} /\ Seed \in Nat \ {0}
  /\ slippage \in 0..Bps /\ reserveRatio \in 0..Bps
  /\ HandlerChanges \subseteq Kinds
  /\ MaxTrades \in Nat /\ MaxRequests \in Nat

VARIABLES
  totalShares,
  short,          \* the strategy's tokenShort
  long,           \* its tokenLong
  market,         \* its GM tokens
  pending,        \* amountPendingDeposit and amountPendingWithdraw
  requests,       \* GMX: the requests not answered yet, with the tokens they hold
  known,          \* the kinds whose handler, as GMX has it, is the strategy's
  exited,         \* exit() was called: a new implementation holds the assets
  price,          \* marketTokenPrice
  calm,           \* the world outside stands still: no swap loses, nothing moves
  trades, made    \* trades and requests so far

tokens == <<short, long, market>>
vars == <<totalShares, short, long, market, pending, requests, known, exited,
          price, calm, trades, made>>

Init ==
  /\ totalShares = Seed
  /\ short = 0
  /\ long = 0
  /\ market = 0
  /\ pending = [kind \in Kinds |-> 0]
  /\ requests = {}
  /\ known = Kinds
  /\ exited = FALSE
  /\ price \in Prices
  /\ calm \in BOOLEAN
  /\ trades = 0
  /\ made = 0

\* What a swap of something worth v may return.
Swapped(v) == {v - (v * l) \div Bps : l \in IF calm THEN {0} ELSE Losses}

-----------------------------------------------------------------------------
(* Trades: calls of the Investor's proxy *)

\* Mutant: what is pending is not counted.
CountedInHand == long + short + market * price

\* rate(totalShares)
Counted ==
  long + short + (market + pending["deposit"] + pending["withdrawal"]) * price

Rate(shares) == (shares * Counted) \div totalShares

Trade == trades < MaxTrades /\ trades' = trades + 1

Mint(amount) ==
  /\ ~exited
  /\ Trade
  /\ \E val \in Swapped(amount) :
        /\ short' = short + val
        /\ totalShares' = totalShares
             + (IF Counted = 0 THEN val ELSE (val * totalShares) \div Counted)
  /\ UNCHANGED <<long, market, pending, requests, known, exited, price, calm, made>>

\* burn and kill: the shares' worth is paid out of the reserve, which must do.
Burn(shares) ==
  /\ ~exited
  /\ Trade
  /\ shares <= totalShares
  /\ Rate(shares) <= short
  /\ short' = short - Rate(shares)
  /\ totalShares' = totalShares - shares
  /\ UNCHANGED <<long, market, pending, requests, known, exited, price, calm, made>>

-----------------------------------------------------------------------------
(* earn *)

\* Mutant: earn forgets the withdrawal.
OnlyDepositsPend == pending["deposit"] # 0

ActionPending == pending["deposit"] # 0 \/ pending["withdrawal"] # 0

\* The request leaves with its tokens.
Request(r) ==
  /\ made < MaxRequests
  /\ made' = made + 1
  /\ requests' = requests \cup {r}

\* GMX rejects empty requests.  Its GM tokens have 18 decimals and tokenShort is
\* taken to have fewer, so a deposit is empty if it is worth no unit of them.
NotEmpty(gm) == gm > 0

\* The excess goes into the market, half of it as tokenLong.
Deposit(have, need) ==
  LET amt == have - need
      haf == amt \div 2
      minOut == amt \div price
  IN /\ NotEmpty(minOut)
     /\ \E out \in Swapped(haf) :
           Request([kind |-> "deposit", long |-> out, short |-> amt - haf, gm |-> 0,
                    min |-> (minOut * (Bps - slippage)) \div Bps])
     /\ pending' = [pending EXCEPT !["deposit"] = minOut]
     /\ short' = have - amt
     /\ UNCHANGED market

\* The missing part comes out of the market.
Withdraw(have, need) ==
  LET amt == (need - have) \div price
  IN /\ NotEmpty(amt)
     /\ Request([kind |-> "withdrawal", long |-> 0, short |-> 0, gm |-> amt,
                 min |-> (amt * price * (Bps - slippage)) \div Bps])
     /\ pending' = [pending EXCEPT !["withdrawal"] = amt]
     /\ short' = have
     /\ market' = market - amt

\* tokenLong is swapped first; the reserve is reckoned with what that left.
Earn ==
  /\ ~ActionPending
  /\ \E out \in Swapped(long) :
        LET have == short + out
            need == ((have + market * price) * reserveRatio) \div Bps
        IN \/ have > need /\ Deposit(have, need)
           \/ have < need /\ Withdraw(have, need)
           \/ /\ have = need
              /\ short' = have
              /\ UNCHANGED <<market, pending, requests, made>>
  /\ long' = 0
  /\ UNCHANGED <<totalShares, known, exited, price, calm, trades>>

-----------------------------------------------------------------------------
(* GMX answers.  It sends the tokens, then calls back. *)

\* Mutant: the amount is cleared whoever calls back, but only for deposits.
ClearedDeposit(kind) == [pending EXCEPT !["deposit"] = 0]

\* The callbacks revert, with NotGMX, for a handler the strategy does not know.
Cleared(kind) == IF kind \in known THEN [pending EXCEPT ![kind] = 0] ELSE pending

Answered(r) ==
  /\ requests' = requests \ {r}
  /\ pending' = Cleared(r.kind)
  /\ UNCHANGED <<totalShares, known, exited, price, calm, trades, made>>

ExecuteDeposit(r) ==
  LET minted == (r.long + r.short) \div price
  IN /\ r.kind = "deposit"
     /\ minted >= r.min
     /\ market' = market + minted
     /\ UNCHANGED <<short, long>>
     /\ Answered(r)

CancelDeposit(r) ==
  /\ r.kind = "deposit"
  /\ long' = long + r.long
  /\ short' = short + r.short
  /\ UNCHANGED market
  /\ Answered(r)

\* afterWithdrawalExecution swaps tokenLong; a swap that fails is caught.
ExecuteWithdrawal(r) ==
  LET value == r.gm * price
      half == value \div 2
      held == long + half
  IN /\ r.kind = "withdrawal"
     /\ value >= r.min
     /\ \/ /\ r.kind \in known
           /\ long' = 0
           /\ \E out \in Swapped(held) : short' = short + value - half + out
        \/ /\ long' = held
           /\ short' = short + value - half
     /\ UNCHANGED market
     /\ Answered(r)

CancelWithdrawal(r) ==
  /\ r.kind = "withdrawal"
  /\ market' = market + r.gm
  /\ UNCHANGED <<short, long>>
  /\ Answered(r)

Execute(r) == ExecuteDeposit(r) \/ ExecuteWithdrawal(r)
Cancel(r) == CancelDeposit(r) \/ CancelWithdrawal(r)

-----------------------------------------------------------------------------
(* Admin and world *)

\* Mutant: exit does not wait.
ExitAtOnce ==
  /\ ~exited
  /\ exited' = TRUE
  /\ short' = 0 /\ long' = 0 /\ market' = 0
  /\ UNCHANGED <<totalShares, pending, requests, known, price, calm, trades, made>>

\* exit, in a strategyUgrade
Exit ==
  /\ ~exited
  /\ ~ActionPending
  /\ exited' = TRUE
  /\ short' = 0 /\ long' = 0 /\ market' = 0
  /\ UNCHANGED <<totalShares, pending, requests, known, price, calm, trades, made>>

\* GMX moves to a new handler; the admin files its address sooner or later.
HandlerReplaced(kind) ==
  /\ ~calm
  /\ kind \in HandlerChanges \cap known
  /\ known' = known \ {kind}
  /\ UNCHANGED <<totalShares, tokens, pending, requests, exited, price, calm,
                 trades, made>>

FileHandler(kind) ==
  /\ kind \notin known
  /\ known' = known \cup {kind}
  /\ UNCHANGED <<totalShares, tokens, pending, requests, exited, price, calm,
                 trades, made>>

PriceMove(to) ==
  /\ ~calm
  /\ Trade
  /\ to # price
  /\ price' = to
  /\ UNCHANGED <<totalShares, tokens, pending, requests, known, exited, calm,
                 made>>

\* Holders burn all of their shares, or a part that the reserve may do for.
Burns == LET held == totalShares - Seed IN {held \div 20, held \div 10, held}

Next ==
  \/ \E amount \in Amounts : Mint(amount)
  \/ \E shares \in Burns \ {0} : Burn(shares)
  \/ Earn
  \/ \E r \in requests : Execute(r)
  \/ \E r \in requests : Cancel(r)
  \/ Exit
  \/ \E kind \in Kinds : HandlerReplaced(kind)
  \/ \E kind \in Kinds : FileHandler(kind)
  \/ \E to \in Prices : PriceMove(to)

\* GMX's keepers answer every request.
Fairness == WF_vars(\E r \in requests : Execute(r) \/ Cancel(r))

Spec == Init /\ [][Next]_vars
FairSpec == Spec /\ Fairness

-----------------------------------------------------------------------------
(* Properties *)

RequestRecords == [kind : Kinds, long : Nat, short : Nat, gm : Nat, min : Nat]

\* The types of the variables: no balance of a token goes below zero in earn, burn
\* and the callbacks.
TypeOK ==
  /\ totalShares \in Nat \ {0}
  /\ short \in Nat /\ long \in Nat /\ market \in Nat
  /\ pending \in [Kinds -> Nat]
  /\ requests \subseteq RequestRecords
  /\ known \subseteq Kinds
  /\ exited \in BOOLEAN
  /\ price \in Prices
  /\ calm \in BOOLEAN
  /\ trades \in 0..MaxTrades
  /\ made \in 0..MaxRequests

\* earn never has two requests out, also when GMX or the admin changes handlers
\* while one is: the answer to one is never taken for the answer to the other.
OneRequestAtATime == Cardinality(requests) <= 1

\* While GMX keeps its handlers, an amount is pending exactly while its request is
\* with GMX: nothing else ever blocks earn and exit.
PendingMeansInFlight ==
  (calm \/ HandlerChanges = {}) =>
  \A kind \in Kinds : pending[kind] # 0 <=> \E r \in requests : r.kind = kind

\* What the strategy owns, in hand and with GMX.
InFlight(r) == r.long + r.short + r.gm * price

Owned ==
  long + short + market * price
    + (IF requests = {} THEN 0 ELSE InFlight(CHOOSE r \in requests : TRUE))

\* While swaps lose nothing and the price stands still, the rate counts what the
\* strategy owns, to less than one GM token, at every moment of a round trip
\* through GMX: no step of it can be traded on.
RateIsExact == calm => Counted \in (Owned - price + 1)..Owned

\* Nothing arrives at a strategy that has handed its assets over: an exit leaves no
\* request behind whose tokens would come to the old contract.
NothingArrivesAfterExit == exited => requests = {}

\* While GMX keeps its handlers, every pending amount is cleared in the end, so that
\* earn and exit work again: GMX answers every request and either answer clears it.
PendingClears == calm /\ ActionPending ~> ~ActionPending
=============================================================================
