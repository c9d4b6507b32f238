--------------------------- MODULE StrategyCamelotV3 ---------------------------
(***************************************************************************)
(* contracts/StrategyCamelotV3.sol under Investor.strategyUgrade: shares   *)
(* over LP tokens that are staked in one spNFT of Camelot's NFTPool.  The  *)
(* spNFT is made by the first mint, wanders into a nitro pool and out of   *)
(* it for every unstaking, is burned when it is emptied, and goes from an  *)
(* implementation to the next by exit and move.  Camelot's contracts are   *)
(* not in the repository: their part is what the strategy relies on (who   *)
(* owns an spNFT, who may have it back from a nitro pool, what it holds).  *)
(*                                                                         *)
(* A transaction is one step.  Amounts are LP tokens: liq is what          *)
(* uniProxy.deposit returned for a deposit or a reward, after the swaps    *)
(* and within the slippage.                                                *)
(***************************************************************************)
EXTENDS Integers, Sequences

CONSTANTS
  Impls,       \* deployed implementations
  First,       \* the one the strategy starts with
  NitroPools,
  NoOne,       \* address(0)
  Amounts,     \* LP tokens of a deposit or a reward
  Seed,        \* the initial totalShares (1_000_000)
  MaxCalls,    \* bound on the calls
  MaxUpgrades  \* bound on strategyUgrade

ASSUME CamelotAssumption ==
  /\ First \in Impls
  /\ NoOne \notin NitroPools \cup Impls /\ NitroPools \cap Impls = {}
  /\ Amounts \subseteq Nat \ {0} /\ Seed \in Nat \ {0}
  /\ MaxCalls \in Nat /\ MaxUpgrades \in Nat

VARIABLES
  current,   \* the implementation on file in the Investor
  impl,      \* every implementation's totalShares, tokenId and nitroPool
  spNFTs,    \* NFTPool: by id, owner, depositor in the owning nitro pool, LP tokens
  held,      \* shares of the Investor's positions
  calls, upgrades

vars == <<current, impl, spNFTs, held, calls, upgrades>>

Init ==
  /\ current = First
  /\ impl = [i \in Impls |-> [totalShares |-> Seed, tokenId |-> 0, nitroPool |-> NoOne]]
  /\ spNFTs = <<>>
  /\ held = 0
  /\ calls = 0
  /\ upgrades = 0

S == impl[current]

totalManagedAssets == IF S.tokenId = 0 THEN 0 ELSE spNFTs[S.tokenId].amount

Call == calls < MaxCalls /\ calls' = calls + 1 /\ UNCHANGED <<current, upgrades>>

\* Implementation i has the spNFT, or gets it from the pool's withdraw.
Has(i, pool, nft) ==
  IF pool = NoOne THEN nft.owner = i ELSE nft.owner = pool /\ nft.depositor = i

\* nitroPool.withdraw, as far as there is a pool: the spNFT is alive and in hand.
InHand ==
  /\ totalManagedAssets > 0
  /\ Has(current, S.nitroPool, spNFTs[S.tokenId])

Put(id, pool, i, amount) ==
  spNFTs' = [spNFTs EXCEPT ![id] =
               IF pool = NoOne
               THEN [owner |-> i, depositor |-> NoOne, amount |-> amount]
               ELSE [owner |-> pool, depositor |-> i, amount |-> amount]]

-----------------------------------------------------------------------------
(* Trades *)

\* stake: into the spNFT, or into a new one when there is none or it was burned.
Stake(liq, shares) ==
  \/ /\ InHand
     /\ spNFTs' = [spNFTs EXCEPT ![S.tokenId].amount = @ + liq]
     /\ impl' = [impl EXCEPT ![current].totalShares = @ + shares]
  \/ /\ totalManagedAssets = 0
     /\ spNFTs' = Append(spNFTs, [owner |-> current, depositor |-> NoOne, amount |-> liq])
     /\ impl' = [impl EXCEPT ![current] = [totalShares |-> @.totalShares + shares,
                                           tokenId |-> Len(spNFTs) + 1,
                                           nitroPool |-> @.nitroPool]]

\* Mutant: one share per LP token.
IssuedAtPar(liq) == liq

Issued(liq) ==
  IF totalManagedAssets = 0 THEN liq
  ELSE (liq * S.totalShares) \div totalManagedAssets

Mint(liq) ==
  /\ Call
  /\ Stake(liq, Issued(liq))
  /\ held' = held + Issued(liq)

\* earn: harvesting needs the spNFT, the rate some shares.
Earn(liq) ==
  /\ Call
  /\ InHand
  /\ S.totalShares > 0
  /\ Stake(liq, 0)
  /\ UNCHANGED held

\* Mutant: in favour of who leaves.
WorthRoundedUp(shares) ==
  (shares * totalManagedAssets + S.totalShares - 1) \div S.totalShares

Worth(shares) == (shares * totalManagedAssets) \div S.totalShares

\* What burn and kill need: an emptied spNFT is burned by withdrawFromPosition and
\* cannot be given back to the nitro pool.
CanTake(shares) ==
  /\ InHand
  /\ shares <= S.totalShares
  /\ Worth(shares) <= totalManagedAssets
  /\ S.nitroPool # NoOne => Worth(shares) < totalManagedAssets

\* Mutant: unstake does not give the spNFT back to the nitro pool.
KeepInHand(amount) == Put(S.tokenId, NoOne, current, amount)

\* The end of unstake; nobody owns a burned spNFT.
GiveBack(amount) == Put(S.tokenId, S.nitroPool, IF amount = 0 THEN NoOne ELSE current, amount)

\* burn and kill
Take(shares) ==
  /\ Call
  /\ CanTake(shares)
  /\ GiveBack(totalManagedAssets - Worth(shares))
  /\ impl' = [impl EXCEPT ![current].totalShares = @ - shares]
  /\ held' = held - shares

-----------------------------------------------------------------------------
(* Admin *)

\* Out of the pool there is, or from hand into one.
SetNitroPool(pool) ==
  /\ Call
  /\ InHand
  /\ (pool = NoOne) # (S.nitroPool = NoOne)
  /\ Put(S.tokenId, pool, current, totalManagedAssets)
  /\ impl' = [impl EXCEPT ![current].nitroPool = pool]
  /\ UNCHANGED held

\* exit, which wants the spNFT if there ever was one, and the transfer in move
Moved(new) ==
  IF S.tokenId = 0 THEN UNCHANGED spNFTs
  ELSE InHand /\ Put(S.tokenId, S.nitroPool, new, totalManagedAssets)

\* strategyUgrade: exit of the old implementation, then move of the new one, which
\* copies all but totalShares.
Upgrade(new) ==
  /\ upgrades < MaxUpgrades
  /\ upgrades' = upgrades + 1
  /\ Moved(new)
  /\ impl' = [impl EXCEPT ![new] = [S EXCEPT !.totalShares = impl[new].totalShares]]
  /\ current' = new
  /\ UNCHANGED <<held, calls>>

Next ==
  \/ \E liq \in Amounts : Mint(liq)
  \/ \E liq \in Amounts : Earn(liq)
  \/ \E shares \in 1..held : Take(shares)
  \/ \E pool \in NitroPools \cup {NoOne} : SetNitroPool(pool)
  \/ \E new \in Impls \ {current} : Upgrade(new)

Spec == Init /\ [][Next]_vars

-----------------------------------------------------------------------------
(* Properties *)

Addresses == Impls \cup NitroPools \cup {NoOne}

\* The types of the variables: shares are lowered only as far as there are some, in
\* mint, burn and kill before and after an upgrade.
TypeOK ==
  /\ current \in Impls
  /\ impl \in [Impls -> [totalShares : Nat, tokenId : 0..Len(spNFTs),
                         nitroPool : NitroPools \cup {NoOne}]]
  /\ spNFTs \in Seq([owner : Addresses, depositor : Addresses, amount : Nat])
  /\ held \in Nat
  /\ calls \in 0..MaxCalls
  /\ upgrades \in 0..MaxUpgrades

\* Wherever stake, unstake, setNitroPool, exit and move have left them, all staked LP
\* tokens are in the spNFT that the current implementation records, and the current
\* implementation has it or gets it from the nitro pool it records: no call strands
\* the assets in another contract, another spNFT, or a pool that would not return it.
SpNFTInReach ==
  \A id \in DOMAIN spNFTs :
     spNFTs[id].amount > 0 =>
        id = S.tokenId /\ Has(current, S.nitroPool, spNFTs[id])

\* Until the first upgrade any part of the held shares can be burned or killed: also
\* the last holder's, although an emptied spNFT could not go back to the nitro pool.
HoldersCanLeave == upgrades = 0 => \A shares \in 1..held : CanTake(shares)

\* What a share is worth never falls by a mint, burn, kill, earn or change of the
\* nitro pool: rounding is always in favour of the holders who stay.
RateNeverFalls ==
  [][upgrades' = upgrades =>
       totalManagedAssets' * S.totalShares >= totalManagedAssets * S'.totalShares]_vars

\* totalShares is, as its comment says, what the strategy has issued: no position's
\* shares are beyond it, after strategyUgrade either.
SharesIssuedAreTotal == held <= S.totalShares
=============================================================================
