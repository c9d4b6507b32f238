-------------------------- MODULE StrategyGMXGM_proofs --------------------------
(***************************************************************************)
(* Proofs about StrategyGMXGM for any amounts, losses, prices, slippage,   *)
(* reserve and bounds.                                                     *)
(*                                                                         *)
(* That earn has at most one request out needs to be strengthened: the two *)
(* amounts are what earn and exit look at, so every request must have left *)
(* its amount pending (Tracked).  That holds whatever handlers do, for a   *)
(* callback that is refused leaves more pending, not less.                 *)
(***************************************************************************)
EXTENDS StrategyGMXGM, FiniteSetTheorems, TLAPS

-----------------------------------------------------------------------------
(* Arithmetic: floor division, basis points and swaps *)

\* Floor division of natural numbers gives no more than was there.
LEMMA DivNat ==
  ASSUME NEW a \in Nat, NEW d \in Nat \ {0}
  PROVE  /\ a \div d \in Nat
         /\ a \div d <= a
         /\ (a \div d) * d <= a
<1>1. a \div d \in Nat /\ a \div d <= a
  BY SMT
<1>2. (a \div d) * d <= a
  BY SMT
<1> QED
  BY <1>1, <1>2

\* A quotient is bounded by any b that its divisor times reaches the dividend.
LEMMA DivBound ==
  ASSUME NEW a \in Nat, NEW b \in Nat, NEW d \in Nat \ {0}, a <= b * d
  PROVE  a \div d <= b
BY SMT

\* Products of natural numbers are natural numbers.
LEMMA TimesNat ==
  ASSUME NEW a \in Nat, NEW b \in Nat
  PROVE  a * b \in Nat
BY SMT

\* A part in basis points is at most the whole.
LEMMA BpsPart ==
  ASSUME NEW a \in Nat, NEW b \in 0..Bps
  PROVE  /\ (a * b) \div Bps \in Nat
         /\ (a * b) \div Bps <= a
<1>1. /\ a * b \in Nat
      /\ a * b <= a * Bps
  BY SMT DEF Bps
<1>2. Bps \in Nat \ {0}
  BY DEF Bps
<1> QED
  BY <1>1, <1>2, DivNat, DivBound

\* The assumption on the constants in parts: basis points stay in their range, and so
\* does what slippage leaves of a whole.
LEMMA Constants ==
  /\ Amounts \subseteq Nat \ {0} /\ Losses \subseteq 0..Bps
  /\ slippage \in 0..Bps /\ Bps - slippage \in 0..Bps
  /\ reserveRatio \in 0..Bps
  /\ Prices \subseteq Nat \ {0} /\ Seed \in Nat \ {0}
  /\ MaxTrades \in Nat /\ MaxRequests \in Nat
<1>1. /\ Amounts \subseteq Nat \ {0} /\ Losses \subseteq 0..Bps
      /\ slippage \in 0..Bps /\ reserveRatio \in 0..Bps
      /\ Prices \subseteq Nat \ {0} /\ Seed \in Nat \ {0}
      /\ MaxTrades \in Nat /\ MaxRequests \in Nat
  BY StrategyAssumption, Zenon DEF StrategyAssumption
<1>2. \A s \in 0..Bps : Bps - s \in 0..Bps
  BY SMTT(30) DEF Bps
<1> QED
  BY <1>1, <1>2

\* A swap returns no more than it was given, and never less than nothing.
LEMMA SwappedNat ==
  ASSUME NEW v \in Nat, NEW out \in Swapped(v)
  PROVE  out \in Nat /\ out <= v
<1>1. PICK l \in IF calm THEN {0} ELSE Losses : out = v - (v * l) \div Bps
  BY DEF Swapped
<1> DEFINE lost == (v * l) \div Bps
<1>2. l \in 0..Bps
  <2>1. 0 \in 0..Bps
    BY DEF Bps
  <2> QED
    BY <2>1, Constants, Zenon
<1>3. lost \in Nat /\ lost <= v
  BY <1>2, BpsPart
<1> HIDE DEF lost
<1>4. v - lost \in Nat /\ v - lost <= v
  BY <1>3
<1> QED
  BY <1>1, <1>4 DEF lost

\* A swap of nothing returns nothing.
LEMMA SwappedNothing ==
  ASSUME NEW out \in Swapped(0)
  PROVE  out = 0
BY SwappedNat

-----------------------------------------------------------------------------
(* The inductive invariant *)

\* Every request has its amount pending.
Tracked == \A r \in requests : pending[r.kind] # 0

\* All requests are one.
Single == \A r, q \in requests : r = q

\* A strategy that was exited owns nothing and asks for nothing.
Emptied == exited => short = 0 /\ long = 0 /\ market = 0 /\ requests = {}

\* Holders burn their own shares: the initial ones stay.
Seeded == totalShares >= Seed

Safe == TypeOK /\ Seeded /\ Tracked /\ Single /\ Emptied

\* Types of the parts of a state, for the steps below.
LEMMA Parts ==
  ASSUME TypeOK
  PROVE  /\ totalShares \in Nat \ {0} /\ short \in Nat /\ long \in Nat
         /\ market \in Nat /\ price \in Nat \ {0} /\ price \in Prices
         /\ pending["deposit"] \in Nat /\ pending["withdrawal"] \in Nat
         /\ Seed \in Nat \ {0} /\ trades \in Nat /\ made \in Nat
         /\ MaxTrades \in Nat /\ MaxRequests \in Nat
BY Constants DEF TypeOK, Kinds

\* What the rate counts is a natural number, and so is what shares are worth.
LEMMA RateNat ==
  ASSUME TypeOK
  PROVE  /\ Counted \in Nat
         /\ \A shares \in Nat : Rate(shares) \in Nat
<1>1. Counted \in Nat
  BY Parts, TimesNat DEF Counted
<1>2. ASSUME NEW shares \in Nat
      PROVE  Rate(shares) \in Nat
  <2>1. shares * Counted \in Nat
    BY <1>1, TimesNat
  <2> QED
    BY <2>1, Parts, DivNat DEF Rate
<1> QED
  BY <1>1, <1>2

\* The holders' burns leave the initial shares.
LEMMA BurnsBounded ==
  ASSUME TypeOK, Seeded, NEW shares \in Burns
  PROVE  shares \in Nat /\ totalShares - shares >= Seed
<1> DEFINE held == totalShares - Seed
<1>1. held \in Nat
  BY Parts DEF Seeded
<1>2. shares \in {held \div 20, held \div 10, held}
  BY DEF Burns
<1>3. shares \in Nat /\ shares <= held
  BY <1>1, <1>2, DivNat
<1> QED
  BY <1>1, <1>3, Parts

\* The initial states are safe.
LEMMA InitSafe == Init => Safe
<1> SUFFICES ASSUME Init PROVE Safe
  OBVIOUS
<1>1. TypeOK
  <2>1. /\ totalShares \in Nat \ {0} /\ short \in Nat /\ long \in Nat
        /\ market \in Nat /\ trades \in 0..MaxTrades /\ made \in 0..MaxRequests
    BY Constants DEF Init
  <2>2. /\ pending \in [Kinds -> Nat]
        /\ requests \subseteq RequestRecords
        /\ known \subseteq Kinds /\ exited \in BOOLEAN /\ price \in Prices
        /\ calm \in BOOLEAN
    BY DEF Init
  <2> QED
    BY <2>1, <2>2 DEF TypeOK
<1>2. Seeded /\ Tracked /\ Single /\ Emptied
  BY Constants DEF Init, Seeded, Tracked, Single, Emptied
<1> QED
  BY <1>1, <1>2 DEF Safe

-----------------------------------------------------------------------------
(* Every step keeps it *)

\* A mint adds to the reserve and to the shares.
LEMMA MintSafe ==
  ASSUME Safe, NEW amount \in Amounts, Mint(amount)
  PROVE  Safe'
<1>1. TypeOK /\ amount \in Nat
  BY Constants DEF Safe
<1>2. PICK val \in Swapped(amount) :
        /\ short' = short + val
        /\ totalShares' = totalShares
             + (IF Counted = 0 THEN val ELSE (val * totalShares) \div Counted)
  BY DEF Mint
<1>3. val \in Nat
  BY <1>1, SwappedNat
<1>4. Counted # 0 => (val * totalShares) \div Counted \in Nat
  BY <1>1, <1>3, Parts, RateNat, TimesNat, DivNat
<1>5. /\ short' \in Nat
      /\ totalShares' \in Nat \ {0}
      /\ totalShares' >= Seed
  <2> DEFINE new == (val * totalShares) \div Counted
  <2>1. Counted # 0 => new \in Nat
    BY <1>4
  <2>2. totalShares' = totalShares + (IF Counted = 0 THEN val ELSE new)
    BY <1>2
  <2> HIDE DEF new
  <2>3. totalShares \in Nat \ {0} /\ short \in Nat /\ totalShares >= Seed /\ Seed \in Nat \ {0}
    BY <1>1, Parts DEF Safe, Seeded
  <2> QED
    BY <1>2, <1>3, <2>1, <2>2, <2>3
<1>6. trades' \in 0..MaxTrades
  BY <1>1, Parts DEF Mint, Trade, TypeOK
<1>7. TypeOK'
  BY <1>1, <1>5, <1>6 DEF Mint, TypeOK, RequestRecords, Kinds
<1>8. Seeded'
  BY <1>5 DEF Seeded
<1>9. Tracked' /\ Single' /\ Emptied'
  BY DEF Safe, Mint, Tracked, Single, Emptied
<1> QED
  BY <1>7, <1>8, <1>9 DEF Safe

\* A burn is paid out of what is there and leaves the initial shares.
LEMMA BurnSafe ==
  ASSUME Safe, NEW shares \in Burns \ {0}, Burn(shares)
  PROVE  Safe'
<1>1. TypeOK /\ shares \in Nat
  BY BurnsBounded DEF Safe
<1>2. Rate(shares) \in Nat /\ Rate(shares) <= short
  BY <1>1, RateNat DEF Burn
<1>3. short' \in Nat /\ totalShares' \in Nat \ {0} /\ totalShares' >= Seed
  <2>1. short' = short - Rate(shares) /\ totalShares' = totalShares - shares
    BY DEF Burn
  <2>2. totalShares - shares >= Seed
    BY <1>1, BurnsBounded DEF Safe
  <2> QED
    BY <1>1, <1>2, <2>1, <2>2, Parts
<1>4. trades' \in 0..MaxTrades
  BY <1>1, Parts DEF Burn, Trade, TypeOK
<1>5. TypeOK'
  BY <1>1, <1>3, <1>4 DEF Burn, TypeOK, RequestRecords, Kinds
<1>6. Seeded'
  BY <1>3 DEF Seeded
<1>7. Tracked' /\ Single' /\ Emptied'
  BY DEF Safe, Burn, Tracked, Single, Emptied
<1> QED
  BY <1>5, <1>6, <1>7 DEF Safe

\* The reserve wanted is a part of what the strategy owns.
LEMMA NeedBounded ==
  ASSUME TypeOK, NEW have \in Nat
  PROVE  ((have + market * price) * reserveRatio) \div Bps
           \in 0..(have + market * price)
<1> DEFINE owned == have + market * price
<1>1. owned \in Nat
  BY Parts, TimesNat
<1>2. reserveRatio \in 0..Bps
  BY Constants
<1> HIDE DEF owned
<1> DEFINE need == (owned * reserveRatio) \div Bps
<1>3. need \in Nat /\ need <= owned
  BY <1>1, <1>2, BpsPart
<1> HIDE DEF need
<1>4. need \in 0..owned
  BY <1>1, <1>3
<1> QED
  BY <1>4 DEF owned, need

\* A request that leaves while nothing is pending is the only one.
LEMMA RequestAlone ==
  ASSUME Safe, ~ActionPending
  PROVE  requests = {}
<1> SUFFICES ASSUME NEW r \in requests PROVE FALSE
  OBVIOUS
<1>1. r.kind \in Kinds /\ pending[r.kind] # 0
  BY DEF Safe, TypeOK, Tracked, RequestRecords
<1> QED
  BY <1>1 DEF ActionPending, Kinds

\* A deposit keeps the reserve and sends the rest, in two halves.
LEMMA DepositTypes ==
  ASSUME TypeOK, NEW have \in Nat, NEW need \in Nat, have > need,
         requests = {}, Deposit(have, need)
  PROVE  /\ short' \in Nat /\ market' = market /\ made' \in 0..MaxRequests
         /\ \E r \in RequestRecords : requests' = {r} /\ r.kind = "deposit"
         /\ \E n \in Nat \ {0} : pending' = [pending EXCEPT !["deposit"] = n]
<1> DEFINE amt == have - need
           haf == amt \div 2
           minOut == amt \div price
           min == (minOut * (Bps - slippage)) \div Bps
<1>1. amt \in Nat /\ haf \in Nat /\ haf <= amt /\ minOut \in Nat
  <2>1. amt \in Nat
    OBVIOUS
  <2> HIDE DEF amt
  <2>2. haf \in Nat /\ haf <= amt
    BY <2>1, DivNat
  <2>3. minOut \in Nat
    BY <2>1, Parts, DivNat
  <2> QED
    BY <2>1, <2>2, <2>3
<1>2. min \in Nat
  BY <1>1, Constants, BpsPart
<1>3. amt - haf \in Nat /\ have - amt = need
  BY <1>1
<1>4. /\ minOut > 0
      /\ short' = have - amt
      /\ market' = market
      /\ pending' = [pending EXCEPT !["deposit"] = minOut]
  BY DEF Deposit, NotEmpty
<1>5. PICK out \in Swapped(haf) :
        Request([kind |-> "deposit", long |-> out, short |-> amt - haf,
                 gm |-> 0, min |-> min])
  BY DEF Deposit
<1>6. out \in Nat
  BY <1>1, <1>5, SwappedNat
<1> HIDE DEF amt, haf, minOut, min
<1> DEFINE r == [kind |-> "deposit", long |-> out, short |-> amt - haf,
                 gm |-> 0, min |-> min]
<1>7. r \in RequestRecords /\ r.kind = "deposit"
  BY <1>2, <1>3, <1>6 DEF RequestRecords, Kinds
<1>8. requests' = {r} /\ made' = made + 1 /\ made < MaxRequests
  BY <1>5 DEF Request
<1>9. made' \in 0..MaxRequests
  BY <1>8, Parts
<1>10. minOut \in Nat \ {0}
  BY <1>1, <1>4
<1> HIDE DEF r
<1> QED
  BY <1>3, <1>4, <1>7, <1>8, <1>9, <1>10

\* A withdrawal asks for no more GM tokens than there are.
LEMMA WithdrawTypes ==
  ASSUME TypeOK, NEW have \in Nat, NEW need \in Nat, have < need,
         need <= have + market * price,
         requests = {}, Withdraw(have, need)
  PROVE  /\ short' = have /\ market' \in Nat /\ made' \in 0..MaxRequests
         /\ \E r \in RequestRecords : requests' = {r} /\ r.kind = "withdrawal"
         /\ \E n \in Nat \ {0} : pending' = [pending EXCEPT !["withdrawal"] = n]
<1> DEFINE missing == need - have
           amt == missing \div price
           worth == amt * price
           min == (worth * (Bps - slippage)) \div Bps
<1>1. missing \in Nat
  BY SMT
<1>2. amt \in Nat
  BY <1>1, Parts, DivNat
<1>3. amt <= market
  <2> DEFINE owned == market * price
  <2>1. owned \in Nat
    BY Parts, TimesNat
  <2>2. need <= have + owned
    OBVIOUS
  <2> HIDE DEF owned
  <2>3. missing <= owned
    BY <2>1, <2>2
  <2>4. missing <= market * price
    BY <2>3 DEF owned
  <2> HIDE DEF missing
  <2> QED
    BY <1>1, <2>4, Parts, DivBound
<1>4. worth \in Nat
  BY <1>2, Parts, TimesNat
<1>5. min \in Nat
  <2> HIDE DEF worth
  <2> QED
    BY <1>4, Constants, BpsPart
<1>6. /\ amt > 0
      /\ short' = have
      /\ market' = market - amt
      /\ pending' = [pending EXCEPT !["withdrawal"] = amt]
      /\ Request([kind |-> "withdrawal", long |-> 0, short |-> 0, gm |-> amt,
                  min |-> min])
  BY DEF Withdraw, NotEmpty
<1> HIDE DEF missing, amt, worth, min
<1> DEFINE r == [kind |-> "withdrawal", long |-> 0, short |-> 0, gm |-> amt,
                 min |-> min]
<1>7. r \in RequestRecords /\ r.kind = "withdrawal"
  BY <1>2, <1>5 DEF RequestRecords, Kinds
<1>8. requests' = {r} /\ made' = made + 1 /\ made < MaxRequests
  BY <1>6 DEF Request
<1>9. made' \in 0..MaxRequests
  BY <1>8, Parts
<1>10. market' \in Nat /\ amt \in Nat \ {0}
  BY <1>2, <1>3, <1>6, Parts
<1> HIDE DEF r
<1> QED
  BY <1>6, <1>7, <1>8, <1>9, <1>10

\* An earn with nothing pending sends at most one request, whose amount is
\* pending then; after an exit it finds nothing to do.
LEMMA EarnSafe ==
  ASSUME Safe, Earn
  PROVE  Safe'
<1>1. TypeOK /\ requests = {}
  BY RequestAlone DEF Safe, Earn
<1> DEFINE Have(out) == short + out
           Need(out) == ((Have(out) + market * price) * reserveRatio) \div Bps
<1>2. PICK out \in Swapped(long) :
        \/ Have(out) > Need(out) /\ Deposit(Have(out), Need(out))
        \/ Have(out) < Need(out) /\ Withdraw(Have(out), Need(out))
        \/ /\ Have(out) = Need(out)
           /\ short' = Have(out)
           /\ UNCHANGED <<market, pending, requests, made>>
  BY DEF Earn
<1>3. out \in Nat
  BY <1>1, SwappedNat, Parts
<1>4. Have(out) \in Nat
  BY <1>1, <1>3, Parts
<1>5. /\ Need(out) \in Nat
      /\ Need(out) <= Have(out) + market * price
  <2>1. market * price \in Nat
    BY <1>1, Parts, TimesNat
  <2>2. Need(out) \in 0..(Have(out) + market * price)
    BY <1>1, <1>4, NeedBounded
  <2> QED
    BY <1>4, <2>1, <2>2
<1>6. exited => Have(out) = 0 /\ Need(out) = 0
  <2> SUFFICES ASSUME exited PROVE Have(out) = 0 /\ Need(out) = 0
    OBVIOUS
  <2>1. short = 0 /\ long = 0 /\ market = 0
    BY DEF Safe, Emptied
  <2>2. out = 0
    BY <2>1, SwappedNothing
  <2>3. market * price = 0
    BY <1>1, <2>1, Parts
  <2> QED
    BY <1>5, <2>1, <2>2, <2>3
<1> DEFINE have == Have(out)
           need == Need(out)
<1> HIDE DEF have, need
<1>7. /\ have \in Nat /\ need \in Nat
      /\ need <= have + market * price
      /\ exited => have = 0 /\ need = 0
  BY <1>4, <1>5, <1>6 DEF have, need
<1>8. \/ have > need /\ Deposit(have, need)
      \/ have < need /\ Withdraw(have, need)
      \/ have = need /\ short' = have /\ UNCHANGED <<market, pending, requests, made>>
  BY <1>2 DEF have, need
<1>9. /\ long' = 0
      /\ UNCHANGED <<totalShares, known, exited, price, calm, trades>>
  BY DEF Earn
<1>10. CASE have > need /\ Deposit(have, need)
  <2>1. /\ short' \in Nat /\ market' = market /\ made' \in 0..MaxRequests
        /\ \E r \in RequestRecords : requests' = {r} /\ r.kind = "deposit"
        /\ \E n \in Nat \ {0} : pending' = [pending EXCEPT !["deposit"] = n]
    BY <1>1, <1>7, <1>10, DepositTypes
  <2>2. pending' \in [Kinds -> Nat] /\ pending'["deposit"] # 0
    BY <1>1, <2>1 DEF TypeOK, Kinds
  <2>3. ~exited
    BY <1>7, <1>10
  <2> QED
    BY <1>1, <1>9, <2>1, <2>2, <2>3
    DEF Safe, TypeOK, Seeded, Tracked, Single, Emptied, Kinds, RequestRecords
<1>11. CASE have < need /\ Withdraw(have, need)
  <2>1. /\ short' = have /\ market' \in Nat /\ made' \in 0..MaxRequests
        /\ \E r \in RequestRecords : requests' = {r} /\ r.kind = "withdrawal"
        /\ \E n \in Nat \ {0} : pending' = [pending EXCEPT !["withdrawal"] = n]
    BY <1>1, <1>7, <1>11, WithdrawTypes
  <2>2. pending' \in [Kinds -> Nat] /\ pending'["withdrawal"] # 0
    BY <1>1, <2>1 DEF TypeOK, Kinds
  <2>3. ~exited
    BY <1>7, <1>11
  <2> QED
    BY <1>1, <1>7, <1>9, <2>1, <2>2, <2>3
    DEF Safe, TypeOK, Seeded, Tracked, Single, Emptied, Kinds, RequestRecords
<1>12. CASE have = need /\ short' = have /\ UNCHANGED <<market, pending, requests, made>>
  BY <1>1, <1>7, <1>9, <1>12
  DEF Safe, TypeOK, Seeded, Tracked, Single, Emptied, Kinds, RequestRecords
<1> QED
  BY <1>8, <1>10, <1>11, <1>12

\* An answer takes its request, the only one, away, whether or not the callback
\* is accepted; the strategy that asked was not exited.
LEMMA AnsweredSafe ==
  ASSUME Safe, NEW r \in requests, Answered(r),
         short' \in Nat, long' \in Nat, market' \in Nat
  PROVE  Safe'
<1>1. requests' = {}
  BY DEF Safe, Single, Answered
<1>2. pending' \in [Kinds -> Nat]
  BY DEF Safe, TypeOK, Answered, Cleared
<1>3. TypeOK'
  BY <1>1, <1>2 DEF Safe, Answered, TypeOK, RequestRecords
<1>4. ~exited'
  BY DEF Safe, Emptied, Answered
<1> QED
  BY <1>1, <1>3, <1>4 DEF Safe, Answered, Seeded, Tracked, Single, Emptied

\* The tokens that an answer brings are natural numbers.
LEMMA ExecuteSafe ==
  ASSUME Safe, NEW r \in requests, Execute(r)
  PROVE  Safe'
<1>1. /\ TypeOK
      /\ r.long \in Nat /\ r.short \in Nat /\ r.gm \in Nat
  BY DEF Safe, TypeOK, RequestRecords
<1>2. CASE ExecuteDeposit(r)
  <2>1. r.long + r.short \in Nat
    BY <1>1
  <2>2. (r.long + r.short) \div price \in Nat
    BY <1>1, <2>1, Parts, DivNat
  <2>3. /\ short' = short /\ long' = long
        /\ market' = market + (r.long + r.short) \div price
        /\ Answered(r)
    BY <1>2 DEF ExecuteDeposit
  <2> DEFINE minted == (r.long + r.short) \div price
  <2>4. minted \in Nat /\ market' = market + minted
    BY <2>2, <2>3
  <2> HIDE DEF minted
  <2>5. short' \in Nat /\ long' \in Nat /\ market' \in Nat
    BY <1>1, <2>3, <2>4, Parts
  <2> QED
    BY <2>3, <2>5, AnsweredSafe
<1>3. CASE ExecuteWithdrawal(r)
  <2> DEFINE value == r.gm * price
             half == value \div 2
             held == long + half
  <2>1. value \in Nat
    BY <1>1, Parts, TimesNat
  <2>2. /\ market' = market
        /\ Answered(r)
        /\ \/ /\ long' = 0
              /\ \E out \in Swapped(held) : short' = short + value - half + out
           \/ /\ long' = held
              /\ short' = short + value - half
    BY <1>3 DEF ExecuteWithdrawal
  <2> HIDE DEF value
  <2>3. half \in Nat /\ half <= value
    BY <2>1, DivNat
  <2> HIDE DEF half
  <2>4. held \in Nat /\ short + value - half \in Nat
    BY <1>1, <2>1, <2>3, Parts
  <2> HIDE DEF held
  <2>5. \A out \in Swapped(held) : out \in Nat
    BY <2>4, SwappedNat
  <2>6. short' \in Nat /\ long' \in Nat
    BY <2>2, <2>4, <2>5
  <2>7. market' \in Nat
    BY <1>1, <2>2, Parts
  <2> QED
    BY <2>2, <2>6, <2>7, AnsweredSafe
<1> QED
  BY <1>2, <1>3 DEF Execute

\* A cancelled request brings its tokens back.
LEMMA CancelSafe ==
  ASSUME Safe, NEW r \in requests, Cancel(r)
  PROVE  Safe'
<1>1. /\ TypeOK
      /\ r.long \in Nat /\ r.short \in Nat /\ r.gm \in Nat
  BY DEF Safe, TypeOK, RequestRecords
<1>2. Answered(r)
  BY DEF Cancel, CancelDeposit, CancelWithdrawal
<1>3. short' \in Nat /\ long' \in Nat /\ market' \in Nat
  BY <1>1, Parts DEF Cancel, CancelDeposit, CancelWithdrawal
<1> QED
  BY <1>2, <1>3, AnsweredSafe

\* An exit, refused while an amount is pending, leaves no request behind.
LEMMA ExitSafe ==
  ASSUME Safe, Exit
  PROVE  Safe'
<1>1. requests = {}
  BY RequestAlone DEF Exit
<1>2. TypeOK'
  BY DEF Safe, Exit, TypeOK, RequestRecords
<1> QED
  BY <1>1, <1>2 DEF Safe, Exit, Seeded, Tracked, Single, Emptied

\* Neither GMX's handlers nor the admin's filing nor prices touch the books.
LEMMA WorldSafe ==
  ASSUME Safe,
         \/ \E kind \in Kinds : HandlerReplaced(kind) \/ FileHandler(kind)
         \/ \E to \in Prices : PriceMove(to)
  PROVE  Safe'
<1>1. CASE \E kind \in Kinds : HandlerReplaced(kind) \/ FileHandler(kind)
  <2>1. /\ known' \subseteq Kinds
        /\ UNCHANGED <<totalShares, tokens, pending, requests, exited, price,
                       calm, trades, made>>
    BY <1>1 DEF Safe, TypeOK, HandlerReplaced, FileHandler
  <2> QED
    BY <2>1 DEF Safe, TypeOK, Seeded, Tracked, Single, Emptied, tokens, RequestRecords
<1>2. CASE \E to \in Prices : PriceMove(to)
  <2>1. /\ price' \in Prices
        /\ trades' \in 0..MaxTrades
        /\ UNCHANGED <<totalShares, tokens, pending, requests, known, exited, calm,
                       made>>
    BY <1>2, Parts DEF Safe, TypeOK, PriceMove, Trade
  <2> QED
    BY <2>1 DEF Safe, TypeOK, Seeded, Tracked, Single, Emptied, tokens, RequestRecords
<1> QED
  BY <1>1, <1>2

\* The invariant is inductive.
LEMMA NextSafe == Safe /\ [Next]_vars => Safe'
<1> SUFFICES ASSUME Safe, [Next]_vars PROVE Safe'
  OBVIOUS
<1>1. CASE \E amount \in Amounts : Mint(amount)
  BY <1>1, MintSafe
<1>2. CASE \E shares \in Burns \ {0} : Burn(shares)
  BY <1>2, BurnSafe
<1>3. CASE Earn
  BY <1>3, EarnSafe
<1>4. CASE \E r \in requests : Execute(r)
  BY <1>4, ExecuteSafe
<1>5. CASE \E r \in requests : Cancel(r)
  BY <1>5, CancelSafe
<1>6. CASE Exit
  BY <1>6, ExitSafe
<1>7. CASE \/ \E kind \in Kinds : HandlerReplaced(kind) \/ FileHandler(kind)
           \/ \E to \in Prices : PriceMove(to)
  BY <1>7, WorldSafe
<1>8. CASE UNCHANGED vars
  BY <1>8 DEF vars, Safe, TypeOK, Seeded, Tracked, Single, Emptied, RequestRecords
<1> QED
  BY <1>1, <1>2, <1>3, <1>4, <1>5, <1>6, <1>7, <1>8 DEF Next

\* The invariant holds in every reachable state.
THEOREM SpecSafe == Spec => []Safe
<1> QED
  BY InitSafe, NextSafe, PTL DEF Spec

-----------------------------------------------------------------------------
(* The properties *)

\* No balance of the strategy goes below zero, in whatever order trades, earn and
\* GMX's answers come, and the initial shares are never burned.
THEOREM TypeCorrect == Spec => []TypeOK
<1>1. Safe => TypeOK
  BY DEF Safe
<1> QED
  BY <1>1, SpecSafe, PTL

\* All requests are one, so there is at most one.
LEMMA SingleCardinality == Single => OneRequestAtATime
<1> SUFFICES ASSUME Single PROVE Cardinality(requests) <= 1
  BY DEF OneRequestAtATime
<1>1. CASE requests = {}
  BY <1>1, FS_EmptySet
<1>2. CASE \E r : r \in requests
  <2>1. PICK r : r \in requests
    BY <1>2
  <2>2. requests = {r}
    BY <2>1 DEF Single
  <2>3. Cardinality(requests) = 1
    BY <2>2, FS_Singleton
  <2> QED
    BY <2>3
<1> QED
  BY <1>1, <1>2

\* earn never has two requests with GMX, also when handlers change meanwhile.
THEOREM OneRequestOnly == Spec => []OneRequestAtATime
<1>1. Safe => OneRequestAtATime
  BY SingleCardinality DEF Safe
<1> QED
  BY <1>1, SpecSafe, PTL

\* No request outlives an exit, also when handlers change meanwhile.
THEOREM NothingLeftBehind == Spec => []NothingArrivesAfterExit
<1>1. Safe => NothingArrivesAfterExit
  BY DEF Safe, Emptied, NothingArrivesAfterExit
<1> QED
  BY <1>1, SpecSafe, PTL

-----------------------------------------------------------------------------
(* While GMX keeps its handlers *)

\* GMX does not replace handlers.
Kept == calm \/ HandlerChanges = {}

\* Then every handler is on file, and what is pending has its request.
Matched ==
  /\ known = Kinds
  /\ \A kind \in Kinds : pending[kind] # 0 <=> \E r \in requests : r.kind = kind

Served == Kept => Matched

\* A step of a strategy whose handlers are not replaced keeps them matched.
LEMMA NextServed == Safe /\ Safe' /\ Served /\ [Next]_vars => Served'
<1> SUFFICES ASSUME Safe, Safe', Served, [Next]_vars, Kept' PROVE Matched'
  BY DEF Served
<1>a. calm' = calm
  BY DEF Next, vars, Mint, Burn, Earn, Execute, ExecuteDeposit, ExecuteWithdrawal,
         Cancel, CancelDeposit, CancelWithdrawal, Answered, Exit, HandlerReplaced,
         FileHandler, PriceMove
<1>b. Kept /\ Matched
  BY <1>a DEF Kept, Served
<1> USE <1>b DEF Matched
<1>1. CASE \E amount \in Amounts : Mint(amount)
  BY <1>1 DEF Mint
<1>2. CASE \E shares \in Burns \ {0} : Burn(shares)
  BY <1>2 DEF Burn
<1>3. CASE Earn
  <2>1. /\ known' = Kinds
        /\ requests = {}
        /\ \A kind \in Kinds : pending[kind] = 0
        /\ pending \in [Kinds -> Nat]
    BY <1>3, RequestAlone DEF Earn, Safe, TypeOK
  <2>2. \/ UNCHANGED <<pending, requests>>
        \/ \E kind \in Kinds, n \in Nat : \E r :
             /\ r.kind = kind
             /\ requests' = {r}
             /\ pending' = [pending EXCEPT ![kind] = n]
    <3>1. PICK have, need :
            \/ Deposit(have, need)
            \/ Withdraw(have, need)
            \/ UNCHANGED <<pending, requests>>
      BY <1>3 DEF Earn
    <3>2. pending' \in [Kinds -> Nat]
      BY DEF Safe, TypeOK
    <3>3. CASE Deposit(have, need)
      <4>1. \E n : pending' = [pending EXCEPT !["deposit"] = n]
        BY <3>3 DEF Deposit
      <4>2. PICK n : pending' = [pending EXCEPT !["deposit"] = n]
        BY <4>1
      <4>3. n \in Nat
        BY <2>1, <3>2, <4>2 DEF Kinds
      <4>4. \E r : Request(r) /\ r.kind = "deposit"
        BY <3>3 DEF Deposit
      <4> QED
        BY <2>1, <4>2, <4>3, <4>4 DEF Request, Kinds
    <3>4. CASE Withdraw(have, need)
      <4>1. \E n : pending' = [pending EXCEPT !["withdrawal"] = n]
        BY <3>4 DEF Withdraw
      <4>2. PICK n : pending' = [pending EXCEPT !["withdrawal"] = n]
        BY <4>1
      <4>3. n \in Nat
        BY <2>1, <3>2, <4>2 DEF Kinds
      <4>4. \E r : Request(r) /\ r.kind = "withdrawal"
        BY <3>4 DEF Withdraw
      <4> QED
        BY <2>1, <4>2, <4>3, <4>4 DEF Request, Kinds
    <3> QED
      BY <3>1, <3>3, <3>4
  <2>3. Tracked'
    BY DEF Safe
  <2> QED
    BY <2>1, <2>2, <2>3 DEF Tracked
<1>4. CASE \E r \in requests : Answered(r)
  <2>1. PICK r \in requests : Answered(r)
    BY <1>4
  <2>2. requests = {r} /\ requests' = {} /\ known' = Kinds
    BY <2>1 DEF Answered, Safe, Single
  <2>3. /\ r.kind \in Kinds
        /\ pending \in [Kinds -> Nat]
        /\ pending' = [pending EXCEPT ![r.kind] = 0]
    BY <2>1 DEF Answered, Cleared, Safe, TypeOK, RequestRecords
  <2>4. \A kind \in Kinds : pending'[kind] = 0
    BY <2>2, <2>3
  <2> QED
    BY <2>2, <2>4
<1>5. CASE Exit
  BY <1>5 DEF Exit
<1>6. CASE \E kind \in Kinds : HandlerReplaced(kind) \/ FileHandler(kind)
  BY <1>6 DEF HandlerReplaced, FileHandler, Kept
<1>7. CASE \E to \in Prices : PriceMove(to)
  BY <1>7 DEF PriceMove
<1>8. CASE UNCHANGED vars
  BY <1>8 DEF vars
<1>9. ASSUME NEW r \in requests, Execute(r) \/ Cancel(r)
      PROVE  Answered(r)
  BY <1>9 DEF Execute, ExecuteDeposit, ExecuteWithdrawal, Cancel, CancelDeposit,
              CancelWithdrawal
<1> QED
  BY <1>1, <1>2, <1>3, <1>4, <1>5, <1>6, <1>7, <1>8, <1>9 DEF Next

\* As long as GMX does not replace a handler, an amount is pending exactly while
\* its request is with GMX: earn and exit are blocked by nothing else.
THEOREM PendingIsInFlight == Spec => []PendingMeansInFlight
<1>1. Init => Served
  BY DEF Init, Served, Matched
<1>2. Safe /\ Safe' /\ Served /\ [Next]_vars => Served'
  BY NextServed
<1>3. Served => PendingMeansInFlight
  BY DEF Served, Kept, Matched, PendingMeansInFlight
<1> QED
  BY <1>1, <1>2, <1>3, SpecSafe, PTL DEF Spec

-----------------------------------------------------------------------------
(* The rate, while nothing outside moves *)

\* What is pending for a request is what the request is worth in GM tokens.
Estimated(r) ==
  /\ r.kind = "deposit" =>
       r.gm = 0 /\ pending["deposit"] = (r.long + r.short) \div price
  /\ r.kind = "withdrawal" =>
       r.long = 0 /\ r.short = 0 /\ pending["withdrawal"] = r.gm

Exact == calm => \A r \in requests : Estimated(r)

\* A calm swap returns what it was given.
LEMMA CalmSwap ==
  ASSUME calm, NEW v \in Nat, NEW out \in Swapped(v)
  PROVE  out = v
<1>1. out = v - (v * 0) \div Bps
  BY DEF Swapped
<1>2. v * 0 = 0 /\ 0 \div Bps = 0
  BY DEF Bps
<1> QED
  BY <1>1, <1>2

\* A calm deposit's request holds the whole excess, and its estimate is pending.
LEMMA DepositExact ==
  ASSUME TypeOK, calm, calm', price' = price, requests = {},
         NEW have \in Nat, NEW need \in Nat, have > need, Deposit(have, need)
  PROVE  \A r \in requests' : Estimated(r)'
<1> DEFINE amt == have - need
           haf == amt \div 2
           minOut == amt \div price
           min == (minOut * (Bps - slippage)) \div Bps
<1>1. amt \in Nat
  OBVIOUS
<1>2. PICK out \in Swapped(haf) :
        Request([kind |-> "deposit", long |-> out, short |-> amt - haf,
                 gm |-> 0, min |-> min])
  BY DEF Deposit
<1>3. pending' = [pending EXCEPT !["deposit"] = minOut]
  BY DEF Deposit
<1> HIDE DEF amt, minOut, min
<1>4. haf \in Nat
  BY <1>1, DivNat
<1> HIDE DEF haf
<1>5. out = haf
  BY <1>2, <1>4, CalmSwap
<1>6. out + (amt - haf) = amt
  BY <1>1, <1>4, <1>5
<1> DEFINE q == [kind |-> "deposit", long |-> out, short |-> amt - haf,
                 gm |-> 0, min |-> min]
<1>7. requests' = {q}
  BY <1>2 DEF Request
<1>8. pending'["deposit"] = minOut
  BY <1>3 DEF TypeOK, Kinds
<1>9. minOut = (q.long + q.short) \div price'
  BY <1>6 DEF minOut
<1>10. q.kind = "deposit" /\ q.gm = 0
  OBVIOUS
<1> HIDE DEF q
<1> QED
  BY <1>7, <1>8, <1>9, <1>10 DEF Estimated

\* A withdrawal's request holds the GM tokens that are pending.
LEMMA WithdrawExact ==
  ASSUME TypeOK, requests = {}, NEW have \in Nat, NEW need \in Nat,
         Withdraw(have, need)
  PROVE  \A r \in requests' : Estimated(r)'
<1> DEFINE amt == (need - have) \div price
           q == [kind |-> "withdrawal", long |-> 0, short |-> 0, gm |-> amt,
                 min |-> (amt * price * (Bps - slippage)) \div Bps]
<1>1. Request(q)
  BY DEF Withdraw
<1>2. pending' = [pending EXCEPT !["withdrawal"] = amt]
  BY DEF Withdraw
<1>3. requests' = {q}
  BY <1>1 DEF Request
<1>4. pending'["withdrawal"] = amt
  BY <1>2 DEF TypeOK, Kinds
<1>5. q.kind = "withdrawal" /\ q.gm = amt /\ q.long = 0 /\ q.short = 0
  OBVIOUS
<1> HIDE DEF q, amt
<1> QED
  BY <1>3, <1>4, <1>5 DEF Estimated

\* Every step keeps the estimates: trades do not touch them, a new request brings
\* its own, an answer ends the only one.
LEMMA NextExact == Safe /\ Exact /\ [Next]_vars => Exact'
<1> SUFFICES ASSUME Safe, Exact, [Next]_vars, calm' PROVE \A r \in requests' : Estimated(r)'
  BY DEF Exact
<1>a. calm' = calm
  BY DEF Next, vars, Mint, Burn, Earn, Execute, ExecuteDeposit, ExecuteWithdrawal,
         Cancel, CancelDeposit, CancelWithdrawal, Answered, Exit, HandlerReplaced,
         FileHandler, PriceMove
<1>b. calm /\ \A r \in requests : Estimated(r)
  BY <1>a DEF Exact
<1>c. TypeOK
  BY DEF Safe
<1>0. ASSUME UNCHANGED <<requests, pending, price>>
      PROVE  \A r \in requests' : Estimated(r)'
  BY <1>b, <1>0 DEF Estimated
<1>1. CASE \E amount \in Amounts : Mint(amount)
  BY <1>0, <1>1 DEF Mint
<1>2. CASE \E shares \in Burns \ {0} : Burn(shares)
  BY <1>0, <1>2 DEF Burn
<1>3. CASE Earn
  <2>1. requests = {} /\ price' = price
    BY <1>3, RequestAlone DEF Earn
  <2>2. PICK out \in Swapped(long) :
          LET have == short + out
              need == ((have + market * price) * reserveRatio) \div Bps
          IN \/ have > need /\ Deposit(have, need)
             \/ have < need /\ Withdraw(have, need)
             \/ UNCHANGED <<pending, requests>>
    BY <1>3 DEF Earn
  <2> DEFINE have == short + out
             need == ((have + market * price) * reserveRatio) \div Bps
  <2>3. have \in Nat /\ need \in Nat
    <3>1. out \in Nat
      BY <1>c, Parts, SwappedNat
    <3>2. have \in Nat
      BY <1>c, <3>1, Parts
    <3> HIDE DEF have
    <3>3. market * price \in Nat
      BY <1>c, Parts, TimesNat
    <3>4. have + market * price \in Nat
      BY <3>2, <3>3
    <3>5. need \in Nat
      BY <3>4, Constants, BpsPart
    <3> QED
      BY <3>2, <3>5
  <2>4. \/ have > need /\ Deposit(have, need)
        \/ have < need /\ Withdraw(have, need)
        \/ UNCHANGED <<pending, requests>>
    BY <2>2
  <2> HIDE DEF have, need
  <2>5. CASE have > need /\ Deposit(have, need)
    BY <1>a, <1>b, <1>c, <2>1, <2>3, <2>5, DepositExact
  <2>6. CASE have < need /\ Withdraw(have, need)
    BY <1>c, <2>1, <2>3, <2>6, WithdrawExact
  <2>7. CASE UNCHANGED <<pending, requests>>
    BY <1>0, <2>1, <2>7
  <2> QED
    BY <2>4, <2>5, <2>6, <2>7
<1>4. CASE \E r \in requests : Execute(r) \/ Cancel(r)
  <2>1. PICK r \in requests : Answered(r)
    BY <1>4 DEF Execute, ExecuteDeposit, ExecuteWithdrawal, Cancel, CancelDeposit,
                CancelWithdrawal
  <2>2. requests' = {}
    BY <2>1 DEF Answered, Safe, Single
  <2> QED
    BY <2>2
<1>5. CASE Exit
  BY <1>0, <1>5 DEF Exit
<1>6. CASE \E kind \in Kinds : HandlerReplaced(kind) \/ FileHandler(kind)
  BY <1>0, <1>6 DEF HandlerReplaced, FileHandler
<1>7. CASE \E to \in Prices : PriceMove(to)
  BY <1>b, <1>7 DEF PriceMove
<1>8. CASE UNCHANGED vars
  BY <1>0, <1>8 DEF vars
<1> QED
  BY <1>1, <1>2, <1>3, <1>4, <1>5, <1>6, <1>7, <1>8 DEF Next

\* Dividing by the price and multiplying again loses less than one GM token.
LEMMA DivLoss ==
  ASSUME NEW a \in Nat, NEW d \in Nat \ {0}
  PROVE  /\ (a \div d) * d \in Nat
         /\ (a \div d) * d <= a
         /\ a < (a \div d) * d + d
<1>1. a \div d \in Nat
  BY DivNat
<1>2. (a \div d) * d <= a
  BY DivNat
<1>3. a < (a \div d) * d + d
  BY SMT
<1> QED
  BY <1>1, <1>2, <1>3, TimesNat

\* With a request's estimate pending and nothing else, the rate is exact.
LEMMA EstimateIsExact ==
  ASSUME Safe, Served, Exact, calm
  PROVE  Counted \in (Owned - price + 1)..Owned
<1> DEFINE d == pending["deposit"]
           w == pending["withdrawal"]
           held == long + short
<1>1. /\ held \in Nat /\ market \in Nat /\ d \in Nat /\ w \in Nat
      /\ price \in Nat \ {0}
  BY Parts DEF Safe
<1>2. Counted = held + (market + d + w) * price
  BY DEF Counted
<1>3. \A kind \in Kinds : pending[kind] # 0 <=> \E r \in requests : r.kind = kind
  BY DEF Served, Kept, Matched
<1>4. CASE requests = {}
  <2>1. d = 0 /\ w = 0
    BY <1>3, <1>4 DEF Kinds
  <2>2. Owned = held + market * price
    BY <1>1, <1>4, TimesNat DEF Owned
  <2>3. market * price \in Nat
    BY <1>1, TimesNat
  <2>4. Counted = held + market * price
    BY <1>1, <1>2, <2>1
  <2> DEFINE m == market * price
  <2> HIDE DEF m, held
  <2> QED
    BY <1>1, <2>2, <2>3, <2>4 DEF m
<1>5. ASSUME NEW r \in requests
      PROVE  Counted \in (Owned - price + 1)..Owned
  <2>1. r \in RequestRecords /\ requests = {r}
    BY DEF Safe, TypeOK, Single
  <2>2. Owned = held + market * price + (r.long + r.short + r.gm * price)
    BY <2>1 DEF Owned, InFlight
  <2>3. r.long \in Nat /\ r.short \in Nat /\ r.gm \in Nat
    BY <2>1 DEF RequestRecords
  <2>4. Estimated(r)
    BY DEF Exact
  <2>5. market * price \in Nat
    BY <1>1, TimesNat
  <2>6. CASE r.kind = "deposit"
    <3>1. /\ r.gm = 0
          /\ d = (r.long + r.short) \div price
          /\ w = 0
      BY <1>3, <2>1, <2>4, <2>6 DEF Estimated, Kinds
    <3> DEFINE a == r.long + r.short
    <3>2. a \in Nat
      BY <2>3
    <3>3. Owned = held + market * price + a
      <4>1. r.gm * price = 0
        BY <1>1, <3>1
      <4> QED
        BY <2>2, <2>3, <4>1
    <3>4. Counted = held + market * price + d * price
      BY <1>1, <1>2, <3>1
    <3>5. /\ d * price \in Nat
          /\ d * price <= a
          /\ a < d * price + price
      BY <1>1, <3>1, <3>2, DivLoss
    <3> DEFINE m == market * price
               x == d * price
    <3> HIDE DEF m, x, a, held, d, w
    <3> QED
      BY <1>1, <2>5, <3>2, <3>3, <3>4, <3>5 DEF m, x
  <2>7. CASE r.kind = "withdrawal"
    <3>1. r.long = 0 /\ r.short = 0 /\ w = r.gm /\ d = 0
      BY <1>3, <2>1, <2>4, <2>7 DEF Estimated, Kinds
    <3>2. Owned = held + market * price + w * price
      <4>1. r.long + r.short + r.gm * price = w * price
        BY <1>1, <3>1, TimesNat
      <4> QED
        BY <2>2, <4>1
    <3>3. Counted = held + market * price + w * price
      BY <1>1, <1>2, <3>1
    <3>4. w * price \in Nat
      BY <1>1, TimesNat
    <3> DEFINE m == market * price
               x == w * price
    <3> HIDE DEF m, x, held, d, w
    <3> QED
      BY <1>1, <2>5, <3>2, <3>3, <3>4 DEF m, x
  <2> QED
    BY <2>1, <2>6, <2>7 DEF RequestRecords, Kinds
<1> QED
  BY <1>4, <1>5

\* While swaps lose nothing and the price stands still, rate counts what the strategy
\* owns to less than one GM token, before, during and after a request to GMX.
THEOREM RateStaysExact == Spec => []RateIsExact
<1>1. Init => Served /\ Exact
  BY DEF Init, Served, Matched, Exact
<1>2. Safe /\ Safe' /\ Served /\ [Next]_vars => Served'
  BY NextServed
<1>3. Safe /\ Exact /\ [Next]_vars => Exact'
  BY NextExact
<1>4. Safe /\ Served /\ Exact => RateIsExact
  BY EstimateIsExact DEF RateIsExact
<1> QED
  BY <1>1, <1>2, <1>3, <1>4, SpecSafe, PTL DEF Spec
=============================================================================
