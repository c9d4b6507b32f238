---------------------------- MODULE Investor_proofs ----------------------------
(***************************************************************************)
(* Proofs about Investor for any owners, tokens, prices, losses, yields    *)
(* and bounds.                                                             *)
(*                                                                         *)
(* Each part of a call maps books to books.  A part keeps the books        *)
(* (Keeps) when the pool's debt, the strategy's totalShares and the Bank's *)
(* tokens change by what the position's borrow, shares and collateral      *)
(* change by; with the books of a position that fits into the totals       *)
(* (Fits) no subtraction goes below zero.  The totals therefore stay the   *)
(* sums over the positions (SumTheorems), and these sums are why the next  *)
(* position fits.  A call is a Trade of one position; what trades and the  *)
(* steps of the world may not do follows from the lemmas on both.  That a  *)
(* healthy position can be closed needs losses within the padding and      *)
(* tokens that are fine enough; the arithmetic is at the end.              *)
(***************************************************************************)
EXTENDS Investor, SumTheorems, TLAPS

\* Positions up to the counter have an owner and a token; the others are empty.
Opened ==
  \A id \in Ids :
    IF id <= count THEN pos[id].owner \in Owners /\ pos[id].token \in Tokens
    ELSE pos[id] = NoPosition

\* Only opened positions changed in this block.
BlockOpened == \A id \in sameBlock : id <= count

\* The inductive invariant
IInv ==
  /\ TypeOK
  /\ SharesBacked
  /\ DebtMatches
  /\ CollateralBacked
  /\ Opened
  /\ BlockOpened

-----------------------------------------------------------------------------
(* Arithmetic *)

\* Products of natural numbers are natural numbers.
LEMMA TimesNat ==
  ASSUME NEW a \in Nat, NEW b \in Nat
  PROVE  a * b \in Nat
BY SMT

\* Products grow with their factors.
LEMMA TimesMonotonic ==
  ASSUME NEW a \in Nat, NEW b \in Nat, NEW c \in Nat, a <= b
  PROVE  a * c <= b * c
BY SMT

\* Floor division of natural numbers.
LEMMA DivNat ==
  ASSUME NEW a \in Nat, NEW d \in Nat \ {0}
  PROVE  /\ a \div d \in Nat
         /\ (a \div d) * d <= a
         /\ a < (a \div d) * d + d
<1>1. a \div d \in Nat
  BY SMT
<1>2. (a \div d) * d <= a
  BY SMT
<1>3. a < (a \div d) * d + d
  BY SMT
<1> QED
  BY <1>1, <1>2, <1>3

\* The floor is the largest quotient.
LEMMA DivLargest ==
  ASSUME NEW a \in Nat, NEW d \in Nat \ {0}, NEW q \in Nat, q * d <= a
  PROVE  q <= a \div d
<1> DEFINE r == a \div d
<1>1. r \in Nat /\ a < r * d + d
  BY DivNat
<1> HIDE DEF r
<1>2. q * d < (r + 1) * d
  BY <1>1, SMT
<1>3. q < r + 1
  BY <1>1, <1>2, SMT
<1> QED
  BY <1>1, <1>3 DEF r

\* Part s of t of a: no more than a, and what stays is worth no less by share.
LEMMA PartOf ==
  ASSUME NEW a \in Nat, NEW t \in Nat \ {0}, NEW s \in Nat, s <= t
  PROVE  /\ (s * a) \div t \in Nat
         /\ (s * a) \div t <= a
         /\ (a - (s * a) \div t) * t >= a * (t - s)
<1> DEFINE w == (s * a) \div t
<1>1. s * a \in Nat
  BY TimesNat
<1>2. w \in Nat /\ w * t <= s * a
  BY <1>1, DivNat
<1> HIDE DEF w
<1>3. s * a <= a * t
  BY TimesMonotonic, SMT
<1>4. w <= a
  BY <1>2, <1>3, SMT
<1>5. (a - w) * t = a * t - w * t /\ a * (t - s) = a * t - s * a
  BY <1>2, SMT
<1>6. a * t \in Nat /\ w * t \in Nat
  BY <1>2, TimesNat
<1>7. (a - w) * t >= a * (t - s)
  BY <1>1, <1>2, <1>5, <1>6, SMT
<1> QED
  BY <1>2, <1>4, <1>7 DEF w

\* A percentage, or a part in basis points, of v is at most v.
LEMMA BpsPart ==
  ASSUME NEW v \in Nat, NEW l \in 0..Bps
  PROVE  (v * l) \div Bps \in Nat /\ (v * l) \div Bps <= v
<1>1. l \in Nat /\ l <= Bps /\ Bps \in Nat \ {0}
  BY DEF Bps
<1>2. (l * v) \div Bps \in Nat /\ (l * v) \div Bps <= v
  BY <1>1, PartOf
<1>3. l * v = v * l
  BY <1>1, SMT
<1> QED
  BY <1>2, <1>3

\* A swap returns at most the worth of what went in.
LEMMA SwappedNat ==
  ASSUME NEW v \in Nat, NEW out \in Swapped(v)
  PROVE  out \in Nat /\ out <= v
<1>1. PICK l \in Losses : out = v - (v * l) \div Bps
  BY DEF Swapped
<1> DEFINE lost == (v * l) \div Bps
<1>2. lost \in Nat /\ lost <= v
  BY InvestorAssumption, BpsPart
<1> HIDE DEF lost
<1>3. out = v - lost
  BY <1>1 DEF lost
<1> QED
  BY <1>2, <1>3

-----------------------------------------------------------------------------
(* Books *)

Vaults == [totalShares : Nat, assets : Nat]

BookSet ==
  [p : Position, bank : [Tokens -> Nat], debt : Nat, vault : Vaults, cash : Nat]

\* What the position has is within the totals.
Fits(p) ==
  /\ p \in Position /\ p.token \in Tokens
  /\ p.borrow <= debt
  /\ p.shares + Seed <= vault.totalShares
  /\ p.collateral <= bank[p.token]

\* The books b account for what p's call did: each total changes by what the
\* position changes by, and the fees do not fall.
Keeps(p, b) ==
  /\ b \in BookSet
  /\ b.p.owner = p.owner /\ b.p.token = p.token
  /\ b.debt - b.p.borrow = debt - p.borrow
  /\ b.vault.totalShares - b.p.shares = vault.totalShares - p.shares
  /\ b.bank[p.token] - b.p.collateral = bank[p.token] - p.collateral
  /\ \A t \in Tokens \ {p.token} : b.bank[t] = bank[t]
  /\ b.cash >= cash

\* A share is worth no less in w than in v.
NotDiluted(v, w) == w.assets * v.totalShares >= v.assets * w.totalShares

\* The types of the parts of books.
LEMMA BookFields ==
  ASSUME NEW b \in BookSet
  PROVE  /\ b.p \in Position
         /\ b.p.collateral \in Nat /\ b.p.borrow \in Nat /\ b.p.shares \in Nat
         /\ b.bank \in [Tokens -> Nat]
         /\ b.debt \in Nat
         /\ b.vault \in Vaults /\ b.vault.totalShares \in Nat /\ b.vault.assets \in Nat
         /\ b.cash \in Nat
BY DEF BookSet, Position, Vaults

\* A deposit adds to the position's collateral and to the Bank in its token.
LEMMA DepositedFields ==
  ASSUME NEW b \in BookSet, NEW amount \in Nat, b.p.token \in Tokens
  PROVE  LET d == Deposited(b, amount)
         IN /\ d \in BookSet
            /\ d.p = [b.p EXCEPT !.collateral = @ + amount]
            /\ d.bank = [b.bank EXCEPT ![b.p.token] = @ + amount]
            /\ d.debt = b.debt /\ d.vault = b.vault /\ d.cash = b.cash
<1> DEFINE d == Deposited(b, amount)
            q == [b.p EXCEPT !.collateral = @ + amount]
            k == [b.bank EXCEPT ![b.p.token] = @ + amount]
<1>1. d = [b EXCEPT !.p = q, !.bank = k]
  BY DEF BookSet, Deposited
<1>2. /\ b.p \in Position /\ b.p.collateral \in Nat
      /\ b.bank \in [Tokens -> Nat] /\ b.bank[b.p.token] \in Nat
  BY BookFields
<1>3. q \in Position
  BY <1>2 DEF Position
<1>4. k \in [Tokens -> Nat]
  BY <1>2
<1> HIDE DEF q, k
<1>5. d \in BookSet
  BY <1>1, <1>3, <1>4 DEF BookSet
<1>6. d.p = q /\ d.bank = k /\ d.debt = b.debt /\ d.vault = b.vault /\ d.cash = b.cash
  BY <1>1 DEF BookSet
<1> QED
  BY <1>5, <1>6 DEF q, k

\* A withdrawal that both can bear lowers both.
LEMMA TakenOutFields ==
  ASSUME NEW b \in BookSet, NEW amount \in Nat, b.p.token \in Tokens,
         amount <= b.p.collateral, amount <= b.bank[b.p.token]
  PROVE  LET d == TakenOut(b, amount)
         IN /\ d \in BookSet
            /\ d.p = [b.p EXCEPT !.collateral = @ - amount]
            /\ d.bank = [b.bank EXCEPT ![b.p.token] = @ - amount]
            /\ d.debt = b.debt /\ d.vault = b.vault /\ d.cash = b.cash
<1> DEFINE d == TakenOut(b, amount)
            q == [b.p EXCEPT !.collateral = @ - amount]
            k == [b.bank EXCEPT ![b.p.token] = @ - amount]
<1>1. d = [b EXCEPT !.p = q, !.bank = k]
  BY DEF BookSet, TakenOut
<1>2. /\ b.p \in Position /\ b.p.collateral \in Nat
      /\ b.bank \in [Tokens -> Nat] /\ b.bank[b.p.token] \in Nat
  BY BookFields
<1>3. q \in Position
  BY <1>2 DEF Position
<1>4. k \in [Tokens -> Nat]
  BY <1>2
<1> HIDE DEF q, k
<1>5. d \in BookSet
  BY <1>1, <1>3, <1>4 DEF BookSet
<1>6. d.p = q /\ d.bank = k /\ d.debt = b.debt /\ d.vault = b.vault /\ d.cash = b.cash
  BY <1>1 DEF BookSet
<1> QED
  BY <1>5, <1>6 DEF q, k

\* The books a call starts from are kept.
LEMMA BooksKept ==
  ASSUME TypeOK, NEW p, Fits(p)
  PROVE  Keeps(p, Books(p))
BY DEF TypeOK, Fits, Keeps, Books, BookSet, Vaults, Position

\* Books that are kept have enough for what their position has.
LEMMA KeptCovers ==
  ASSUME TypeOK, NEW p, Fits(p), NEW b, Keeps(p, b)
  PROVE  /\ b.p.borrow <= b.debt
         /\ b.p.shares + Seed <= b.vault.totalShares
         /\ b.p.collateral <= b.bank[b.p.token]
<1>1. /\ debt \in Nat /\ vault.totalShares \in Nat /\ bank \in [Tokens -> Nat] /\ Seed \in Nat
      /\ p.borrow \in Nat /\ p.shares \in Nat /\ p.collateral \in Nat /\ p.token \in Tokens
  BY InvestorAssumption DEF TypeOK, Fits, Position
<1>2. b \in BookSet
  BY DEF Keeps
<1>3. b.bank[p.token] \in Nat /\ bank[p.token] \in Nat
  BY <1>1, <1>2, BookFields
<1> QED
  BY <1>1, <1>2, <1>3, BookFields DEF Fits, Keeps

\* A deposit keeps the books.
LEMMA DepositedKeeps ==
  ASSUME TypeOK, NEW p, Fits(p), NEW b, Keeps(p, b), NEW amount \in Nat
  PROVE  Keeps(p, Deposited(b, amount))
<1> DEFINE d == Deposited(b, amount)
<1>1. b \in BookSet /\ b.p.token = p.token /\ p.token \in Tokens
  BY DEF Keeps, Fits
<1>2. /\ d \in BookSet
      /\ d.p = [b.p EXCEPT !.collateral = @ + amount]
      /\ d.bank = [b.bank EXCEPT ![b.p.token] = @ + amount]
      /\ d.debt = b.debt /\ d.vault = b.vault /\ d.cash = b.cash
  BY <1>1, DepositedFields, Zenon
<1> HIDE DEF d
<1> SUFFICES Keeps(p, d)
  BY DEF d
<1>3. /\ d.p.owner = b.p.owner /\ d.p.token = b.p.token /\ d.p.borrow = b.p.borrow
      /\ d.p.shares = b.p.shares /\ d.p.collateral = b.p.collateral + amount
      /\ b.p.collateral \in Nat
  BY <1>1, <1>2 DEF BookSet, Position
<1>4. /\ d.bank[p.token] = b.bank[p.token] + amount
      /\ b.bank[p.token] \in Nat /\ bank[p.token] \in Nat /\ p.collateral \in Nat
      /\ \A t \in Tokens \ {p.token} : d.bank[t] = b.bank[t]
  BY <1>1, <1>2 DEF BookSet, TypeOK, Fits, Position
<1> QED
  BY <1>2, <1>3, <1>4 DEF Keeps

\* A withdrawal of the position's own collateral keeps the books.
LEMMA TakenOutKeeps ==
  ASSUME TypeOK, NEW p, Fits(p), NEW b, Keeps(p, b),
         NEW amount \in Nat, amount <= b.p.collateral
  PROVE  /\ Keeps(p, TakenOut(b, amount))
         /\ TakenOut(b, amount).p.borrow = b.p.borrow
         /\ TakenOut(b, amount).p.shares = b.p.shares
         /\ TakenOut(b, amount).vault = b.vault
         /\ TakenOut(b, amount).debt = b.debt
<1> DEFINE d == TakenOut(b, amount)
<1>1. /\ b \in BookSet /\ b.p.token = p.token /\ p.token \in Tokens
      /\ b.p.collateral <= b.bank[b.p.token]
  BY KeptCovers DEF Keeps, Fits
<1>2. b.p.collateral \in Nat /\ b.bank[b.p.token] \in Nat
  BY <1>1, BookFields
<1>3. /\ d \in BookSet
      /\ d.p = [b.p EXCEPT !.collateral = @ - amount]
      /\ d.bank = [b.bank EXCEPT ![b.p.token] = @ - amount]
      /\ d.debt = b.debt /\ d.vault = b.vault /\ d.cash = b.cash
  <2>1. amount <= b.bank[b.p.token]
    BY <1>1, <1>2
  <2> QED
    BY <1>1, <2>1, TakenOutFields, Zenon
<1> HIDE DEF d
<1> SUFFICES Keeps(p, d) /\ d.p.borrow = b.p.borrow /\ d.p.shares = b.p.shares
  BY <1>3 DEF d
<1>4. /\ d.p.owner = b.p.owner /\ d.p.token = b.p.token /\ d.p.borrow = b.p.borrow
      /\ d.p.shares = b.p.shares /\ d.p.collateral = b.p.collateral - amount
  BY <1>1, <1>3 DEF BookSet, Position
<1>5. /\ d.bank[p.token] = b.bank[p.token] - amount
      /\ bank[p.token] \in Nat /\ p.collateral \in Nat
      /\ \A t \in Tokens \ {p.token} : d.bank[t] = b.bank[t]
  BY <1>1, <1>3 DEF BookSet, TypeOK, Fits, Position
<1> QED
  BY <1>1, <1>2, <1>3, <1>4, <1>5 DEF Keeps

\* The pool's conversions are natural numbers, and a debt is never owed as nothing.
LEMMA PoolNat ==
  ASSUME TypeOK, NEW n \in Nat
  PROVE  BorrowShares(n) \in Nat /\ Owed(n) \in Nat /\ n <= Owed(n)
<1>1. One \in Nat \ {0} /\ index \in Nat \ {0} /\ One <= index
  BY InvestorAssumption DEF TypeOK
<1>2. n * One \in Nat /\ n * index \in Nat
  BY <1>1, TimesNat
<1>3. n * One <= n * index
  <2>1. One * n <= index * n
    BY <1>1, TimesMonotonic
  <2> QED
    BY <2>1, <1>1, SMT
<1>4. n <= (n * index) \div One
  BY <1>1, <1>2, <1>3, DivLargest
<1> QED
  BY <1>1, <1>2, <1>4, DivNat DEF BorrowShares, Owed

\* Minting is in proportion, or less.
LEMMA MintKeepsRate ==
  ASSUME NEW v \in Vaults, NEW out \in Nat
  PROVE  /\ Minted(v, out) \in Nat
         /\ AfterMint(v, out) \in Vaults
         /\ AfterMint(v, out).totalShares = v.totalShares + Minted(v, out)
         /\ NotDiluted(v, AfterMint(v, out))
<1> DEFINE m == v.assets
           t == v.totalShares
           n == Minted(v, out)
<1>1. m \in Nat /\ t \in Nat
  BY DEF Vaults
<1> HIDE DEF m, t
<1>2. out * t \in Nat
  BY <1>1, TimesNat
<1>3. n \in Nat /\ n * m <= out * t
  <2>1. CASE m = 0
    BY <1>1, <1>2, <2>1 DEF Minted, m
  <2>2. CASE m # 0
    BY <1>1, <1>2, <2>2, DivNat DEF Minted, m, t
  <2> QED
    BY <2>1, <2>2
<1> HIDE DEF n
<1>4. (m + out) * t = m * t + out * t /\ m * (t + n) = m * t + n * m
  BY <1>1, <1>3, SMT
<1>5. m * t \in Nat /\ n * m \in Nat
  BY <1>1, <1>3, TimesNat
<1>6. (m + out) * t >= m * (t + n)
  BY <1>2, <1>3, <1>4, <1>5, SMT
<1>7. /\ AfterMint(v, out).totalShares = t + n
      /\ AfterMint(v, out).assets = m + out
  BY DEF AfterMint, m, t, n
<1>8. AfterMint(v, out) \in Vaults
  BY <1>1, <1>3 DEF AfterMint, Vaults, m, t, n
<1> QED
  BY <1>3, <1>6, <1>7, <1>8 DEF NotDiluted, m, t, n

\* Burning pays out the floor.
LEMMA BurnKeepsRate ==
  ASSUME NEW v \in Vaults, NEW shares \in Nat, shares < v.totalShares
  PROVE  /\ Rate(v, shares) \in Nat
         /\ AfterBurn(v, shares) \in Vaults
         /\ AfterBurn(v, shares).totalShares = v.totalShares - shares
         /\ NotDiluted(v, AfterBurn(v, shares))
<1> DEFINE m == v.assets
           t == v.totalShares
           w == Rate(v, shares)
<1>1. m \in Nat /\ t \in Nat \ {0} /\ shares <= t
  BY DEF Vaults
<1> HIDE DEF m, t
<1>2. w \in Nat /\ w <= m /\ (m - w) * t >= m * (t - shares)
  BY <1>1, PartOf DEF Rate, m, t
<1> HIDE DEF w
<1>3. /\ AfterBurn(v, shares).totalShares = t - shares
      /\ AfterBurn(v, shares).assets = m - w
  BY DEF AfterBurn, m, t, w
<1>4. AfterBurn(v, shares) \in Vaults
  BY <1>1, <1>2 DEF AfterBurn, Vaults, m, t, w
<1> QED
  BY <1>2, <1>3, <1>4 DEF NotDiluted, m, t, w

\* Borrowing keeps the books, and the mint does not dilute.
LEMMA BorrowMoreKeeps ==
  ASSUME TypeOK, NEW p, Fits(p), NEW b, Keeps(p, b),
         NEW amount \in Nat, NEW d \in BorrowMore(b, amount)
  PROVE  /\ Keeps(p, d)
         /\ NotDiluted(b.vault, d.vault)
         /\ d.p.collateral = b.p.collateral
         /\ d.p.borrow >= b.p.borrow
         /\ d.p.shares >= b.p.shares
<1> DEFINE owed == BorrowShares(amount)
<1>1. PICK out \in Swapped(amount) :
        d = [b EXCEPT !.p.borrow = @ + owed,
                      !.p.shares = @ + Minted(b.vault, out),
                      !.debt = @ + owed,
                      !.vault = AfterMint(@, out)]
  BY DEF BorrowMore
<1> DEFINE n == Minted(b.vault, out)
           v == AfterMint(b.vault, out)
           q == [b.p EXCEPT !.borrow = @ + owed, !.shares = @ + n]
<1>2. b \in BookSet /\ out \in Nat /\ owed \in Nat
  BY SwappedNat, PoolNat DEF Keeps
<1>3. /\ n \in Nat /\ v \in Vaults /\ v.totalShares = b.vault.totalShares + n
      /\ NotDiluted(b.vault, v)
  BY <1>2, BookFields, MintKeepsRate
<1> HIDE DEF owed, n, v
<1>4. d = [b EXCEPT !.p = q, !.debt = b.debt + owed, !.vault = v]
  BY <1>1, <1>2 DEF BookSet, n, v
<1>5. /\ q \in Position /\ q.owner = b.p.owner /\ q.token = b.p.token
      /\ q.collateral = b.p.collateral
      /\ q.borrow = b.p.borrow + owed /\ q.shares = b.p.shares + n
  <2>1. b.p \in Position /\ b.p.borrow \in Nat /\ b.p.shares \in Nat
    BY <1>2, BookFields
  <2>2. b.p.borrow + owed \in Nat /\ b.p.shares + n \in Nat
    BY <1>2, <1>3, <2>1
  <2> QED
    BY <2>1, <2>2 DEF Position
<1> HIDE DEF q
<1>6. d \in BookSet
  <2>1. b.debt + owed \in Nat
    BY <1>2, BookFields
  <2> QED
    BY <1>2, <1>3, <1>4, <1>5, <2>1 DEF BookSet
<1>7. /\ d.p = q /\ d.bank = b.bank /\ d.debt = b.debt + owed
      /\ d.vault = v /\ d.cash = b.cash
  BY <1>2, <1>4 DEF BookSet
<1>8. /\ b.p.borrow \in Nat /\ b.p.shares \in Nat /\ b.debt \in Nat
      /\ b.vault.totalShares \in Nat
      /\ debt \in Nat /\ vault.totalShares \in Nat
      /\ p.borrow \in Nat /\ p.shares \in Nat
  BY <1>2, BookFields DEF TypeOK, Fits, Position
<1> QED
  BY <1>2, <1>3, <1>5, <1>6, <1>7, <1>8 DEF Keeps

\* A repayment keeps the books, and is not paid out of the Investor's fees.
LEMMA RepaidKeeps ==
  ASSUME TypeOK, NEW p, Fits(p), NEW b, Keeps(p, b),
         NEW repaying \in Nat, repaying <= b.p.borrow,
         NEW allowance \in Nat, NEW d \in Repaid(b, repaying, allowance)
  PROVE  /\ Keeps(p, d)
         /\ d.vault = b.vault /\ d.p.shares = b.p.shares
         /\ d.p.collateral = b.p.collateral
         /\ d.p.borrow = b.p.borrow - repaying
<1> DEFINE used == Owed(repaying)
           push == ((allowance - used) * (Bps - performanceFee)) \div Bps
           kept == b.cash + allowance - used - push
<1>1. /\ ~ (used > allowance)
      /\ d = [b EXCEPT !.p.borrow = @ - repaying,
                       !.debt = @ - repaying,
                       !.cash = @ + allowance - used - push]
  BY DEF Repaid
<1>2. used \in Nat
  BY PoolNat
<1> HIDE DEF used
<1>3. used <= allowance /\ allowance - used \in Nat /\ Bps - performanceFee \in 0..Bps
  BY <1>1, <1>2 DEF Bps, performanceFee
<1>4. push \in Nat /\ push <= allowance - used
  BY <1>3, BpsPart
<1> HIDE DEF push
<1>5. /\ b \in BookSet /\ b.p \in Position /\ b.p.borrow \in Nat
      /\ b.p.shares \in Nat /\ b.debt \in Nat /\ b.cash \in Nat
      /\ repaying <= b.debt
  BY KeptCovers, BookFields DEF Keeps
<1>6. b.p.borrow - repaying \in Nat /\ b.debt - repaying \in Nat
  BY <1>5
<1>7. kept \in Nat /\ kept >= b.cash
  BY <1>2, <1>3, <1>4, <1>5
<1> DEFINE q == [b.p EXCEPT !.borrow = @ - repaying]
<1>8. d = [b EXCEPT !.p = q, !.debt = b.debt - repaying, !.cash = kept]
  BY <1>1, <1>5 DEF BookSet
<1> HIDE DEF kept
<1>9. /\ q \in Position /\ q.owner = b.p.owner /\ q.token = b.p.token
      /\ q.collateral = b.p.collateral
      /\ q.borrow = b.p.borrow - repaying /\ q.shares = b.p.shares
  BY <1>5, <1>6 DEF Position
<1> HIDE DEF q
<1>10. d \in BookSet
  BY <1>5, <1>6, <1>7, <1>8, <1>9 DEF BookSet
<1>11. /\ d.p = q /\ d.bank = b.bank /\ d.debt = b.debt - repaying
       /\ d.vault = b.vault /\ d.cash = kept
  BY <1>5, <1>8 DEF BookSet
<1>12. debt \in Nat /\ p.borrow \in Nat /\ cash \in Nat
  BY DEF TypeOK, Fits, Position
<1> QED
  BY <1>5, <1>7, <1>9, <1>10, <1>11, <1>12 DEF Keeps

\* What a burn leaves
LEMMA SoldKeeps ==
  ASSUME TypeOK, NEW p, Fits(p), NEW b, Keeps(p, b),
         NEW shares \in Nat, shares <= b.p.shares
  PROVE  LET left == [b EXCEPT !.p.shares = @ - shares, !.vault = AfterBurn(@, shares)]
         IN /\ Keeps(p, left)
            /\ Rate(b.vault, shares) \in Nat
            /\ NotDiluted(b.vault, left.vault)
            /\ left.p.shares = b.p.shares - shares
            /\ left.p.borrow = b.p.borrow
            /\ left.p.collateral = b.p.collateral
            /\ left.p.token = b.p.token
<1> DEFINE left == [b EXCEPT !.p.shares = @ - shares, !.vault = AfterBurn(@, shares)]
           v == AfterBurn(b.vault, shares)
           q == [b.p EXCEPT !.shares = @ - shares]
<1>1. /\ b \in BookSet /\ b.p \in Position /\ b.p.borrow \in Nat
      /\ b.p.shares \in Nat /\ b.vault \in Vaults /\ b.vault.totalShares \in Nat
      /\ b.p.shares + Seed <= b.vault.totalShares /\ Seed \in Nat \ {0}
  BY KeptCovers, BookFields, InvestorAssumption DEF Keeps
<1>2. shares < b.vault.totalShares /\ b.p.shares - shares \in Nat
  BY <1>1
<1>3. /\ Rate(b.vault, shares) \in Nat /\ v \in Vaults
      /\ v.totalShares = b.vault.totalShares - shares
      /\ NotDiluted(b.vault, v)
  BY <1>1, <1>2, BurnKeepsRate
<1> HIDE DEF v
<1>4. left = [b EXCEPT !.p = q, !.vault = v]
  BY <1>1 DEF BookSet, v
<1>5. /\ q \in Position /\ q.owner = b.p.owner /\ q.token = b.p.token
      /\ q.collateral = b.p.collateral
      /\ q.borrow = b.p.borrow /\ q.shares = b.p.shares - shares
  BY <1>1, <1>2 DEF Position
<1> HIDE DEF q, left
<1>6. left \in BookSet
  BY <1>1, <1>3, <1>4, <1>5 DEF BookSet
<1>7. /\ left.p = q /\ left.bank = b.bank /\ left.debt = b.debt
      /\ left.vault = v /\ left.cash = b.cash
  BY <1>1, <1>4 DEF BookSet
<1>8. vault.totalShares \in Nat /\ p.shares \in Nat
  BY DEF TypeOK, Fits, Position
<1>9. Keeps(p, left)
  BY <1>1, <1>3, <1>5, <1>6, <1>7, <1>8 DEF Keeps
<1> QED
  BY <1>3, <1>5, <1>7, <1>9 DEF left

\* Conversions at the prices are natural numbers.
LEMMA ConvertNat ==
  ASSUME TypeOK, NEW token \in Tokens, NEW n \in Nat
  PROVE  Convert(token, n) \in Nat /\ Value(token, n) \in Nat
<1>1. price[token] \in Nat \ {0} /\ One \in Nat \ {0}
  BY InvestorAssumption DEF TypeOK
<1>2. n * One \in Nat /\ n * price[token] \in Nat
  BY <1>1, TimesNat
<1> QED
  BY <1>1, <1>2, DivNat DEF Convert, Value

\* The lower of two natural numbers is at most either.
LEMMA LowerOfNat ==
  ASSUME NEW a \in Nat, NEW b \in Nat
  PROVE  LowerOf(a, b) \in Nat /\ LowerOf(a, b) <= a /\ LowerOf(a, b) <= b
BY DEF LowerOf

\* Part 2 of edit keeps the books and does not dilute; when it sells the last shares
\* it repays the whole borrow.
LEMMA SellSharesKeeps ==
  ASSUME TypeOK, NEW p, Fits(p), NEW b, Keeps(p, b),
         NEW shares \in Nat, shares <= b.p.shares, NEW d \in SellShares(b, shares)
  PROVE  /\ Keeps(p, d)
         /\ NotDiluted(b.vault, d.vault)
         /\ d.p.shares = b.p.shares - shares
         /\ d.p.borrow <= b.p.borrow
         /\ shares = b.p.shares => d.p.borrow = 0
<1> DEFINE left == [b EXCEPT !.p.shares = @ - shares, !.vault = AfterBurn(@, shares)]
<1>1. PICK amount \in Swapped(Rate(b.vault, shares)) :
        LET repaying == Repaying(b.p, shares, amount)
            missing == Owed(b.p.borrow) - amount
            sold == CollateralToSell(b.p, missing)
        IN d \in IF shares # b.p.shares \/ missing <= 0
                 THEN Repaid(left, repaying, amount)
                 ELSE UNION {Repaid(TakenOut(left, sold), repaying, amount + topup) :
                               topup \in Swapped(Value(b.p.token, sold))}
  BY DEF SellShares
<1> DEFINE repaying == Repaying(b.p, shares, amount)
           missing == Owed(b.p.borrow) - amount
           sold == CollateralToSell(b.p, missing)
<1>2. /\ Keeps(p, left)
      /\ Rate(b.vault, shares) \in Nat
      /\ NotDiluted(b.vault, left.vault)
      /\ left.p.shares = b.p.shares - shares
      /\ left.p.borrow = b.p.borrow
      /\ left.p.collateral = b.p.collateral
      /\ left.p.token = b.p.token
  BY SoldKeeps, Zenon
<1> HIDE DEF left
<1>3. /\ b \in BookSet /\ b.p.borrow \in Nat /\ b.p.shares \in Nat
      /\ b.p.collateral \in Nat /\ b.p.token \in Tokens
  BY BookFields DEF Keeps, Fits
<1>4. amount \in Nat
  BY <1>2, SwappedNat
<1>5. /\ repaying \in Nat /\ repaying <= b.p.borrow
      /\ shares = b.p.shares => repaying = b.p.borrow
  <2>1. BorrowShares(amount) \in Nat
    BY <1>4, PoolNat
  <2>2. CASE shares = b.p.shares
    BY <1>3, <2>2 DEF Repaying
  <2>3. CASE shares # b.p.shares
    <3>1. repaying = LowerOf(BorrowShares(amount), b.p.borrow)
      BY <2>3 DEF Repaying
    <3> QED
      BY <1>3, <2>1, <2>3, <3>1, LowerOfNat
  <2> QED
    BY <2>2, <2>3
<1> HIDE DEF repaying
<1>6. Owed(b.p.borrow) \in Nat
  BY <1>3, PoolNat
<1>7. CASE shares # b.p.shares \/ missing <= 0
  <2>1. d \in Repaid(left, repaying, amount)
    BY <1>1, <1>7 DEF repaying
  <2>2. /\ Keeps(p, d) /\ d.vault = left.vault /\ d.p.shares = left.p.shares
        /\ d.p.borrow = left.p.borrow - repaying
    BY <1>2, <1>4, <1>5, <2>1, RepaidKeeps
  <2> QED
    BY <1>2, <1>3, <1>5, <2>2
<1>8. CASE ~ (shares # b.p.shares \/ missing <= 0)
  <2>1. PICK topup \in Swapped(Value(b.p.token, sold)) :
          d \in Repaid(TakenOut(left, sold), repaying, amount + topup)
    BY <1>1, <1>8 DEF repaying
  <2>2. sold \in Nat /\ sold <= b.p.collateral
    <3>1. missing \in Nat
      BY <1>4, <1>6, <1>8
    <3> HIDE DEF missing
    <3> DEFINE c == Convert(b.p.token, missing)
               n == (c * (Bps + closeCollateralPadding)) \div Bps
    <3>2. c \in Nat
      BY <1>3, <3>1, ConvertNat
    <3> HIDE DEF c
    <3>3. n \in Nat
      BY <3>2 DEF Bps, closeCollateralPadding
    <3> HIDE DEF n
    <3>4. sold = LowerOf(n, b.p.collateral)
      BY DEF CollateralToSell, n, c
    <3> QED
      BY <1>3, <3>3, <3>4, LowerOfNat
  <2> HIDE DEF sold
  <2>3. topup \in Nat
    <3>1. Value(b.p.token, sold) \in Nat
      BY <1>3, <2>2, ConvertNat
    <3> QED
      BY <3>1, SwappedNat
  <2>4. /\ Keeps(p, TakenOut(left, sold))
        /\ TakenOut(left, sold).p.borrow = left.p.borrow
        /\ TakenOut(left, sold).p.shares = left.p.shares
        /\ TakenOut(left, sold).vault = left.vault
    BY <1>2, <2>2, TakenOutKeeps
  <2>5. amount + topup \in Nat
    BY <1>4, <2>3
  <2>6. /\ Keeps(p, d) /\ d.vault = left.vault /\ d.p.shares = left.p.shares
        /\ d.p.borrow = left.p.borrow - repaying
    BY <1>2, <1>5, <2>1, <2>4, <2>5, RepaidKeeps
  <2> QED
    BY <1>2, <1>3, <1>5, <2>6
<1> QED
  BY <1>7, <1>8

\* What an owner sells or takes is a natural number.
LEMMA PartsNat ==
  ASSUME NEW n \in Nat, NEW k \in Parts(n)
  PROVE  k \in Nat
<1>1. n \div 2 \in Nat
  BY SMT
<1> QED
  BY <1>1 DEF Parts

\* The amounts of an edit are natural numbers.
LEMMA EditsNat ==
  ASSUME TypeOK, NEW id \in Ids, NEW e \in Edits(id)
  PROVE  e.sell \in Nat /\ e.borrow \in Nat /\ e.add \in Nat /\ e.take \in Nat
<1>1. /\ e.sell \in Parts(pos[id].shares) /\ e.borrow \in Borrows \cup {0}
      /\ e.add \in Collaterals \cup {0} /\ e.take \in Parts(pos[id].collateral)
  BY DEF Edits
<1>2. pos[id].shares \in Nat /\ pos[id].collateral \in Nat
  BY DEF TypeOK, Position
<1>3. e.sell \in Nat /\ e.take \in Nat
  BY <1>1, <1>2, PartsNat
<1>4. Borrows \cup {0} \subseteq Nat /\ Collaterals \cup {0} \subseteq Nat
  BY InvestorAssumption
<1>5. e.borrow \in Nat /\ e.add \in Nat
  BY <1>1, <1>4
<1> QED
  BY <1>3, <1>5

\* An edit keeps the books and does not dilute; the borrow rises only when the edit
\* borrows, and a position that loses its last shares owes nothing.
LEMMA EditBooksKeep ==
  ASSUME TypeOK, NEW id \in Ids, Fits(pos[id]), NEW e \in Edits(id),
         e.sell <= pos[id].shares, NEW d \in EditBooks(id, e)
  PROVE  /\ Keeps(pos[id], d)
         /\ NotDiluted(vault, d.vault)
         /\ e.borrow = 0 => d.p.borrow <= pos[id].borrow
         /\ pos[id].shares # 0 /\ d.p.shares = 0 => d.p.borrow = 0
<1> DEFINE p == pos[id]
           start == Deposited(Books(p), e.add)
           traded == IF e.sell > 0 THEN SellShares(start, e.sell)
                     ELSE IF e.borrow > 0 THEN BorrowMore(start, e.borrow)
                     ELSE {start}
<1>1. e.sell \in Nat /\ e.borrow \in Nat /\ e.add \in Nat /\ e.take \in Nat
  BY EditsNat
<1>2. p \in Position /\ p.shares \in Nat /\ p.borrow \in Nat
  BY DEF TypeOK, Position
<1>3. Fits(p)
  OBVIOUS
<1>4. Books(p) \in BookSet /\ Books(p).p = p /\ Books(p).vault = vault
  BY <1>3, BooksKept DEF Keeps, Books
<1>5. Keeps(p, start)
  BY <1>1, <1>3, BooksKept, DepositedKeeps
<1>6. start.p.shares = p.shares /\ start.p.borrow = p.borrow /\ start.vault = vault
  <2>1. Books(p).p.token \in Tokens
    BY <1>3, <1>4 DEF Fits
  <2>2. /\ start.p = [Books(p).p EXCEPT !.collateral = @ + e.add]
        /\ start.vault = Books(p).vault
    BY <1>1, <1>4, <2>1, DepositedFields, Zenon
  <2> QED
    BY <1>2, <1>4, <2>2 DEF Position
<1>7. vault \in Vaults
  BY DEF TypeOK, Vaults
<1>8. NotDiluted(vault, vault)
  BY <1>7, TimesNat DEF NotDiluted, Vaults
<1>9. PICK b \in traded :
        d = IF e.take = 0 THEN b ELSE TakenOut(b, LowerOf(e.take, b.p.collateral))
  BY DEF EditBooks
<1> HIDE DEF start
<1>10. /\ Keeps(p, b) /\ NotDiluted(vault, b.vault)
       /\ e.borrow = 0 => b.p.borrow <= p.borrow
       /\ p.shares # 0 /\ b.p.shares = 0 => b.p.borrow = 0
  <2>1. CASE e.sell > 0
    <3>1. b \in SellShares(start, e.sell)
      BY <1>9, <2>1
    <3>2. /\ Keeps(p, b) /\ NotDiluted(start.vault, b.vault)
          /\ b.p.shares = start.p.shares - e.sell
          /\ b.p.borrow <= start.p.borrow
          /\ e.sell = start.p.shares => b.p.borrow = 0
      BY <1>1, <1>3, <1>5, <1>6, <3>1, SellSharesKeeps
    <3> QED
      BY <1>1, <1>2, <1>6, <3>2
  <2>2. CASE ~ (e.sell > 0) /\ e.borrow > 0
    <3>1. b \in BorrowMore(start, e.borrow)
      BY <1>9, <2>2
    <3>2. /\ Keeps(p, b) /\ NotDiluted(start.vault, b.vault)
          /\ b.p.shares >= start.p.shares
      BY <1>1, <1>3, <1>5, <3>1, BorrowMoreKeeps
    <3>3. b.p.shares \in Nat
      BY <3>2, BookFields DEF Keeps
    <3> QED
      BY <1>1, <1>2, <1>6, <2>2, <3>2, <3>3
  <2>3. CASE ~ (e.sell > 0) /\ ~ (e.borrow > 0)
    BY <1>2, <1>5, <1>6, <1>8, <1>9, <2>3
  <2> QED
    BY <2>1, <2>2, <2>3
<1>11. CASE e.take = 0
  BY <1>9, <1>10, <1>11
<1>12. CASE e.take # 0
  <2> DEFINE k == LowerOf(e.take, b.p.collateral)
  <2>1. k \in Nat /\ k <= b.p.collateral
    <3>1. b.p.collateral \in Nat
      BY <1>10, BookFields DEF Keeps
    <3> QED
      BY <1>1, <3>1, LowerOfNat
  <2> HIDE DEF k
  <2>2. /\ Keeps(p, TakenOut(b, k)) /\ TakenOut(b, k).vault = b.vault
        /\ TakenOut(b, k).p.borrow = b.p.borrow
        /\ TakenOut(b, k).p.shares = b.p.shares
    BY <1>3, <1>10, <2>1, TakenOutKeeps
  <2>3. d = TakenOut(b, k)
    BY <1>9, <1>12 DEF k
  <2> QED
    BY <1>10, <2>2, <2>3
<1> QED
  BY <1>11, <1>12

\* What the liquidator may take for the debt repaid
Target(repaid) == repaid + 2 * ((repaid * killCollateralPadding) \div (2 * Bps))

\* A liquidation keeps the books and does not dilute; and what it takes.
LEMMA SeizedKeeps ==
  ASSUME TypeOK, NEW id \in Ids, Fits(pos[id]),
         NEW repaying \in Nat, NEW repaid \in Nat, NEW d \in Seized(id, repaying, repaid)
  PROVE  /\ Keeps(pos[id], d)
         /\ NotDiluted(vault, d.vault)
         /\ d.p.borrow = pos[id].borrow - repaying
         /\ Owed(repaying) <= repaid /\ repaying <= pos[id].borrow
         /\ LET p == pos[id]
                worth == Rate(vault, p.shares)
            IN /\ worth # 0
               /\ d.p.shares = p.shares - SeizedShares(p, Target(repaid), worth)
               /\ d.vault = AfterBurn(vault, SeizedShares(p, Target(repaid), worth))
               /\ d.p.collateral
                    = p.collateral - SeizedCollateral(p, Target(repaid), worth)
<1> DEFINE p == pos[id]
           fee == (repaid * killCollateralPadding) \div (2 * Bps)
           target == repaid + 2 * fee
           worth == Rate(vault, p.shares)
           seized == SeizedCollateral(p, target, worth)
           taken == TakenOut(Books(p), seized)
           shares == SeizedShares(p, target, worth)
           kept == cash + fee + repaid - Owed(repaying)
<1>1. /\ ~ (worth = 0 \/ Owed(repaying) > repaid \/ repaying > p.borrow)
      /\ d = [taken EXCEPT !.p.shares = @ - shares,
                           !.p.borrow = @ - repaying,
                           !.debt = @ - repaying,
                           !.vault = AfterBurn(@, shares),
                           !.cash = @ + fee + repaid - Owed(repaying)]
  BY DEF Seized
<1>2. /\ p \in Position /\ p.shares \in Nat /\ p.borrow \in Nat /\ p.collateral \in Nat
      /\ Fits(p) /\ p.token \in Tokens
  BY DEF TypeOK, Position, Fits
<1>3. /\ Keeps(p, Books(p)) /\ Books(p).p = p /\ Books(p).vault = vault
      /\ Books(p).cash = cash /\ Books(p).debt = debt
  BY <1>2, BooksKept DEF Books
<1>4. fee \in Nat
  BY DEF Bps, killCollateralPadding
<1> HIDE DEF fee
<1>5. target \in Nat
  BY <1>4
<1> HIDE DEF target
<1>6. /\ vault \in Vaults /\ vault.totalShares \in Nat \ {0} /\ p.shares < vault.totalShares
      /\ cash \in Nat /\ debt \in Nat /\ p.borrow <= debt
  BY <1>2, InvestorAssumption DEF TypeOK, Vaults, Fits
<1>7. worth \in Nat /\ worth # 0
  BY <1>1, <1>2, <1>6, BurnKeepsRate
<1> HIDE DEF worth
<1>8. seized \in Nat /\ seized <= p.collateral
  <2>1. CASE worth >= target
    BY <1>2, <2>1 DEF SeizedCollateral
  <2>2. CASE ~ (worth >= target)
    <3>1. target - worth \in Nat
      BY <1>5, <1>7, <2>2
    <3>2. Convert(p.token, target - worth) \in Nat
      BY <1>2, <3>1, ConvertNat
    <3>3. seized = LowerOf(Convert(p.token, target - worth), p.collateral)
      BY <2>2 DEF SeizedCollateral
    <3> QED
      BY <1>2, <3>2, <3>3, LowerOfNat
  <2> QED
    BY <2>1, <2>2
<1> HIDE DEF seized
<1>9. shares \in Nat /\ shares <= p.shares
  <2>1. (p.shares * target) \div worth \in Nat
    BY <1>2, <1>5, <1>7, TimesNat, DivNat
  <2> QED
    BY <1>2, <2>1, LowerOfNat DEF SeizedShares
<1> HIDE DEF shares
<1>10. Owed(repaying) \in Nat
  BY PoolNat
<1>11. /\ Owed(repaying) <= repaid /\ repaying <= p.borrow
       /\ p.borrow - repaying \in Nat /\ p.shares - shares \in Nat
       /\ debt - repaying \in Nat
       /\ kept \in Nat /\ kept >= cash
  BY <1>1, <1>2, <1>4, <1>6, <1>9, <1>10
<1>12. /\ Keeps(p, taken) /\ taken.p.borrow = p.borrow /\ taken.p.shares = p.shares
       /\ taken.vault = vault /\ taken.debt = debt
  BY <1>2, <1>3, <1>8, TakenOutKeeps
<1>13. taken.cash = cash /\ taken.p.collateral = p.collateral - seized
  <2>1. Books(p) \in BookSet
    BY <1>3 DEF Keeps
  <2> QED
    BY <1>2, <1>3, <2>1 DEF TakenOut, BookSet, Position
<1> HIDE DEF taken
<1> DEFINE v == AfterBurn(vault, shares)
<1>14. /\ v \in Vaults /\ v.totalShares = vault.totalShares - shares /\ NotDiluted(vault, v)
  <2>1. shares < vault.totalShares
    BY <1>2, <1>6, <1>9
  <2> QED
    BY <1>6, <1>9, <2>1, BurnKeepsRate
<1> HIDE DEF v
<1>15. taken \in BookSet /\ taken.p \in Position
  BY <1>12, BookFields DEF Keeps
<1> DEFINE q == [taken.p EXCEPT !.shares = @ - shares, !.borrow = @ - repaying]
<1>16. d = [taken EXCEPT !.p = q, !.debt = debt - repaying, !.vault = v, !.cash = kept]
  BY <1>1, <1>12, <1>13, <1>15 DEF BookSet, v
<1> HIDE DEF kept
<1>17. /\ q \in Position /\ q.owner = taken.p.owner /\ q.token = taken.p.token
       /\ q.collateral = taken.p.collateral
       /\ q.borrow = p.borrow - repaying /\ q.shares = p.shares - shares
  BY <1>11, <1>12, <1>15 DEF Position
<1> HIDE DEF q
<1>18. d \in BookSet
  BY <1>11, <1>14, <1>15, <1>16, <1>17 DEF BookSet
<1>19. /\ d.p = q /\ d.bank = taken.bank /\ d.debt = debt - repaying
       /\ d.vault = v /\ d.cash = kept
  BY <1>15, <1>16 DEF BookSet
<1>20. Keeps(p, d)
  BY <1>2, <1>6, <1>9, <1>11, <1>12, <1>14, <1>17, <1>18, <1>19 DEF Keeps
<1>21. target = Target(repaid)
  BY DEF target, fee, Target
<1>22. d.p.shares = p.shares - SeizedShares(p, Target(repaid), worth)
  BY <1>17, <1>19, <1>21 DEF shares
<1>23. d.vault = AfterBurn(vault, SeizedShares(p, Target(repaid), worth))
  BY <1>19, <1>21 DEF v, shares
<1>24. d.p.collateral = p.collateral - SeizedCollateral(p, Target(repaid), worth)
  BY <1>13, <1>17, <1>19, <1>21 DEF seized
<1>25. /\ NotDiluted(vault, d.vault) /\ d.p.borrow = pos[id].borrow - repaying
       /\ Owed(repaying) <= repaid /\ repaying <= pos[id].borrow /\ worth # 0
  BY <1>7, <1>11, <1>14, <1>17, <1>19
<1> QED
  BY <1>20, <1>22, <1>23, <1>24, <1>25, Zenon DEF worth

-----------------------------------------------------------------------------
(* The sums *)

\* There are finitely many positions.
LEMMA IdsFinite == IsFiniteSet(Ids)
<1>1. 1 \in Int /\ MaxPositions \in Int
  BY InvestorAssumption
<1> QED
  BY <1>1, FS_Interval DEF Ids

\* The total over the positions after the change of one.
LEMMA SumOfOneChanged ==
  ASSUME NEW id \in Ids, NEW f, NEW g,
         \A i \in Ids : f[i] \in Nat /\ g[i] \in Nat,
         \A i \in Ids \ {id} : f[i] = g[i]
  PROVE  /\ SumFunctionOnSet(g, Ids) = SumFunctionOnSet(f, Ids) - f[id] + g[id]
         /\ SumFunctionOnSet(f, Ids) \in Nat
BY IdsFinite, SumChange

\* What an opened position has is within the totals.
LEMMA OpenedFits ==
  ASSUME IInv, NEW id \in Ids, id <= count
  PROVE  Fits(pos[id])
<1>1. /\ pos[id] \in Position /\ pos[id].token \in Tokens /\ Seed \in Nat
      /\ \A i \in Ids : /\ pos[i] \in Position
                        /\ pos[i].shares \in Nat /\ pos[i].borrow \in Nat
                        /\ pos[i].collateral \in Nat
  BY InvestorAssumption DEF IInv, Opened, TypeOK, Position
<1>2. pos[id].borrow <= debt
  <2> DEFINE f == Held("borrow")
  <2>1. \A i \in Ids : f[i] \in Nat
    BY <1>1 DEF Held
  <2>2. f[id] = pos[id].borrow
    BY DEF Held
  <2> HIDE DEF f
  <2>3. f[id] <= SumFunctionOnSet(f, Ids)
    BY <2>1, IdsFinite, SumNat
  <2> QED
    BY <2>2, <2>3 DEF IInv, DebtMatches, f
<1>3. pos[id].shares + Seed <= vault.totalShares
  <2> DEFINE f == Held("shares")
  <2>1. \A i \in Ids : f[i] \in Nat
    BY <1>1 DEF Held
  <2>2. f[id] = pos[id].shares
    BY DEF Held
  <2> HIDE DEF f
  <2>3. SumFunctionOnSet(f, Ids) \in Nat /\ f[id] <= SumFunctionOnSet(f, Ids)
    BY <2>1, IdsFinite, SumNat
  <2>4. vault.totalShares = Seed + SumFunctionOnSet(f, Ids)
    BY DEF IInv, SharesBacked, f
  <2> QED
    BY <1>1, <2>2, <2>3, <2>4
<1>4. pos[id].collateral <= bank[pos[id].token]
  <2> DEFINE t == pos[id].token
             f == HeldIn(t)
  <2>1. \A i \in Ids : f[i] \in Nat
    BY <1>1 DEF HeldIn
  <2>2. f[id] = pos[id].collateral
    BY DEF HeldIn
  <2> HIDE DEF f
  <2>3. f[id] <= SumFunctionOnSet(f, Ids)
    BY <2>1, IdsFinite, SumNat
  <2>4. bank[t] = SumFunctionOnSet(f, Ids)
    BY <1>1 DEF IInv, CollateralBacked, f
  <2> QED
    BY <2>2, <2>3, <2>4
<1> QED
  BY <1>1, <1>2, <1>3, <1>4 DEF Fits

\* So is what a position has before it is opened: nothing.
LEMMA FreshFits ==
  ASSUME IInv, NEW owner \in Owners, NEW token \in Tokens
  PROVE  Fits([NoPosition EXCEPT !.owner = owner, !.token = token])
<1> DEFINE p == [NoPosition EXCEPT !.owner = owner, !.token = token]
<1>1. /\ p \in Position /\ p.token = token /\ p.borrow = 0 /\ p.shares = 0 /\ p.collateral = 0
  BY DEF NoPosition, Position
<1> HIDE DEF p
<1>2. Seed <= vault.totalShares
  <2> DEFINE f == Held("shares")
  <2>1. \A i \in Ids : f[i] \in Nat
    BY DEF Held, IInv, TypeOK, Position
  <2> HIDE DEF f
  <2>2. SumFunctionOnSet(f, Ids) \in Nat
    BY <2>1, IdsFinite, SumNat
  <2>3. vault.totalShares = Seed + SumFunctionOnSet(f, Ids)
    BY DEF IInv, SharesBacked, f
  <2> QED
    BY <2>2, <2>3, InvestorAssumption
<1>3. debt \in Nat /\ bank[token] \in Nat /\ Seed \in Nat
  BY InvestorAssumption DEF IInv, TypeOK
<1> QED
  BY <1>1, <1>2, <1>3 DEF Fits, p

-----------------------------------------------------------------------------
(* The inductive invariant *)

\* The deployed Investor satisfies the inductive invariant.
LEMMA InitIInv == Init => IInv
<1> SUFFICES ASSUME Init PROVE IInv
  OBVIOUS
<1>1. TypeOK
  BY InvestorAssumption
     DEF Init, TypeOK, NoPosition, Position, STATUS_LIVE
<1>2. \A id \in Ids : pos[id] = NoPosition
  BY DEF Init
<1>3. SharesBacked
  <2>1. \A id \in Ids : Held("shares")[id] = 0
    BY <1>2 DEF Held, NoPosition
  <2>2. SumFunctionOnSet(Held("shares"), Ids) = 0
    BY <2>1, IdsFinite, SumZero
  <2> QED
    BY <2>2, InvestorAssumption DEF Init, SharesBacked
<1>4. DebtMatches
  <2>1. \A id \in Ids : Held("borrow")[id] = 0
    BY <1>2 DEF Held, NoPosition
  <2>2. SumFunctionOnSet(Held("borrow"), Ids) = 0
    BY <2>1, IdsFinite, SumZero
  <2> QED
    BY <2>2 DEF Init, DebtMatches
<1>5. CollateralBacked
  <2> SUFFICES ASSUME NEW t \in Tokens PROVE bank[t] = SumFunctionOnSet(HeldIn(t), Ids)
    BY DEF CollateralBacked
  <2>1. \A id \in Ids : HeldIn(t)[id] = 0
    BY <1>2 DEF HeldIn, NoPosition
  <2>2. SumFunctionOnSet(HeldIn(t), Ids) = 0
    BY <2>1, IdsFinite, SumZero
  <2> QED
    BY <2>2 DEF Init
<1>6. Opened /\ BlockOpened
  BY <1>2 DEF Init, Opened, BlockOpened, Ids
<1> QED
  BY <1>1, <1>3, <1>4, <1>5, <1>6 DEF IInv

\* The totals after a position went from what it had to what b says it has.
LEMMA CommitKeepsSums ==
  ASSUME IInv, NEW id \in Ids, NEW b, NEW p,
         p \in Position, p.token \in Tokens,
         p.borrow = pos[id].borrow, p.shares = pos[id].shares,
         p.collateral = pos[id].collateral,
         p.token = pos[id].token \/ pos[id].collateral = 0,
         Keeps(p, b),
         pos' = [pos EXCEPT ![id] = b.p], bank' = b.bank, debt' = b.debt,
         vault' = b.vault
  PROVE  SharesBacked' /\ DebtMatches' /\ CollateralBacked'
<1>1. /\ pos \in [Ids -> Position]
      /\ \A i \in Ids : /\ pos[i].shares \in Nat /\ pos[i].borrow \in Nat
                        /\ pos[i].collateral \in Nat
  BY DEF IInv, TypeOK, Position
<1>2. /\ b \in BookSet /\ b.p \in Position /\ b.p.shares \in Nat /\ b.p.borrow \in Nat
      /\ b.p.collateral \in Nat /\ b.p.token = p.token
  BY BookFields DEF Keeps
<1>3. pos'[id] = b.p /\ \A i \in Ids \ {id} : pos'[i] = pos[i]
  BY <1>1
<1>4. SharesBacked'
  <2> DEFINE f == Held("shares")
             g == Held("shares")'
  <2>1. f[id] = pos[id].shares /\ g[id] = b.p.shares
    BY <1>3 DEF Held
  <2>2. \A i \in Ids : f[i] \in Nat /\ g[i] \in Nat
    BY <1>1, <1>2, <1>3 DEF Held
  <2>3. \A i \in Ids \ {id} : f[i] = g[i]
    BY <1>3 DEF Held
  <2>4. vault.totalShares = Seed + SumFunctionOnSet(f, Ids)
    BY DEF IInv, SharesBacked
  <2> HIDE DEF f, g
  <2>5. /\ SumFunctionOnSet(g, Ids) = SumFunctionOnSet(f, Ids) - f[id] + g[id]
        /\ SumFunctionOnSet(f, Ids) \in Nat
    BY <2>2, <2>3, SumOfOneChanged, Zenon
  <2>6. b.vault.totalShares - b.p.shares = vault.totalShares - p.shares
    BY DEF Keeps
  <2>7. b.vault.totalShares \in Nat
    BY <1>2, BookFields
  <2>8. vault'.totalShares = Seed + SumFunctionOnSet(g, Ids)
    BY <1>1, <1>2, <2>1, <2>4, <2>5, <2>6, <2>7, InvestorAssumption
  <2> QED
    BY <2>8 DEF SharesBacked, g
<1>5. DebtMatches'
  <2> DEFINE f == Held("borrow")
             g == Held("borrow")'
  <2>1. f[id] = pos[id].borrow /\ g[id] = b.p.borrow
    BY <1>3 DEF Held
  <2>2. \A i \in Ids : f[i] \in Nat /\ g[i] \in Nat
    BY <1>1, <1>2, <1>3 DEF Held
  <2>3. \A i \in Ids \ {id} : f[i] = g[i]
    BY <1>3 DEF Held
  <2>4. debt = SumFunctionOnSet(f, Ids)
    BY DEF IInv, DebtMatches
  <2> HIDE DEF f, g
  <2>5. /\ SumFunctionOnSet(g, Ids) = SumFunctionOnSet(f, Ids) - f[id] + g[id]
        /\ SumFunctionOnSet(f, Ids) \in Nat
    BY <2>2, <2>3, SumOfOneChanged, Zenon
  <2>6. b.debt - b.p.borrow = debt - p.borrow /\ b.debt \in Nat
    BY <1>2, BookFields DEF Keeps
  <2>7. debt' = SumFunctionOnSet(g, Ids)
    BY <1>1, <1>2, <2>1, <2>4, <2>5, <2>6
  <2> QED
    BY <2>7 DEF DebtMatches, g
<1>6. CollateralBacked'
  <2> SUFFICES ASSUME NEW t \in Tokens
               PROVE  bank'[t] = SumFunctionOnSet(HeldIn(t)', Ids)
    BY DEF CollateralBacked
  <2> DEFINE f == HeldIn(t)
             g == HeldIn(t)'
  <2>1. /\ f[id] = IF p.token = t THEN p.collateral ELSE 0
        /\ g[id] = IF p.token = t THEN b.p.collateral ELSE 0
    BY <1>2, <1>3 DEF HeldIn
  <2>2. \A i \in Ids : f[i] \in Nat /\ g[i] \in Nat
    BY <1>1, <1>2, <1>3 DEF HeldIn
  <2>3. \A i \in Ids \ {id} : f[i] = g[i]
    BY <1>3 DEF HeldIn
  <2>4. bank[t] = SumFunctionOnSet(f, Ids)
    BY DEF IInv, CollateralBacked
  <2> HIDE DEF f, g
  <2>5. /\ SumFunctionOnSet(g, Ids) = SumFunctionOnSet(f, Ids) - f[id] + g[id]
        /\ SumFunctionOnSet(f, Ids) \in Nat
    BY <2>2, <2>3, SumOfOneChanged, Zenon
  <2>6. CASE p.token = t
    <3>1. b.bank[t] - b.p.collateral = bank[t] - p.collateral /\ b.bank[t] \in Nat
      BY <1>2, <2>6, BookFields DEF Keeps
    <3>2. bank'[t] = SumFunctionOnSet(g, Ids)
      BY <1>1, <1>2, <2>1, <2>4, <2>5, <2>6, <3>1
    <3> QED
      BY <3>2 DEF g
  <2>7. CASE p.token # t
    <3>1. b.bank[t] = bank[t]
      BY <2>7 DEF Keeps
    <3>2. bank'[t] = SumFunctionOnSet(g, Ids)
      BY <2>1, <2>4, <2>5, <2>7, <3>1
    <3> QED
      BY <3>2 DEF g
  <2> QED
    BY <2>6, <2>7
<1> QED
  BY <1>4, <1>5, <1>6

\* A call that commits kept books keeps the inductive invariant.
LEMMA CommitKeepsIInv ==
  ASSUME IInv, NEW id \in Ids, NEW b, NEW p,
         p \in Position, p.token \in Tokens, p.owner \in Owners,
         p.borrow = pos[id].borrow, p.shares = pos[id].shares,
         p.collateral = pos[id].collateral,
         p.token = pos[id].token \/ pos[id].collateral = 0,
         Keeps(p, b), Commit(id, b), calls < MaxCalls,
         \/ count' = count /\ id <= count
         \/ count' = count + 1 /\ id = count + 1
  PROVE  IInv'
<1>1. SharesBacked' /\ DebtMatches' /\ CollateralBacked'
  BY CommitKeepsSums DEF Commit
<1>2. /\ b \in BookSet /\ b.p \in Position /\ b.p.owner \in Owners /\ b.p.token \in Tokens
      /\ b.bank \in [Tokens -> Nat] /\ b.debt \in Nat /\ b.vault \in Vaults /\ b.cash \in Nat
  BY BookFields DEF Keeps
<1>3. TypeOK
  BY DEF IInv
<1>4. pos \in [Ids -> Position]
  BY <1>3 DEF TypeOK
<1>5. /\ pos' = [pos EXCEPT ![id] = b.p] /\ pos' \in [Ids -> Position]
      /\ pos'[id] = b.p /\ \A i \in Ids \ {id} : pos'[i] = pos[i]
  BY <1>2, <1>4 DEF Commit
<1>6. count \in Nat /\ id \in Nat /\ id <= MaxPositions /\ MaxPositions \in Nat
  BY <1>3, InvestorAssumption DEF TypeOK, Ids
<1>7. TypeOK'
  <2>1. count' \in 0..MaxPositions
    BY <1>3, <1>6 DEF TypeOK
  <2>2. calls' \in 0..MaxCalls
    BY <1>3, InvestorAssumption DEF TypeOK, Commit
  <2>3. sameBlock' \subseteq Ids /\ changed' \subseteq sameBlock'
    BY <1>3 DEF TypeOK, Commit
  <2>4. /\ bank' \in [Tokens -> Nat] /\ debt' \in Nat /\ cash' \in Nat
        /\ vault' \in [totalShares : Nat, assets : Nat]
    BY <1>2 DEF Commit, Vaults
  <2>5. UNCHANGED <<status, strategyStatus, index, price, moves>>
    BY DEF Commit
  <2> QED
    BY <1>3, <1>5, <2>1, <2>2, <2>3, <2>4, <2>5 DEF TypeOK
<1>8. Opened'
  <2> SUFFICES ASSUME NEW i \in Ids
               PROVE  IF i <= count' THEN pos'[i].owner \in Owners /\ pos'[i].token \in Tokens
                      ELSE pos'[i] = NoPosition
    BY DEF Opened
  <2>1. CASE i = id
    BY <1>2, <1>5, <1>6, <2>1
  <2>2. CASE i # id
    <3>1. i \in Nat /\ pos'[i] = pos[i] /\ (i <= count' <=> i <= count)
      BY <1>5, <1>6, <2>2 DEF Ids
    <3> QED
      BY <3>1 DEF IInv, Opened
  <2> QED
    BY <2>1, <2>2
<1>9. BlockOpened'
  <2>1. \A i \in sameBlock : i <= count /\ i \in Nat
    BY <1>3 DEF IInv, BlockOpened, TypeOK, Ids
  <2>2. sameBlock' = sameBlock \cup {id}
    BY DEF Commit
  <2> QED
    BY <1>6, <2>1, <2>2 DEF BlockOpened
<1> QED
  BY <1>1, <1>7, <1>8, <1>9 DEF IInv

-----------------------------------------------------------------------------
(* The calls *)

\* p is the position in memory of a call on id: the stored one, or a fresh one.
Served(id, p) ==
  \/ /\ p = pos[id] /\ id <= count
     /\ count' = count
  \/ /\ \E owner \in Owners, token \in Tokens :
           p = [NoPosition EXCEPT !.owner = owner, !.token = token]
     /\ id = count + 1
     /\ count' = id

\* A call on position id, p in memory, that ends with the books b
Trade(id, p, b) ==
  /\ id \in Ids /\ id \notin sameBlock
  /\ calls < MaxCalls
  /\ Served(id, p)
  /\ Fits(p)
  /\ Keeps(p, b)
  /\ NotDiluted(vault, b.vault)
  /\ Commit(id, b)

\* An open is a trade of the next id, which was empty, by a live Investor and strategy,
\* and leaves a healthy position.
LEMMA OpenTrades ==
  ASSUME IInv, NEW owner \in Owners, NEW token \in Tokens,
         NEW collateral \in Collaterals, NEW borrow \in Borrows,
         Open(owner, token, collateral, borrow)
  PROVE  /\ Live
         /\ pos[count + 1] = NoPosition
         /\ \E p, b : /\ Trade(count + 1, p, b)
                      /\ Life(b.p, b.vault) >= One
<1> DEFINE id == count + 1
           p == [NoPosition EXCEPT !.owner = owner, !.token = token]
           start == Deposited(Books(p), collateral)
<1>1. /\ calls < MaxCalls /\ id \in Ids /\ Live /\ count' = id
  BY DEF Open
<1>2. PICK b \in BorrowMore(start, borrow) : Life(b.p, b.vault) >= One /\ Commit(id, b)
  BY DEF Open
<1>3. TypeOK /\ Fits(p)
  BY FreshFits DEF IInv
<1>4. collateral \in Nat /\ borrow \in Nat
  BY InvestorAssumption
<1>5. Keeps(p, start)
  BY <1>3, <1>4, BooksKept, DepositedKeeps
<1>6. start.vault = vault
  <2>1. Books(p) \in BookSet /\ Books(p).p.token \in Tokens /\ Books(p).vault = vault
    BY <1>3, BooksKept DEF Keeps, Books, Fits
  <2> QED
    BY <1>4, <2>1, DepositedFields, Zenon
<1> HIDE DEF start
<1>7. Keeps(p, b) /\ NotDiluted(vault, b.vault)
  BY <1>2, <1>3, <1>4, <1>5, <1>6, BorrowMoreKeeps
<1>8. id \notin sameBlock /\ pos[id] = NoPosition
  BY <1>1, <1>3 DEF IInv, BlockOpened, Opened, TypeOK
<1>9. Served(id, p)
  BY <1>1 DEF Served
<1>10. Trade(id, p, b)
  BY <1>1, <1>2, <1>3, <1>7, <1>8, <1>9 DEF Trade
<1> QED
  BY <1>1, <1>2, <1>8, <1>10

\* An edit is a trade of an opened position that leaves it healthy.
LEMMA EditTrades ==
  ASSUME IInv, NEW caller \in Owners, NEW id \in Ids, NEW e \in Edits(id),
         Edit(caller, id, e)
  PROVE  /\ CanWithdraw
         /\ \E b : /\ Trade(id, pos[id], b)
                   /\ Life(b.p, b.vault) >= One
                   /\ b.p.borrow <= pos[id].borrow \/ Live
                   /\ pos[id].shares # 0 /\ b.p.shares = 0 => b.p.borrow = 0
<1>1. PICK b \in EditBooks(id, e) : Life(b.p, b.vault) >= One /\ Commit(id, b)
  BY DEF Edit
<1>2. /\ calls < MaxCalls /\ pos[id].owner = caller /\ e.sell <= pos[id].shares
      /\ id \notin sameBlock
      /\ IF e.borrow > 0 THEN Live ELSE CanWithdraw
      /\ count' = count
  BY DEF Edit, EditChecks
<1>3. id <= count
  BY <1>2, InvestorAssumption DEF IInv, Opened, NoPosition
<1>4. TypeOK /\ Fits(pos[id])
  BY <1>3, OpenedFits DEF IInv
<1>5. /\ Keeps(pos[id], b)
      /\ NotDiluted(vault, b.vault)
      /\ e.borrow = 0 => b.p.borrow <= pos[id].borrow
      /\ pos[id].shares # 0 /\ b.p.shares = 0 => b.p.borrow = 0
  BY <1>1, <1>2, <1>4, EditBooksKeep
<1>6. e.borrow \in Nat
  BY <1>4, EditsNat
<1>7. CanWithdraw
  BY <1>2, <1>4 DEF Live, CanWithdraw, TypeOK, STATUS_LIVE, STATUS_WITHDRAW
<1>8. Trade(id, pos[id], b)
  BY <1>1, <1>2, <1>3, <1>4, <1>5 DEF Trade, Served
<1>9. b.p.borrow <= pos[id].borrow \/ Live
  BY <1>2, <1>5, <1>6
<1> QED
  BY <1>1, <1>5, <1>7, <1>8, <1>9

\* Only opened positions have a life below 1.
LEMMA UnhealthyOpened ==
  ASSUME IInv, NEW id \in Ids, Life(pos[id], vault) < One
  PROVE  id <= count
<1>1. pos[id].borrow # 0
  BY InvestorAssumption DEF Life
<1> QED
  BY <1>1 DEF IInv, Opened, NoPosition

\* A liquidation is a trade of an opened position.
LEMMA SeizedTrades ==
  ASSUME IInv, NEW id \in Ids, NEW repaying \in Nat, NEW repaid \in Nat,
         calls < MaxCalls, Killable(id), count' = count,
         NEW b \in Seized(id, repaying, repaid), Commit(id, b)
  PROVE  /\ Trade(id, pos[id], b)
         /\ b.p.borrow = pos[id].borrow - repaying
<1>1. id <= count /\ id \notin sameBlock
  BY UnhealthyOpened DEF Killable
<1>2. TypeOK /\ Fits(pos[id])
  BY <1>1, OpenedFits DEF IInv
<1>3. /\ Keeps(pos[id], b) /\ NotDiluted(vault, b.vault)
      /\ b.p.borrow = pos[id].borrow - repaying
  BY <1>2, SeizedKeeps
<1> QED
  BY <1>1, <1>2, <1>3 DEF Trade, Served

\* kill is a trade that repays the whole borrow.
LEMMA KillTrades ==
  ASSUME IInv, NEW id \in Ids, Kill(id)
  PROVE  /\ Killable(id)
         /\ \E b : Trade(id, pos[id], b) /\ b.p.borrow = 0
<1> DEFINE n == pos[id].borrow
<1>1. PICK b \in Seized(id, n, Owed(n)) : Commit(id, b)
  BY DEF Kill
<1>2. calls < MaxCalls /\ Killable(id) /\ count' = count
  BY DEF Kill
<1>3. n \in Nat
  BY DEF IInv, TypeOK, Position
<1>4. Owed(n) \in Nat
  BY <1>3, PoolNat DEF IInv
<1>5. Trade(id, pos[id], b) /\ b.p.borrow = n - n
  BY <1>1, <1>2, <1>3, <1>4, SeizedTrades, Zenon
<1> QED
  BY <1>2, <1>3, <1>5

\* partialKill is a trade that repays the amount.
LEMMA PartialKillTrades ==
  ASSUME IInv, NEW id \in Ids, NEW amount \in Repayments, PartialKill(id, amount)
  PROVE  /\ Killable(id)
         /\ \E b : Trade(id, pos[id], b) /\ b.p.borrow = pos[id].borrow - amount
<1>1. PICK b \in Seized(id, amount, amount) : Commit(id, b)
  BY DEF PartialKill
<1>2. calls < MaxCalls /\ Killable(id) /\ count' = count /\ amount \in Nat
  BY InvestorAssumption DEF PartialKill
<1>3. Trade(id, pos[id], b) /\ b.p.borrow = pos[id].borrow - amount
  BY <1>1, <1>2, SeizedTrades
<1> QED
  BY <1>2, <1>3

\* A trade keeps the inductive invariant.
LEMMA TradeKeepsIInv ==
  ASSUME IInv, NEW id, NEW p, NEW b, Trade(id, p, b)
  PROVE  IInv'
<1>1. /\ id \in Ids /\ calls < MaxCalls /\ Served(id, p) /\ Fits(p) /\ Keeps(p, b)
      /\ Commit(id, b)
  BY DEF Trade
<1>2. p \in Position /\ p.token \in Tokens
  BY <1>1 DEF Fits
<1>3. CASE p = pos[id] /\ id <= count /\ count' = count
  <2>1. p.owner \in Owners
    BY <1>1, <1>3 DEF IInv, Opened
  <2> QED
    BY <1>1, <1>2, <1>3, <2>1, CommitKeepsIInv
<1>4. ASSUME NEW owner \in Owners, NEW token \in Tokens,
             p = [NoPosition EXCEPT !.owner = owner, !.token = token],
             id = count + 1, count' = id
      PROVE  IInv'
  <2>1. p.owner \in Owners /\ p.borrow = 0 /\ p.shares = 0 /\ p.collateral = 0
    BY <1>4 DEF NoPosition
  <2>2. pos[id] = NoPosition
    BY <1>1, <1>4 DEF IInv, TypeOK, Opened
  <2>3. pos[id].borrow = 0 /\ pos[id].shares = 0 /\ pos[id].collateral = 0
    BY <2>2 DEF NoPosition
  <2> QED
    BY <1>1, <1>2, <1>4, <2>1, <2>3, CommitKeepsIInv
<1> QED
  BY <1>1, <1>3, <1>4 DEF Served

-----------------------------------------------------------------------------
(* The world *)

\* What is left alone by a step that is no call
StillBooks == pos' = pos /\ bank' = bank /\ debt' = debt /\ vault'.totalShares = vault.totalShares

\* The totals hold while positions, Bank, debt and totalShares stand still.
LEMMA StillKeepsSums ==
  ASSUME IInv, StillBooks
  PROVE  SharesBacked' /\ DebtMatches' /\ CollateralBacked'
<1>1. \A t : HeldIn(t)' = HeldIn(t)
  BY DEF HeldIn, StillBooks
<1>2. \A what : Held(what)' = Held(what)
  BY DEF Held, StillBooks
<1>3. SharesBacked'
  BY <1>2 DEF IInv, SharesBacked, StillBooks
<1>4. DebtMatches'
  BY <1>2 DEF IInv, DebtMatches, StillBooks
<1>5. CollateralBacked'
  BY <1>1 DEF IInv, CollateralBacked, StillBooks
<1> QED
  BY <1>3, <1>4, <1>5

\* Steps of the admin and the world leave the books alone, but for what the shares are
\* worth and the collected fees; only the end of a block counts no move.
LEMMA WorldIsStill ==
  ASSUME IInv, World
  PROVE  /\ StillBooks /\ TypeOK' /\ count' = count /\ sameBlock' \subseteq sameBlock
         /\ cash' < cash => cash' = 0
         /\ Called => NextBlock
<1> DEFINE Kept ==
      /\ StillBooks /\ TypeOK' /\ count' = count /\ sameBlock' \subseteq sameBlock
<1> USE DEF StillBooks
<1>0. TypeOK /\ moves \in Nat /\ cash \in Nat
  BY DEF IInv, TypeOK
<1>1. ASSUME Move PROVE moves' \in 0..MaxMoves /\ ~ Called
  BY <1>0, <1>1, InvestorAssumption DEF Move, Called, TypeOK
<1>2. ASSUME NEW s \in Statuses, SetStatus(s)
      PROVE  Kept /\ cash' = cash /\ ~ Called
  BY <1>0, <1>1, <1>2 DEF SetStatus, TypeOK, books
<1>3. ASSUME NEW s \in Statuses, SetStrategyStatus(s)
      PROVE  Kept /\ cash' = cash /\ ~ Called
  BY <1>0, <1>1, <1>3, InvestorAssumption DEF SetStrategyStatus, TypeOK, books
<1>4. ASSUME Collect
      PROVE  Kept /\ cash' = 0 /\ ~ Called
  BY <1>0, <1>1, <1>4 DEF Collect, TypeOK, admin
<1>5. ASSUME Accrue
      PROVE  Kept /\ cash' = cash /\ ~ Called
  <2>1. index' \in One..MaxIndex
    BY <1>0, <1>5, InvestorAssumption DEF Accrue, TypeOK
  <2> QED
    BY <1>0, <1>1, <1>5, <2>1 DEF Accrue, TypeOK, books, admin
<1>6. ASSUME NEW token \in Tokens, NEW to \in Prices, PriceMove(token, to)
      PROVE  Kept /\ cash' = cash /\ ~ Called
  BY <1>0, <1>1, <1>6 DEF PriceMove, TypeOK, books, admin
<1>7. ASSUME NEW percent \in Yields, Yield(percent)
      PROVE  Kept /\ cash' = cash /\ ~ Called
  <2> DEFINE assets == (vault.assets * percent) \div 100
  <2>1. assets \in Nat
    <3>1. vault.assets \in Nat /\ percent \in Nat
      BY <1>0, InvestorAssumption DEF TypeOK
    <3>2. vault.assets * percent \in Nat
      BY <3>1, TimesNat
    <3> QED
      BY <3>2, DivNat
  <2> HIDE DEF assets
  <2>2. vault' = [vault EXCEPT !.assets = assets]
    BY <1>7 DEF Yield, assets
  <2>3. vault' \in [totalShares : Nat, assets : Nat] /\ vault'.totalShares = vault.totalShares
    BY <1>0, <2>1, <2>2 DEF TypeOK
  <2> QED
    BY <1>0, <1>1, <1>7, <2>3 DEF Yield, TypeOK, admin
<1>8. ASSUME NextBlock
      PROVE  Kept /\ cash' = cash
  BY <1>0, <1>8 DEF NextBlock, TypeOK, books, admin
<1> QED
  BY <1>0, <1>2, <1>3, <1>4, <1>5, <1>6, <1>7, <1>8 DEF World

\* The admin and the world keep the inductive invariant.
LEMMA WorldKeepsIInv ==
  ASSUME IInv, World
  PROVE  IInv'
<1>1. StillBooks /\ TypeOK' /\ count' = count /\ sameBlock' \subseteq sameBlock
  BY WorldIsStill
<1>2. SharesBacked' /\ DebtMatches' /\ CollateralBacked'
  BY <1>1, StillKeepsSums
<1>3. Opened' /\ BlockOpened'
  BY <1>1 DEF IInv, StillBooks, Opened, BlockOpened
<1> QED
  BY <1>1, <1>2, <1>3 DEF IInv

\* So does a stuttering step.
LEMMA StutterKeepsIInv ==
  ASSUME IInv, UNCHANGED vars
  PROVE  IInv'
<1>1. StillBooks /\ TypeOK'
  BY DEF vars, StillBooks, IInv, TypeOK
<1>2. SharesBacked' /\ DebtMatches' /\ CollateralBacked'
  BY <1>1, StillKeepsSums
<1>3. Opened' /\ BlockOpened'
  BY DEF vars, IInv, Opened, BlockOpened
<1> QED
  BY <1>1, <1>2, <1>3 DEF IInv

\* The inductive invariant holds in every state of the Investor: open, edit, kill,
\* partialKill, and whatever the admin and the world do, keep it.
THEOREM Inductive == Spec => []IInv
<1>1. ASSUME IInv, [Next]_vars PROVE IInv'
  <2>1. ASSUME NEW owner \in Owners, NEW token \in Tokens, NEW c \in Collaterals,
               NEW b \in Borrows, Open(owner, token, c, b)
        PROVE  IInv'
    BY <1>1, <2>1, OpenTrades, TradeKeepsIInv
  <2>2. ASSUME NEW caller \in Owners, NEW id \in Ids, NEW e \in Edits(id),
               Edit(caller, id, e)
        PROVE  IInv'
    BY <1>1, <2>2, EditTrades, TradeKeepsIInv
  <2>3. ASSUME NEW id \in Ids, Kill(id) PROVE IInv'
    BY <1>1, <2>3, KillTrades, TradeKeepsIInv
  <2>4. ASSUME NEW id \in Ids, NEW amount \in Repayments, PartialKill(id, amount)
        PROVE  IInv'
    BY <1>1, <2>4, PartialKillTrades, TradeKeepsIInv
  <2>5. CASE World
    BY <1>1, <2>5, WorldKeepsIInv
  <2>6. CASE UNCHANGED vars
    BY <1>1, <2>6, StutterKeepsIInv
  <2> QED
    BY <1>1, <2>1, <2>2, <2>3, <2>4, <2>5, <2>6 DEF Next
<1> QED
  BY <1>1, InitIInv, PTL DEF Spec

\* The types of the variables hold: in particular no subtraction of open, edit, kill,
\* partialKill or of the strategy's mint and burn goes below zero.
THEOREM TypeCorrect == Spec => []TypeOK
BY Inductive, PTL DEF IInv

\* The strategy's totalShares are the positions' shares and the constructor's seed.
THEOREM SharesAreBacked == Spec => []SharesBacked
BY Inductive, PTL DEF IInv

\* The debt the pool holds against the Investor is the sum of the positions' borrows.
THEOREM DebtIsThePositions == Spec => []DebtMatches
BY Inductive, PTL DEF IInv

\* The Bank holds of each token the collateral of the positions in it.
THEOREM CollateralIsInTheBank == Spec => []CollateralBacked
BY Inductive, PTL DEF IInv

-----------------------------------------------------------------------------
(* What steps may not do *)

\* What the checks of the calls allow a trade of id
Allowed(id, b) ==
  /\ Life(b.p, b.vault) >= One \/ Killable(id)
  /\ b.p.borrow > pos[id].borrow => Live
  /\ Healthy(id) => CanWithdraw
  /\ CanLiquidate
  /\ pos[id].shares # 0 /\ b.p.shares = 0 /\ b.p.borrow # 0
     => \E amount \in Repayments : PartialKill(id, amount)

\* What a share is worth grows with the strategy's rate.
LEMMA RateGrows ==
  ASSUME NEW v \in Vaults, NEW w \in Vaults, NEW n \in Nat,
         v.totalShares # 0, w.totalShares # 0, NotDiluted(v, w)
  PROVE  /\ Rate(v, n) \in Nat /\ Rate(w, n) \in Nat
         /\ Rate(v, n) <= Rate(w, n)
<1> DEFINE a == v.assets
           t == v.totalShares
           c == w.assets
           u == w.totalShares
           q == (n * a) \div t
<1>1. a \in Nat /\ t \in Nat \ {0} /\ c \in Nat /\ u \in Nat \ {0} /\ a * u <= c * t
  <2>1. a \in Nat /\ t \in Nat \ {0} /\ c \in Nat /\ u \in Nat \ {0} /\ c * t >= a * u
    BY DEF Vaults, NotDiluted
  <2> HIDE DEF a, t, c, u
  <2>2. c * t \in Nat /\ a * u \in Nat
    BY <2>1, TimesNat
  <2> QED
    BY <2>1, <2>2
<1> HIDE DEF a, t, c, u
<1>2. n * a \in Nat /\ n * c \in Nat
  BY <1>1, TimesNat
<1>3. q \in Nat /\ q * t <= n * a /\ (n * c) \div u \in Nat
  BY <1>1, <1>2, DivNat
<1> HIDE DEF q
<1>4. q * u <= n * c
  <2>1. /\ q * t \in Nat /\ a * u \in Nat /\ c * t \in Nat
        /\ q * u \in Nat
    BY <1>1, <1>3, TimesNat
  <2>2. (q * t) * u <= (n * a) * u
    BY <1>1, <1>2, <1>3, <2>1, TimesMonotonic
  <2>3. (a * u) * n <= (c * t) * n
    BY <1>1, <2>1, TimesMonotonic
  <2>4. (q * u) * t <= (n * c) * t
    <3>1. (q * t) * u = (q * u) * t /\ (n * a) * u = (a * u) * n /\ (c * t) * n = (n * c) * t
      BY <1>1, <1>3, SMT
    <3>2. (q * u) * t \in Nat /\ (n * c) * t \in Nat /\ (a * u) * n \in Nat
      BY <1>1, <1>2, <2>1, TimesNat
    <3> QED
      BY <2>2, <2>3, <3>1, <3>2
  <2>5. ASSUME ~ (q * u <= n * c) PROVE FALSE
    <3> DEFINE x == q * u
               y == n * c
    <3>1. x \in Nat /\ y \in Nat /\ x > y /\ x * t <= y * t
      BY <1>2, <2>1, <2>4, <2>5
    <3> HIDE DEF x, y
    <3>2. x * t > y * t
      BY <1>1, <3>1, SMT
    <3>3. x * t \in Nat /\ y * t \in Nat
      BY <1>1, <3>1, TimesNat
    <3> QED
      BY <3>1, <3>2, <3>3
  <2> QED
    BY <2>5
<1>5. q <= (n * c) \div u
  BY <1>1, <1>2, <1>3, <1>4, DivLargest
<1> QED
  BY <1>3, <1>5 DEF Rate, q, a, t, c, u

\* Quotients grow with their dividends.
LEMMA DivMonotonic ==
  ASSUME NEW a \in Nat, NEW b \in Nat, NEW d \in Nat \ {0}, a <= b
  PROVE  a \div d <= b \div d
<1> DEFINE q == a \div d
<1>1. q \in Nat /\ q * d <= a
  BY DivNat
<1> HIDE DEF q
<1>2. q * d <= b
  BY <1>1, TimesNat
<1>3. q <= b \div d
  BY <1>1, <1>2, DivLargest
<1> QED
  BY <1>3 DEF q

\* A position's life is a number that grows with the strategy's rate.
LEMMA LifeGrows ==
  ASSUME TypeOK, NEW p \in Position, p.borrow # 0 => p.token \in Tokens,
         NEW v \in Vaults, NEW w \in Vaults,
         v.totalShares # 0, w.totalShares # 0, NotDiluted(v, w)
  PROVE  /\ Life(p, v) \in Nat /\ Life(p, w) \in Nat
         /\ Life(p, v) <= Life(p, w)
<1>1. CASE p.borrow = 0
  BY <1>1, InvestorAssumption DEF Life
<1>2. CASE p.borrow # 0
  <2> DEFINE value(x) == Rate(x, p.shares) + Value(p.token, p.collateral)
             owed == Owed(p.borrow)
             life(n) == (((n * Factor) \div One) * One) \div owed
  <2>1. /\ p.shares \in Nat /\ p.collateral \in Nat /\ p.borrow \in Nat \ {0}
        /\ One \in Nat \ {0} /\ Factor \in Nat /\ p.token \in Tokens
    BY <1>2, InvestorAssumption DEF Position
  <2>2. value(v) \in Nat /\ value(w) \in Nat /\ value(v) <= value(w)
    BY <2>1, RateGrows, ConvertNat
  <2>3. Life(p, v) = life(value(v)) /\ Life(p, w) = life(value(w))
    BY <1>2 DEF Life
  <2>4. owed \in Nat \ {0}
    BY <2>1, PoolNat
  <2> HIDE DEF owed, value
  <2>5. ASSUME NEW n \in Nat, NEW m \in Nat, n <= m
        PROVE  life(n) \in Nat /\ life(n) <= life(m)
    <3>1. n * Factor \in Nat /\ m * Factor \in Nat /\ n * Factor <= m * Factor
      BY <2>1, <2>5, TimesNat, TimesMonotonic
    <3> DEFINE x == (n * Factor) \div One
               y == (m * Factor) \div One
    <3>2. x \in Nat /\ y \in Nat /\ x <= y
      BY <2>1, <3>1, DivNat, DivMonotonic
    <3> HIDE DEF x, y
    <3>3. x * One \in Nat /\ y * One \in Nat /\ x * One <= y * One
      BY <2>1, <3>2, TimesNat, TimesMonotonic
    <3>4. (x * One) \div owed \in Nat /\ (x * One) \div owed <= (y * One) \div owed
      BY <2>4, <3>3, DivNat, DivMonotonic
    <3> QED
      BY <3>4 DEF x, y
  <2> HIDE DEF life
  <2> QED
    BY <2>2, <2>3, <2>5
<1> QED
  BY <1>1, <1>2

\* A position that can be killed is not healthy.
LEMMA KillableUnhealthy ==
  ASSUME IInv, NEW id \in Ids, Fits(pos[id]), Killable(id)
  PROVE  ~ Healthy(id)
<1>1. TypeOK /\ pos[id] \in Position /\ pos[id].token \in Tokens /\ vault \in Vaults
      /\ vault.totalShares # 0
  BY InvestorAssumption DEF IInv, Fits, TypeOK, Vaults, Position
<1>2. NotDiluted(vault, vault)
  BY <1>1, TimesNat DEF NotDiluted, Vaults
<1>3. Life(pos[id], vault) \in Nat
  BY <1>1, <1>2, LifeGrows
<1> QED
  BY <1>3, InvestorAssumption DEF Killable, Healthy

\* Statuses that let callers borrow let them withdraw; these let them liquidate.
LEMMA StatusOrder ==
  ASSUME TypeOK
  PROVE  /\ Live => CanWithdraw
         /\ CanWithdraw => CanLiquidate
BY DEF TypeOK, Live, CanWithdraw, CanLiquidate, STATUS_LIVE, STATUS_WITHDRAW,
       STATUS_LIQUIDATE

\* Every step is a step of the world or an allowed trade.
LEMMA StepIsTrade ==
  ASSUME IInv, Next
  PROVE  World \/ \E id, p, b : Trade(id, p, b) /\ Allowed(id, b)
<1>0. TypeOK
  BY DEF IInv
<1>1. ASSUME NEW owner \in Owners, NEW token \in Tokens, NEW c \in Collaterals,
             NEW n \in Borrows, Open(owner, token, c, n)
      PROVE  \E id, p, b : Trade(id, p, b) /\ Allowed(id, b)
  <2> DEFINE id == count + 1
  <2>1. Live /\ pos[id] = NoPosition
    BY <1>1, OpenTrades
  <2>2. PICK p, b : Trade(id, p, b) /\ Life(b.p, b.vault) >= One
    BY <1>1, OpenTrades
  <2>3. CanWithdraw /\ CanLiquidate /\ pos[id].shares = 0
    BY <1>0, <2>1, StatusOrder DEF NoPosition
  <2>4. Allowed(id, b)
    BY <2>1, <2>2, <2>3 DEF Allowed
  <2> QED
    BY <2>2, <2>4
<1>2. ASSUME NEW caller \in Owners, NEW id \in Ids, NEW e \in Edits(id),
             Edit(caller, id, e)
      PROVE  \E i, p, b : Trade(i, p, b) /\ Allowed(i, b)
  <2>1. CanWithdraw
    BY <1>2, EditTrades
  <2>2. PICK b : /\ Trade(id, pos[id], b)
                 /\ Life(b.p, b.vault) >= One
                 /\ b.p.borrow <= pos[id].borrow \/ Live
                 /\ pos[id].shares # 0 /\ b.p.shares = 0 => b.p.borrow = 0
    BY <1>2, EditTrades
  <2>3. b.p.borrow \in Nat /\ pos[id].borrow \in Nat
    BY <1>0, <2>2, BookFields DEF Trade, Keeps, TypeOK, Position
  <2>4. Allowed(id, b)
    BY <1>0, <2>1, <2>2, <2>3, StatusOrder DEF Allowed
  <2> QED
    BY <2>2, <2>4
<1>3. ASSUME NEW id \in Ids, NEW b, Trade(id, pos[id], b), Killable(id),
             b.p.borrow <= pos[id].borrow,
             b.p.borrow = 0 \/ \E amount \in Repayments : PartialKill(id, amount)
      PROVE  Allowed(id, b)
  <2>1. ~ Healthy(id)
    BY <1>3, KillableUnhealthy DEF Trade
  <2>2. b.p.borrow \in Nat /\ pos[id].borrow \in Nat
    BY <1>0, <1>3, BookFields DEF Trade, Keeps, TypeOK, Position
  <2> QED
    BY <1>3, <2>1, <2>2 DEF Allowed, Killable
<1>4. ASSUME NEW id \in Ids, Kill(id)
      PROVE  \E i, p, b : Trade(i, p, b) /\ Allowed(i, b)
  <2>1. PICK b : Killable(id) /\ Trade(id, pos[id], b) /\ b.p.borrow = 0
    BY <1>4, KillTrades
  <2>2. b.p.borrow <= pos[id].borrow
    BY <1>0, <2>1 DEF TypeOK, Position
  <2> QED
    BY <1>3, <2>1, <2>2
<1>5. ASSUME NEW id \in Ids, NEW amount \in Repayments, PartialKill(id, amount)
      PROVE  \E i, p, b : Trade(i, p, b) /\ Allowed(i, b)
  <2>1. PICK b : /\ Killable(id) /\ Trade(id, pos[id], b)
                 /\ b.p.borrow = pos[id].borrow - amount
    BY <1>5, PartialKillTrades
  <2>2. b.p.borrow <= pos[id].borrow
    BY <1>0, <2>1, InvestorAssumption DEF TypeOK, Position
  <2> QED
    BY <1>3, <1>5, <2>1, <2>2
<1> QED
  BY <1>1, <1>2, <1>4, <1>5 DEF Next

\* What the trade of one position leaves of the others and of the world
LEMMA TradeChanges ==
  ASSUME IInv, NEW id, NEW p, NEW b, Trade(id, p, b)
  PROVE  /\ id \in Ids
         /\ pos' = [pos EXCEPT ![id] = b.p]
         /\ pos'[id] = b.p /\ \A i \in Ids \ {id} : pos'[i] = pos[i]
         /\ vault' = b.vault /\ NotDiluted(vault, b.vault)
         /\ vault \in Vaults /\ b.vault \in Vaults
         /\ vault.totalShares # 0 /\ b.vault.totalShares # 0
         /\ cash' >= cash
         /\ index' = index /\ price' = price
         /\ p.borrow = pos[id].borrow /\ p.shares = pos[id].shares
         /\ debt' - b.p.borrow = debt - pos[id].borrow
<1>1. /\ id \in Ids /\ Fits(p) /\ Keeps(p, b) /\ NotDiluted(vault, b.vault) /\ Commit(id, b)
      /\ Served(id, p)
  BY DEF Trade
<1>2. /\ pos' = [pos EXCEPT ![id] = b.p] /\ vault' = b.vault /\ debt' = b.debt
      /\ cash' = b.cash /\ index' = index /\ price' = price
  BY <1>1 DEF Commit
<1>3. TypeOK
  BY DEF IInv
<1>4. pos'[id] = b.p /\ \A i \in Ids \ {id} : pos'[i] = pos[i]
  BY <1>1, <1>2, <1>3 DEF TypeOK
<1>5. /\ vault \in Vaults /\ b.vault \in Vaults /\ b.vault.totalShares \in Nat
      /\ b.p.shares \in Nat
  BY <1>1, <1>3, BookFields DEF Keeps, TypeOK, Vaults
<1>6. b.p.shares + Seed <= b.vault.totalShares
  BY <1>1, <1>3, KeptCovers
<1>7. p.shares + Seed <= vault.totalShares /\ p.shares \in Nat /\ vault.totalShares \in Nat
  BY <1>1, <1>5 DEF Fits, Position, Vaults
<1>8. vault.totalShares # 0 /\ b.vault.totalShares # 0
  BY <1>5, <1>6, <1>7, InvestorAssumption
<1>9. p.borrow = pos[id].borrow /\ p.shares = pos[id].shares
  <2>1. CASE p = pos[id]
    BY <2>1
  <2>2. ASSUME NEW owner \in Owners, NEW token \in Tokens,
               p = [NoPosition EXCEPT !.owner = owner, !.token = token], id = count + 1
        PROVE  p.borrow = pos[id].borrow /\ p.shares = pos[id].shares
    <3>1. pos[id] = NoPosition
      BY <1>1, <1>3, <2>2 DEF IInv, Opened, TypeOK
    <3> QED
      BY <2>2, <3>1 DEF NoPosition
  <2> QED
    BY <1>1, <2>1, <2>2 DEF Served
<1>10. debt' - b.p.borrow = debt - pos[id].borrow /\ cash' >= cash
  BY <1>1, <1>2, <1>9 DEF Keeps
<1> QED
  BY <1>1, <1>2, <1>4, <1>5, <1>8, <1>9, <1>10

\* A call does not lower what a share is worth.
LEMMA StepNoDilution ==
  ASSUME IInv, [Next]_vars, Called
  PROVE  vault'.assets * vault.totalShares >= vault.assets * vault'.totalShares
<1>1. vault.assets * vault.totalShares \in Nat
  BY TimesNat DEF IInv, TypeOK
<1>2. CASE vault' = vault
  BY <1>1, <1>2
<1>3. ASSUME NEW id, NEW p, NEW b, Trade(id, p, b)
      PROVE  vault'.assets * vault.totalShares >= vault.assets * vault'.totalShares
  BY <1>3, TradeChanges DEF NotDiluted
<1>4. CASE World
  BY <1>2, <1>4, WorldIsStill DEF NextBlock, books
<1> QED
  BY <1>2, <1>3, <1>4, StepIsTrade DEF vars

\* No call lowers what a share of the strategy is worth: mint and burn round against
\* the one who trades.
THEOREM SharesNeverDiluted == Spec => NoDilution
<1>1. ASSUME IInv, [Next]_vars
      PROVE  [Called => vault'.assets * vault.totalShares
                          >= vault.assets * vault'.totalShares]_vars
  BY <1>1, StepNoDilution
<1> QED
  BY <1>1, Inductive, PTL DEF Spec, NoDilution

\* The Investor's fees leave it by collect only, never to repay a loan.
THEOREM FeesLeaveByCollectOnly == Spec => FeesNeverSpent
<1>1. ASSUME IInv, [Next]_vars
      PROVE  [cash' < cash => cash' = 0 /\ ~ Called]_vars
  <2>0. cash \in Nat
    BY <1>1 DEF IInv, TypeOK
  <2>1. ASSUME NEW id, NEW p, NEW b, Trade(id, p, b)
        PROVE  ~ (cash' < cash)
    <3>1. b \in BookSet /\ cash' = b.cash
      BY <2>1 DEF Trade, Keeps, Commit
    <3>2. cash' \in Nat /\ cash' >= cash
      BY <1>1, <2>1, <3>1, TradeChanges, BookFields
    <3> QED
      BY <2>0, <3>2
  <2>2. ASSUME World PROVE cash' < cash => cash' = 0 /\ ~ Called
    <3>1. NextBlock => ~ (cash' < cash)
      BY <2>0 DEF NextBlock, books
    <3> QED
      BY <1>1, <2>2, <3>1, WorldIsStill
  <2> QED
    BY <1>1, <2>1, <2>2, StepIsTrade
<1> QED
  BY <1>1, Inductive, PTL DEF Spec, FeesNeverSpent

\* A trade leaves every healthy position healthy: the traded one by the check of life,
\* the others because a share is worth no less.
LEMMA TradeKeepsHealth ==
  ASSUME IInv, NEW id, NEW p, NEW b, Trade(id, p, b), Allowed(id, b),
         NEW i \in Ids, Healthy(i)
  PROVE  Healthy(i)'
<1>1. /\ id \in Ids /\ pos'[id] = b.p /\ \A k \in Ids \ {id} : pos'[k] = pos[k]
      /\ vault' = b.vault /\ NotDiluted(vault, b.vault)
      /\ vault \in Vaults /\ b.vault \in Vaults
      /\ vault.totalShares # 0 /\ b.vault.totalShares # 0
      /\ index' = index /\ price' = price
  BY TradeChanges
<1>2. Healthy(i)' <=> Life(pos'[i], vault') >= One
  BY <1>1 DEF Healthy, Life, Rate, Value, Owed
<1>3. TypeOK /\ Fits(p) /\ p.token \in Tokens
  BY DEF IInv, Trade, Fits
<1>4. CASE i # id
  <2>1. pos[i] \in Position /\ (pos[i].borrow # 0 => pos[i].token \in Tokens)
    BY <1>3 DEF TypeOK, IInv, Opened, NoPosition
  <2>2. /\ Life(pos[i], vault) \in Nat /\ Life(pos[i], b.vault) \in Nat
        /\ Life(pos[i], vault) <= Life(pos[i], b.vault)
    BY <1>1, <1>3, <2>1, LifeGrows
  <2>3. Life(pos[i], vault) >= One /\ One \in Nat
    BY InvestorAssumption DEF Healthy
  <2>4. pos'[i] = pos[i] /\ vault' = b.vault
    BY <1>1, <1>4
  <2> HIDE DEF Healthy
  <2> QED
    BY <1>2, <2>2, <2>3, <2>4
<1>5. CASE i = id
  <2>1. ~ Killable(id)
    <3>1. CASE id <= count
      BY <1>1, <1>5, <3>1, OpenedFits, KillableUnhealthy
    <3>2. CASE ~ (id <= count)
      BY <1>1, <3>2, UnhealthyOpened DEF Killable
    <3> QED
      BY <3>1, <3>2
  <2>2. Life(b.p, b.vault) >= One
    BY <2>1 DEF Allowed
  <2> QED
    BY <1>1, <1>2, <1>5, <2>2
<1> QED
  BY <1>4, <1>5

\* No call makes a healthy position liquidatable.
THEOREM HealthIsKept == Spec => HealthyStaysHealthy
<1>1. ASSUME IInv, [Next]_vars
      PROVE  [Called => \A id \in Ids : Healthy(id) => Healthy(id)']_vars
  <2> SUFFICES ASSUME Called, NEW i \in Ids, Healthy(i) PROVE Healthy(i)'
    OBVIOUS
  <2>1. CASE UNCHANGED <<pos, vault, index, price>>
    BY <2>1 DEF Healthy, Life, Rate, Value, Owed
  <2>2. ASSUME NEW id, NEW p, NEW b, Trade(id, p, b), Allowed(id, b)
        PROVE  Healthy(i)'
    BY <1>1, <2>2, TradeKeepsHealth
  <2>3. CASE World
    BY <1>1, <2>1, <2>3, WorldIsStill DEF NextBlock, books
  <2> QED
    BY <1>1, <2>1, <2>2, <2>3, StepIsTrade DEF vars
<1> QED
  BY <1>1, Inductive, PTL DEF Spec, HealthyStaysHealthy

\* A trade obeys the statuses, and is the first of its position in the block.
LEMMA TradeIsGated ==
  ASSUME IInv, NEW id, NEW p, NEW b, Trade(id, p, b), Allowed(id, b)
  PROVE  OncePerBlock /\ StatusGates
<1>1. /\ id \in Ids /\ id \notin sameBlock
      /\ \A i \in Ids \ {id} : pos'[i] = pos[i]
      /\ debt' - b.p.borrow = debt - pos[id].borrow
  BY TradeChanges DEF Trade
<1>2. TypeOK /\ status \in Nat /\ strategyStatus \in Nat
  BY DEF IInv, TypeOK
<1>3. OncePerBlock
  BY <1>1, <1>2 DEF OncePerBlock, TypeOK
<1> DEFINE lowest == LowerOf(status, strategyStatus)
<1>4. /\ Live => lowest >= STATUS_LIVE
      /\ CanWithdraw => lowest >= STATUS_WITHDRAW
      /\ CanLiquidate => lowest >= STATUS_LIQUIDATE
  BY <1>2 DEF LowerOf, Live, CanWithdraw, CanLiquidate, STATUS_LIVE, STATUS_WITHDRAW,
              STATUS_LIQUIDATE
<1> HIDE DEF lowest
<1>5. debt' > debt => Live
  <2>1. /\ debt \in Nat /\ debt' \in Nat /\ b.p.borrow \in Nat /\ pos[id].borrow \in Nat
    BY <1>1, <1>2, BookFields DEF Trade, Keeps, Commit, TypeOK, Position
  <2> QED
    BY <1>1, <2>1 DEF Allowed
<1>6. ASSUME NEW i \in Ids, Healthy(i), pos'[i] # pos[i] PROVE CanWithdraw
  BY <1>1, <1>6 DEF Allowed
<1>7. CanLiquidate
  BY DEF Allowed
<1>8. StatusGates
  BY <1>4, <1>5, <1>6, <1>7 DEF StatusGates, lowest
<1> QED
  BY <1>3, <1>8

\* Each position changes once in a block at most, and as the statuses allow.
THEOREM GatesHold == Spec => ChangesAreGated
<1>1. ASSUME IInv, [Next]_vars
      PROVE  [OncePerBlock /\ StatusGates]_vars
  <2>1. CASE UNCHANGED <<pos, debt>>
    <3>1. debt \in Nat
      BY <1>1 DEF IInv, TypeOK
    <3> QED
      BY <2>1, <3>1 DEF OncePerBlock, StatusGates
  <2>2. CASE World
    BY <1>1, <2>1, <2>2, WorldIsStill DEF StillBooks
  <2>3. ASSUME NEW id, NEW p, NEW b, Trade(id, p, b), Allowed(id, b)
        PROVE  OncePerBlock /\ StatusGates
    BY <1>1, <2>3, TradeIsGated
  <2> QED
    BY <1>1, <2>1, <2>2, <2>3, StepIsTrade DEF vars
<1> QED
  BY <1>1, Inductive, PTL DEF Spec, ChangesAreGated

\* A position that loses its last shares owes nothing afterwards, but for partialKill.
THEOREM ClosedOweNothing == Spec => ClosingRepaysAll
<1> DEFINE Repays ==
      \A id \in Ids :
        pos[id].shares # 0 /\ pos'[id].shares = 0 /\ pos'[id].borrow # 0
          => \E amount \in Repayments : PartialKill(id, amount)
<1>1. ASSUME IInv, [Next]_vars
      PROVE  Repays
  <2>1. CASE pos' = pos
    BY <2>1
  <2>2. CASE World
    BY <1>1, <2>1, <2>2, WorldIsStill DEF StillBooks
  <2>3. ASSUME NEW id, NEW p, NEW b, Trade(id, p, b), Allowed(id, b)
        PROVE  Repays
    <3>1. /\ pos'[id] = b.p /\ \A i \in Ids \ {id} : pos'[i] = pos[i]
      BY <1>1, <2>3, TradeChanges
    <3>2. pos[id].shares # 0 /\ b.p.shares = 0 /\ b.p.borrow # 0
          => \E amount \in Repayments : PartialKill(id, amount)
      BY <2>3 DEF Allowed
    <3> QED
      BY <3>1, <3>2
  <2> QED
    BY <1>1, <2>1, <2>2, <2>3, StepIsTrade DEF vars
<1> QED
  BY <1>1, Inductive, PTL DEF Spec, ClosingRepaysAll

-----------------------------------------------------------------------------
(* What a liquidator takes *)

\* The assets that some of a position's shares are worth, when these shares are at
\* most the part of all its shares that the target is of their worth
LEMMA SharesWithinTarget ==
  ASSUME NEW v \in Vaults, NEW n \in Nat, NEW s \in Nat, NEW target \in Nat,
         s <= n, n < v.totalShares, target <= Rate(v, n), s * Rate(v, n) <= n * target
  PROVE  Rate(v, n) - Rate(AfterBurn(v, s), n - s) <= target
<1> DEFINE a == v.assets
           t == v.totalShares
           worth == Rate(v, n)
           left == Rate(AfterBurn(v, s), n - s)
<1>1. a \in Nat /\ t \in Nat \ {0} /\ s < t /\ n - s \in Nat
  BY DEF Vaults
<1>2. n * a \in Nat /\ s * a \in Nat /\ (n - s) * a \in Nat
  BY <1>1, TimesNat
<1>3. worth \in Nat /\ worth * t <= n * a
  BY <1>1, <1>2, DivNat DEF Rate
<1>4. left \in Nat /\ ((n - s) * a) \div t <= left
  <2> DEFINE w == AfterBurn(v, s)
  <2>1. w \in Vaults /\ w.totalShares = t - s /\ NotDiluted(v, w)
    BY <1>1, BurnKeepsRate
  <2> HIDE DEF w
  <2>2. t - s # 0
    BY <1>1
  <2>3. Rate(w, n - s) \in Nat /\ Rate(v, n - s) <= Rate(w, n - s)
    BY <1>1, <2>1, <2>2, RateGrows
  <2> QED
    BY <2>3 DEF Rate, w
<1> HIDE DEF left
<1>5. target <= worth /\ s * worth <= n * target
  OBVIOUS
<1> HIDE DEF worth, a, t
<1>6. ASSUME worth = 0 PROVE worth - left <= target
  BY <1>3, <1>4, <1>6
<1>7. ASSUME worth # 0 PROVE worth - left <= target
  <2> DEFINE k == worth - target
             x == n * a
             y == s * a
             z == k * t
  <2>1. k \in Nat /\ x \in Nat /\ y \in Nat
    BY <1>2, <1>3, <1>5
  <2>2. z \in Nat /\ worth * t \in Nat /\ s * worth \in Nat /\ n * target \in Nat
    BY <1>1, <1>3, <2>1, TimesNat
  <2>3. y * worth <= x * target
    <3>1. (s * worth) * a <= (n * target) * a
      BY <1>1, <1>5, <2>2, TimesMonotonic
    <3>2. (s * worth) * a = y * worth /\ (n * target) * a = x * target
      BY <1>1, <1>3, SMT
    <3> QED
      BY <3>1, <3>2
  <2>4. z * worth <= x * k
    <3>1. (worth * t) * k <= x * k
      BY <1>3, <2>1, <2>2, TimesMonotonic
    <3>2. (worth * t) * k = z * worth
      <4> HIDE DEF k
      <4> QED
        BY <1>1, <1>3, <2>1, SMT
    <3> QED
      BY <3>1, <3>2
  <2>5. x * k = x * worth - x * target
    <3> HIDE DEF x
    <3> QED
      BY <1>3, <2>1, SMT
  <2>6. /\ x * worth \in Nat /\ x * target \in Nat /\ y * worth \in Nat /\ z * worth \in Nat
        /\ (x - y) * worth = x * worth - y * worth
    <3> HIDE DEF x, y, z
    <3> QED
      BY <1>3, <2>1, <2>2, TimesNat, SMT
  <2>7. z * worth <= (x - y) * worth
    <3> HIDE DEF x, y, z, k
    <3> QED
      BY <2>3, <2>4, <2>5, <2>6
  <2>8. z <= x - y
    <3> HIDE DEF x, y, z, k
    <3>1. SUFFICES ASSUME ~ (z <= x - y) PROVE FALSE
      OBVIOUS
    <3>2. x - y < z /\ x - y \in Int /\ z \in Int /\ worth \in Nat \ {0}
      BY <1>3, <1>7, <2>1, <2>2, <3>1
    <3>3. (x - y) * worth < z * worth
      BY <3>2, SMT
    <3>4. (x - y) * worth \in Int
      BY <2>6
    <3> QED
      BY <2>6, <2>7, <3>3, <3>4
  <2>9. (n - s) * a = x - y
    BY <1>1, SMT
  <2>10. k <= ((n - s) * a) \div t
    <3> HIDE DEF k, x, y
    <3> QED
      BY <1>1, <1>2, <2>1, <2>8, <2>9, DivLargest
  <2>11. k <= left
    <3>1. ((n - s) * a) \div t \in Nat
      BY <1>1, <1>2, DivNat
    <3> QED
      BY <1>4, <2>1, <2>10, <3>1
  <2> QED
    BY <1>3, <1>4, <2>11
<1> QED
  BY <1>6, <1>7 DEF worth, left

\* The collateral that converts to at most m is worth at most m.
LEMMA CollateralWithin ==
  ASSUME TypeOK, NEW token \in Tokens, NEW m \in Nat, NEW had \in Nat,
         NEW c \in Nat, c <= had, c <= Convert(token, m)
  PROVE  Value(token, had) - Value(token, had - c) <= m
<1> DEFINE x == Value(token, had)
           y == Value(token, had - c)
           rate == price[token]
<1>1. rate \in Nat \ {0} /\ One \in Nat \ {0} /\ had - c \in Nat
  <2>1. had - c \in Nat
    OBVIOUS
  <2>2. Prices \subseteq Nat \ {0} /\ price \in [Tokens -> Prices]
    BY InvestorAssumption DEF TypeOK
  <2> QED
    BY <2>1, <2>2, InvestorAssumption
<1>2. x \in Nat /\ y \in Nat
  BY <1>1, ConvertNat
<1> HIDE DEF rate
<1>3. m * One \in Nat /\ had * rate \in Nat /\ c * rate \in Nat /\ (had - c) * rate \in Nat
  BY <1>1, TimesNat
<1>4. c * rate <= m * One
  <2> DEFINE k == (m * One) \div rate
  <2>1. k \in Nat /\ k * rate <= m * One
    BY <1>1, <1>3, DivNat
  <2>2. c <= k
    BY DEF Convert, rate
  <2> HIDE DEF k
  <2>3. c * rate <= k * rate /\ k * rate \in Nat
    BY <1>1, <2>1, <2>2, TimesMonotonic, TimesNat
  <2> QED
    BY <1>3, <2>1, <2>3
<1>5. x * One <= had * rate
  BY <1>1, <1>3, DivNat DEF Value, rate
<1>6. y = ((had - c) * rate) \div One
  BY DEF Value, rate
<1> HIDE DEF x, y
<1>7. ASSUME x <= m PROVE x - y <= m
  BY <1>2, <1>7
<1>8. ASSUME ~ (x <= m) PROVE x - y <= m
  <2>1. x - m \in Nat
    BY <1>2, <1>8
  <2>2. (x - m) * One = x * One - m * One /\ (had - c) * rate = had * rate - c * rate
    BY <1>1, <1>2, SMT
  <2>3. x * One \in Nat /\ (x - m) * One \in Nat
    BY <1>1, <1>2, <2>1, TimesNat
  <2>4. (x - m) * One <= (had - c) * rate
    BY <1>3, <1>4, <1>5, <2>2, <2>3
  <2>5. x - m <= y
    BY <1>1, <1>3, <1>6, <2>1, <2>4, DivLargest
  <2> QED
    BY <1>2, <2>1, <2>5
<1> QED
  BY <1>7, <1>8 DEF x, y

\* The target is the debt repaid and at most the padding on it.
LEMMA TargetNat ==
  ASSUME NEW repaid \in Nat
  PROVE  /\ Target(repaid) \in Nat
         /\ Target(repaid) * Bps <= repaid * (Bps + killCollateralPadding)
<1> DEFINE fee == (repaid * killCollateralPadding) \div (2 * Bps)
<1>1. fee \in Nat /\ 20000 * fee <= 500 * repaid
  BY DEF Bps, killCollateralPadding
<1> HIDE DEF fee
<1>2. repaid + 2 * fee \in Nat
  BY <1>1
<1>3. (repaid + 2 * fee) * 10000 <= repaid * (10000 + 500)
  BY <1>1
<1> QED
  BY <1>2, <1>3 DEF Target, fee, Bps, killCollateralPadding

\* Shares and collateral taken are worth at most the target.
LEMMA SeizedWithinTarget ==
  ASSUME TypeOK, NEW id \in Ids, Fits(pos[id]),
         NEW repaying \in Nat, NEW repaid \in Nat, NEW d \in Seized(id, repaying, repaid)
  PROVE  LET p == pos[id]
         IN Rate(vault, p.shares) - Rate(d.vault, d.p.shares)
            + Value(p.token, p.collateral) - Value(p.token, d.p.collateral)
              <= Target(repaid)
<1> DEFINE p == pos[id]
           worth == Rate(vault, p.shares)
           target == Target(repaid)
           shares == SeizedShares(p, target, worth)
           taken == SeizedCollateral(p, target, worth)
           left == Rate(AfterBurn(vault, shares), p.shares - shares)
           x == Value(p.token, p.collateral)
           y == Value(p.token, p.collateral - taken)
<1>1. /\ worth # 0
      /\ d.p.shares = p.shares - shares
      /\ d.vault = AfterBurn(vault, shares)
      /\ d.p.collateral = p.collateral - taken
  BY SeizedKeeps, Zenon
<1>2. /\ p.shares \in Nat /\ p.collateral \in Nat /\ p.token \in Tokens
      /\ vault \in Vaults /\ p.shares < vault.totalShares
  BY InvestorAssumption DEF TypeOK, Fits, Position, Vaults
<1>3. worth \in Nat /\ target \in Nat
  BY <1>2, BurnKeepsRate, TargetNat
<1> SUFFICES worth - left + x - y <= target
  BY <1>1
<1> HIDE DEF worth, target
<1>4. x \in Nat
  BY <1>2, ConvertNat
<1>5. (p.shares * target) \div worth \in Nat
      /\ ((p.shares * target) \div worth) * worth <= p.shares * target
  BY <1>1, <1>2, <1>3, TimesNat, DivNat
<1>6. shares \in Nat /\ shares <= p.shares /\ shares * worth <= p.shares * target
  <2> DEFINE k == (p.shares * target) \div worth
  <2>1. shares = LowerOf(k, p.shares)
    BY DEF SeizedShares
  <2> HIDE DEF k, shares
  <2>2. k \in Nat /\ k * worth <= p.shares * target
    BY <1>5 DEF k
  <2>3. shares \in Nat /\ shares <= p.shares /\ shares <= k
    BY <1>2, <2>1, <2>2, LowerOfNat
  <2>4. shares * worth <= k * worth
    BY <1>3, <2>2, <2>3, TimesMonotonic
  <2>5. shares * worth \in Nat /\ k * worth \in Nat /\ p.shares * target \in Nat
    BY <1>2, <1>3, <2>2, <2>3, TimesNat
  <2> QED
    BY <2>2, <2>3, <2>4, <2>5
<1> HIDE DEF shares
<1>7. left \in Nat
  <2> DEFINE w == AfterBurn(vault, shares)
  <2>1. shares < vault.totalShares /\ p.shares - shares \in Nat
        /\ vault.totalShares - shares # 0
    BY <1>2, <1>6 DEF Vaults
  <2>2. w \in Vaults /\ w.totalShares # 0
    BY <1>2, <1>6, <2>1, BurnKeepsRate
  <2> HIDE DEF w
  <2>3. NotDiluted(w, w)
    BY <2>2, TimesNat DEF NotDiluted, Vaults
  <2>4. Rate(w, p.shares - shares) \in Nat
    BY <2>1, <2>2, <2>3, RateGrows
  <2> QED
    BY <2>4 DEF w
<1>8. ASSUME worth >= target PROVE worth - left + x - y <= target
  <2>1. worth - left <= target
    BY <1>2, <1>3, <1>6, <1>8, SharesWithinTarget DEF worth
  <2>2. taken = 0
    BY <1>8 DEF SeizedCollateral
  <2>3. y = x
    BY <1>2, <2>2
  <2> QED
    BY <1>3, <1>4, <1>7, <2>1, <2>3
<1>9. ASSUME ~ (worth >= target) PROVE worth - left + x - y <= target
  <2>1. target - worth \in Nat
    BY <1>3, <1>9
  <2>2. Convert(p.token, target - worth) \in Nat
    BY <1>2, <2>1, ConvertNat
  <2>3. taken = LowerOf(Convert(p.token, target - worth), p.collateral)
    BY <1>9 DEF SeizedCollateral
  <2>4. /\ taken \in Nat /\ taken <= p.collateral
        /\ taken <= Convert(p.token, target - worth)
    BY <1>2, <2>2, <2>3, LowerOfNat
  <2>5. p.collateral - taken \in Nat
    BY <1>2, <2>4
  <2>6. y \in Nat
    BY <1>2, <2>5, ConvertNat
  <2>7. x - y <= target - worth
    BY <1>2, <2>1, <2>4, CollateralWithin
  <2> HIDE DEF x, y, left
  <2> QED
    BY <1>3, <1>4, <1>7, <2>6, <2>7
<1> QED
  BY <1>8, <1>9

\* Repaying n of a debt of b borrow shares lowers what it comes to by what n comes to.
LEMMA OwedFalls ==
  ASSUME TypeOK, NEW b \in Nat, NEW n \in Nat, n <= b
  PROVE  Owed(b) - Owed(b - n) >= Owed(n)
<1> DEFINE q == Owed(b - n)
           r == Owed(n)
<1>1. index \in Nat /\ One \in Nat \ {0} /\ b - n \in Nat
  BY InvestorAssumption DEF TypeOK
<1>2. q \in Nat /\ r \in Nat /\ Owed(b) \in Nat
  BY <1>1, PoolNat
<1>3. n * index \in Nat /\ (b - n) * index \in Nat /\ b * index \in Nat
  BY <1>1, TimesNat
<1>4. q * One <= (b - n) * index /\ r * One <= n * index
  BY <1>1, <1>3, DivNat DEF Owed
<1> HIDE DEF q, r
<1>5. (q + r) * One = q * One + r * One /\ b * index = (b - n) * index + n * index
  BY <1>1, <1>2, SMT
<1>6. q * One \in Nat /\ r * One \in Nat
  BY <1>1, <1>2, TimesNat
<1>7. (q + r) * One <= b * index
  BY <1>3, <1>4, <1>5, <1>6
<1>8. q + r <= Owed(b)
  BY <1>1, <1>2, <1>3, <1>7, DivLargest DEF Owed
<1> QED
  BY <1>2, <1>8 DEF q, r

\* A liquidation takes at most the debt it repays and the padding.
LEMMA PremiumBounded ==
  ASSUME IInv, NEW id \in Ids, Killable(id),
         NEW repaying \in Nat, NEW repaid \in Nat, repaid <= Owed(repaying),
         NEW b \in Seized(id, repaying, repaid), Commit(id, b)
  PROVE  LET paid == Owed(pos[id].borrow) - Owed(pos'[id].borrow)
             got == Rate(vault, pos[id].shares) - Rate(vault', pos'[id].shares)
                    + Value(pos[id].token, pos[id].collateral)
                    - Value(pos[id].token, pos'[id].collateral)
         IN got * Bps <= paid * (Bps + killCollateralPadding)
<1> DEFINE p == pos[id]
           paid == Owed(p.borrow) - Owed(b.p.borrow)
           got == Rate(vault, p.shares) - Rate(b.vault, b.p.shares)
                  + Value(p.token, p.collateral) - Value(p.token, b.p.collateral)
<1>1. TypeOK /\ Fits(p)
  BY UnhealthyOpened, OpenedFits DEF Killable, IInv
<1>2. pos'[id] = b.p /\ vault' = b.vault
  BY <1>1 DEF Commit, TypeOK
<1>3. /\ b.p.borrow = p.borrow - repaying /\ repaying <= p.borrow
      /\ Keeps(p, b)
  BY <1>1, SeizedKeeps
<1>4. p.borrow \in Nat /\ b.p.borrow \in Nat
  BY <1>1, <1>3, BookFields DEF Keeps, Fits, Position
<1>5. paid \in Int /\ paid >= repaid
  <2>1. Owed(p.borrow) \in Nat /\ Owed(b.p.borrow) \in Nat /\ Owed(repaying) \in Nat
    BY <1>1, <1>4, PoolNat
  <2>2. paid >= Owed(repaying)
    BY <1>1, <1>3, <1>4, OwedFalls
  <2> QED
    BY <2>1, <2>2
<1>6. got <= Target(repaid)
  BY <1>1, SeizedWithinTarget
<1>7. got \in Int
  <2>1. /\ p.token \in Tokens /\ p.collateral \in Nat /\ b.p.collateral \in Nat
        /\ p.shares \in Nat /\ b.p.shares \in Nat /\ vault \in Vaults /\ b.vault \in Vaults
        /\ p.shares < vault.totalShares /\ b.p.shares < b.vault.totalShares
    <3>1. b.p.shares + Seed <= b.vault.totalShares /\ p.shares + Seed <= vault.totalShares
      BY <1>1, <1>3, KeptCovers DEF Fits
    <3>2. /\ p.token \in Tokens /\ p.collateral \in Nat /\ b.p.collateral \in Nat
          /\ p.shares \in Nat /\ b.p.shares \in Nat /\ vault \in Vaults /\ b.vault \in Vaults
      BY <1>1, <1>3, BookFields DEF Keeps, Fits, Position, TypeOK, Vaults
    <3>3. vault.totalShares \in Nat /\ b.vault.totalShares \in Nat /\ Seed \in Nat \ {0}
      BY <3>2, InvestorAssumption DEF Vaults
    <3> QED
      BY <3>1, <3>2, <3>3
  <2>2. /\ Rate(vault, p.shares) \in Nat /\ Rate(b.vault, b.p.shares) \in Nat
    BY <2>1, BurnKeepsRate
  <2>3. /\ Value(p.token, p.collateral) \in Nat /\ Value(p.token, b.p.collateral) \in Nat
    BY <1>1, <2>1, ConvertNat
  <2> QED
    BY <2>2, <2>3
<1> HIDE DEF got, paid
<1>8. got * Bps <= paid * (Bps + killCollateralPadding)
  <2>1. Target(repaid) \in Nat /\ Target(repaid) * Bps <= repaid * (Bps + killCollateralPadding)
    BY TargetNat
  <2> QED
    BY <1>5, <1>6, <1>7, <2>1 DEF Bps, killCollateralPadding
<1> QED
  BY <1>2, <1>8 DEF got, paid

\* No kill or partialKill takes more, in shares and collateral at their prices, than
\* the debt repaid and 5% of it.
THEOREM PremiumIsBounded == Spec => LiquidatorPremium
<1> DEFINE Fair ==
      \A id \in Ids :
        Liquidates(id) =>
          LET repaid == Owed(pos[id].borrow) - Owed(pos'[id].borrow)
              got == Rate(vault, pos[id].shares) - Rate(vault', pos'[id].shares)
                     + Value(pos[id].token, pos[id].collateral)
                     - Value(pos[id].token, pos'[id].collateral)
          IN got * Bps <= repaid * (Bps + killCollateralPadding)
<1>1. ASSUME IInv PROVE Fair
  <2> SUFFICES ASSUME NEW id \in Ids, Liquidates(id)
               PROVE  LET repaid == Owed(pos[id].borrow) - Owed(pos'[id].borrow)
                          got == Rate(vault, pos[id].shares) - Rate(vault', pos'[id].shares)
                                 + Value(pos[id].token, pos[id].collateral)
                                 - Value(pos[id].token, pos'[id].collateral)
                      IN got * Bps <= repaid * (Bps + killCollateralPadding)
    OBVIOUS
  <2>1. CASE Kill(id)
    <3> DEFINE n == pos[id].borrow
    <3>1. PICK b \in Seized(id, n, Owed(n)) : Commit(id, b)
      BY <2>1 DEF Kill
    <3>2. Killable(id)
      BY <2>1 DEF Kill
    <3>3. n \in Nat
      BY <1>1 DEF IInv, TypeOK, Position
    <3>4. Owed(n) \in Nat /\ Owed(n) <= Owed(n)
      BY <1>1, <3>3, PoolNat DEF IInv
    <3> QED
      BY <1>1, <3>1, <3>2, <3>3, <3>4, PremiumBounded, Zenon
  <2>2. ASSUME NEW amount \in Repayments, PartialKill(id, amount)
        PROVE  LET repaid == Owed(pos[id].borrow) - Owed(pos'[id].borrow)
                   got == Rate(vault, pos[id].shares) - Rate(vault', pos'[id].shares)
                          + Value(pos[id].token, pos[id].collateral)
                          - Value(pos[id].token, pos'[id].collateral)
               IN got * Bps <= repaid * (Bps + killCollateralPadding)
    <3>1. PICK b \in Seized(id, amount, amount) : Commit(id, b)
      BY <2>2 DEF PartialKill
    <3>2. Killable(id)
      BY <2>2 DEF PartialKill
    <3>3. amount \in Nat
      BY InvestorAssumption
    <3>4. amount <= Owed(amount)
      BY <1>1, <3>3, PoolNat DEF IInv
    <3> QED
      BY <1>1, <3>1, <3>2, <3>3, <3>4, PremiumBounded, Zenon
  <2> QED
    BY <2>1, <2>2 DEF Liquidates
<1> QED
  BY <1>1, Inductive, PTL DEF LiquidatorPremium
-----------------------------------------------------------------------------
(* A healthy position can be closed *)

\* What a swap may lose is within the padding and within what the factor holds back,
\* as the Investor's slippage of 200 is, with the deployed factors of 0.9 and 0.95.
PaddingCovers ==
  /\ Losses # {}
  /\ \A l \in Losses : /\ Bps * Bps <= (Bps - l) * (Bps + closeCollateralPadding)
                       /\ Factor * Bps <= One * (Bps - l)

\* A unit of a collateral token is worth little against one of the pool's asset, as
\* with WETH's 18 decimals and USDC.e's 6, or the token is the asset itself.
FineTokens == \A t \in Prices : t = One \/ 51 * t <= One

\* Losses are in basis points.
LEMMA LossBps == \A l \in Losses : l \in 0..10000
<1>1. Losses \subseteq 0..Bps
  BY InvestorAssumption
<1> QED
  BY <1>1 DEF Bps

\* A swap returns what went in but for the loss.
LEMMA SwapReturns ==
  ASSUME NEW v \in Nat, NEW out \in Swapped(v)
  PROVE  \E l \in Losses : out * Bps >= v * (Bps - l)
<1>1. PICK l \in Losses : out = v - (v * l) \div Bps
  BY DEF Swapped
<1>2. l \in 0..Bps
  BY InvestorAssumption
<1> DEFINE n == v * l
           lost == n \div Bps
<1>3. n \in Nat
  BY <1>2, TimesNat DEF Bps
<1>4. lost \in Nat /\ lost * Bps <= n
  BY <1>3, DivNat DEF Bps
<1>5. out = v - lost /\ v * (Bps - l) = v * Bps - n
  BY <1>1, <1>2 DEF Bps
<1> HIDE DEF lost, n
<1>6. out * Bps = v * Bps - lost * Bps
  BY <1>4, <1>5 DEF Bps
<1>7. out * Bps >= v * (Bps - l)
  BY <1>3, <1>4, <1>5, <1>6 DEF Bps
<1> QED
  BY <1>7

\* Collateral in fine tokens, converted there and back with the padding, is worth
\* more than 104% of one unit less than what is missing.
LEMMA PaddedWorth ==
  ASSUME NEW m \in Nat, NEW q \in Nat, q > 0, NEW N \in Nat, N > 0,
         q = N \/ 51 * q <= N,
         NEW c \in Nat, c * q <= m * N, m * N < c * q + q,
         NEW s \in Nat, c * 10400 < s * 10000 + 10000,
         NEW v \in Nat, s * q < v * N + N, v * N <= s * q
  PROVE  10400 * (m - 1) < 10000 * v
<1>1. CASE 51 * q <= N
  <2> DEFINE cq == c * q
             sq == s * q
             mN == m * N
             vN == v * N
  <2>1. cq \in Nat /\ sq \in Nat /\ mN \in Nat /\ vN \in Nat
    BY TimesNat
  <2>2. (c * 10400) * q <= (s * 10000 + 10000 - 1) * q
    BY TimesMonotonic
  <2>3. (c * 10400) * q = 10400 * cq /\ (s * 10000 + 10000 - 1) * q = 10000 * sq + 10000 * q - q
    OBVIOUS
  <2>4. mN < cq + q /\ sq < vN + N
    OBVIOUS
  <2> HIDE DEF cq, sq, mN, vN
  <2>5. 10400 * cq < 10000 * sq + 10000 * q
    BY <2>1, <2>2, <2>3
  <2>6. 10400 * mN < 10000 * vN + 10400 * N
    BY <1>1, <2>1, <2>4, <2>5
  <2>7. 10400 * mN = (10400 * m) * N /\ 10000 * vN + 10400 * N = (10000 * v + 10400) * N
    BY DEF mN, vN
  <2>8. ASSUME 10000 * v + 10400 <= 10400 * m
        PROVE  FALSE
    <3>1. (10000 * v + 10400) * N <= (10400 * m) * N
      BY <2>8, TimesMonotonic
    <3>2. (10000 * v + 10400) * N \in Nat /\ (10400 * m) * N \in Nat
      BY TimesNat
    <3> HIDE DEF mN, vN
    <3> QED
      BY <2>1, <2>6, <2>7, <3>1, <3>2
  <2> QED
    BY <2>8
<1>2. CASE q = N
  <2>1. ASSUME c < m
        PROVE  FALSE
    <3>1. (c + 1) * N <= m * N
      BY <2>1, TimesMonotonic
    <3>2. (c + 1) * N = c * N + N /\ c * N \in Nat /\ m * N \in Nat
      BY TimesNat
    <3> QED
      BY <1>2, <3>1, <3>2
  <2>2. ASSUME v < s
        PROVE  FALSE
    <3>1. (v + 1) * N <= s * N
      BY <2>2, TimesMonotonic
    <3>2. (v + 1) * N = v * N + N /\ v * N \in Nat /\ s * N \in Nat
      BY TimesNat
    <3> QED
      BY <1>2, <3>1, <3>2
  <2>3. c >= m /\ v >= s
    BY <2>1, <2>2
  <2> QED
    BY <2>3
<1> QED
  BY <1>1, <1>2

\* What swapping v brings covers m, if swapping loses no more than the padding.
LEMMA PaddingPays ==
  ASSUME NEW m \in Nat, NEW v \in Nat, NEW t \in Nat, NEW k \in Nat,
         10400 * (m - 1) < 10000 * v, t * 10000 >= v * k, 100000000 <= k * 10400
  PROVE  m <= t
<1>1. k > 0
  OBVIOUS
<1>2. CASE m = 0
  BY <1>2
<1>3. CASE m > 0
  <2>1. PICK n \in Nat : m = n + 1
    <3>1. m - 1 \in Nat /\ m = (m - 1) + 1
      BY <1>3
    <3> QED
      BY <3>1
  <2>2. 10400 * n + 1 <= 10000 * v
    BY <2>1
  <2>3. (10400 * n + 1) * k <= (10000 * v) * k
    BY <2>2, TimesMonotonic
  <2> DEFINE nk == n * k
             vk == v * k
  <2>4. (10400 * n + 1) * k = 10400 * nk + k /\ (10000 * v) * k = 10000 * vk
    OBVIOUS
  <2>5. nk \in Nat /\ vk \in Nat /\ t * 10000 >= vk
    BY TimesNat
  <2>6. 100000000 * n <= (k * 10400) * n
    BY TimesMonotonic
  <2>7. (k * 10400) * n = 10400 * nk
    OBVIOUS
  <2> HIDE DEF nk, vk
  <2>8. 100000000 * n + k <= 10000 * vk
    BY <2>3, <2>4, <2>5, <2>6, <2>7
  <2>9. 10000 * vk <= 100000000 * t
    BY <2>5
  <2>10. n < t
    BY <1>1, <2>5, <2>8, <2>9
  <2> QED
    BY <2>1, <2>10
<1> QED
  BY <1>2, <1>3

\* A sale of collateral for what is missing brings it, unless all of it is sold.
LEMMA SaleCovers ==
  ASSUME TypeOK, PaddingCovers, FineTokens, NEW p \in Position, p.token \in Tokens,
         NEW m \in Nat, CollateralToSell(p, m) # p.collateral,
         NEW t \in Swapped(Value(p.token, CollateralToSell(p, m)))
  PROVE  m <= t
<1> DEFINE q == price[p.token]
           c == Convert(p.token, m)
           s == (c * (Bps + closeCollateralPadding)) \div Bps
           v == Value(p.token, s)
<1>1. /\ q \in Nat /\ q > 0 /\ One \in Nat /\ One > 0
      /\ q = One \/ 51 * q <= One
  <2>1. One \in Nat \ {0} /\ Prices \subseteq Nat \ {0}
    BY InvestorAssumption
  <2>2. q \in Prices
    BY DEF TypeOK
  <2> HIDE DEF q
  <2>3. q = One \/ 51 * q <= One
    BY <2>2 DEF FineTokens
  <2> QED
    BY <2>1, <2>2, <2>3
<1>2. c \in Nat /\ c * q <= m * One /\ m * One < c * q + q
  <2>1. m * One \in Nat
    BY <1>1, TimesNat
  <2>2. One \in Nat /\ q \in Nat \ {0} /\ c = (m * One) \div q
    BY <1>1 DEF Convert
  <2> HIDE DEF c, q
  <2> QED
    BY <2>1, <2>2, DivNat
<1> HIDE DEF c
<1>3. s \in Nat /\ c * 10400 < s * 10000 + 10000
  <2>1. c * 10400 \in Nat
    BY <1>2
  <2>2. /\ (c * 10400) \div 10000 \in Nat
        /\ c * 10400 < ((c * 10400) \div 10000) * 10000 + 10000
    BY <2>1, DivNat
  <2> QED
    BY <2>2 DEF Bps, closeCollateralPadding
<1> HIDE DEF s
<1>4. v \in Nat /\ v * One <= s * q /\ s * q < v * One + One
  <2>1. One \in Nat \ {0} /\ v = (s * q) \div One
    BY <1>1 DEF Value
  <2> HIDE DEF v, q
  <2>2. s * q \in Nat
    BY <1>1, <1>3, TimesNat
  <2> QED
    BY <2>1, <2>2, DivNat
<1>5. CollateralToSell(p, m) = s
  <2>1. CollateralToSell(p, m) = LowerOf(s, p.collateral)
    BY DEF CollateralToSell, s, c
  <2> QED
    BY <2>1 DEF LowerOf
<1>6. t \in Swapped(v)
  BY <1>5
<1> HIDE DEF v, q
<1>7. PICK l \in Losses : t * Bps >= v * (Bps - l)
  BY <1>4, <1>6, SwapReturns
<1>8. t \in Nat /\ Bps - l \in Nat
  <2>1. l \in 0..Bps
    BY InvestorAssumption
  <2> QED
    BY <1>4, <1>6, <2>1, SwappedNat DEF Bps
<1>9. 100000000 <= (Bps - l) * 10400
  BY DEF PaddingCovers, Bps, closeCollateralPadding
<1>10. 10400 * (m - 1) < 10000 * v
  BY <1>1, <1>2, <1>3, <1>4, PaddedWorth
<1>11. t * 10000 >= v * (Bps - l)
  BY <1>7 DEF Bps
<1> QED
  BY <1>4, <1>8, <1>9, <1>10, <1>11, PaddingPays

\* A healthy position owes no more than the factor's part of what it has.
LEMMA HealthBounds ==
  ASSUME IInv, NEW id \in Ids, Fits(pos[id]), Healthy(id)
  PROVE  LET p == pos[id]
         IN Owed(p.borrow) * One
              <= (Rate(vault, p.shares) + Value(p.token, p.collateral)) * Factor
<1> DEFINE p == pos[id]
           value == Rate(vault, p.shares) + Value(p.token, p.collateral)
           held == value * Factor
           x == held \div One
           d == Owed(p.borrow)
           life == (x * One) \div d
<1>1. One \in Nat \ {0} /\ Factor \in Nat
  BY InvestorAssumption
<1>2. value \in Nat /\ p.borrow \in Nat /\ d \in Nat /\ p.borrow <= d
  <2>1. p.borrow \in Nat /\ p.shares \in Nat /\ p.collateral \in Nat /\ p.token \in Tokens
    BY DEF Fits, Position
  <2>2. Rate(vault, p.shares) \in Nat
    <3>1. p.shares * vault.assets \in Nat /\ vault.totalShares \in Nat \ {0}
      BY <2>1, TimesNat, InvestorAssumption DEF IInv, TypeOK, Fits
    <3> QED
      BY <3>1, DivNat DEF Rate
  <2> QED
    BY <2>1, <2>2, ConvertNat, PoolNat DEF IInv
<1>3. p.borrow = 0 \/ life >= One
  BY DEF Healthy, Life
<1> HIDE DEF value, p, d
<1>4. held \in Nat
  BY <1>1, <1>2, TimesNat
<1>5. x \in Nat /\ x * One <= held
  BY <1>1, <1>4, DivNat
<1> HIDE DEF held, x
<1>6. d * One <= held
  <2>1. CASE p.borrow = 0
    <3>1. d = 0
      <4>1. index \in Nat /\ d = (0 * index) \div One
        BY <2>1, InvestorAssumption DEF d, Owed, IInv, TypeOK
      <4> QED
        BY <1>1, <4>1
    <3> QED
      BY <1>1, <1>4, <3>1
  <2>2. CASE p.borrow # 0
    <3>1. d \in Nat \ {0}
      BY <1>2, <2>2
    <3>2. x * One \in Nat
      BY <1>1, <1>5, TimesNat
    <3>3. life \in Nat /\ life * d <= x * One
      BY <3>1, <3>2, DivNat
    <3> HIDE DEF life
    <3>4. One * d <= life * d
      BY <1>1, <1>3, <2>2, <3>1, <3>3, TimesMonotonic
    <3>5. One * d = d * One /\ d * One \in Nat /\ life * d \in Nat
      BY <1>1, <3>1, <3>3, TimesNat
    <3> QED
      BY <1>4, <1>5, <3>2, <3>3, <3>4, <3>5
  <2> QED
    BY <2>1, <2>2
<1> QED
  BY <1>6 DEF held, value, d, p

\* A worth that may shrink by the swaps' losses still covers what it covered less
\* the factor.
LEMMA FactorCovers ==
  ASSUME PaddingCovers, NEW w \in Nat, NEW a \in Swapped(w),
         NEW v \in Nat, NEW t \in Swapped(v),
         NEW d \in Nat, d * One <= (w + v) * Factor
  PROVE  d <= a + t
<1>1. PICK l \in Losses : a * Bps >= w * (Bps - l)
  BY SwapReturns
<1>2. PICK k \in Losses : t * Bps >= v * (Bps - k)
  BY SwapReturns
<1>3. /\ One \in Nat \ {0} /\ Factor \in Nat /\ Losses \subseteq 0..Bps
      /\ a \in Nat /\ t \in Nat
  BY SwappedNat, InvestorAssumption
<1> DEFINE x == Bps - l
           y == Bps - k
           n == One
           f == Factor
<1>4. x \in Nat /\ y \in Nat /\ n \in Nat \ {0} /\ f \in Nat
  <2>1. l \in 0..10000 /\ k \in 0..10000
    BY LossBps
  <2>2. x = 10000 - l /\ y = 10000 - k
    BY DEF Bps
  <2>3. n \in Nat \ {0} /\ f \in Nat
    BY <1>3
  <2> HIDE DEF x, y, n, f
  <2> QED
    BY <2>1, <2>2, <2>3
<1>5. f * 10000 <= n * x /\ f * 10000 <= n * y
  BY DEF PaddingCovers, Bps
<1>6. a * 10000 >= w * x /\ t * 10000 >= v * y /\ d * n <= (w + v) * f
  BY <1>1, <1>2 DEF Bps
<1> HIDE DEF x, y, n, f
<1>7. ASSUME NEW b \in Nat, NEW u \in Nat, NEW z \in Nat,
             f * 10000 <= n * z, b * 10000 >= u * z
      PROVE  (u * f) * 10000 <= (b * n) * 10000
  <2>1. (f * 10000) * u <= (n * z) * u
    BY <1>4, <1>7, TimesMonotonic, TimesNat
  <2>2. (u * z) * n <= (b * 10000) * n
    BY <1>4, <1>7, TimesMonotonic, TimesNat
  <2>3. (n * z) * u = (u * z) * n
    BY <1>4
  <2>4. (f * 10000) * u = (u * f) * 10000 /\ (b * 10000) * n = (b * n) * 10000
    BY <1>4
  <2>5. /\ (u * f) * 10000 \in Nat /\ (u * z) * n \in Nat /\ (b * n) * 10000 \in Nat
    BY <1>4, TimesNat
  <2> QED
    BY <2>1, <2>2, <2>3, <2>4, <2>5
<1>8. (w * f) * 10000 <= (a * n) * 10000 /\ (v * f) * 10000 <= (t * n) * 10000
  BY <1>3, <1>4, <1>5, <1>6, <1>7
<1>9. /\ w * f \in Nat /\ v * f \in Nat /\ a * n \in Nat /\ t * n \in Nat
      /\ (w + v) * f = w * f + v * f /\ (a + t) * n = a * n + t * n
  BY <1>3, <1>4, TimesNat
<1>10. d * n <= (a + t) * n
  <2> DEFINE wf == w * f
             vf == v * f
             an == a * n
             tn == t * n
  <2>1. wf <= an /\ vf <= tn
    BY <1>8, <1>9
  <2>2. d * n <= wf + vf /\ (a + t) * n = an + tn /\ d * n \in Nat
    BY <1>4, <1>6, <1>9, TimesNat
  <2>3. wf \in Nat /\ vf \in Nat /\ an \in Nat /\ tn \in Nat
    BY <1>9
  <2> HIDE DEF wf, vf, an, tn
  <2> QED
    BY <2>1, <2>2, <2>3
<1>11. ASSUME a + t < d
       PROVE  FALSE
  <2>1. (a + t + 1) * n <= d * n
    BY <1>3, <1>4, <1>11, TimesMonotonic
  <2>2. (a + t + 1) * n = (a + t) * n + n /\ (a + t) * n \in Nat /\ d * n \in Nat
    BY <1>3, <1>4, TimesNat
  <2> QED
    BY <1>4, <1>10, <2>1, <2>2
<1> QED
  BY <1>3, <1>11

\* Losses leave something to any swap.
LEMMA SwapPossible ==
  ASSUME PaddingCovers, NEW v \in Nat
  PROVE  \E out \in Swapped(v) : out \in Nat
<1>1. PICK l \in Losses : TRUE
  BY DEF PaddingCovers
<1>2. v - (v * l) \div Bps \in Swapped(v)
  BY DEF Swapped
<1> QED
  BY <1>2, SwappedNat

\* Selling all shares of a healthy position, and the collateral they leave missing,
\* repays its whole borrow, whatever the swaps lose.
LEMMA ClosingPays ==
  ASSUME IInv, PaddingCovers, FineTokens, NEW id \in Ids, Fits(pos[id]), Healthy(id),
         NEW a \in Swapped(Rate(vault, pos[id].shares))
  PROVE  LET p == pos[id]
             m == Owed(p.borrow) - a
         IN /\ a \in Nat /\ Owed(p.borrow) \in Nat
            /\ m > 0 => LET sold == CollateralToSell(p, m)
                        IN /\ Value(p.token, sold) \in Nat
                           /\ \A t \in Swapped(Value(p.token, sold)) :
                                Owed(p.borrow) <= a + t
<1> DEFINE p == pos[id]
           w == Rate(vault, p.shares)
           d == Owed(p.borrow)
           m == d - a
           sold == CollateralToSell(p, m)
<1>1. /\ p \in Position /\ p.token \in Tokens
      /\ p.borrow \in Nat /\ p.shares \in Nat /\ p.collateral \in Nat
  BY DEF Fits, Position
<1>2. w \in Nat /\ d \in Nat
  <2>1. p.shares * vault.assets \in Nat /\ vault.totalShares \in Nat \ {0}
    BY <1>1, TimesNat, InvestorAssumption DEF IInv, TypeOK, Fits
  <2> QED
    BY <1>1, <2>1, DivNat, PoolNat DEF Rate, IInv
<1>3. a \in Nat
  BY <1>2, SwappedNat
<1>4. d * One <= (w + Value(p.token, p.collateral)) * Factor
  BY HealthBounds
<1>5. ASSUME m > 0
      PROVE  /\ Value(p.token, sold) \in Nat
             /\ \A t \in Swapped(Value(p.token, sold)) : d <= a + t
  <2>1. m \in Nat
    BY <1>2, <1>3, <1>5
  <2> HIDE DEF m
  <2>2. sold \in Nat
    <3> DEFINE c == Convert(p.token, m)
               n == (c * (Bps + closeCollateralPadding)) \div Bps
    <3>1. c \in Nat
      BY <1>1, <2>1, ConvertNat DEF IInv
    <3> HIDE DEF c
    <3>2. n \in Nat
      BY <3>1 DEF Bps, closeCollateralPadding
    <3> HIDE DEF n
    <3>3. sold = LowerOf(n, p.collateral)
      BY DEF CollateralToSell, n, c
    <3> HIDE DEF sold
    <3> QED
      BY <1>1, <3>2, <3>3, LowerOfNat
  <2>3. Value(p.token, sold) \in Nat
    BY <1>1, <2>2, ConvertNat DEF IInv
  <2>4. ASSUME NEW t \in Swapped(Value(p.token, sold))
        PROVE  d <= a + t
    <3>1. CASE sold = p.collateral
      <4> HIDE DEF sold
      <4>1. t \in Swapped(Value(p.token, p.collateral)) /\ Value(p.token, p.collateral) \in Nat
        BY <2>3, <2>4, <3>1
      <4> HIDE DEF d, w, p
      <4> QED
        BY <1>2, <1>4, <4>1, FactorCovers DEF w, p
    <3>2. CASE sold # p.collateral
      <4>1. m <= t
        BY <1>1, <2>1, <2>4, <3>2, SaleCovers DEF IInv
      <4>2. t \in Nat
        BY <2>3, <2>4, SwappedNat
      <4> HIDE DEF sold
      <4> QED
        BY <1>2, <1>3, <4>1, <4>2 DEF m
    <3> QED
      BY <3>1, <3>2
  <2> QED
    BY <2>3, <2>4
<1> QED
  BY <1>2, <1>3, <1>5

\* The books of a closing that starts from b, which has the position's figures.
LEMMA ClosingSells ==
  ASSUME IInv, PaddingCovers, FineTokens, NEW id \in Ids, Fits(pos[id]), Healthy(id),
         NEW b, b.vault = vault,
         b.p.shares = pos[id].shares, b.p.borrow = pos[id].borrow,
         b.p.token = pos[id].token, b.p.collateral = pos[id].collateral
  PROVE  SellShares(b, pos[id].shares) # {}
<1> DEFINE p == pos[id]
           left == [b EXCEPT !.p.shares = @ - p.shares, !.vault = AfterBurn(@, p.shares)]
           Outcome(a) ==
             LET repaying == Repaying(b.p, p.shares, a)
                 missing == Owed(b.p.borrow) - a
                 sold == CollateralToSell(b.p, missing)
             IN IF p.shares # b.p.shares \/ missing <= 0
                THEN Repaid(left, repaying, a)
                ELSE UNION {Repaid(TakenOut(left, sold), repaying, a + topup) :
                              topup \in Swapped(Value(b.p.token, sold))}
<1>1. SellShares(b, p.shares) = UNION {Outcome(a) : a \in Swapped(Rate(vault, p.shares))}
  BY DEF SellShares
<1>2. Rate(vault, p.shares) \in Nat
  <2>1. p.shares \in Nat /\ vault.totalShares \in Nat \ {0} /\ vault.assets \in Nat
    BY InvestorAssumption DEF Fits, Position, IInv, TypeOK
  <2>2. p.shares * vault.assets \in Nat
    BY <2>1, TimesNat
  <2> QED
    BY <2>1, <2>2, DivNat DEF Rate
<1>3. PICK a \in Swapped(Rate(vault, p.shares)) : a \in Nat
  BY <1>2, SwapPossible
<1> DEFINE m == Owed(p.borrow) - a
           sold == CollateralToSell(p, m)
<1>4. /\ Owed(p.borrow) \in Nat
      /\ m > 0 => /\ Value(p.token, sold) \in Nat
                  /\ \A t \in Swapped(Value(p.token, sold)) : Owed(p.borrow) <= a + t
  BY ClosingPays, Zenon
<1>5. ASSUME NEW c, NEW n \in Nat, Owed(p.borrow) <= n
      PROVE  Repaid(c, p.borrow, n) # {}
  BY <1>4, <1>5 DEF Repaid
<1>6. Repaying(b.p, p.shares, a) = p.borrow
  BY DEF Repaying
<1>7. CollateralToSell(b.p, m) = sold
  BY DEF CollateralToSell
<1>8. Outcome(a) # {}
  <2>1. CASE m <= 0
    <3>1. Outcome(a) = Repaid(left, p.borrow, a)
      BY <1>6, <2>1
    <3>2. Owed(p.borrow) <= a
      BY <1>3, <1>4, <2>1
    <3> QED
      BY <1>3, <1>5, <3>1, <3>2
  <2>2. CASE ~(m <= 0)
    <3>1. m > 0
      BY <1>3, <1>4, <2>2
    <3>2. PICK t \in Swapped(Value(p.token, sold)) : t \in Nat
      BY <1>4, <3>1, SwapPossible
    <3>3. Outcome(a) = UNION {Repaid(TakenOut(left, sold), p.borrow, a + topup) :
                                topup \in Swapped(Value(p.token, sold))}
      BY <1>6, <1>7, <2>2
    <3>4. Repaid(TakenOut(left, sold), p.borrow, a + t) # {}
      BY <1>3, <1>4, <1>5, <3>1, <3>2
    <3> HIDE DEF sold, left
    <3> QED
      BY <3>2, <3>3, <3>4
  <2> QED
    BY <2>1, <2>2
<1> HIDE DEF Outcome
<1> QED
  BY <1>1, <1>3, <1>8

\* Whoever owns a healthy position can close it, for any amounts, prices, interest
\* and yields: the padding makes up for the losses of the swaps and for all
\* roundings, unless one unit of a token is worth a good part of one of the asset.
THEOREM HealthyClose == PaddingCovers /\ FineTokens => (Spec => []HealthyCanClose)
<1> SUFFICES ASSUME PaddingCovers, FineTokens PROVE Spec => []HealthyCanClose
  OBVIOUS
<1>1. ASSUME IInv, NEW id \in Ids, pos[id].shares # 0, Healthy(id)
      PROVE  EditBooks(id, Closing(id)) # {}
  <2> DEFINE p == pos[id]
             start == Deposited(Books(p), 0)
  <2>1. id <= count
    BY <1>1 DEF IInv, Opened, NoPosition
  <2>2. Fits(p) /\ p \in Position /\ p.shares \in Nat /\ p.collateral \in Nat
    BY <1>1, <2>1, OpenedFits DEF IInv, TypeOK, Position
  <2>3. /\ start.vault = vault /\ start.p.shares = p.shares /\ start.p.borrow = p.borrow
        /\ start.p.token = p.token /\ start.p.collateral = p.collateral
    <3>1. Books(p) \in BookSet /\ Books(p).p = p /\ Books(p).vault = vault
      BY <1>1, <2>2, BooksKept DEF IInv, Keeps, Books
    <3>2. Books(p).p.token \in Tokens
      BY <2>2, <3>1 DEF Fits
    <3>3. /\ start.p = [Books(p).p EXCEPT !.collateral = @ + 0]
          /\ start.vault = Books(p).vault
      BY <3>1, <3>2, DepositedFields, Zenon
    <3> QED
      BY <2>2, <3>1, <3>3 DEF Position
  <2> HIDE DEF start
  <2>4. SellShares(start, p.shares) # {}
    BY <1>1, <2>2, <2>3, ClosingSells
  <2>5. EditBooks(id, Closing(id)) =
             IF p.collateral = 0 THEN SellShares(start, p.shares)
             ELSE {TakenOut(b, LowerOf(p.collateral, b.p.collateral)) :
                     b \in SellShares(start, p.shares)}
    <3> DEFINE e == Closing(id)
    <3>1. /\ e.sell = p.shares /\ e.borrow = 0 /\ e.add = 0 /\ e.take = p.collateral
      BY DEF Closing
    <3>2. p.shares > 0
      BY <1>1, <2>2
    <3> HIDE DEF e, p
    <3>3. start = Deposited(Books(pos[id]), e.add)
      BY <3>1 DEF start, p
    <3> QED
      BY <3>1, <3>2, <3>3 DEF EditBooks, e
  <2> QED
    BY <2>4, <2>5
<1>2. IInv => HealthyCanClose
  BY <1>1 DEF HealthyCanClose
<1> QED
  BY <1>2, Inductive, PTL
=============================================================================
