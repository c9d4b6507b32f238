------------------------ MODULE StrategyCamelotV3_proofs ------------------------
(***************************************************************************)
(* Proofs about StrategyCamelotV3 for any implementations, nitro pools,    *)
(* amounts, initial totalShares and bounds.                                *)
(*                                                                         *)
(* That the spNFT is always in reach is not inductive: a mint that finds   *)
(* no LP tokens makes a new spNFT in hand, which is right only if no nitro *)
(* pool is recorded then.  So the invariant adds that a recorded nitro     *)
(* pool holds LP tokens.  That holders can leave rests on the seed: until  *)
(* an upgrade the shares that nobody holds are exactly the initial ones,   *)
(* so that no burn takes everything.                                       *)
(***************************************************************************)
EXTENDS StrategyCamelotV3, SequenceTheorems, TLAPS

NFT == [owner : Addresses, depositor : Addresses, amount : Nat]
Pools == NitroPools \cup {NoOne}

NitroHoldsSome == S.nitroPool # NoOne => totalManagedAssets > 0

SeedStays ==
  upgrades = 0 =>
    /\ S.totalShares = held + Seed
    /\ S.tokenId # 0 \/ held > 0 => totalManagedAssets > 0

IInv == TypeOK /\ SpNFTInReach /\ NitroHoldsSome /\ SeedStays

-----------------------------------------------------------------------------
(* Arithmetic *)

\* Floor division of natural numbers: a natural number, times its divisor no more.
LEMMA DivNat ==
  ASSUME NEW a \in Nat, NEW d \in Nat \ {0}
  PROVE  a \div d \in Nat /\ (a \div d) * d <= a
<1>1. a \div d \in Nat
  BY SMT
<1>2. (a \div d) * d <= a
  BY SMT
<1> QED
  BY <1>1, <1>2

\* A true part of something is less than all of it, rounded down.
LEMMA PartOfAll ==
  ASSUME NEW s \in Nat, NEW m \in Nat \ {0}, NEW t \in Nat, s < t
  PROVE  (s * m) \div t < m
<1>1. s * m < m * t
  BY SMT
<1>2. s * m \in Nat /\ t \in Nat \ {0}
  BY SMT
<1> DEFINE q == (s * m) \div t
<1>3. q \in Nat /\ q * t <= s * m
  BY <1>2, DivNat
<1>4. q * t < m * t
  BY <1>1, <1>2, <1>3, SMT
<1> HIDE DEF q
<1>5. q < m
  BY <1>3, <1>4, SMT
<1> QED
  BY <1>5 DEF q

\* Issuing liq * t / m shares for liq does not lower what a share is worth.
LEMMA MintKeepsRate ==
  ASSUME NEW m \in Nat \ {0}, NEW t \in Nat, NEW liq \in Nat
  PROVE  /\ (liq * t) \div m \in Nat
         /\ (m + liq) * t >= m * (t + (liq * t) \div m)
<1> DEFINE n == (liq * t) \div m
<1>1. liq * t \in Nat
  BY SMT
<1>2. n \in Nat /\ n * m <= liq * t
  BY <1>1, DivNat
<1> HIDE DEF n
<1>3. (m + liq) * t = m * t + liq * t /\ m * (t + n) = m * t + n * m
  BY <1>2, SMT
<1>4. m * t \in Nat /\ n * m \in Nat
  BY <1>2, SMT
<1>5. (m + liq) * t >= m * (t + n)
  BY <1>1, <1>2, <1>3, <1>4, SMT
<1> QED
  BY <1>2, <1>5 DEF n

\* Paying s * m / t for s of t shares does not lower what the others are worth.
LEMMA TakeKeepsRate ==
  ASSUME NEW m \in Nat, NEW t \in Nat \ {0}, NEW s \in Nat
  PROVE  /\ (s * m) \div t \in Nat
         /\ (m - (s * m) \div t) * t >= m * (t - s)
<1> DEFINE w == (s * m) \div t
<1>1. s * m \in Nat
  BY SMT
<1>2. w \in Nat /\ w * t <= s * m
  BY <1>1, DivNat
<1> HIDE DEF w
<1>3. (m - w) * t = m * t - w * t /\ m * (t - s) = m * t - s * m
  BY <1>2, SMT
<1>4. m * t \in Nat /\ w * t \in Nat
  BY <1>2, SMT
<1>5. (m - w) * t >= m * (t - s)
  BY <1>1, <1>2, <1>3, <1>4, SMT
<1> QED
  BY <1>2, <1>5 DEF w

-----------------------------------------------------------------------------
(* The parts of a state *)

\* The current implementation's record and the spNFT it names have their types.
LEMMA Parts ==
  ASSUME TypeOK
  PROVE  /\ S.totalShares \in Nat
         /\ S.tokenId \in 0..Len(spNFTs)
         /\ S.nitroPool \in Pools
         /\ Len(spNFTs) \in Nat
         /\ \A id \in 1..Len(spNFTs) : spNFTs[id] \in NFT
         /\ totalManagedAssets \in Nat
         /\ totalManagedAssets > 0 =>
              S.tokenId \in 1..Len(spNFTs) /\ totalManagedAssets = spNFTs[S.tokenId].amount
<1>1. S \in [totalShares : Nat, tokenId : 0..Len(spNFTs), nitroPool : Pools]
  BY DEF TypeOK, S, Pools
<1>2. Len(spNFTs) \in Nat /\ \A id \in 1..Len(spNFTs) : spNFTs[id] \in NFT
  <2>1. spNFTs \in Seq(NFT)
    BY DEF TypeOK, NFT
  <2> QED
    BY <2>1, ElementOfSeq, LenProperties
<1>3. S.totalShares \in Nat /\ S.tokenId \in 0..Len(spNFTs) /\ S.nitroPool \in Pools
  BY <1>1
<1>4. totalManagedAssets \in Nat
  BY <1>2, <1>3 DEF totalManagedAssets, NFT
<1>5. totalManagedAssets > 0 =>
        S.tokenId \in 1..Len(spNFTs) /\ totalManagedAssets = spNFTs[S.tokenId].amount
  BY <1>2, <1>3 DEF totalManagedAssets
<1> QED
  BY <1>2, <1>3, <1>4, <1>5

\* In hand is the same as not empty: no call fails for want of the spNFT.
LEMMA StakedIsInHand ==
  ASSUME IInv
  PROVE  InHand <=> totalManagedAssets > 0
<1>1. ASSUME totalManagedAssets > 0 PROVE InHand
  <2>1. S.tokenId \in DOMAIN spNFTs /\ spNFTs[S.tokenId].amount > 0
    BY <1>1, Parts DEF IInv, TypeOK
  <2> QED
    BY <1>1, <2>1 DEF IInv, SpNFTInReach, InHand
<1> QED
  BY <1>1 DEF InHand

\* What Put does to the spNFTs.
LEMMA PutFacts ==
  ASSUME TypeOK, NEW id \in 1..Len(spNFTs), NEW pool \in Pools,
         NEW i \in Impls \cup {NoOne}, NEW amount \in Nat, Put(id, pool, i, amount)
  PROVE  /\ spNFTs' \in Seq(NFT)
         /\ Len(spNFTs') = Len(spNFTs)
         /\ spNFTs'[id].amount = amount
         /\ Has(i, pool, spNFTs'[id])
         /\ \A j \in 1..Len(spNFTs) : j # id => spNFTs'[j] = spNFTs[j]
<1> DEFINE e == IF pool = NoOne
                THEN [owner |-> i, depositor |-> NoOne, amount |-> amount]
                ELSE [owner |-> pool, depositor |-> i, amount |-> amount]
<1>1. e \in NFT
  BY DEF NFT, Addresses, Pools
<1>2. spNFTs \in Seq(NFT) /\ spNFTs' = [spNFTs EXCEPT ![id] = e]
  BY DEF TypeOK, NFT, Put
<1>3. e.amount = amount /\ Has(i, pool, e)
  BY DEF Has
<1> HIDE DEF e
<1>4. /\ spNFTs' \in Seq(NFT) /\ Len(spNFTs') = Len(spNFTs)
      /\ spNFTs'[id] = e
      /\ \A j \in 1..Len(spNFTs) : j # id => spNFTs'[j] = spNFTs[j]
  BY <1>1, <1>2, ExceptSeq
<1> QED
  BY <1>3, <1>4

\* A step that puts amount into the recorded spNFT, for implementation i and its pool,
\* keeps the spNFT in reach.
LEMMA PutInReach ==
  ASSUME IInv, totalManagedAssets > 0,
         NEW pool \in Pools, NEW i \in Impls \cup {NoOne}, NEW amount \in Nat,
         Put(S.tokenId, pool, i, amount),
         S'.tokenId = S.tokenId, S'.nitroPool = pool,
         amount > 0 => current' = i,
         pool # NoOne => amount > 0
  PROVE  /\ spNFTs' \in Seq(NFT) /\ Len(spNFTs') = Len(spNFTs)
         /\ totalManagedAssets' = amount
         /\ SpNFTInReach'
         /\ NitroHoldsSome'
<1>t. PICK t \in 1..Len(spNFTs) : t = S.tokenId
  BY Parts DEF IInv
<1>1. Put(t, pool, i, amount)
  BY <1>t DEF Put
<1>2. /\ spNFTs' \in Seq(NFT) /\ Len(spNFTs') = Len(spNFTs)
      /\ spNFTs'[t].amount = amount
      /\ Has(i, pool, spNFTs'[t])
      /\ \A j \in 1..Len(spNFTs) : j # t => spNFTs'[j] = spNFTs[j]
  BY <1>1, PutFacts DEF IInv
<1>3. totalManagedAssets' = amount
  BY <1>t, <1>2 DEF totalManagedAssets
<1>4. DOMAIN spNFTs = 1..Len(spNFTs) /\ DOMAIN spNFTs' = 1..Len(spNFTs)
  BY <1>2 DEF IInv, TypeOK
<1>5. SpNFTInReach'
  <2> SUFFICES ASSUME NEW id \in 1..Len(spNFTs), spNFTs'[id].amount > 0
               PROVE  id = S'.tokenId /\ Has(current', S'.nitroPool, spNFTs'[id])
    BY <1>4 DEF SpNFTInReach, Has
  <2>1. id = t
    BY <1>t, <1>2, <1>4 DEF IInv, SpNFTInReach
  <2>2. current' = i /\ S'.nitroPool = pool /\ S'.tokenId = t
    BY <1>t, <1>2, <2>1
  <2> QED
    BY <1>2, <2>1, <2>2 DEF Has
<1>6. NitroHoldsSome'
  BY <1>3 DEF NitroHoldsSome
<1> QED
  BY <1>2, <1>3, <1>5, <1>6

Record(n) == [totalShares : Nat, tokenId : 0..n, nitroPool : Pools]

\* An implementation's record with more shares, or with a new spNFT, is a record.
LEMMA RecordExcept ==
  ASSUME NEW n \in Nat, NEW f \in [Impls -> Record(n)], NEW c \in Impls, NEW shares \in Nat
  PROVE  /\ [f EXCEPT ![c].totalShares = @ + shares] \in [Impls -> Record(n)]
         /\ [f EXCEPT ![c] = [totalShares |-> @.totalShares + shares, tokenId |-> n + 1,
                              nitroPool |-> @.nitroPool]] \in [Impls -> Record(n + 1)]
<1>1. PICK t \in Nat, k \in 0..n, p \in Pools :
        f[c] = [totalShares |-> t, tokenId |-> k, nitroPool |-> p]
  BY DEF Record
<1>2. t + shares \in Nat /\ n + 1 \in 0..(n + 1) /\ 0..n \subseteq 0..(n + 1)
  BY SMT
<1>3. [f[c] EXCEPT !.totalShares = @ + shares]
        = [totalShares |-> t + shares, tokenId |-> k, nitroPool |-> p]
  BY <1>1
<1>4. [f EXCEPT ![c].totalShares = @ + shares]
        = [f EXCEPT ![c] = [totalShares |-> t + shares, tokenId |-> k, nitroPool |-> p]]
  BY <1>3, Zenon
<1>5. [totalShares |-> f[c].totalShares + shares, tokenId |-> n + 1, nitroPool |-> f[c].nitroPool]
        \in Record(n + 1)
  BY <1>1, <1>2 DEF Record
<1>6. f \in [Impls -> Record(n + 1)]
  BY <1>2 DEF Record
<1>7. [totalShares |-> t + shares, tokenId |-> k, nitroPool |-> p] \in Record(n)
  BY <1>2 DEF Record
<1> QED
  BY <1>4, <1>5, <1>6, <1>7

\* What a mint or an earn does to the spNFTs: the LP tokens are where they were, or in
\* a new spNFT that is in hand, when no nitro pool is recorded.
LEMMA StakeStep ==
  ASSUME IInv, NEW liq \in Amounts, NEW shares \in Nat, Stake(liq, shares),
         current' = current
  PROVE  /\ spNFTs' \in Seq(NFT)
         /\ impl' \in [Impls -> Record(Len(spNFTs'))]
         /\ totalManagedAssets' = totalManagedAssets + liq
         /\ S'.totalShares = S.totalShares + shares
         /\ SpNFTInReach'
         /\ NitroHoldsSome'
<1>1. /\ liq \in Nat \ {0} /\ current \in Impls
      /\ spNFTs \in Seq(NFT) /\ Len(spNFTs) \in Nat /\ DOMAIN spNFTs = 1..Len(spNFTs)
      /\ impl \in [Impls -> Record(Len(spNFTs))]
  BY CamelotAssumption, Parts DEF IInv, TypeOK, NFT, Pools, Record
<1>2. CASE /\ InHand
           /\ spNFTs' = [spNFTs EXCEPT ![S.tokenId].amount = @ + liq]
           /\ impl' = [impl EXCEPT ![current].totalShares = @ + shares]
  <2>t. PICK t \in 1..Len(spNFTs) : t = S.tokenId
    BY <1>2, Parts DEF IInv, InHand
  <2> DEFINE e == [spNFTs[t] EXCEPT !.amount = @ + liq]
  <2>1. spNFTs[t] \in NFT /\ totalManagedAssets = spNFTs[t].amount
    BY <1>2, <2>t, Parts DEF IInv, InHand
  <2>2. /\ e \in NFT /\ e.amount = spNFTs[t].amount + liq
        /\ e.owner = spNFTs[t].owner /\ e.depositor = spNFTs[t].depositor
    <3>1. PICK o \in Addresses, d \in Addresses, a \in Nat :
            spNFTs[t] = [owner |-> o, depositor |-> d, amount |-> a]
      BY <2>1 DEF NFT
    <3>2. e = [owner |-> o, depositor |-> d, amount |-> a + liq]
      BY <3>1
    <3>3. a + liq \in Nat
      BY <1>1
    <3> QED
      BY <3>1, <3>2, <3>3 DEF NFT
  <2>3. spNFTs' = [spNFTs EXCEPT ![t] = e]
    BY <1>1, <1>2, <2>t
  <2> HIDE DEF e
  <2>4. /\ spNFTs' \in Seq(NFT) /\ Len(spNFTs') = Len(spNFTs)
        /\ spNFTs'[t] = e
        /\ \A j \in 1..Len(spNFTs) : j # t => spNFTs'[j] = spNFTs[j]
    BY <1>1, <2>2, <2>3, ExceptSeq
  <2>5. DOMAIN spNFTs' = 1..Len(spNFTs)
    BY <2>4, LenProperties
  <2>6. S' = [S EXCEPT !.totalShares = @ + shares]
    BY <1>1, <1>2 DEF S
  <2>7. /\ S'.totalShares = S.totalShares + shares
        /\ S'.tokenId = t /\ S'.nitroPool = S.nitroPool
    BY <1>1, <2>6, <2>t DEF S
  <2>8. impl' \in [Impls -> Record(Len(spNFTs'))]
    BY <1>1, <1>2, <2>4, RecordExcept
  <2>9. totalManagedAssets' = totalManagedAssets + liq
    BY <1>1, <2>1, <2>2, <2>4, <2>7 DEF totalManagedAssets
  <2>10. SpNFTInReach'
    <3> SUFFICES ASSUME NEW id \in 1..Len(spNFTs), spNFTs'[id].amount > 0
                 PROVE  id = S'.tokenId /\ Has(current', S'.nitroPool, spNFTs'[id])
      BY <2>5 DEF SpNFTInReach, Has
    <3>1. id = t
      BY <1>1, <2>t, <2>4 DEF IInv, SpNFTInReach
    <3>2. Has(current, S.nitroPool, spNFTs[t])
      BY <1>2, <2>t DEF InHand, Has
    <3> QED
      BY <2>2, <2>4, <2>7, <3>1, <3>2 DEF Has
  <2>11. NitroHoldsSome'
    BY <1>1, <2>9, Parts DEF IInv, NitroHoldsSome
  <2> QED
    BY <2>4, <2>7, <2>8, <2>9, <2>10, <2>11
<1>3. CASE /\ totalManagedAssets = 0
           /\ spNFTs' = Append(spNFTs, [owner |-> current, depositor |-> NoOne, amount |-> liq])
           /\ impl' = [impl EXCEPT ![current] = [totalShares |-> @.totalShares + shares,
                                                 tokenId |-> Len(spNFTs) + 1,
                                                 nitroPool |-> @.nitroPool]]
  <2> DEFINE e == [owner |-> current, depositor |-> NoOne, amount |-> liq]
             n == Len(spNFTs) + 1
  <2>1. e \in NFT /\ e.amount = liq /\ e.owner = current
    BY <1>1 DEF NFT, Addresses
  <2>2. spNFTs' = Append(spNFTs, e)
    BY <1>3
  <2> HIDE DEF e
  <2>3. /\ spNFTs' \in Seq(NFT) /\ Len(spNFTs') = n
        /\ spNFTs'[n] = e
        /\ \A j \in 1..Len(spNFTs) : spNFTs'[j] = spNFTs[j]
    BY <1>1, <2>1, <2>2, AppendProperties
  <2>4. DOMAIN spNFTs' = 1..n
    BY <2>3, LenProperties
  <2>5. S' = [totalShares |-> S.totalShares + shares, tokenId |-> n, nitroPool |-> S.nitroPool]
    BY <1>1, <1>3 DEF S
  <2>6. /\ S'.totalShares = S.totalShares + shares
        /\ S'.tokenId = n /\ S'.nitroPool = S.nitroPool
    BY <1>1, <2>5 DEF S
  <2>7. impl' \in [Impls -> Record(Len(spNFTs'))]
    BY <1>1, <1>3, <2>3, RecordExcept
  <2>8. totalManagedAssets' = totalManagedAssets + liq
    BY <1>1, <1>3, <2>1, <2>3, <2>6 DEF totalManagedAssets
  <2>9. S.nitroPool = NoOne
    BY <1>3 DEF IInv, NitroHoldsSome
  <2>10. SpNFTInReach'
    <3> SUFFICES ASSUME NEW id \in 1..n, spNFTs'[id].amount > 0
                 PROVE  id = S'.tokenId /\ Has(current', S'.nitroPool, spNFTs'[id])
      BY <2>4 DEF SpNFTInReach, Has
    <3>1. CASE id \in 1..Len(spNFTs)
      <4>1. spNFTs[id].amount > 0
        BY <2>3, <3>1
      <4>2. id = S.tokenId
        BY <1>1, <3>1, <4>1 DEF IInv, SpNFTInReach
      <4> QED
        BY <1>1, <1>3, <3>1, <4>1, <4>2 DEF totalManagedAssets
    <3>2. CASE id = n
      BY <2>1, <2>3, <2>6, <2>9, <3>2 DEF Has
    <3> QED
      BY <1>1, <3>1, <3>2
  <2>11. NitroHoldsSome'
    BY <2>6, <2>9 DEF NitroHoldsSome
  <2> QED
    BY <2>3, <2>6, <2>7, <2>8, <2>10, <2>11
<1> QED
  BY <1>2, <1>3 DEF Stake

-----------------------------------------------------------------------------
(* The actions *)

RateKept ==
  totalManagedAssets' * S.totalShares >= totalManagedAssets * S'.totalShares

\* The type invariant, in the names of these proofs.
LEMMA TypeOKIs ==
  TypeOK <=> /\ current \in Impls
             /\ impl \in [Impls -> Record(Len(spNFTs))]
             /\ spNFTs \in Seq(NFT)
             /\ held \in Nat /\ calls \in 0..MaxCalls /\ upgrades \in 0..MaxUpgrades
BY DEF TypeOK, Record, NFT, Pools

\* A call leaves the implementation and the number of upgrades.
LEMMA CallFacts ==
  ASSUME TypeOK, Call
  PROVE  current' = current /\ upgrades' = upgrades /\ calls' \in 0..MaxCalls
BY CamelotAssumption DEF Call, TypeOK

\* mint keeps the invariant and the rate.
LEMMA MintStep ==
  ASSUME IInv, NEW liq \in Amounts, Mint(liq)
  PROVE  IInv' /\ RateKept
<1>1. current' = current /\ upgrades' = upgrades /\ calls' \in 0..MaxCalls
  BY CallFacts DEF Mint, IInv
<1>2. liq \in Nat \ {0} /\ S.totalShares \in Nat /\ totalManagedAssets \in Nat /\ held \in Nat
  BY CamelotAssumption, Parts DEF IInv, TypeOK
<1>3. /\ Issued(liq) \in Nat
      /\ totalManagedAssets > 0 =>
           (totalManagedAssets + liq) * S.totalShares
             >= totalManagedAssets * (S.totalShares + Issued(liq))
  <2>1. CASE totalManagedAssets = 0
    BY <1>2, <2>1 DEF Issued
  <2>2. CASE totalManagedAssets > 0
    <3>1. PICK m \in Nat \ {0}, t \in Nat : m = totalManagedAssets /\ t = S.totalShares
      BY <1>2, <2>2
    <3>2. (liq * t) \div m \in Nat /\ (m + liq) * t >= m * (t + (liq * t) \div m)
      BY <1>2, MintKeepsRate
    <3>3. Issued(liq) = (liq * t) \div m
      BY <3>1, Zenon DEF Issued
    <3>4. PICK n : n = (liq * t) \div m
      OBVIOUS
    <3>5. n \in Nat /\ (m + liq) * t >= m * (t + n)
      BY <3>2, <3>4, Zenon
    <3> QED
      BY <3>1, <3>3, <3>4, <3>5
  <2> QED
    BY <1>2, <2>1, <2>2
<1>n. PICK n \in Nat : n = Issued(liq)
  BY <1>3
<1>4. Stake(liq, n)
  BY <1>n DEF Mint, Stake
<1>5. /\ spNFTs' \in Seq(NFT)
      /\ impl' \in [Impls -> Record(Len(spNFTs'))]
      /\ totalManagedAssets' = totalManagedAssets + liq
      /\ S'.totalShares = S.totalShares + n
      /\ SpNFTInReach' /\ NitroHoldsSome'
  BY <1>1, <1>4, StakeStep
<1>6. held' = held + n
  BY <1>n DEF Mint
<1>7. TypeOK'
  BY <1>1, <1>2, <1>5, <1>6, TypeOKIs DEF IInv, TypeOK, Record, NFT, Pools
<1>8. SeedStays'
  <2> SUFFICES ASSUME upgrades' = 0
               PROVE  S'.totalShares = held' + Seed /\ totalManagedAssets' > 0
    BY DEF SeedStays
  <2>1. S.totalShares = held + Seed
    BY <1>1 DEF IInv, SeedStays
  <2> QED
    BY <1>2, <1>5, <1>6, <2>1, CamelotAssumption
<1>9. RateKept
  <2>1. CASE totalManagedAssets > 0
    BY <1>3, <1>5, <1>n, <2>1 DEF RateKept
  <2>2. CASE totalManagedAssets = 0
    BY <1>2, <1>5, <2>2, SMT DEF RateKept
  <2> QED
    BY <1>2, <2>1, <2>2
<1> QED
  BY <1>5, <1>7, <1>8, <1>9 DEF IInv

\* earn keeps the invariant and the rate.
LEMMA EarnStep ==
  ASSUME IInv, NEW liq \in Amounts, Earn(liq)
  PROVE  IInv' /\ RateKept
<1>1. current' = current /\ upgrades' = upgrades /\ calls' \in 0..MaxCalls
  BY CallFacts DEF Earn, IInv
<1>2. liq \in Nat \ {0} /\ S.totalShares \in Nat /\ totalManagedAssets \in Nat
  BY CamelotAssumption, Parts DEF IInv
<1>3. Stake(liq, 0) /\ held' = held
  BY DEF Earn
<1>4. /\ spNFTs' \in Seq(NFT)
      /\ impl' \in [Impls -> Record(Len(spNFTs'))]
      /\ totalManagedAssets' = totalManagedAssets + liq
      /\ S'.totalShares = S.totalShares + 0
      /\ SpNFTInReach' /\ NitroHoldsSome'
  BY <1>1, <1>3, StakeStep
<1>5. TypeOK'
  BY <1>1, <1>3, <1>4 DEF IInv, TypeOK, Record, NFT, Pools
<1>6. SeedStays'
  BY <1>1, <1>2, <1>3, <1>4 DEF IInv, SeedStays
<1>7. RateKept
  <2>1. (totalManagedAssets + liq) * S.totalShares
           = totalManagedAssets * S.totalShares + liq * S.totalShares
    BY <1>2, SMT
  <2>2. liq * S.totalShares \in Nat /\ totalManagedAssets * S.totalShares \in Nat
    BY <1>2, SMT
  <2>3. S'.totalShares = S.totalShares
    BY <1>2, <1>4
  <2> QED
    BY <1>4, <2>1, <2>2, <2>3 DEF RateKept
<1> QED
  BY <1>4, <1>5, <1>6, <1>7 DEF IInv

\* What is paid for shares.
LEMMA WorthFacts ==
  ASSUME TypeOK, NEW shares \in Nat, S.totalShares > 0
  PROVE  /\ Worth(shares) \in Nat
         /\ (totalManagedAssets - Worth(shares)) * S.totalShares
              >= totalManagedAssets * (S.totalShares - shares)
         /\ totalManagedAssets > 0 /\ shares < S.totalShares
              => Worth(shares) < totalManagedAssets
<1>1. S.totalShares \in Nat \ {0} /\ totalManagedAssets \in Nat
  BY Parts
<1>2. /\ Worth(shares) \in Nat
      /\ (totalManagedAssets - Worth(shares)) * S.totalShares
           >= totalManagedAssets * (S.totalShares - shares)
  BY <1>1, TakeKeepsRate DEF Worth
<1>3. totalManagedAssets > 0 /\ shares < S.totalShares => Worth(shares) < totalManagedAssets
  BY <1>1, PartOfAll DEF Worth
<1> QED
  BY <1>2, <1>3

\* burn and kill keep the invariant and the rate.
LEMMA TakeStep ==
  ASSUME IInv, NEW shares \in 1..held, Take(shares)
  PROVE  IInv' /\ RateKept
<1>1. current' = current /\ upgrades' = upgrades /\ calls' \in 0..MaxCalls
  BY CallFacts DEF Take, IInv
<1>2. /\ S.totalShares \in Nat /\ totalManagedAssets \in Nat /\ S.nitroPool \in Pools
      /\ held \in Nat /\ current \in Impls /\ shares \in Nat \ {0} /\ held' = held - shares
  BY Parts DEF IInv, TypeOK, Take
<1>3. /\ shares <= S.totalShares /\ totalManagedAssets > 0
      /\ Worth(shares) <= totalManagedAssets
      /\ S.nitroPool # NoOne => Worth(shares) < totalManagedAssets
  BY DEF Take, CanTake, InHand
<1>4. S.totalShares > 0
  BY <1>2, <1>3
<1>5. /\ Worth(shares) \in Nat
      /\ (totalManagedAssets - Worth(shares)) * S.totalShares
           >= totalManagedAssets * (S.totalShares - shares)
      /\ shares < S.totalShares => Worth(shares) < totalManagedAssets
  BY <1>2, <1>3, <1>4, WorthFacts DEF IInv
<1>a. PICK amount \in Nat : amount = totalManagedAssets - Worth(shares)
  BY <1>2, <1>3, <1>5
<1>p. PICK pool \in Pools : pool = S.nitroPool
  BY <1>2
<1>i. PICK i \in Impls \cup {NoOne} : i = IF amount = 0 THEN NoOne ELSE current
  BY <1>2
<1>6. Put(S.tokenId, pool, i, amount)
  BY <1>a, <1>p, <1>i DEF Take, GiveBack, Put
<1>7. impl' = [impl EXCEPT ![current].totalShares = @ - shares]
  BY DEF Take
<1>8. impl' \in [Impls -> Record(Len(spNFTs))] /\ S' = [S EXCEPT !.totalShares = @ - shares]
  <2>1. impl \in [Impls -> Record(Len(spNFTs))]
    BY TypeOKIs DEF IInv
  <2>2. PICK t \in Nat, k \in 0..Len(spNFTs), q \in Pools :
          S = [totalShares |-> t, tokenId |-> k, nitroPool |-> q]
    BY <1>2, <2>1 DEF S, Record
  <2>3. [S EXCEPT !.totalShares = @ - shares]
          = [totalShares |-> t - shares, tokenId |-> k, nitroPool |-> q]
    BY <2>2
  <2>4. impl' = [impl EXCEPT ![current] = [S EXCEPT !.totalShares = @ - shares]]
    BY <1>7, Zenon DEF S
  <2>5. t - shares \in Nat
    BY <1>2, <1>3, <2>2
  <2>6. [S EXCEPT !.totalShares = @ - shares] \in Record(Len(spNFTs))
    BY <2>3, <2>5 DEF Record
  <2>7. S' = impl'[current]
    BY <1>1 DEF S
  <2> QED
    BY <1>2, <2>1, <2>4, <2>6, <2>7
<1>9. /\ S'.totalShares = S.totalShares - shares
      /\ S'.tokenId = S.tokenId /\ S'.nitroPool = pool
  <2>1. S \in Record(Len(spNFTs))
    BY <1>2, TypeOKIs DEF IInv, S
  <2> QED
    BY <1>8, <1>p, <2>1 DEF Record
<1>10. /\ spNFTs' \in Seq(NFT) /\ Len(spNFTs') = Len(spNFTs)
       /\ totalManagedAssets' = amount
       /\ SpNFTInReach' /\ NitroHoldsSome'
  <2>1. amount > 0 => current' = i
    BY <1>1, <1>i
  <2>2. pool # NoOne => amount > 0
    BY <1>2, <1>3, <1>5, <1>a, <1>p
  <2> QED
    BY <1>3, <1>6, <1>9, <2>1, <2>2, PutInReach
<1>11. TypeOK'
  <2>1. held - shares \in Nat /\ upgrades \in 0..MaxUpgrades
    BY <1>2 DEF IInv, TypeOK
  <2>2. impl' \in [Impls -> Record(Len(spNFTs'))]
    BY <1>8, <1>10
  <2> QED
    BY <1>1, <1>2, <1>10, <2>1, <2>2 DEF TypeOK, Record, NFT, Pools
<1>12. SeedStays'
  <2> SUFFICES ASSUME upgrades' = 0
               PROVE  S'.totalShares = held' + Seed /\ totalManagedAssets' > 0
    BY DEF SeedStays
  <2>1. S.totalShares = held + Seed
    BY <1>1 DEF IInv, SeedStays
  <2>2. shares < S.totalShares
    BY <1>2, <2>1, CamelotAssumption
  <2> QED
    BY <1>2, <1>5, <1>9, <1>10, <1>a, <2>1, <2>2, CamelotAssumption
<1>13. RateKept
  BY <1>5, <1>9, <1>10, <1>a DEF RateKept
<1> QED
  BY <1>10, <1>11, <1>12, <1>13 DEF IInv

\* A record with another pool.
LEMMA RecordWithPool ==
  ASSUME NEW n, NEW r \in Record(n), NEW pool \in Pools
  PROVE  /\ [r EXCEPT !.nitroPool = pool] \in Record(n)
         /\ [r EXCEPT !.nitroPool = pool].nitroPool = pool
         /\ [r EXCEPT !.nitroPool = pool].tokenId = r.tokenId
         /\ [r EXCEPT !.nitroPool = pool].totalShares = r.totalShares
<1>1. PICK t \in Nat, k \in 0..n, p \in Pools :
        r = [totalShares |-> t, tokenId |-> k, nitroPool |-> p]
  BY DEF Record
<1>2. [r EXCEPT !.nitroPool = pool] = [totalShares |-> t, tokenId |-> k, nitroPool |-> pool]
  BY <1>1
<1> QED
  BY <1>1, <1>2 DEF Record

\* The record that an upgrade writes.
LEMMA RecordWithShares ==
  ASSUME NEW n, NEW r \in Record(n), NEW shares \in Nat
  PROVE  /\ [r EXCEPT !.totalShares = shares] \in Record(n)
         /\ [r EXCEPT !.totalShares = shares].nitroPool = r.nitroPool
         /\ [r EXCEPT !.totalShares = shares].tokenId = r.tokenId
<1>1. PICK t \in Nat, k \in 0..n, p \in Pools :
        r = [totalShares |-> t, tokenId |-> k, nitroPool |-> p]
  BY DEF Record
<1>2. [r EXCEPT !.totalShares = shares]
        = [totalShares |-> shares, tokenId |-> k, nitroPool |-> p]
  BY <1>1
<1> QED
  BY <1>1, <1>2 DEF Record

\* setNitroPool keeps the invariant and the rate.
LEMMA SetNitroPoolStep ==
  ASSUME IInv, NEW to \in Pools, SetNitroPool(to)
  PROVE  IInv' /\ RateKept
<1>1. current' = current /\ upgrades' = upgrades /\ calls' \in 0..MaxCalls
  BY CallFacts DEF SetNitroPool, IInv
<1>2. /\ S.totalShares \in Nat /\ totalManagedAssets \in Nat /\ totalManagedAssets > 0
      /\ S \in Record(Len(spNFTs)) /\ impl \in [Impls -> Record(Len(spNFTs))]
      /\ current \in Impls /\ held \in Nat /\ held' = held
  BY Parts, TypeOKIs DEF IInv, SetNitroPool, InHand, S
<1>3. impl' = [impl EXCEPT ![current] = [S EXCEPT !.nitroPool = to]]
  BY Zenon DEF SetNitroPool, S
<1>4. S' = [S EXCEPT !.nitroPool = to]
  BY <1>1, <1>2, <1>3 DEF S
<1>5. /\ impl' \in [Impls -> Record(Len(spNFTs))]
      /\ S'.nitroPool = to /\ S'.tokenId = S.tokenId /\ S'.totalShares = S.totalShares
  <2>1. PICK r : r = [S EXCEPT !.nitroPool = to]
    OBVIOUS
  <2>2. /\ r \in Record(Len(spNFTs)) /\ r.nitroPool = to
        /\ r.tokenId = S.tokenId /\ r.totalShares = S.totalShares
    <3>1. S \in Record(Len(spNFTs)) /\ to \in Pools
      BY <1>2
    <3> QED
      BY <2>1, <3>1, RecordWithPool, ZenonT(30)
  <2>3. impl' = [impl EXCEPT ![current] = r] /\ S' = r
    BY <1>3, <1>4, <2>1, Zenon
  <2> QED
    BY <1>2, <2>2, <2>3
<1>c. PICK i \in Impls \cup {NoOne} : i = current
  BY <1>2
<1>a. PICK amount \in Nat : amount = totalManagedAssets
  BY <1>2
<1>6. Put(S.tokenId, to, i, amount)
  BY <1>a, <1>c DEF SetNitroPool, Put
<1>7. /\ spNFTs' \in Seq(NFT) /\ Len(spNFTs') = Len(spNFTs)
      /\ totalManagedAssets' = amount
      /\ SpNFTInReach' /\ NitroHoldsSome'
  BY <1>1, <1>2, <1>5, <1>6, <1>a, <1>c, PutInReach
<1>8. TypeOK'
  <2>1. upgrades \in 0..MaxUpgrades
    BY DEF IInv, TypeOK
  <2>2. impl' \in [Impls -> Record(Len(spNFTs'))]
    BY <1>5, <1>7
  <2> QED
    BY <1>1, <1>2, <1>7, <2>1, <2>2 DEF TypeOK, Record, NFT, Pools
<1>9. SeedStays'
  BY <1>1, <1>2, <1>5, <1>7, <1>a DEF IInv, SeedStays
<1>10. RateKept
  <2>1. totalManagedAssets * S.totalShares \in Nat
    BY <1>2, SMT
  <2> QED
    BY <1>5, <1>7, <1>a, <2>1 DEF RateKept
<1> QED
  BY <1>7, <1>8, <1>9, <1>10 DEF IInv

\* strategyUgrade keeps the invariant, and is counted.
LEMMA UpgradeStep ==
  ASSUME IInv, NEW new \in Impls, Upgrade(new)
  PROVE  IInv' /\ upgrades' # upgrades
<1>1. /\ current' = new /\ held' = held /\ calls' = calls
      /\ upgrades' = upgrades + 1 /\ upgrades' \in 1..MaxUpgrades
  BY CamelotAssumption DEF Upgrade, IInv, TypeOK
<1>2. /\ S.totalShares \in Nat /\ totalManagedAssets \in Nat
      /\ S \in Record(Len(spNFTs)) /\ impl \in [Impls -> Record(Len(spNFTs))]
      /\ impl[new].totalShares \in Nat /\ S.nitroPool \in Pools
  BY Parts, TypeOKIs DEF IInv, S, Record
<1>3. impl' = [impl EXCEPT ![new] = [S EXCEPT !.totalShares = impl[new].totalShares]]
  BY DEF Upgrade
<1>4. S' = [S EXCEPT !.totalShares = impl[new].totalShares]
  BY <1>1, <1>2, <1>3 DEF S
<1>5. /\ impl' \in [Impls -> Record(Len(spNFTs))]
      /\ S'.nitroPool = S.nitroPool /\ S'.tokenId = S.tokenId
  <2>1. PICK r : r = [S EXCEPT !.totalShares = impl[new].totalShares]
    OBVIOUS
  <2>2. /\ r \in Record(Len(spNFTs))
        /\ r.nitroPool = S.nitroPool /\ r.tokenId = S.tokenId
    BY <1>2, <2>1, RecordWithShares, Zenon
  <2>3. impl' = [impl EXCEPT ![new] = r] /\ S' = r
    BY <1>3, <1>4, <2>1, Zenon
  <2> QED
    BY <1>2, <2>2, <2>3
<1>6. /\ spNFTs' \in Seq(NFT) /\ Len(spNFTs') = Len(spNFTs)
      /\ SpNFTInReach' /\ NitroHoldsSome'
  <2>1. CASE S.tokenId = 0
    <3>1. spNFTs' = spNFTs
      BY <2>1 DEF Upgrade, Moved
    <3>2. totalManagedAssets = 0 /\ totalManagedAssets' = 0
      BY <1>5, <2>1 DEF totalManagedAssets
    <3>3. SpNFTInReach'
      <4>1. \A id \in DOMAIN spNFTs : ~(spNFTs[id].amount > 0)
        BY <2>1, Parts DEF IInv, SpNFTInReach, TypeOK
      <4> QED
        BY <3>1, <4>1 DEF SpNFTInReach
    <3>4. NitroHoldsSome'
      BY <1>5, <3>2 DEF IInv, NitroHoldsSome
    <3> QED
      BY <3>1, <3>3, <3>4, TypeOKIs DEF IInv
  <2>2. CASE S.tokenId # 0
    <3>1. InHand /\ Put(S.tokenId, S.nitroPool, new, totalManagedAssets)
      BY <2>2 DEF Upgrade, Moved
    <3>p. PICK pool \in Pools : pool = S.nitroPool
      BY <1>2
    <3>a. PICK amount \in Nat : amount = totalManagedAssets
      BY <1>2
    <3>2. Put(S.tokenId, pool, new, amount) /\ totalManagedAssets > 0
      BY <3>1, <3>p, <3>a DEF Put, InHand
    <3> QED
      BY <1>1, <1>5, <3>2, <3>a, <3>p, PutInReach
  <2> QED
    BY <2>1, <2>2
<1>7. TypeOK'
  <2>1. held \in Nat /\ calls \in 0..MaxCalls
    BY DEF IInv, TypeOK
  <2>2. impl' \in [Impls -> Record(Len(spNFTs'))]
    BY <1>5, <1>6
  <2> QED
    BY <1>1, <1>6, <2>1, <2>2 DEF TypeOK, Record, NFT, Pools
<1>8. SeedStays'
  BY <1>1 DEF SeedStays
<1> QED
  BY <1>1, <1>6, <1>7, <1>8 DEF IInv, TypeOK

-----------------------------------------------------------------------------
(* Theorems *)

\* The invariant holds at first.
LEMMA InitInv == Init => IInv
<1> SUFFICES ASSUME Init PROVE IInv
  OBVIOUS
<1>1. spNFTs = <<>> /\ spNFTs \in Seq(NFT) /\ Len(spNFTs) = 0 /\ DOMAIN spNFTs = {}
  BY EmptySeq DEF Init
<1>2. S = [totalShares |-> Seed, tokenId |-> 0, nitroPool |-> NoOne]
  BY CamelotAssumption DEF Init, S
<1>3. TypeOK
  BY <1>1, CamelotAssumption DEF Init, TypeOK, NFT
<1>4. SpNFTInReach /\ NitroHoldsSome
  BY <1>1, <1>2 DEF SpNFTInReach, NitroHoldsSome
<1>5. SeedStays
  BY <1>2, CamelotAssumption DEF Init, SeedStays
<1> QED
  BY <1>3, <1>4, <1>5 DEF IInv

\* Every step keeps the invariant, and, unless it upgrades, the rate.
LEMMA NextInv ==
  ASSUME IInv, [Next]_vars
  PROVE  IInv' /\ (upgrades' = upgrades => RateKept)
<1>1. CASE \E liq \in Amounts : Mint(liq)
  BY <1>1, MintStep
<1>2. CASE \E liq \in Amounts : Earn(liq)
  BY <1>2, EarnStep
<1>3. CASE \E shares \in 1..held : Take(shares)
  BY <1>3, TakeStep
<1>4. CASE \E pool \in NitroPools \cup {NoOne} : SetNitroPool(pool)
  BY <1>4, SetNitroPoolStep DEF Pools
<1>5. CASE \E new \in Impls \ {current} : Upgrade(new)
  BY <1>5, UpgradeStep
<1>6. CASE UNCHANGED vars
  <2>1. S' = S /\ totalManagedAssets' = totalManagedAssets
    BY <1>6 DEF vars, S, totalManagedAssets
  <2>2. IInv'
    BY <1>6, <2>1 DEF vars, IInv, TypeOK, SpNFTInReach, Has, NitroHoldsSome, SeedStays
  <2>3. totalManagedAssets * S.totalShares \in Nat
    BY Parts, SMT DEF IInv
  <2> QED
    BY <2>1, <2>2, <2>3 DEF RateKept
<1> QED
  BY <1>1, <1>2, <1>3, <1>4, <1>5, <1>6 DEF Next

\* The invariant holds in every reachable state.
LEMMA Inductive == Spec => []IInv
<1>1. IInv /\ [Next]_vars => IInv'
  BY NextInv
<1> QED
  BY <1>1, InitInv, PTL DEF Spec

\* In every reachable state the strategy's books have their types: shares never go
\* below zero, through any mints, burns, kills and upgrades.
THEOREM TypeCorrect == Spec => []TypeOK
<1>1. IInv => TypeOK
  BY DEF IInv
<1> QED
  BY <1>1, Inductive, PTL

\* However trades, changes of the nitro pool and upgrades follow each other, all LP
\* tokens are in the spNFT that the current implementation records and gets back.
THEOREM NeverStranded == Spec => []SpNFTInReach
<1>1. IInv => SpNFTInReach
  BY DEF IInv
<1> QED
  BY <1>1, Inductive, PTL

\* Until the first upgrade every part of the held shares can be burned or killed.
THEOREM EveryoneCanLeave == Spec => []HoldersCanLeave
<1>1. ASSUME IInv PROVE HoldersCanLeave
  <2> SUFFICES ASSUME upgrades = 0, NEW shares \in 1..held
               PROVE  CanTake(shares)
    BY DEF HoldersCanLeave
  <2>1. /\ S.totalShares \in Nat /\ totalManagedAssets \in Nat /\ held \in Nat
        /\ S.totalShares = held + Seed /\ totalManagedAssets > 0
    BY <1>1, Parts DEF IInv, TypeOK, SeedStays
  <2>2. shares \in Nat /\ shares < S.totalShares
    BY <2>1, CamelotAssumption
  <2>3. InHand
    BY <1>1, <2>1, StakedIsInHand
  <2>4. Worth(shares) \in Nat /\ Worth(shares) < totalManagedAssets
    BY <1>1, <2>1, <2>2, WorthFacts DEF IInv
  <2> QED
    BY <2>1, <2>2, <2>3, <2>4 DEF CanTake
<1> QED
  BY <1>1, Inductive, PTL

\* No mint, burn, kill, earn or change of the nitro pool lowers what a share is worth.
THEOREM RateHolds == Spec => RateNeverFalls
<1>1. IInv /\ [Next]_vars =>
        [upgrades' = upgrades =>
           totalManagedAssets' * S.totalShares >= totalManagedAssets * S'.totalShares]_vars
  BY NextInv DEF RateKept
<1> QED
  BY <1>1, Inductive, PTL DEF Spec, RateNeverFalls
=============================================================================
