------------------------- MODULE PositionManager_proofs -------------------------
(***************************************************************************)
(* Proofs about PositionRegistry, for any accounts and any number of ids,  *)
(* and about PositionManager, which adds the Investor to it.               *)
(*                                                                         *)
(* Registry: the array and the map of struct Ids are only correct          *)
(* together, and only as long as an id is listed for its owner alone:      *)
(* IndexInv says so and, with the types, is inductive.  Swap-and-pop and   *)
(* push are treated by lemmas about one struct; the theorem then has one   *)
(* step per call.                                                          *)
(*                                                                         *)
(* Composition: NFTs and positions stay together, and what both modules    *)
(* allow is all it does, so that what is proved of either holds in it.     *)
(* Its invariant needs of the Investor only that no call changes a         *)
(* position's owner.  Every part of a call keeps the owner in the position *)
(* in memory, whatever it does to the amounts, which are left untyped.     *)
(***************************************************************************)
EXTENDS PositionManager, FiniteSetTheorems, TLAPS

IdsStruct == [values: Seq(Ids), positions: [Ids -> Nat]]

\* Types without the bounds by MaxId, which follow from the index by counting.
Typed ==
  /\ ownerOf \in [Ids -> Holders]
  /\ balanceOf \in [Accounts -> Nat]
  /\ ownerIds \in [Accounts -> IdsStruct]
  /\ getApproved \in [Ids -> Holders]
  /\ operators \in [Accounts -> SUBSET Accounts]
  /\ lastId \in 0..MaxId

-----------------------------------------------------------------------------
(* One struct Ids *)

\* Swap-and-pop keeps the index and takes out exactly id.
LEMMA WithoutWellFormed ==
  ASSUME NEW i \in IdsStruct, NEW id \in Ids, WellFormed(i),
         i.positions[id] # 0
  PROVE  /\ Without(i, id) \in IdsStruct
         /\ WellFormed(Without(i, id))
         /\ Len(Without(i, id).values) = Len(i.values) - 1
         /\ \A k \in Ids : Without(i, id).positions[k] # 0
                             <=> (k # id /\ i.positions[k] # 0)
<1> DEFINE position == i.positions[id]
           lastIndex == Len(i.values)
           lastValue == i.values[lastIndex]
           j == Without(i, id)
<1>1. /\ i.values \in Seq(Ids)
      /\ i.positions \in [Ids -> Nat]
      /\ lastIndex \in Nat
      /\ position \in 1..lastIndex
      /\ lastValue \in Ids
  BY DEF IdsStruct, WellFormed
<1>2. j.values = [k \in 1..(lastIndex - 1) |->
                    IF k = position THEN lastValue ELSE i.values[k]]
  BY DEF Without
<1>3. \A k \in Ids : j.positions[k] =
        IF k = id THEN 0 ELSE IF k = lastValue THEN position ELSE i.positions[k]
  BY <1>1 DEF Without
<1>4. j.positions \in [Ids -> Nat]
  BY <1>1 DEF Without
<1>5. /\ j.values \in Seq(Ids)
      /\ Len(j.values) = lastIndex - 1
      /\ \A k \in 1..(lastIndex - 1) : i.values[k] \in Ids
  BY <1>1, <1>2
<1>6. j \in IdsStruct
  BY <1>4, <1>5 DEF IdsStruct, Without
<1>7. /\ i.values[position] = id
      /\ i.positions[lastValue] = lastIndex
      /\ id = lastValue <=> position = lastIndex
  BY <1>1 DEF WellFormed
<1> HIDE DEF j
<1>8. ASSUME NEW k \in Ids
      PROVE  /\ j.positions[k] \in 0..(lastIndex - 1)
             /\ j.positions[k] # 0 => j.values[j.positions[k]] = k
  <2>1. CASE k = id
    BY <1>1, <1>3, <2>1
  <2>2. CASE k # id /\ k = lastValue
    BY <1>1, <1>2, <1>3, <1>7, <2>2
  <2>3. CASE k # id /\ k # lastValue
    <3>1. /\ i.positions[k] \in 0..lastIndex
          /\ i.positions[k] # 0 => i.values[i.positions[k]] = k
      BY DEF WellFormed
    <3> QED
      BY <1>1, <1>2, <1>3, <1>7, <2>3, <3>1
  <2> QED
    BY <2>1, <2>2, <2>3
<1>9. ASSUME NEW k \in 1..(lastIndex - 1)
      PROVE  j.positions[j.values[k]] = k
  <2>1. /\ i.positions[i.values[k]] = k
        /\ i.values[k] \in Ids
        /\ k \in Nat /\ k # 0 /\ k # lastIndex
    BY <1>1, <1>5 DEF WellFormed
  <2>2. CASE k = position
    <3>1. j.values[k] = lastValue /\ lastValue # id
      BY <1>2, <1>7, <2>1, <2>2
    <3> QED
      BY <1>1, <1>3, <2>2, <3>1
  <2>3. CASE k # position
    <3>1. j.values[k] = i.values[k]
      BY <1>2, <2>3
    <3>2. i.values[k] # id /\ i.values[k] # lastValue
      BY <1>7, <2>1, <2>3
    <3> QED
      BY <1>3, <2>1, <3>1, <3>2
  <2> QED
    BY <2>2, <2>3
<1>10. WellFormed(j)
  BY <1>5, <1>8, <1>9 DEF WellFormed
<1>11. \A k \in Ids : j.positions[k] # 0 <=> (k # id /\ i.positions[k] # 0)
  BY <1>1, <1>3, <1>7
<1> QED
  BY <1>5, <1>6, <1>10, <1>11 DEF j

\* Push keeps the index and adds exactly id.
LEMMA WithWellFormed ==
  ASSUME NEW i \in IdsStruct, NEW id \in Ids, WellFormed(i),
         i.positions[id] = 0
  PROVE  /\ With(i, id) \in IdsStruct
         /\ WellFormed(With(i, id))
         /\ Len(With(i, id).values) = Len(i.values) + 1
         /\ \A k \in Ids : With(i, id).positions[k] # 0
                             <=> (k = id \/ i.positions[k] # 0)
<1> DEFINE n == Len(i.values)
           j == With(i, id)
<1>1. /\ i.values \in Seq(Ids)
      /\ i.positions \in [Ids -> Nat]
      /\ n \in Nat
  BY DEF IdsStruct
<1>2. /\ j.values \in Seq(Ids)
      /\ Len(j.values) = n + 1
      /\ \A k \in 1..(n + 1) : j.values[k] = IF k = n + 1 THEN id ELSE i.values[k]
  BY <1>1 DEF With
<1>3. /\ j.positions \in [Ids -> Nat]
      /\ \A k \in Ids : j.positions[k] = IF k = id THEN n + 1 ELSE i.positions[k]
  BY <1>1 DEF With
<1>4. j \in IdsStruct
  BY <1>2, <1>3 DEF IdsStruct, With
<1> HIDE DEF j
<1>5. ASSUME NEW k \in Ids
      PROVE  /\ j.positions[k] \in 0..(n + 1)
             /\ j.positions[k] # 0 => j.values[j.positions[k]] = k
  <2>1. CASE k = id
    BY <1>1, <1>2, <1>3, <2>1
  <2>2. CASE k # id
    <3>1. /\ i.positions[k] \in 0..n
          /\ i.positions[k] # 0 => i.values[i.positions[k]] = k
      BY DEF WellFormed
    <3>2. j.positions[k] = i.positions[k]
      BY <1>3, <2>2
    <3> HIDE DEF n
    <3>3. \A m \in 1..n : m \in 1..(n + 1) /\ m # n + 1
      BY <1>1
    <3>4. \A m \in 1..n : j.values[m] = i.values[m]
      BY <1>2, <3>3
    <3> QED
      BY <1>1, <3>1, <3>2, <3>4
  <2> QED
    BY <2>1, <2>2
<1>6. ASSUME NEW k \in 1..(n + 1)
      PROVE  j.positions[j.values[k]] = k
  <2>1. CASE k = n + 1
    BY <1>2, <1>3, <2>1
  <2>2. CASE k \in 1..n
    <3>1. /\ i.positions[i.values[k]] = k
          /\ i.values[k] \in Ids
          /\ k # 0
      BY <1>1, <2>2 DEF WellFormed
    <3>2. j.values[k] = i.values[k]
      BY <1>1, <1>2, <2>2
    <3>3. i.values[k] # id
      BY <3>1
    <3> QED
      BY <1>3, <3>1, <3>2, <3>3
  <2> QED
    BY <1>1, <2>1, <2>2
<1>7. WellFormed(j)
  BY <1>2, <1>5, <1>6 DEF WellFormed
<1>8. \A k \in Ids : j.positions[k] # 0 <=> (k = id \/ i.positions[k] # 0)
  BY <1>1, <1>3
<1> QED
  BY <1>2, <1>4, <1>7, <1>8 DEF j
-----------------------------------------------------------------------------
(* moveId *)

Safe == Typed /\ IndexInv /\ ApprovalsAreForOwnedIds

\* A mint, moveId from address(0), of an unowned id.
LEMMA MintSafe ==
  ASSUME Safe, NEW to \in Accounts, NEW id \in Ids, ownerOf[id] = NoOne,
         MoveId(NoOne, to, id), lastId' \in 0..MaxId
  PROVE  Safe'
<1> USE RegistryAssumption DEF Safe, Typed, Holders
<1>1. /\ ownerIds' = [ownerIds EXCEPT ![to] = With(@, id)]
      /\ balanceOf' = [balanceOf EXCEPT ![to] = @ + 1]
      /\ getApproved' = [getApproved EXCEPT ![id] = NoOne]
      /\ ownerOf' = [ownerOf EXCEPT ![id] = to]
      /\ operators' = operators
  BY DEF MoveId, Incremented, ApprovalsWithout
<1>2. /\ ownerIds[to] \in IdsStruct
      /\ WellFormed(ownerIds[to])
      /\ ownerIds[to].positions[id] = 0
      /\ ownerIds[to].values \in Seq(Ids)
  BY DEF IndexInv, IdsStruct
<1>3. /\ With(ownerIds[to], id) \in IdsStruct
      /\ WellFormed(With(ownerIds[to], id))
      /\ Len(With(ownerIds[to], id).values) = Len(ownerIds[to].values) + 1
      /\ \A k \in Ids : With(ownerIds[to], id).positions[k] # 0
                          <=> (k = id \/ ownerIds[to].positions[k] # 0)
  BY <1>2, WithWellFormed
<1>4. Typed'
  BY <1>1, <1>3
<1>5. IndexInv'
  <2>1. \A a \in Accounts : WellFormed(ownerIds'[a])
    BY <1>1, <1>3 DEF IndexInv
  <2>2. \A a \in Accounts, k \in Ids :
          ownerIds'[a].positions[k] # 0 <=> ownerOf'[k] = a
    BY <1>1, <1>3 DEF IndexInv
  <2>3. \A a \in Accounts : balanceOf'[a] = Len(ownerIds'[a].values)
    BY <1>1, <1>3 DEF IndexInv
  <2> QED
    BY <2>1, <2>2, <2>3 DEF IndexInv
<1>6. ApprovalsAreForOwnedIds'
  BY <1>1 DEF ApprovalsAreForOwnedIds
<1> QED
  BY <1>4, <1>5, <1>6

\* What the first half of moveId leaves behind: id is out of from's index, and
\* from's balance is one less without wrapping.
LEMMA TakenFrom ==
  ASSUME Safe, NEW from \in Accounts, NEW id \in Ids, ownerOf[id] = from
  PROVE  /\ Without(ownerIds[from], id) \in IdsStruct
         /\ WellFormed(Without(ownerIds[from], id))
         /\ Len(Without(ownerIds[from], id).values) = Len(ownerIds[from].values) - 1
         /\ \A k \in Ids : Without(ownerIds[from], id).positions[k] # 0
                             <=> (k # id /\ ownerIds[from].positions[k] # 0)
         /\ balanceOf[from] \in Nat /\ balanceOf[from] # 0
         /\ Decremented(balanceOf[from]) = balanceOf[from] - 1
<1> USE DEF Safe, Typed
<1>1. /\ ownerIds[from] \in IdsStruct
      /\ WellFormed(ownerIds[from])
      /\ ownerIds[from].positions[id] # 0
  BY DEF IndexInv
<1>2. Len(ownerIds[from].values) # 0 /\ balanceOf[from] = Len(ownerIds[from].values)
  BY <1>1 DEF IndexInv, WellFormed, IdsStruct
<1> QED
  BY <1>1, <1>2, WithoutWellFormed DEF Decremented

\* A burn, moveId to address(0).
LEMMA BurnSafe ==
  ASSUME Safe, NEW from \in Accounts, NEW id \in Ids, ownerOf[id] = from,
         MoveId(from, NoOne, id), UNCHANGED lastId
  PROVE  Safe'
<1> USE RegistryAssumption DEF Safe, Typed, Holders
<1> DEFINE j == Without(ownerIds[from], id)
<1>1. /\ ownerIds' = [ownerIds EXCEPT ![from] = j]
      /\ balanceOf' = [balanceOf EXCEPT ![from] = Decremented(@)]
      /\ getApproved' = [getApproved EXCEPT ![id] = NoOne]
      /\ ownerOf' = [ownerOf EXCEPT ![id] = NoOne]
      /\ operators' = operators
  BY DEF MoveId, Incremented, ApprovalsWithout
<1>2. /\ j \in IdsStruct
      /\ WellFormed(j)
      /\ Len(j.values) = Len(ownerIds[from].values) - 1
      /\ \A k \in Ids : j.positions[k] # 0
                          <=> (k # id /\ ownerIds[from].positions[k] # 0)
      /\ balanceOf[from] \in Nat /\ balanceOf[from] # 0
      /\ Decremented(balanceOf[from]) = balanceOf[from] - 1
  BY TakenFrom
<1> HIDE DEF j
<1>3. Typed'
  BY <1>1, <1>2
<1>4. IndexInv'
  <2>1. \A a \in Accounts : WellFormed(ownerIds'[a])
    BY <1>1, <1>2 DEF IndexInv
  <2>2. \A a \in Accounts, k \in Ids :
          ownerIds'[a].positions[k] # 0 <=> ownerOf'[k] = a
    BY <1>1, <1>2 DEF IndexInv
  <2>3. \A a \in Accounts : balanceOf'[a] = Len(ownerIds'[a].values)
    BY <1>1, <1>2 DEF IndexInv
  <2> QED
    BY <2>1, <2>2, <2>3 DEF IndexInv
<1>5. ApprovalsAreForOwnedIds'
  BY <1>1 DEF ApprovalsAreForOwnedIds
<1> QED
  BY <1>3, <1>4, <1>5

\* A transfer; from and to may be the same account.
LEMMA TransferSafe ==
  ASSUME Safe, NEW from \in Accounts, NEW to \in Accounts, NEW id \in Ids,
         ownerOf[id] = from, MoveId(from, to, id), UNCHANGED lastId
  PROVE  Safe'
<1> USE RegistryAssumption DEF Safe, Typed, Holders
<1> DEFINE j == Without(ownerIds[from], id)
           taken == [ownerIds EXCEPT ![from] = j]
           debited == [balanceOf EXCEPT ![from] = Decremented(@)]
<1>1. /\ ownerIds' = [taken EXCEPT ![to] = With(@, id)]
      /\ balanceOf' = [debited EXCEPT ![to] = @ + 1]
      /\ getApproved' = [getApproved EXCEPT ![id] = NoOne]
      /\ ownerOf' = [ownerOf EXCEPT ![id] = to]
      /\ operators' = operators
  BY DEF MoveId, Incremented, ApprovalsWithout
<1>2. /\ j \in IdsStruct
      /\ WellFormed(j)
      /\ Len(j.values) = Len(ownerIds[from].values) - 1
      /\ \A k \in Ids : j.positions[k] # 0
                          <=> (k # id /\ ownerIds[from].positions[k] # 0)
      /\ balanceOf[from] \in Nat /\ balanceOf[from] # 0
      /\ Decremented(balanceOf[from]) = balanceOf[from] - 1
  BY TakenFrom
<1> HIDE DEF j
<1>3. /\ taken \in [Accounts -> IdsStruct]
      /\ \A a \in Accounts : WellFormed(taken[a])
      /\ \A a \in Accounts, k \in Ids :
            taken[a].positions[k] # 0 <=> (k # id /\ ownerOf[k] = a)
      /\ debited \in [Accounts -> Nat]
      /\ \A a \in Accounts : debited[a] = Len(taken[a].values)
  BY <1>2 DEF IndexInv
<1> HIDE DEF taken, debited
<1> DEFINE i == With(taken[to], id)
<1>4. /\ i \in IdsStruct
      /\ WellFormed(i)
      /\ Len(i.values) = Len(taken[to].values) + 1
      /\ \A k \in Ids : i.positions[k] # 0 <=> (k = id \/ taken[to].positions[k] # 0)
  <2>1. /\ taken[to] \in IdsStruct
        /\ WellFormed(taken[to])
        /\ taken[to].positions[id] = 0
    BY <1>3
  <2> QED
    BY <2>1, WithWellFormed
<1> HIDE DEF i
<1>5. ownerIds' = [taken EXCEPT ![to] = i]
  BY <1>1 DEF i
<1>6. Typed'
  BY <1>1, <1>3, <1>4, <1>5
<1>7. IndexInv'
  <2>1. \A a \in Accounts : WellFormed(ownerIds'[a])
    BY <1>3, <1>4, <1>5
  <2>2. \A a \in Accounts, k \in Ids :
          ownerIds'[a].positions[k] # 0 <=> ownerOf'[k] = a
    BY <1>1, <1>3, <1>4, <1>5
  <2>3. \A a \in Accounts : balanceOf'[a] = Len(ownerIds'[a].values)
    BY <1>1, <1>3, <1>4, <1>5
  <2> QED
    BY <2>1, <2>2, <2>3 DEF IndexInv
<1>8. ApprovalsAreForOwnedIds'
  BY <1>1 DEF ApprovalsAreForOwnedIds
<1> QED
  BY <1>6, <1>7, <1>8
-----------------------------------------------------------------------------
(* The calls *)

\* The freshly deployed manager is safe: nobody owns anything.
LEMMA InitSafe == Init => Safe
<1> SUFFICES ASSUME Init PROVE Safe
  OBVIOUS
<1> USE RegistryAssumption DEF Init, NoIds, Ids, Holders
<1>1. NoIds \in IdsStruct /\ Len(NoIds.values) = 0
  BY DEF IdsStruct
<1>2. Typed
  BY <1>1 DEF Typed
<1>3. WellFormed(NoIds)
  BY DEF WellFormed
<1>4. IndexInv
  BY <1>1, <1>3 DEF IndexInv
<1> QED
  BY <1>2, <1>4 DEF Safe, ApprovalsAreForOwnedIds

\* Every call of the manager, one case each, keeps types, index and approvals.
LEMMA NextSafe == Safe /\ [Next]_vars => Safe'
<1> SUFFICES ASSUME Safe, [Next]_vars PROVE Safe'
  OBVIOUS
<1> USE RegistryAssumption
<1>1. ASSUME NEW to \in Accounts, Open(to)
      PROVE  Safe'
  <2>1. /\ lastId + 1 \in Ids
        /\ ownerOf[lastId + 1] = NoOne
        /\ MoveId(NoOne, to, lastId + 1)
        /\ lastId' \in 0..MaxId
    BY <1>1 DEF Open, NextId, Ids
  <2> QED
    BY <2>1, MintSafe
<1>2. CASE OpenDirect
  BY <1>2 DEF OpenDirect, registry, Safe, Typed, IndexInv, ApprovalsAreForOwnedIds
<1>3. ASSUME NEW caller \in Accounts, NEW from \in Accounts, NEW to \in Accounts,
             NEW id \in Ids, TransferFrom(caller, from, to, id)
      PROVE  Safe'
  BY <1>3, TransferSafe DEF TransferFrom
<1>4. ASSUME NEW caller \in Accounts, NEW id \in Ids, Burn(caller, id)
      PROVE  Safe'
  <2>1. ownerOf[id] \in Accounts
    BY <1>4 DEF Burn, Safe, Typed, Holders
  <2> QED
    BY <1>4, <2>1, BurnSafe DEF Burn
<1>5. ASSUME NEW caller \in Accounts, NEW spender \in Holders, NEW id \in Ids,
             Approve(caller, spender, id)
      PROVE  Safe'
  <2>1. ownerOf[id] # NoOne
    BY <1>5 DEF Approve, OwnerOrOperator
  <2> QED
    BY <1>5, <2>1 DEF Approve, Safe, Typed, IndexInv, ApprovalsAreForOwnedIds
<1>6. ASSUME NEW caller \in Accounts, NEW operator \in Accounts,
             NEW approved \in BOOLEAN,
             SetApprovalForAll(caller, operator, approved)
      PROVE  Safe'
  BY <1>6 DEF SetApprovalForAll, Safe, Typed, IndexInv, ApprovalsAreForOwnedIds
<1>7. CASE UNCHANGED vars
  BY <1>7 DEF vars, Safe, Typed, IndexInv, ApprovalsAreForOwnedIds
<1> QED
  BY <1>1, <1>2, <1>3, <1>4, <1>5, <1>6, <1>7 DEF Next

\* Types, index and approvals hold together after any sequence of calls.
THEOREM SpecSafe == Spec => []Safe
  BY InitSafe, NextSafe, PTL DEF Spec

-----------------------------------------------------------------------------
(* What a reader of the registry may rely on *)

\* An owner's array holds distinct ids, so it is never longer than MaxId: no
\* balance wraps and no place exceeds MaxId.
LEMMA SafeTypeOK == Safe => TypeOK
<1> SUFFICES ASSUME Safe PROVE TypeOK
  OBVIOUS
<1> USE RegistryAssumption DEF Safe, Typed
<1>1. ASSUME NEW a \in Accounts
      PROVE  Len(ownerIds[a].values) \in 0..MaxId
  <2> DEFINE n == Len(ownerIds[a].values)
             v == ownerIds[a].values
  <2>1. v \in [1..n -> Ids] /\ n \in Nat
    BY DEF IdsStruct
  <2>2. \A j, k \in 1..n : v[j] = v[k] => j = k
    BY DEF IndexInv, WellFormed
  <2> HIDE DEF n, v
  <2>3. /\ IsFiniteSet(1..n) /\ Cardinality(1..n) = n
        /\ IsFiniteSet(Ids) /\ Cardinality(Ids) = MaxId
    <3>1. 1 \in Int /\ n \in Int /\ MaxId \in Int
      BY <2>1
    <3>2. /\ IsFiniteSet(1..n)
          /\ Cardinality(1..n) = IF 1 > n THEN 0 ELSE n - 1 + 1
      BY ONLY <3>1, FS_Interval
    <3>3. /\ IsFiniteSet(1..MaxId)
          /\ Cardinality(1..MaxId) = IF 1 > MaxId THEN 0 ELSE MaxId - 1 + 1
      BY ONLY <3>1, FS_Interval
    <3> QED
      BY <2>1, <3>2, <3>3 DEF Ids
  <2>4. ~(MaxId < n)
    <3> SUFFICES ASSUME MaxId < n PROVE FALSE
      OBVIOUS
    <3>1. \E j, k \in 1..n : j # k /\ v[j] = v[k]
      BY <2>1, <2>3, FS_PigeonHole
    <3> QED
      BY <2>2, <3>1
  <2> QED
    BY <2>1, <2>4 DEF n
<1>2. balanceOf \in [Accounts -> 0..MaxId]
  BY <1>1 DEF IndexInv
<1>3. ASSUME NEW a \in Accounts
      PROVE  ownerIds[a] \in [values: Seq(Ids), positions: [Ids -> 0..MaxId]]
  <2>1. \A id \in Ids : ownerIds[a].positions[id] \in 0..MaxId
    BY <1>1 DEF IndexInv, WellFormed, IdsStruct
  <2> QED
    BY <2>1 DEF IdsStruct
<1> QED
  BY <1>2, <1>3 DEF TypeOK

\* What the index lists is what the owner table says, and balances count it.
LEMMA SafeEnumeration == Safe => EnumerationMatchesOwnership
<1> SUFFICES ASSUME Safe, NEW a \in Accounts
             PROVE  LET listed == TokensOfOwner(a, 0, balanceOf[a])
                    IN /\ {listed[k] : k \in 1..balanceOf[a]}
                             = {id \in Ids : ownerOf[id] = a}
                       /\ \A j, k \in 1..balanceOf[a] :
                             listed[j] = listed[k] => j = k
  BY DEF EnumerationMatchesOwnership
<1> USE DEF Safe, Typed
<1> DEFINE n == balanceOf[a]
           v == ownerIds[a].values
           place == ownerIds[a].positions
           listed == TokensOfOwner(a, 0, n)
<1>1. /\ n \in Nat /\ n = Len(v)
      /\ v \in [1..n -> Ids]
      /\ \A id \in Ids : place[id] \in 0..n
      /\ \A id \in Ids : place[id] # 0 => v[place[id]] = id
      /\ \A k \in 1..n : place[v[k]] = k
      /\ \A id \in Ids : place[id] # 0 <=> ownerOf[id] = a
  BY DEF IndexInv, WellFormed, IdsStruct
<1>2. \A k \in 1..n : listed[k] = v[k]
  BY <1>1 DEF TokensOfOwner
<1> HIDE DEF n, v, place, listed
<1>3. ASSUME NEW k \in 1..n
      PROVE  listed[k] \in Ids /\ ownerOf[listed[k]] = a
  <2>1. listed[k] = v[k] /\ v[k] \in Ids
    BY <1>1, <1>2
  <2>2. place[v[k]] # 0
    BY <1>1
  <2> QED
    BY <1>1, <2>1, <2>2
<1>4. ASSUME NEW id \in Ids, ownerOf[id] = a
      PROVE  \E k \in 1..n : listed[k] = id
  <2>1. place[id] \in 1..n /\ v[place[id]] = id
    BY <1>1, <1>4
  <2> QED
    BY <1>2, <2>1
<1>5. {listed[k] : k \in 1..n} = {id \in Ids : ownerOf[id] = a}
  BY <1>3, <1>4
<1>6. \A j, k \in 1..n : listed[j] = listed[k] => j = k
  BY <1>1, <1>2
<1> QED
  BY <1>5, <1>6 DEF n, listed

\* No storage slot leaves its range and no balance wraps around, for any number
\* of accounts and ids.
THEOREM TypeCorrect == Spec => []TypeOK
  BY SpecSafe, SafeTypeOK, PTL

\* Array, map and owner table always agree (moveId).
THEOREM IndexCorrect == Spec => []IndexInv
<1>1. Safe => IndexInv
  BY DEF Safe
<1> QED
  BY <1>1, SpecSafe, PTL

\* tokensOfOwner over the whole balance lists an owner's ids, each once.
THEOREM EnumerationCorrect == Spec => []EnumerationMatchesOwnership
  BY SpecSafe, SafeEnumeration, PTL

\* An id without an owner carries no approval.
THEOREM ApprovalsCorrect == Spec => []ApprovalsAreForOwnedIds
<1>1. Safe => ApprovalsAreForOwnedIds
  BY DEF Safe
<1> QED
  BY <1>1, SpecSafe, PTL

\* A burned id stays burned: only open mints, and only the next id.
THEOREM BurnedForGood == Spec => BurnIsFinal
<1>1. Safe /\ [Next]_vars
        => [\A id \in 1..lastId : ownerOf[id] = NoOne => ownerOf'[id] = NoOne]_vars
  <2> SUFFICES ASSUME Safe, [Next]_vars, NEW id \in 1..lastId, ownerOf[id] = NoOne
               PROVE  ownerOf'[id] = NoOne
    BY DEF vars
  <2> USE RegistryAssumption DEF Safe, Typed
  <2>1. id \in Ids
    BY DEF Ids
  <2>2. ASSUME NEW to \in Accounts, Open(to)
        PROVE  ownerOf'[id] = NoOne
    BY <2>1, <2>2 DEF Open, NextId, MoveId
  <2>3. CASE OpenDirect
    BY <2>3 DEF OpenDirect, registry
  <2>4. ASSUME NEW caller \in Accounts, NEW from \in Accounts, NEW to \in Accounts,
               NEW k \in Ids, TransferFrom(caller, from, to, k)
        PROVE  ownerOf'[id] = NoOne
    BY <2>1, <2>4 DEF TransferFrom, MoveId
  <2>5. ASSUME NEW caller \in Accounts, NEW k \in Ids, Burn(caller, k)
        PROVE  ownerOf'[id] = NoOne
    BY <2>1, <2>5 DEF Burn, MoveId
  <2>6. ASSUME NEW caller \in Accounts, NEW spender \in Holders, NEW k \in Ids,
               Approve(caller, spender, k)
        PROVE  ownerOf'[id] = NoOne
    BY <2>6 DEF Approve
  <2>7. ASSUME NEW caller \in Accounts, NEW operator \in Accounts,
               NEW approved \in BOOLEAN,
               SetApprovalForAll(caller, operator, approved)
        PROVE  ownerOf'[id] = NoOne
    BY <2>7 DEF SetApprovalForAll
  <2>8. CASE UNCHANGED vars
    BY <2>8 DEF vars
  <2> QED
    BY <2>2, <2>3, <2>4, <2>5, <2>6, <2>7, <2>8 DEF Next
<1> QED
  BY <1>1, SpecSafe, PTL DEF Spec, BurnIsFinal

\* No approval survives a change of owner: every such change is a moveId.
THEOREM ApprovalsEndWithOwnership == Spec => ApprovalsDieWithOwnership
<1>1. Safe /\ [Next]_vars
        => [\A id \in Ids : ownerOf'[id] # ownerOf[id] => getApproved'[id] = NoOne]_vars
  <2> SUFFICES ASSUME Safe, [Next]_vars, NEW id \in Ids, ownerOf'[id] # ownerOf[id]
               PROVE  getApproved'[id] = NoOne
    BY DEF vars
  <2> USE DEF Safe, Typed
  <2>1. ASSUME NEW from, NEW to, NEW k \in Ids, MoveId(from, to, k)
        PROVE  getApproved'[id] = NoOne
    BY <2>1 DEF MoveId, ApprovalsWithout
  <2>2. ASSUME NEW to \in Accounts, Open(to)
        PROVE  getApproved'[id] = NoOne
    BY <2>1, <2>2 DEF Open
  <2>3. ASSUME NEW caller \in Accounts, NEW from \in Accounts, NEW to \in Accounts,
               NEW k \in Ids, TransferFrom(caller, from, to, k)
        PROVE  getApproved'[id] = NoOne
    BY <2>1, <2>3 DEF TransferFrom
  <2>4. ASSUME NEW caller \in Accounts, NEW k \in Ids, Burn(caller, k)
        PROVE  getApproved'[id] = NoOne
    BY <2>1, <2>4 DEF Burn
  <2>5. CASE \/ OpenDirect
             \/ \E caller \in Accounts, spender \in Holders, k \in Ids :
                   Approve(caller, spender, k)
             \/ \E caller, operator \in Accounts, approved \in BOOLEAN :
                   SetApprovalForAll(caller, operator, approved)
             \/ UNCHANGED vars
    BY <2>5 DEF OpenDirect, Approve, SetApprovalForAll, registry, vars
  <2> QED
    BY <2>2, <2>3, <2>4, <2>5 DEF Next
<1> QED
  BY <1>1, SpecSafe, PTL DEF Spec, ApprovalsDieWithOwnership

-----------------------------------------------------------------------------
(* The registry implements the ledger *)

\* The array of an account holds the ids the owner table gives it.
LEMMA ListingIsOwnership ==
  Safe => Listing = [a \in Accounts |-> {id \in Ids : ownerOf[id] = a}]
<1> SUFFICES ASSUME Safe, NEW a \in Accounts
             PROVE  {ownerIds[a].values[k] : k \in 1..Len(ownerIds[a].values)}
                      = {id \in Ids : ownerOf[id] = a}
  BY DEF Listing
<1> USE DEF Safe, Typed
<1> DEFINE v == ownerIds[a].values
           place == ownerIds[a].positions
           n == Len(v)
<1>1. /\ n \in Nat
      /\ v \in [1..n -> Ids]
      /\ \A id \in Ids : place[id] \in 0..n
      /\ \A id \in Ids : place[id] # 0 => v[place[id]] = id
      /\ \A k \in 1..n : place[v[k]] = k
      /\ \A id \in Ids : place[id] # 0 <=> ownerOf[id] = a
  BY DEF IndexInv, WellFormed, IdsStruct
<1> HIDE DEF n, v, place
<1>2. ASSUME NEW k \in 1..n
      PROVE  v[k] \in Ids /\ ownerOf[v[k]] = a
  <2>1. v[k] \in Ids
    BY <1>1
  <2>2. place[v[k]] = k /\ k # 0
    BY <1>1
  <2> QED
    BY <1>1, <2>1, <2>2
<1>3. ASSUME NEW id \in Ids, ownerOf[id] = a
      PROVE  \E k \in 1..n : v[k] = id
  BY <1>1, <1>3
<1>4. {v[k] : k \in 1..n} = {id \in Ids : ownerOf[id] = a}
  BY <1>2, <1>3
<1> QED
  BY <1>4 DEF n, v

\* Nobody holds anything in the ledger either.
LEMMA InitLedger == Init => Ledger!Init
  BY RegistryAssumption DEF Init, Ledger!Init, Listing, NoIds

\* Every call moves at most one id in the ledger, as the ledger allows, or none.
LEMMA StepLedger ==
  Safe /\ Safe' /\ [Next]_vars => [Ledger!Next]_<<Listing, 1..lastId>>
<1> SUFFICES ASSUME Safe, Safe', [Next]_vars
             PROVE  [Ledger!Next]_<<Listing, 1..lastId>>
  OBVIOUS
<1> USE RegistryAssumption
<1>1. /\ Listing = [a \in Accounts |-> {id \in Ids : ownerOf[id] = a}]
      /\ Listing' = [a \in Accounts |-> {id \in Ids : ownerOf'[id] = a}]
      /\ ownerOf \in [Ids -> Holders]
      /\ lastId \in 0..MaxId
      /\ NoOne \notin Accounts
  <2>1. Listing = [a \in Accounts |-> {id \in Ids : ownerOf[id] = a}]
    BY ListingIsOwnership
  <2>2. Listing' = [a \in Accounts |-> {id \in Ids : ownerOf'[id] = a}]
    <3>1. (Listing = [a \in Accounts |-> {id \in Ids : ownerOf[id] = a}])'
      BY ListingIsOwnership, PTL
    <3> QED
      BY <3>1
  <2> QED
    BY <2>1, <2>2 DEF Safe, Typed
<1>2. ASSUME NEW to \in Accounts, Open(to)
      PROVE  Ledger!Next
  <2> DEFINE id == lastId + 1
  <2>1. /\ id \in 1..MaxId /\ ownerOf[id] = NoOne
        /\ lastId' = id
        /\ ownerOf' = [ownerOf EXCEPT ![id] = to]
    BY <1>2 DEF Open, NextId, MoveId, Ids
  <2>2. Listing' = [Listing EXCEPT ![to] = @ \cup {id}]
    BY <1>1, <2>1 DEF Ids
  <2>3. id \notin 1..lastId /\ 1..lastId' = 1..lastId \cup {id}
    BY <1>1, <2>1
  <2>4. Ledger!Issue(id)
    BY <2>2, <2>3 DEF Ledger!Issue
  <2> QED
    BY <2>1, <2>4 DEF Ledger!Next
<1>3. CASE OpenDirect
  <2> DEFINE id == lastId + 1
  <2>1. id \in 1..MaxId /\ id \notin 1..lastId /\ 1..lastId' = 1..lastId \cup {id}
    BY <1>1, <1>3 DEF OpenDirect
  <2>2. UNCHANGED Listing
    BY <1>1, <1>3 DEF OpenDirect, registry
  <2>3. Ledger!Issue(id)
    BY <2>1, <2>2 DEF Ledger!Issue
  <2> QED
    BY <2>1, <2>3 DEF Ledger!Next
<1>4. ASSUME NEW caller \in Accounts, NEW from \in Accounts, NEW to \in Accounts,
             NEW id \in Ids, TransferFrom(caller, from, to, id)
      PROVE  Ledger!Next
  <2>1. /\ ownerOf[id] = from
        /\ ownerOf' = [ownerOf EXCEPT ![id] = to]
        /\ lastId' = lastId
    BY <1>4 DEF TransferFrom, MoveId
  <2>2. id \in Listing[from]
    BY <1>1, <2>1
  <2> DEFINE moved == [[Listing EXCEPT ![from] = @ \ {id}] EXCEPT ![to] = @ \cup {id}]
  <2>3. Listing' = moved
    <3>1. ASSUME NEW a \in Accounts
          PROVE  Listing'[a] = moved[a]
      <4>1. CASE a = to
        BY <1>1, <2>1, <4>1
      <4>2. CASE a # to
        BY <1>1, <2>1, <4>2
      <4> QED
        BY <4>1, <4>2
    <3>2. /\ Listing' = [a \in Accounts |-> Listing'[a]]
          /\ moved = [a \in Accounts |-> moved[a]]
      BY <1>1
    <3> HIDE DEF moved
    <3> QED
      BY <3>1, <3>2
  <2>4. Ledger!Move(from, to, id)
    BY <2>1, <2>2, <2>3 DEF Ledger!Move
  <2> QED
    BY <2>4 DEF Ledger!Next, Ids
<1>5. ASSUME NEW caller \in Accounts, NEW id \in Ids, Burn(caller, id)
      PROVE  Ledger!Next
  <2> DEFINE from == ownerOf[id]
  <2>1. /\ from \in Accounts
        /\ ownerOf' = [ownerOf EXCEPT ![id] = NoOne]
        /\ lastId' = lastId
    BY <1>1, <1>5 DEF Burn, MoveId, Holders
  <2>2. id \in Listing[from]
    BY <1>1, <2>1
  <2>3. Listing' = [Listing EXCEPT ![from] = @ \ {id}]
    BY <1>1, <2>1
  <2>4. Ledger!Retire(from, id)
    BY <2>1, <2>2, <2>3 DEF Ledger!Retire
  <2> QED
    BY <2>1, <2>4 DEF Ledger!Next, Ids
<1>6. ASSUME NEW caller \in Accounts, NEW spender \in Holders, NEW id \in Ids,
             Approve(caller, spender, id)
      PROVE  UNCHANGED <<Listing, 1..lastId>>
  BY <1>1, <1>6 DEF Approve
<1>7. ASSUME NEW caller \in Accounts, NEW operator \in Accounts,
             NEW approved \in BOOLEAN,
             SetApprovalForAll(caller, operator, approved)
      PROVE  UNCHANGED <<Listing, 1..lastId>>
  BY <1>1, <1>7 DEF SetApprovalForAll
<1>8. CASE UNCHANGED vars
  BY <1>1, <1>8 DEF vars
<1> QED
  BY <1>2, <1>3, <1>4, <1>5, <1>6, <1>7, <1>8 DEF Next

\* Every behaviour of the registry is one of the ledger.
THEOREM RegistryImplementsLedger == Spec => ImplementsLedger
  BY InitLedger, StepLedger, SpecSafe, PTL DEF Spec, ImplementsLedger, Ledger!Spec

-----------------------------------------------------------------------------
(* The manager: NFTs and positions *)

\* The fields of a position, and the parts of a call's books.
Fields == {"owner", "token", "collateral", "borrow", "shares"}

IsBooks(b) == DOMAIN b = {"p", "bank", "debt", "vault", "cash"} /\ DOMAIN b.p = Fields

\* The books d are of b's position, as far as its owner goes.
SameOwner(b, d) == IsBooks(d) /\ d.p.owner = b.p.owner

\* The inductive invariant: ids not handed out have neither owner, an approval is
\* for an owned NFT, and a position with an NFT is the manager's.
MInv ==
  /\ lastId \in 0..MaxId
  /\ ownerOf \in [Ids -> Holders]
  /\ getApproved \in [Ids -> Holders]
  /\ DOMAIN pos = Ids
  /\ \A id \in Ids :
       /\ DOMAIN pos[id] = Fields
       /\ id > lastId => ownerOf[id] = NoOne /\ pos[id].owner = NoOne
       /\ getApproved[id] # NoOne => ownerOf[id] # NoOne
       /\ ownerOf[id] # NoOne => pos[id].owner = Manager

\* What is used of the assumptions of both modules.
LEMMA Assumed ==
  /\ NoOne \notin Accounts /\ Manager \notin Accounts /\ Manager # NoOne
  /\ MaxId \in Nat
BY RegistryAssumption, ManagerAssumption DEF Positions!InvestorAssumption

-----------------------------------------------------------------------------
(* Owners of positions *)

\* A call starts with the position it is about.
LEMMA BooksOf ==
  ASSUME NEW p, DOMAIN p = Fields
  PROVE  IsBooks(Positions!Books(p)) /\ Positions!Books(p).p = p
BY DEF IsBooks, Positions!Books

\* pullToBank keeps the owner.
LEMMA DepositedOwner ==
  ASSUME NEW b, IsBooks(b), NEW amount
  PROVE  SameOwner(b, Positions!Deposited(b, amount))
BY DEF IsBooks, Fields, SameOwner, Positions!Deposited

\* So does taking collateral out,
LEMMA TakenOutOwner ==
  ASSUME NEW b, IsBooks(b), NEW amount
  PROVE  SameOwner(b, Positions!TakenOut(b, amount))
BY DEF IsBooks, Fields, SameOwner, Positions!TakenOut

\* borrowing,
LEMMA BorrowMoreOwner ==
  ASSUME NEW b, IsBooks(b), NEW amount, NEW d \in Positions!BorrowMore(b, amount)
  PROVE  SameOwner(b, d)
<1> DEFINE more == Positions!BorrowShares(amount)
<1> PICK out : d = [b EXCEPT !.p.borrow = @ + more,
                             !.p.shares = @ + Positions!Minted(b.vault, out),
                             !.debt = @ + more,
                             !.vault = Positions!AfterMint(@, out)]
  BY DEF Positions!BorrowMore
<1> HIDE DEF more
<1> QED
  BY DEF IsBooks, Fields, SameOwner

\* repaying,
LEMMA RepaidOwner ==
  ASSUME NEW b, IsBooks(b), NEW repaying, NEW allowance,
         NEW d \in Positions!Repaid(b, repaying, allowance)
  PROVE  SameOwner(b, d)
BY DEF IsBooks, Fields, SameOwner, Positions!Repaid

\* selling shares, in either branch,
LEMMA SellSharesOwner ==
  ASSUME NEW b, IsBooks(b), NEW shares, NEW d \in Positions!SellShares(b, shares)
  PROVE  SameOwner(b, d)
<1> DEFINE left == [b EXCEPT !.p.shares = @ - shares,
                             !.vault = Positions!AfterBurn(@, shares)]
<1>1. SameOwner(b, left)
  BY DEF IsBooks, Fields, SameOwner
<1>2. \/ \E repaying, allowance : d \in Positions!Repaid(left, repaying, allowance)
      \/ \E sold, repaying, allowance :
           d \in Positions!Repaid(Positions!TakenOut(left, sold), repaying, allowance)
  BY DEF Positions!SellShares
<1> HIDE DEF left
<1>3. IsBooks(left)
  BY <1>1 DEF SameOwner
<1>4. CASE \E repaying, allowance : d \in Positions!Repaid(left, repaying, allowance)
  <2>1. SameOwner(left, d)
    BY <1>3, <1>4, RepaidOwner
  <2> QED
    BY <1>1, <2>1 DEF SameOwner
<1>5. CASE \E sold, repaying, allowance :
             d \in Positions!Repaid(Positions!TakenOut(left, sold), repaying, allowance)
  <2> PICK sold, repaying, allowance :
        d \in Positions!Repaid(Positions!TakenOut(left, sold), repaying, allowance)
    BY <1>5
  <2>1. SameOwner(left, Positions!TakenOut(left, sold))
    BY <1>3, TakenOutOwner
  <2>2. SameOwner(Positions!TakenOut(left, sold), d)
    BY <2>1, RepaidOwner DEF SameOwner
  <2> QED
    BY <1>1, <2>1, <2>2 DEF SameOwner
<1> QED
  BY <1>2, <1>4, <1>5

\* edit as a whole,
LEMMA EditOwner ==
  ASSUME NEW id, DOMAIN pos[id] = Fields, NEW e, NEW d \in Positions!EditBooks(id, e)
  PROVE  DOMAIN d.p = Fields /\ d.p.owner = pos[id].owner
<1> DEFINE start == Positions!Deposited(Positions!Books(pos[id]), e.add)
           traded == IF e.sell > 0 THEN Positions!SellShares(start, e.sell)
                     ELSE IF e.borrow > 0 THEN Positions!BorrowMore(start, e.borrow)
                     ELSE {start}
<1>1. IsBooks(start) /\ start.p.owner = pos[id].owner
  BY BooksOf, DepositedOwner DEF SameOwner
<1>2. \/ d \in traded
      \/ \E b \in traded : \E amount : d = Positions!TakenOut(b, amount)
  BY DEF Positions!EditBooks
<1> HIDE DEF start
<1>3. ASSUME NEW b \in traded
      PROVE  IsBooks(b) /\ b.p.owner = pos[id].owner
  <2>1. \/ b \in Positions!SellShares(start, e.sell)
        \/ b \in Positions!BorrowMore(start, e.borrow)
        \/ b = start
    OBVIOUS
  <2> QED
    BY <1>1, <2>1, SellSharesOwner, BorrowMoreOwner DEF SameOwner
<1> HIDE DEF traded
<1> QED
  BY <1>2, <1>3, TakenOutOwner DEF SameOwner, IsBooks

\* and what a liquidator takes.
LEMMA SeizedOwner ==
  ASSUME NEW id, DOMAIN pos[id] = Fields, NEW repaying, NEW repaid,
         NEW d \in Positions!Seized(id, repaying, repaid)
  PROVE  DOMAIN d.p = Fields /\ d.p.owner = pos[id].owner
<1>1. \E amount, shares, cash2 :
        LET taken == Positions!TakenOut(Positions!Books(pos[id]), amount)
        IN d = [taken EXCEPT !.p.shares = @ - shares,
                             !.p.borrow = @ - repaying,
                             !.debt = @ - repaying,
                             !.vault = Positions!AfterBurn(@, shares),
                             !.cash = cash2]
  BY DEF Positions!Seized
<1> PICK amount, shares, cash2 :
        LET taken == Positions!TakenOut(Positions!Books(pos[id]), amount)
        IN d = [taken EXCEPT !.p.shares = @ - shares,
                             !.p.borrow = @ - repaying,
                             !.debt = @ - repaying,
                             !.vault = Positions!AfterBurn(@, shares),
                             !.cash = cash2]
  BY <1>1
<1> DEFINE taken == Positions!TakenOut(Positions!Books(pos[id]), amount)
<1>2. IsBooks(taken) /\ taken.p.owner = pos[id].owner
  BY BooksOf, TakenOutOwner DEF SameOwner
<1> HIDE DEF taken
<1> QED
  BY <1>2 DEF IsBooks, Fields, taken


-----------------------------------------------------------------------------
(* The calls *)

\* What a call of the Investor does to the owners when it opens no position.
OwnersKept ==
  /\ DOMAIN pos' = Ids
  /\ \A id \in Ids : DOMAIN pos'[id] = Fields /\ pos'[id].owner = pos[id].owner

\* setPosition of a position with the same owner changes no owner.
LEMMA CommitOwners ==
  ASSUME MInv, NEW id \in Ids, NEW b, Positions!Commit(id, b),
         DOMAIN b.p = Fields, b.p.owner = pos[id].owner
  PROVE  OwnersKept
BY DEF MInv, OwnersKept, Positions!Commit

\* edit changes one position of the caller and no owner.
LEMMA EditOwners ==
  ASSUME MInv, NEW caller, NEW id \in Ids, NEW e, Positions!Edit(caller, id, e)
  PROVE  /\ OwnersKept /\ lastId' = lastId /\ pos[id].owner = caller
         /\ \A k \in Ids \ {id} : pos'[k] = pos[k]
<1>1. PICK b \in Positions!EditBooks(id, e) : Positions!Commit(id, b)
  BY DEF Positions!Edit
<1>2. DOMAIN b.p = Fields /\ b.p.owner = pos[id].owner
  BY EditOwner DEF MInv
<1>3. OwnersKept
  BY <1>1, <1>2, CommitOwners
<1>4. \A k \in Ids \ {id} : pos'[k] = pos[k]
  BY <1>1 DEF MInv, Positions!Commit
<1>5. lastId' = lastId /\ pos[id].owner = caller
  BY DEF Positions!Edit, Positions!EditChecks
<1> QED
  BY <1>3, <1>4, <1>5

\* kill and partialKill change one position and no owner.
LEMMA LiquidateOwners ==
  ASSUME MInv, NEW id \in Ids, Positions!Liquidates(id)
  PROVE  /\ OwnersKept /\ lastId' = lastId
         /\ \A k \in Ids \ {id} : pos'[k] = pos[k]
<1>1. /\ lastId' = lastId
      /\ \E repaying, repaid : \E b \in Positions!Seized(id, repaying, repaid) :
           Positions!Commit(id, b)
  BY DEF Positions!Liquidates, Positions!Kill, Positions!PartialKill
<1> PICK repaying, repaid : \E b \in Positions!Seized(id, repaying, repaid) :
           Positions!Commit(id, b)
  BY <1>1
<1> PICK b \in Positions!Seized(id, repaying, repaid) : Positions!Commit(id, b)
  OBVIOUS
<1>2. DOMAIN b.p = Fields /\ b.p.owner = pos[id].owner
  BY SeizedOwner DEF MInv
<1>3. OwnersKept
  BY <1>2, CommitOwners
<1>4. \A k \in Ids \ {id} : pos'[k] = pos[k]
  BY DEF MInv, Positions!Commit
<1> QED
  BY <1>1, <1>3, <1>4

\* open writes one position, of the next id, for the caller.
LEMMA OpenOwners ==
  ASSUME MInv, NEW owner, NEW token, NEW collateral, NEW borrow,
         Positions!Open(owner, token, collateral, borrow)
  PROVE  /\ lastId + 1 \in Ids /\ lastId' = lastId + 1
         /\ DOMAIN pos' = Ids
         /\ \A k \in Ids \ {lastId + 1} : pos'[k] = pos[k]
         /\ DOMAIN pos'[lastId + 1] = Fields /\ pos'[lastId + 1].owner = owner
<1> DEFINE p == [Positions!NoPosition EXCEPT !.owner = owner, !.token = token]
           start == Positions!Deposited(Positions!Books(p), collateral)
<1>1. PICK b \in Positions!BorrowMore(start, borrow) : Positions!Commit(lastId + 1, b)
  BY DEF Positions!Open
<1>2. lastId + 1 \in Ids /\ lastId' = lastId + 1
  BY DEF Positions!Open, Positions!Ids, Ids
<1>3. DOMAIN p = Fields /\ p.owner = owner
  BY DEF Positions!NoPosition, Fields
<1> HIDE DEF p
<1>4. IsBooks(start) /\ start.p.owner = owner
  BY <1>3, BooksOf, DepositedOwner DEF SameOwner
<1> HIDE DEF start
<1>5. DOMAIN b.p = Fields /\ b.p.owner = owner
  BY <1>4, BorrowMoreOwner DEF SameOwner, IsBooks
<1>6. pos' = [pos EXCEPT ![lastId + 1] = b.p]
  BY <1>1 DEF Positions!Commit
<1> QED
  BY <1>2, <1>5, <1>6 DEF MInv

\* The admin and the market leave positions alone.
LEMMA WorldOwners ==
  ASSUME Positions!World
  PROVE  pos' = pos /\ lastId' = lastId
BY DEF Positions!World, Positions!SetStatus, Positions!SetStrategyStatus,
       Positions!Collect, Positions!Accrue, Positions!PriceMove, Positions!Yield,
       Positions!NextBlock, Positions!books

\* What moveId does to owners and approvals.
LEMMA MoveIdOwners ==
  ASSUME NEW from, NEW to, NEW id, MoveId(from, to, id)
  PROVE  /\ ownerOf' = [ownerOf EXCEPT ![id] = to]
         /\ getApproved' = [getApproved EXCEPT ![id] = NoOne]
BY DEF MoveId, ApprovalsWithout

-----------------------------------------------------------------------------
(* The invariant *)

\* The invariant holds at first.
LEMMA InitMInv == ManagerInit => MInv
<1> SUFFICES ASSUME ManagerInit PROVE MInv
  OBVIOUS
<1>1. /\ lastId = 0
      /\ ownerOf = [id \in Ids |-> NoOne] /\ getApproved = [id \in Ids |-> NoOne]
      /\ pos = [id \in Ids |-> Positions!NoPosition]
  BY DEF ManagerInit, Init, Positions!Init, Positions!Ids, Ids
<1>2. DOMAIN Positions!NoPosition = Fields /\ Positions!NoPosition.owner = NoOne
  BY DEF Positions!NoPosition, Fields
<1> QED
  BY <1>1, <1>2, Assumed DEF MInv, Holders

\* A step that leaves the NFTs alone and changes no owner.
LEMMA KeptMInv ==
  ASSUME MInv, OwnersKept, UNCHANGED <<registry, lastId>>
  PROVE  MInv'
BY DEF MInv, OwnersKept, registry

\* A step of the registry that mints nothing.
LEMMA MovedMInv ==
  ASSUME MInv, UNCHANGED <<lastId, pos>>, NEW id \in Ids, ownerOf[id] # NoOne,
         NEW to \in Holders,
         ownerOf' = [ownerOf EXCEPT ![id] = to],
         getApproved' = [getApproved EXCEPT ![id] = NoOne]
  PROVE  MInv'
BY DEF MInv, Holders

\* open of the manager keeps the invariant.
LEMMA OpenMInv ==
  ASSUME MInv, NEW token \in Tokens, NEW c, NEW b, NEW to \in Accounts,
         OpenPosition(token, c, b, to)
  PROVE  MInv'
<1> DEFINE n == lastId + 1
<1>1. /\ n \in Ids /\ lastId' = n /\ DOMAIN pos' = Ids
      /\ \A k \in Ids \ {n} : pos'[k] = pos[k]
      /\ DOMAIN pos'[n] = Fields /\ pos'[n].owner = Manager
  BY OpenOwners DEF OpenPosition
<1>2. /\ ownerOf' = [ownerOf EXCEPT ![n] = to]
      /\ getApproved' = [getApproved EXCEPT ![n] = NoOne]
  BY MoveIdOwners DEF OpenPosition, Open, NextId
<1>3. \A k \in Ids : k > n => k > lastId
  BY DEF MInv, Ids
<1>4. n \in 0..MaxId
  BY <1>1, Assumed DEF Ids
<1>5. ~(n > n)
  BY <1>4
<1> HIDE DEF n
<1> QED
  BY <1>1, <1>2, <1>3, <1>4, <1>5, Assumed DEF MInv, Holders

\* open at the Investor keeps the invariant: its id has no NFT and never gets one.
LEMMA OpenDirectMInv ==
  ASSUME MInv, NEW owner, NEW token \in Tokens, NEW c, NEW b,
         OpenAtInvestor(owner, token, c, b)
  PROVE  MInv'
<1> DEFINE n == lastId + 1
<1>1. /\ n \in Ids /\ lastId' = n /\ DOMAIN pos' = Ids
      /\ \A k \in Ids \ {n} : pos'[k] = pos[k]
      /\ DOMAIN pos'[n] = Fields
  BY OpenOwners DEF OpenAtInvestor
<1>2. ownerOf' = ownerOf /\ getApproved' = getApproved
  BY DEF OpenAtInvestor, registry
<1>3. \A k \in Ids : k > n => k > lastId
  BY DEF MInv, Ids
<1>4. n \in 0..MaxId /\ ~(n > n)
  BY <1>1, Assumed DEF Ids
<1>5. ownerOf[n] = NoOne
  BY <1>1 DEF MInv
<1> HIDE DEF n
<1> QED
  BY <1>1, <1>2, <1>3, <1>4, <1>5 DEF MInv

\* Whoever passes the modifier auth acts on an NFT that has an owner.
LEMMA AuthorisedOwned ==
  ASSUME MInv, NEW caller \in Accounts, NEW id \in Ids, Authorised(caller, id)
  PROVE  ownerOf[id] # NoOne
BY Assumed DEF MInv, Authorised, OwnerOrOperator

\* Every step keeps the invariant.
LEMMA NextMInv == MInv /\ [ManagerNext]_managerVars => MInv'
<1> SUFFICES ASSUME MInv, [ManagerNext]_managerVars PROVE MInv'
  OBVIOUS
<1>1. ASSUME NEW token \in Tokens, NEW c \in Collaterals, NEW b \in Borrows,
             NEW to \in Accounts, OpenPosition(token, c, b, to)
      PROVE  MInv'
  BY <1>1, OpenMInv
<1>2. ASSUME NEW token \in Tokens, NEW c \in Collaterals, NEW b \in Borrows,
             NEW owner \in Accounts, OpenAtInvestor(owner, token, c, b)
      PROVE  MInv'
  BY <1>2, OpenDirectMInv
<1>3. ASSUME NEW caller \in Accounts, NEW id \in Ids, NEW e \in Positions!Edits(id),
             Edit(caller, id, e) \/ EditAtInvestor(caller, id, e)
      PROVE  MInv'
  <2>1. UNCHANGED registry /\ \E who : Positions!Edit(who, id, e)
    BY <1>3 DEF Edit, EditAtInvestor
  <2> QED
    BY <2>1, EditOwners, KeptMInv
<1>4. ASSUME NEW caller \in Accounts, NEW id \in Ids,
             BurnClosed(caller, id) \/ ForceBurn(caller, id)
      PROVE  MInv'
  <2>1. Burn(caller, id) /\ UNCHANGED positions
    BY <1>4 DEF BurnClosed, ForceBurn
  <2>2. /\ ownerOf[id] # NoOne /\ lastId' = lastId
        /\ MoveId(ownerOf[id], NoOne, id)
    BY <2>1 DEF Burn
  <2>3. UNCHANGED <<lastId, pos>>
    BY <2>1, <2>2 DEF positions
  <2> QED
    BY <2>2, <2>3, MoveIdOwners, MovedMInv DEF Holders
<1>5. ASSUME NEW caller \in Accounts, NEW id \in Ids, Transfer(caller, id)
      PROVE  MInv'
  <2> PICK from \in Accounts, to \in Accounts :
        TransferFrom(caller, from, to, id) /\ UNCHANGED positions
    BY <1>5 DEF Transfer
  <2>1. /\ from = ownerOf[id] /\ MoveId(from, to, id)
        /\ UNCHANGED <<lastId, pos>>
    BY DEF TransferFrom, positions
  <2>2. ownerOf[id] # NoOne
    BY <2>1, Assumed
  <2> QED
    BY <2>1, <2>2, MoveIdOwners, MovedMInv DEF Holders
<1>6. ASSUME NEW caller \in Accounts, NEW id \in Ids, GiveApproval(caller, id)
      PROVE  MInv'
  <2> PICK spender \in Holders : Approve(caller, spender, id) /\ UNCHANGED positions
    BY <1>6 DEF GiveApproval
  <2>1. /\ OwnerOrOperator(caller, id)
        /\ getApproved' = [getApproved EXCEPT ![id] = spender]
        /\ UNCHANGED <<ownerOf, lastId, pos>>
    BY DEF Approve, positions
  <2>2. ownerOf[id] # NoOne
    BY <2>1, AuthorisedOwned DEF Authorised
  <2> QED
    BY <2>1, <2>2 DEF MInv
<1>7. ASSUME NEW caller \in Accounts, SetOperator(caller)
      PROVE  MInv'
  <2>1. UNCHANGED <<ownerOf, getApproved, lastId, pos>>
    BY <1>7 DEF SetOperator, SetApprovalForAll, positions
  <2> QED
    BY <2>1 DEF MInv
<1>8. ASSUME NEW id \in Ids, Liquidate(id)
      PROVE  MInv'
  BY <1>8, LiquidateOwners, KeptMInv DEF Liquidate
<1>9. CASE World
  <2>1. UNCHANGED <<ownerOf, getApproved, lastId, pos>>
    BY <1>9, WorldOwners DEF World, registry
  <2> QED
    BY <2>1 DEF MInv
<1>10. CASE UNCHANGED managerVars
  BY <1>10 DEF managerVars, registry, positions, MInv
<1> QED
  BY <1>1, <1>2, <1>3, <1>4, <1>5, <1>6, <1>7, <1>8, <1>9, <1>10 DEF ManagerNext

\* NFTs, approvals and positions agree after any calls, of the manager or not.
THEOREM Inductive == ManagerSpec => []MInv
BY InitMInv, NextMInv, PTL DEF ManagerSpec

\* An NFT's position is held in the manager's name, whatever order open of the
\* manager and of the Investor take the ids in.
THEOREM NftsStandForPositions == ManagerSpec => []TokensArePositions
<1>1. MInv => TokensArePositions
  BY DEF MInv, TokensArePositions
<1> QED
  BY <1>1, Inductive, PTL


\* Who changes a position: whoever opens or owns it, or a liquidator.
LEMMA BurnedStep ==
  ASSUME MInv, [ManagerNext]_managerVars, NEW id \in Ids,
         pos[id].owner = Manager, ownerOf[id] = NoOne, pos'[id] # pos[id]
  PROVE  Positions!Liquidates(id)
<1>1. ASSUME NEW owner, NEW token, NEW c, NEW b, Positions!Open(owner, token, c, b)
      PROVE  FALSE
  <2>1. id # lastId + 1 => pos'[id] = pos[id]
    BY <1>1, OpenOwners
  <2>2. id = lastId + 1 => pos[id].owner = NoOne
    BY DEF MInv, Ids
  <2> QED
    BY <2>1, <2>2, Assumed
<1>2. ASSUME NEW who, NEW k \in Ids, NEW e, Positions!Edit(who, k, e)
      PROVE  k = id /\ who = Manager
  BY <1>2, EditOwners
<1>3. ASSUME NEW caller \in Accounts, NEW k \in Ids, NEW e, Edit(caller, k, e)
      PROVE  FALSE
  <2>1. k = id /\ Authorised(caller, k)
    BY <1>2, <1>3 DEF Edit
  <2> QED
    BY <2>1, AuthorisedOwned
<1>4. ASSUME NEW caller \in Accounts, NEW k \in Ids, NEW e, EditAtInvestor(caller, k, e)
      PROVE  FALSE
  BY <1>2, <1>4, Assumed DEF EditAtInvestor
<1>5. ASSUME NEW caller \in Accounts, NEW k \in Ids,
             BurnClosed(caller, k) \/ ForceBurn(caller, k)
      PROVE  FALSE
  BY <1>5 DEF BurnClosed, ForceBurn, positions
<1>6. ASSUME NEW caller, NEW k, Transfer(caller, k)
      PROVE  FALSE
  BY <1>6 DEF Transfer, positions
<1>7. ASSUME NEW caller, NEW k, GiveApproval(caller, k)
      PROVE  FALSE
  BY <1>7 DEF GiveApproval, positions
<1>8. ASSUME NEW caller, SetOperator(caller)
      PROVE  FALSE
  BY <1>8 DEF SetOperator, positions
<1>9. ASSUME NEW k \in Ids, Liquidate(k)
      PROVE  Positions!Liquidates(id)
  <2>1. Positions!Liquidates(k)
    BY <1>9 DEF Liquidate
  <2>2. k = id
    BY <2>1, LiquidateOwners
  <2> QED
    BY <2>1, <2>2
<1>10. ~World
  BY WorldOwners DEF World
<1>11. ~UNCHANGED managerVars
  BY DEF managerVars, positions
<1> QED
  BY <1>1, <1>3, <1>4, <1>5, <1>6, <1>7, <1>8, <1>9, <1>10, <1>11
  DEF ManagerNext, OpenPosition, OpenAtInvestor

\* The position of a burned NFT changes by liquidation only (forceBurn).
THEOREM BurnedIsLeftToLiquidators == ManagerSpec => BurnedIsOutOfReach
<1>1. MInv /\ [ManagerNext]_managerVars
        => [\A id \in Ids :
              /\ pos[id].owner = Manager
              /\ ownerOf[id] = NoOne
              /\ pos'[id] # pos[id]
              => Positions!Liquidates(id)]_managerVars
  BY BurnedStep
<1> QED
  BY <1>1, Inductive, PTL DEF ManagerSpec, BurnedIsOutOfReach

-----------------------------------------------------------------------------
(* Both components keep their specifications *)

\* A step of the composition is one of the registry, or none.
LEMMA RegistryStep == MInv /\ [ManagerNext]_managerVars => [Next]_vars
<1> SUFFICES ASSUME MInv, [ManagerNext]_managerVars PROVE [Next]_vars
  OBVIOUS
<1>1. ASSUME NEW token \in Tokens, NEW c \in Collaterals, NEW b \in Borrows,
             NEW to \in Accounts, OpenPosition(token, c, b, to)
      PROVE  Next
  BY <1>1 DEF OpenPosition, Next
<1>2. ASSUME NEW token \in Tokens, NEW c \in Collaterals, NEW b \in Borrows,
             NEW owner \in Accounts, OpenAtInvestor(owner, token, c, b)
      PROVE  Next
  <2>1. lastId + 1 \in Ids /\ lastId' = lastId + 1 /\ UNCHANGED registry
    BY <1>2, OpenOwners DEF OpenAtInvestor
  <2>2. lastId < MaxId
    BY <2>1, Assumed DEF MInv, Ids
  <2>3. OpenDirect
    BY <2>1, <2>2 DEF OpenDirect, registry
  <2> QED
    BY <2>3 DEF Next
<1>3. ASSUME NEW caller \in Accounts, NEW id \in Ids, NEW e \in Positions!Edits(id),
             Edit(caller, id, e) \/ EditAtInvestor(caller, id, e)
      PROVE  UNCHANGED vars
  <2>1. UNCHANGED registry /\ \E who : Positions!Edit(who, id, e)
    BY <1>3 DEF Edit, EditAtInvestor
  <2>2. lastId' = lastId
    BY <2>1, EditOwners
  <2> QED
    BY <2>1, <2>2 DEF vars, registry
<1>4. ASSUME NEW caller \in Accounts, NEW id \in Ids,
             BurnClosed(caller, id) \/ ForceBurn(caller, id)
      PROVE  Next
  BY <1>4 DEF BurnClosed, ForceBurn, Next, Ids
<1>5. ASSUME NEW caller \in Accounts, NEW id \in Ids, Transfer(caller, id)
      PROVE  Next
  BY <1>5 DEF Transfer, Next, Ids
<1>6. ASSUME NEW caller \in Accounts, NEW id \in Ids, GiveApproval(caller, id)
      PROVE  Next
  BY <1>6 DEF GiveApproval, Next, Holders, Ids
<1>7. ASSUME NEW caller \in Accounts, SetOperator(caller)
      PROVE  Next
  BY <1>7 DEF SetOperator, Next
<1>8. ASSUME NEW id \in Ids, Liquidate(id)
      PROVE  UNCHANGED vars
  BY <1>8, LiquidateOwners DEF Liquidate, vars, registry
<1>9. CASE World
  BY <1>9, WorldOwners DEF World, vars, registry
<1>10. CASE UNCHANGED managerVars
  BY <1>10 DEF managerVars, vars, registry
<1> QED
  BY <1>1, <1>2, <1>3, <1>4, <1>5, <1>6, <1>7, <1>8, <1>9, <1>10 DEF ManagerNext

\* The composition keeps the registry's specification: every call of the manager
\* and of the Investor is one of the registry's calls or leaves the NFTs alone.
THEOREM RegistryKept == ManagerSpec => KeepsRegistry
<1>1. ManagerInit => Init
  BY DEF ManagerInit
<1> QED
  BY <1>1, RegistryStep, Inductive, PTL DEF ManagerSpec, KeepsRegistry, Spec

\* A wallet paging through tokensOfOwner sees the owner's NFTs, each once, whatever
\* is opened, burned and liquidated at the Investor meanwhile.
THEOREM EnumerationInManager == ManagerSpec => []EnumerationMatchesOwnership
BY RegistryKept, EnumerationCorrect, PTL DEF KeepsRegistry

\* No approval given through the manager outlives the ownership it was given under,
THEOREM ApprovalsEndInManager == ManagerSpec => ApprovalsDieWithOwnership
BY RegistryKept, ApprovalsEndWithOwnership, PTL DEF KeepsRegistry

\* a burned id stays burned although its position goes on at the Investor,
THEOREM BurnedForGoodInManager == ManagerSpec => BurnIsFinal
BY RegistryKept, BurnedForGood, PTL DEF KeepsRegistry

\* and the NFTs of the whole manager are a ledger of tokens issued once.
THEOREM ManagerImplementsLedger == ManagerSpec => ImplementsLedger
BY RegistryKept, RegistryImplementsLedger, PTL DEF KeepsRegistry

\* A step of the composition is one of the Investor, or none.
LEMMA PositionsStep == [ManagerNext]_managerVars => [Positions!Next]_(Positions!vars)
<1> SUFFICES ASSUME [ManagerNext]_managerVars PROVE [Positions!Next]_(Positions!vars)
  OBVIOUS
<1>1. ASSUME NEW token \in Tokens, NEW c \in Collaterals, NEW b \in Borrows,
             NEW owner \in Accounts \cup {Manager}, Positions!Open(owner, token, c, b)
      PROVE  Positions!Next
  BY <1>1 DEF Positions!Next
<1>2. ASSUME NEW who \in Accounts \cup {Manager}, NEW id \in Ids,
             NEW e \in Positions!Edits(id), Positions!Edit(who, id, e)
      PROVE  Positions!Next
  BY <1>2 DEF Positions!Next, Ids, Positions!Ids
<1>3. ASSUME UNCHANGED <<lastId, positions>>
      PROVE  UNCHANGED Positions!vars
  BY <1>3 DEF positions, Positions!vars
<1>4. ASSUME NEW caller \in Accounts, NEW id \in Ids,
             BurnClosed(caller, id) \/ ForceBurn(caller, id)
      PROVE  UNCHANGED Positions!vars
  BY <1>3, <1>4 DEF BurnClosed, ForceBurn, Burn
<1>5. ASSUME NEW caller \in Accounts, NEW id \in Ids, Transfer(caller, id)
      PROVE  UNCHANGED Positions!vars
  BY <1>3, <1>5 DEF Transfer, TransferFrom
<1>6. ASSUME NEW caller \in Accounts, NEW id \in Ids, GiveApproval(caller, id)
      PROVE  UNCHANGED Positions!vars
  BY <1>3, <1>6 DEF GiveApproval, Approve
<1>7. ASSUME NEW caller \in Accounts, SetOperator(caller)
      PROVE  UNCHANGED Positions!vars
  BY <1>3, <1>7 DEF SetOperator, SetApprovalForAll
<1>8. ASSUME NEW id \in Ids, Liquidate(id)
      PROVE  Positions!Next
  BY <1>8 DEF Liquidate, Positions!Liquidates, Positions!Next, Ids, Positions!Ids
<1>9. CASE World
  BY <1>9 DEF World, Positions!Next
<1>10. CASE UNCHANGED managerVars
  BY <1>3, <1>10 DEF managerVars
<1> QED
  BY <1>1, <1>2, <1>4, <1>5, <1>6, <1>7, <1>8, <1>9, <1>10
  DEF ManagerNext, OpenPosition, OpenAtInvestor, Edit, EditAtInvestor

\* The composition keeps the Investor's specification, with the manager as one of
\* its owners: the theorems about positions hold of those held through NFTs.
THEOREM PositionsKept == ManagerSpec => Positions!Spec
<1>1. ManagerInit => Positions!Init
  BY DEF ManagerInit
<1> QED
  BY <1>1, PositionsStep, PTL DEF ManagerSpec, Positions!Spec
=============================================================================
