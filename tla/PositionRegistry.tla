---------------------------- MODULE PositionRegistry ----------------------------
(***************************************************************************)
(* The ERC-721 half of contracts/PositionManager.sol: who owns which       *)
(* position NFT, who may act for the owner, and the enumerable index       *)
(* (struct Ids: an array of ids and the 1-based place of each id in it)    *)
(* that moveId keeps by swapping the last element into the hole.           *)
(*                                                                         *)
(* A call is one step.  The only foreign code a registry call runs is the  *)
(* receiver's onERC721Received hook, and every write precedes it: a hook   *)
(* that re-enters makes further steps, a hook that rejects reverts the     *)
(* whole call, which is no step at all.  What Investor does is left to     *)
(* module PositionManager; here it only hands out increasing ids.          *)
(***************************************************************************)
EXTENDS Integers, Sequences

CONSTANTS
  Accounts,   \* addresses that hold NFTs or send calls; none is address(0)
  NoOne,      \* address(0)
  MaxId,      \* bound on the ids the Investor hands out
  MaxUint     \* what the unchecked decrement of a zero balance wraps to

ASSUME RegistryAssumption ==
  /\ NoOne \notin Accounts
  /\ MaxId \in Nat
  /\ MaxUint \in Nat /\ MaxUint > MaxId

Ids == 1..MaxId
Holders == Accounts \cup {NoOne}

VARIABLES
  ownerOf,      \* _ownerOf
  balanceOf,    \* _balanceOf
  ownerIds,     \* _ownerIds: [values, positions] of each owner
  getApproved,  \* the address approved for one id
  operators,    \* isApprovedForAll, as the set of operators of each owner
  lastId        \* the Investor's POSITIONS counter, the last id handed out

registry == <<ownerOf, balanceOf, ownerIds, getApproved, operators>>
vars == <<ownerOf, balanceOf, ownerIds, getApproved, operators, lastId>>

NoIds == [values |-> <<>>, positions |-> [id \in Ids |-> 0]]

Init ==
  /\ ownerOf = [id \in Ids |-> NoOne]
  /\ balanceOf = [a \in Accounts |-> 0]
  /\ ownerIds = [a \in Accounts |-> NoIds]
  /\ getApproved = [id \in Ids |-> NoOne]
  /\ operators = [a \in Accounts |-> {}]
  /\ lastId = 0

-----------------------------------------------------------------------------
(* moveId *)

\* Mutants of the helpers below: the last value is popped but not swapped in,
\* the place of a pushed id is off by one, the approval outlives the move.
WithoutSwap(i, id) ==
  [values |-> SubSeq(i.values, 1, Len(i.values) - 1),
   positions |-> [i.positions EXCEPT ![id] = 0]]

WithPlaceBeforePush(i, id) ==
  [values |-> Append(i.values, id),
   positions |-> [i.positions EXCEPT ![id] = Len(i.values)]]

ApprovalsKept(id) == getApproved

\* Swap-and-pop: the last value takes the place of id, whose own place is
\* deleted after the write.
Without(i, id) ==
  LET position == i.positions[id]
      lastIndex == Len(i.values)
      lastValue == i.values[lastIndex]
  IN [values |-> [k \in 1..(lastIndex - 1) |->
                    IF k = position THEN lastValue ELSE i.values[k]],
      positions |-> [[i.positions EXCEPT ![lastValue] = position]
                        EXCEPT ![id] = 0]]

With(i, id) ==
  [values |-> Append(i.values, id),
   positions |-> [i.positions EXCEPT ![id] = Len(i.values) + 1]]

\* _balanceOf[from]-- inside `unchecked`
Decremented(n) == IF n = 0 THEN MaxUint ELSE n - 1

Incremented(n) == n + 1

\* delete getApproved[id]
ApprovalsWithout(id) == [getApproved EXCEPT ![id] = NoOne]

\* The checked subtractions `position - 1` and `length - 1` do not revert.
Listed(from, id) ==
  /\ ownerIds[from].positions[id] > 0
  /\ ownerIds[from].values # <<>>

MoveId(from, to, id) ==
  /\ from # NoOne => Listed(from, id)
  /\ LET taken == IF from = NoOne THEN ownerIds
                  ELSE [ownerIds EXCEPT ![from] = Without(@, id)]
         debited == IF from = NoOne THEN balanceOf
                    ELSE [balanceOf EXCEPT ![from] = Decremented(@)]
     IN /\ ownerIds' = IF to = NoOne THEN taken
                       ELSE [taken EXCEPT ![to] = With(@, id)]
        /\ balanceOf' = IF to = NoOne THEN debited
                        ELSE [debited EXCEPT ![to] = Incremented(@)]
  /\ getApproved' = ApprovalsWithout(id)
  /\ ownerOf' = [ownerOf EXCEPT ![id] = to]
  /\ UNCHANGED operators

-----------------------------------------------------------------------------
(* The calls *)

\* Nobody sends from address(0), so it never has an operator.
OwnerOrOperator(caller, id) ==
  LET owner == ownerOf[id]
  IN caller = owner \/ (owner # NoOne /\ caller \in operators[owner])

\* modifier auth
Authorised(caller, id) ==
  OwnerOrOperator(caller, id) \/ caller = getApproved[id]

\* The id Investor.open returns: setUintDelta(POSITIONS, 1)
NextId == lastId + 1

\* PositionManager.open mints the id that Investor.open returned.
Open(to) ==
  /\ NextId \in Ids
  /\ ownerOf[NextId] = NoOne
  /\ lastId' = NextId
  /\ MoveId(NoOne, to, NextId)

\* Someone opens a position at the Investor without the manager.
OpenDirect ==
  /\ lastId < MaxId
  /\ lastId' = lastId + 1
  /\ UNCHANGED registry

\* transferFrom and both forms of safeTransferFrom
TransferFrom(caller, from, to, id) ==
  /\ Authorised(caller, id)
  /\ from = ownerOf[id]
  /\ MoveId(from, to, id)
  /\ UNCHANGED lastId

\* forceBurn; burn does the same to the registry when the Investor lets it
Burn(caller, id) ==
  /\ Authorised(caller, id)
  /\ ownerOf[id] # NoOne
  /\ MoveId(ownerOf[id], NoOne, id)
  /\ UNCHANGED lastId

Approve(caller, spender, id) ==
  /\ OwnerOrOperator(caller, id)
  /\ getApproved' = [getApproved EXCEPT ![id] = spender]
  /\ UNCHANGED <<ownerOf, balanceOf, ownerIds, operators, lastId>>

SetApprovalForAll(caller, operator, approved) ==
  /\ operators' = [operators EXCEPT ![caller] =
                     IF approved THEN @ \cup {operator} ELSE @ \ {operator}]
  /\ UNCHANGED <<ownerOf, balanceOf, ownerIds, getApproved, lastId>>

Next ==
  \/ \E to \in Accounts : Open(to)
  \/ OpenDirect
  \/ \E caller, from, to \in Accounts, id \in Ids :
        TransferFrom(caller, from, to, id)
  \/ \E caller \in Accounts, id \in Ids : Burn(caller, id)
  \/ \E caller \in Accounts, spender \in Holders, id \in Ids :
        Approve(caller, spender, id)
  \/ \E caller, operator \in Accounts, approved \in BOOLEAN :
        SetApprovalForAll(caller, operator, approved)

Spec == Init /\ [][Next]_vars

-----------------------------------------------------------------------------
(* Views *)

\* tokensOfOwner(owner, start, end)
TokensOfOwner(owner, start, end) ==
  [k \in 1..(end - start) |-> ownerIds[owner].values[start + k]]

-----------------------------------------------------------------------------
(* Properties *)

\* Every storage slot holds a value of its declared kind, and no balance has
\* wrapped around in moveId's unchecked blocks.
TypeOK ==
  /\ ownerOf \in [Ids -> Holders]
  /\ balanceOf \in [Accounts -> 0..MaxId]
  /\ ownerIds \in [Accounts -> [values: Seq(Ids), positions: [Ids -> 0..MaxId]]]
  /\ getApproved \in [Ids -> Holders]
  /\ operators \in [Accounts -> SUBSET Accounts]
  /\ lastId \in 0..MaxId

\* What a wallet relies on when it pages through an owner's NFTs: the range
\* 0..balanceOf(owner) of tokensOfOwner lists exactly the ids that ownerOf
\* gives to the owner, each of them once, whatever transfers and burns went
\* before (moveId's swap-and-pop).
EnumerationMatchesOwnership ==
  \A a \in Accounts :
    LET listed == TokensOfOwner(a, 0, balanceOf[a])
    IN /\ {listed[k] : k \in 1..balanceOf[a]} = {id \in Ids : ownerOf[id] = a}
       /\ \A j, k \in 1..balanceOf[a] : listed[j] = listed[k] => j = k

\* The index itself: an id has a place in the array of its owner and of no one
\* else, and the array holds it at that place (struct Ids in moveId).
WellFormed(i) ==
  /\ \A id \in Ids : i.positions[id] \in 0..Len(i.values)
  /\ \A id \in Ids : i.positions[id] # 0 => i.values[i.positions[id]] = id
  /\ \A k \in 1..Len(i.values) : i.positions[i.values[k]] = k

IndexInv ==
  /\ \A a \in Accounts : WellFormed(ownerIds[a])
  /\ \A a \in Accounts, id \in Ids :
        ownerIds[a].positions[id] # 0 <=> ownerOf[id] = a
  /\ \A a \in Accounts : balanceOf[a] = Len(ownerIds[a].values)

\* Only a minted and unburned id can carry an approval: no approval waits for
\* the next owner of an id (delete getApproved[id] in moveId, and approve's
\* owner check).
ApprovalsAreForOwnedIds ==
  \A id \in Ids : getApproved[id] # NoOne => ownerOf[id] # NoOne

\* When an NFT changes hands the approval its last owner gave is gone.
ApprovalsDieWithOwnership ==
  [][\A id \in Ids : ownerOf'[id] # ownerOf[id] => getApproved'[id] = NoOne]_vars

\* An id that was handed out and has no owner (burned, or opened at the Investor
\* directly) never gets one again: open only mints the Investor's fresh id.
BurnIsFinal ==
  [][\A id \in 1..lastId : ownerOf[id] = NoOne => ownerOf'[id] = NoOne]_vars

\* The registry's arrays, read as sets, behave like a ledger of tokens that are
\* issued once and moved one at a time: a call of one owner never shows in what
\* is listed for an account it does not name.
Listing == [a \in Accounts |->
              {ownerIds[a].values[k] : k \in 1..Len(ownerIds[a].values)}]

Ledger == INSTANCE NftLedger WITH holdings <- Listing, issued <- 1..lastId

ImplementsLedger == Ledger!Spec
=============================================================================
