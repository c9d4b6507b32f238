---------------------------- MODULE PositionManager ----------------------------
(***************************************************************************)
(* contracts/PositionManager.sol as a whole: positions of the Investor     *)
(* held as NFTs.  The manager opens a position in its own name and mints   *)
(* the NFT of the same id; whoever is authorised for the NFT edits the     *)
(* position through the manager.  Users also open and edit positions at    *)
(* the Investor directly, and liquidators kill either kind there.          *)
(*                                                                         *)
(* The module adds the Investor to PositionRegistry: they share the        *)
(* counter of ids.  A call of the manager is one step, in which both       *)
(* change or neither does (a revert of the Investor reverts the call).     *)
(* The tokens it passes on within a call are left out.                     *)
(***************************************************************************)
EXTENDS PositionRegistry

CONSTANTS
  Manager,     \* address(PositionManager)
  \* See Investor
  Tokens, One, Factor, CollateralCap, StrategyCap, Seed, Collaterals, Borrows,
  Repayments, Losses, Prices, MaxIndex, Yields, Statuses, MaxCalls, MaxMoves

VARIABLES
  status, strategyStatus, pos, sameBlock, bank, debt, index, vault, cash, price,
  calls, moves, changed

Positions == INSTANCE Investor
               WITH Owners <- Accounts \cup {Manager}, MaxPositions <- MaxId,
                    count <- lastId

\* What the Investor assumes, and that the manager is an account of its own.
ASSUME ManagerAssumption ==
  /\ Positions!InvestorAssumption
  /\ Manager \notin Accounts

positions == <<status, strategyStatus, pos, sameBlock, bank, debt, index, vault,
               cash, price, calls, moves, changed>>
managerVars == <<registry, lastId, positions>>

ManagerInit == Init /\ Positions!Init

-----------------------------------------------------------------------------
(* The manager *)

\* Mutant: the Investor is told the receiver's name.
OpenForReceiver(token, collateral, borrow, to) ==
  Positions!Open(to, token, collateral, borrow) /\ Open(to)

\* open: the caller pays the collateral, `to` gets the NFT.
OpenPosition(token, collateral, borrow, to) ==
  /\ Positions!Open(Manager, token, collateral, borrow)
  /\ Open(to)

Edit(caller, id, e) ==
  /\ Authorised(caller, id)
  /\ Positions!Edit(Manager, id, e)
  /\ UNCHANGED registry

\* Mutant: the owner is deleted without moveId.
ForceBurnUnlisted(caller, id) ==
  /\ Authorised(caller, id)
  /\ ownerOf[id] # NoOne
  /\ ownerOf' = [ownerOf EXCEPT ![id] = NoOne]
  /\ UNCHANGED <<balanceOf, ownerIds, getApproved, operators, lastId, positions>>

\* forceBurn asks the Investor nothing.
ForceBurn(caller, id) ==
  /\ Burn(caller, id)
  /\ UNCHANGED positions

\* burn: the require "NOT_CLOSED" looks at the collateral.
BurnClosed(caller, id) ==
  /\ pos[id].collateral = 0
  /\ ForceBurn(caller, id)

\* transferFrom, safeTransferFrom, approve and setApprovalForAll
Transfer(caller, id) ==
  \E from, to \in Accounts :
     TransferFrom(caller, from, to, id) /\ UNCHANGED positions

GiveApproval(caller, id) ==
  \E spender \in Holders : Approve(caller, spender, id) /\ UNCHANGED positions

SetOperator(caller) ==
  \E operator \in Accounts, approved \in BOOLEAN :
     SetApprovalForAll(caller, operator, approved) /\ UNCHANGED positions

-----------------------------------------------------------------------------
(* The Investor without the manager *)

OpenAtInvestor(owner, token, collateral, borrow) ==
  Positions!Open(owner, token, collateral, borrow) /\ UNCHANGED registry

EditAtInvestor(caller, id, e) ==
  Positions!Edit(caller, id, e) /\ UNCHANGED registry

Liquidate(id) == Positions!Liquidates(id) /\ UNCHANGED registry

World == Positions!World /\ UNCHANGED registry

ManagerNext ==
  \/ \E token \in Tokens, c \in Collaterals, b \in Borrows, a \in Accounts :
        \/ OpenPosition(token, c, b, a)
        \/ OpenAtInvestor(a, token, c, b)
  \/ \E caller \in Accounts, id \in Ids :
        \/ \E e \in Positions!Edits(id) :
              Edit(caller, id, e) \/ EditAtInvestor(caller, id, e)
        \/ BurnClosed(caller, id)
        \/ ForceBurn(caller, id)
        \/ Transfer(caller, id)
        \/ GiveApproval(caller, id)
  \/ \E caller \in Accounts : SetOperator(caller)
  \/ \E id \in Ids : Liquidate(id)
  \/ World

ManagerSpec == ManagerInit /\ [][ManagerNext]_managerVars

-----------------------------------------------------------------------------
(* Properties *)

\* Every NFT stands for a position that the Investor holds in the manager's name.
\* A position opened directly never gets an NFT, whatever order the two kinds of
\* opening take the ids in.
TokensArePositions ==
  \A id \in Ids : ownerOf[id] # NoOne => pos[id].owner = Manager

\* A burned NFT's position is out of everybody's reach: no approval or operator
\* left from before lets anybody edit it, and only liquidation changes it.
BurnedIsOutOfReach ==
  [][\A id \in Ids :
       /\ pos[id].owner = Manager
       /\ ownerOf[id] = NoOne
       /\ pos'[id] # pos[id]
       => Positions!Liquidates(id)]_managerVars

\* Every step, projected on the NFTs, is a step of the registry: what is proved of
\* the registry holds in the composition.
KeepsRegistry == Spec
=============================================================================
