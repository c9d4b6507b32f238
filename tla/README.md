# Formal model of Rodeo V2

TLA+ modules of the contracts in `contracts/`, of the application's jobs, schedules
and leaderboard in Go, and of the browser's script; the TLC runs that check them
on small instances, and proofs that TLAPS checks. Paths are relative to the
repository's root.

## 1. The system

Rodeo V2 lends a pool's asset to leveraged yield positions. Contracts hold the
positions; a Go application serves the site, schedules jobs and keeps a
leaderboard; a browser front end talks to both.

    user ──> PositionManager ──> Investor ──> InvestorStrategyProxy ──> Strategy ──> GMX / Camelot / Sushi
               (NFTs)              │  │  └──> Pool, Helper (external: loans, prices, swaps)
    liquidator ─────> Helper ──────┘  └─────> Store (key-value state), Bank (collateral)
    keeper ──> Strategy.earn          GMX keepers ──> StrategyGMXGM callbacks
    browser ──> HTTP server ──> controllers ──> database <── JobQueue, Scheduler (several nodes)

### Contracts

| component | state | operations | interacts with | what makes it correct |
|---|---|---|---|---|
| `PositionManager.sol` | owner, balance, enumerable ids, approvals, operators | open, edit, burn, forceBurn, transfers, approvals | Investor: opens and edits in its own name; calls the receiver's hook | the enumeration is the ownership; approvals die with ownership; a burned id is never minted again; every NFT is a position of the manager's |
| `Investor.sol` | in Store: statuses, caps, positions; itself: fees, the block of the last change of a position | open, edit, kill, partialKill, collect, admin setters, strategyNew, strategyUgrade | Bank, Pool, price helper, strategies through the proxy | sums of collateral, debt and shares match what Bank, pool and strategy hold; nobody's trade costs others; statuses gate; liquidation takes no more than its due |
| `StrategyGMXGM.sol` | shares, reserve, two pending amounts, handlers | mint, burn, kill, earn, four callbacks, exit | GMX answers requests later; the keeper calls earn; trades happen in between | one request at a time, pending amounts exactly while a request is out, an exact rate during a round trip, nothing left behind by an exit |
| `StrategyCamelotV3.sol` | shares, id of its spNFT, its nft and nitro pools | mint, burn, kill, earn, exit, move | nftPool and nitroPool take and return the NFT | the NFT is where the strategy thinks it is, also across an upgrade |
| `StrategySushiswap.sol` | shares, LP tokens at the rewarder | mint, burn, kill, earn, exit, move | pair, rewarder | shares are backed; an upgrade moves shares and assets together |
| `Store.sol` | values per key, enumerable sets | setters, deltas, addBytes32, removeBytes32 | Investor | deltas do not wrap, a set's places match its array |
| `Bank.sol`, `Whitelist.sol`, `InvestorStrategyProxy.sol` | balances, flags | transfer, check, exec | Investor | guarded by `exec` |
| `Helper.sol` | none that survives a call | kill and partialKill through a flash loan | Investor, lender | the loan is repaid and nothing is left in the helper |
| `Deploy.s.sol`, `UtilFarmingBalances.sol` | none | deployment; views | all | the order of deployment and of an upgrade |

### Application

| component | state | operations | what makes it correct |
|---|---|---|---|
| `lib/queue.go` | table `app_jobs` | Enqueue, Delay, the worker's loop | a job runs once, whichever node takes it; a crash loses it |
| `lib/scheduler.go` | table `app_schedules` | start, bump and enqueue | one node enqueues each due run |
| `support/app/app.js` | overlay, the cookies `address` and `txhash`, the wallet library's state | the forms' handlers, `call`, `runTransaction`, the account watcher, `turbo:load` | the account that signs is the one that receives and the one the page was rendered for; what one call of a withdrawal frees the next burns; a hash is announced, and not again but by a cached page |
| `lib/cache.go` | table `app_cache` | Get, Set, Try | a value is no older than its ttl |
| `models/leaderboard.go`, `controllers/leaderboard.go` | users and points | credit, view, Discord, X | a user's total is the sum of the points; one credit per reason |
| `controllers/auth.go`, `models/session.go` | sessions | log in, log out | sessions are of existing users |
| `lib/jobs_db.go`, `migrations/` | table `app_migrations` | up, down | each migration runs once |
| `lib/server.go`, `lib/handlers.go`, `lib/template.go`, `controllers/app.go` | none | requests, rendering | - |
| `lib/chain.go`, `jobs/automations.go` | none | RPC, hourly calls of `earn` | - |

### What is hard here

- *Sequences*: swap-and-pop indices; long lives of a position through edits,
  liquidations and yield until a state nobody thought of (a profitable position
  without collateral; a position whose shares are worth nothing).
- *Shared pots*: all positions of a strategy own shares of one pot, all
  collateral is in one Bank, all fees in one balance; roundings must not move
  value between owners.
- *Asynchrony*: GMX answers a request blocks later, may cancel, and ignores a
  callback that reverts.
- *Order of administration*: statuses, handlers and implementations change
  between the steps of users.
- *Several nodes and crashes* in the application's queue and scheduler, whose
  statements interleave over one database.
- *Whole rows written back* in the leaderboard, where every statement is a
  transaction of its own.
- *Awaits* in the browser: between any two of them the user switches accounts,
  follows links, submits again, and Turbo swaps the page.

Every hazard is in `PROJECT.json`, at its line, with the properties that cover it
or the note that says why none does.

## 2. Modules

| module | models | composes |
|---|---|---|
| `NftLedger` | abstract: tokens issued once and moved one at a time between sets of holdings | |
| `PositionRegistry` (proofs in `PositionManager_proofs`) | the ERC-721 half of `PositionManager.sol` | refines `NftLedger` |
| `Investor`, `_proofs`, `MCInvestor` | `Investor.sol` with the strategy's shares, Bank, pool and helper as it uses them | |
| `PositionManager`, `_proofs`, `MCPositionManager` | the manager over the Investor, with direct users and liquidators | extends `PositionRegistry`, instantiates `Investor` |
| `StrategyGMXGM`, `_proofs` | `StrategyGMXGM.sol` and the part of GMX it relies on | |
| `StrategyCamelotV3`, `_proofs` | `StrategyCamelotV3.sol`, `Investor.strategyUgrade`, and what they rely on of Camelot's contracts | |
| `Delivery` | abstract: at-most-once delivery of jobs to nodes | |
| `JobQueue` (proofs in `Scheduler_proofs`) | `lib/queue.go` on several nodes, with `lib/server.go`'s starts and stops | refines `Delivery` |
| `Scheduler`, `_proofs`, `MCScheduler` | `lib/scheduler.go` | `JobQueue` |
| `Leaderboard`, `_proofs`, `MCLeaderboard` | `models/`, `controllers/` and `jobs/leaderboard.go` | |
| `FrontEnd`, `_proofs`, `MCFrontEnd` | `support/app/app.js` with the wallet library and Turbo as it uses them | |
| `SumTheorems` | facts about sums over finite sets, for the proofs of `Investor`, `Leaderboard` and `FrontEnd` | |

**Grain.** A contract call is one step: transactions are serial, `loop()` forbids
re-entrance into the Investor and the strategies, and a call that reverts changes
nothing, so it is no step. In Go a step is one database statement (or a read of the
clock), because nothing groups statements into transactions. In the browser a step is
the code between two awaits. What a swap returns is nondeterministic over `Losses`.

**PositionRegistry.** `ownerOf`, `balanceOf`, `getApproved` are the mappings of the
same names; `ownerIds[a]` is struct `Ids` with 1-based places; `operators[a]` is
`isApprovedForAll[a]`. `MoveId` is `moveId`, with the unchecked decrement that would
wrap to `MaxUint` and the checked subtractions as guards; `Without` and `With` are its two
halves. The receiver's hook runs after all writes, so a hook that re-enters is a
sequence of steps. `lastId` is the Investor's counter; `OpenDirect` is somebody else
taking an id.

**Investor.** `pos[id]` is a position in the Store without `start` and `basis`, which
no code reads back for a decision. A call works on a record of books (the
position in memory, bank, debt, vault, cash) as the code works on a memory
struct and external balances; each part of a call maps books to the set of
books it may leave, and `Commit` is `setPosition`. `Edit` runs the code's four parts in
their order. `cash` is the pool asset that stays in the contract: performance fees
and liquidation fees. `vault` is the strategy with the share arithmetic common to
the three strategies; `index` is the pool's index, `debt` its borrow shares;
`Accrue`, `PriceMove` and `Yield` are the world. `sameBlock` holds the ids whose `lastBlock` is
the current block, until `NextBlock`. `changed` is a history variable that no action reads.

**PositionManager.** It extends the registry and instantiates the Investor, with the registry's
`lastId` for the Investor's counter of ids; a call takes a step of both or of one with the
other unchanged.

**StrategyGMXGM.** `short`, `long`, `market` are the balances `rate` reads, `pending` the
two pending amounts, `requests` what GMX holds. `known` says for which kind of
request the handler on file is GMX's. A callback from another handler reverts
(`NotGMX`), and GMX goes on: `Cleared` leaves the amount. Values are in units of the
short token, GM tokens are worth `price`. `calm`, chosen at first, is a world in which no
swap loses, no price moves and no handler is replaced.

**StrategyCamelotV3.** `impl[i]` is the storage of an implementation that decides
anything: `totalShares`, `tokenId`, `nitroPool`. `spNFTs` is NFTPool: by id, who owns the
spNFT, who may have it back from the nitro pool that owns it, and its LP tokens; an
emptied one is burned, as the comment at `contracts/StrategyCamelotV3.sol:331` says. `held` is what the
Investor's positions hold. `Upgrade` is the whole of `strategyUgrade`: `exit`, the
transfer, and `move`, which copies all but `totalShares`. Harvesting, swapping and adding
liquidity are the amount `liq` of LP tokens they end in.

**JobQueue, Scheduler.** `table` is `app_jobs`, `nextRun` and `lastRan` are `app_schedules`; `loop[n]` and
`sched[n]` are the two goroutines of a node. `SelectBatch` and `DeleteBatch` are the subquery and
the outer delete of one statement, since another node's delete may commit between the
two. The scheduler reads the clock (`ReadClock`) before the update that uses it. `Signal`,
`Exit` and `Panic` are the ways a process ends besides `Crash`: on SIGTERM `server.Close` makes
`ListenAndServe` return to `log.Fatal`, which races with `Queue.Stop` and `Scheduler.Stop`. `Handlers`
says which names a node's version of the program registers.

**Leaderboard.** `users` are the rows in order, `ledger` the points by user and reason. A
request carries the row it has read (`row`) and writes it back whole (`Put`), as
`DB.Put` does. `Die` is a panic of the request or its job, caught by the server.

**FrontEnd.** `run[r]` is a run of `runTransaction`: which call, bound to whom, awaiting
what. `conn` is the account in the wallet library's state, which follows `wallet` when
`OnChange` fires, also when it disconnects (`None`); `cookie` is shared by the tabs; `page` and `snap` are
Turbo's current body and its cached clones, each with the overlay and the notification (`notice`) of its
inline styles. A visit caches the page it leaves once, when a preview is shown or when the response is
rendered (`cached`); the visit that ends a run (`support/app/app.js:143`) goes to the page's own path and shows no
preview, but caches the page if that path is in the cache (`CachedByVisit`). Each notification starts a timer
(`timers`), which hides whatever body is there when it fires (`HideNotice`); a reload ends the timers. `Script` gives the calls a form's handler makes, in order, with the
shares they compute. A transaction that passes its simulation may revert when it is
mined, since others come in between, or the user may cancel or replace it in the wallet (`Replace`); either
way the promise of its receipt resolves and the form goes on.

## 3. Runs

| run | question | instance |
|---|---|---|
| `registry` | is what is listed what is owned, does an approval end with ownership; is it a ledger? | 2 accounts, 3 ids |
| `investor` | do the books match, does nobody's call cost others, can healthy positions be closed, and what may callers do, when yield, price, interest and statuses move? | 1 owner, 2 positions, 4 calls, 2 moves, all statuses |
| `manager` | are NFTs the manager's positions, and burned ones out of reach? | 2 users, 2 positions |
| `gmx` | one request at a time, an exact rate in a round trip, nothing after an exit, and is what is pending cleared? | 3 trades, 3 requests, calm and rough worlds |
| `camelot` | is the spNFT where the implementation looks for it, can everybody leave, does nobody pay for another? | 2 implementations, 2 nitro pools, 8 calls, 2 upgrades |
| `frontend_accounts` | who signs, and for whom, when accounts are switched or disconnected at any await; is no more burned than was asked? | 2 accounts, 1 tab, 1 run, lending and withdrawing, 2 transactions |
| `frontend_silo` | does a withdrawal burn what it frees when runs overlap; where does an announcement come from, and does it come, with cached pages, Back and timers? | 1 account, 1 tab, 2 runs, 3 transactions, caching |
| `scheduler` | one run per interval, at-most-once delivery, and is what is due served? | 2 nodes, 2 names, 1 crash, 1 stop, 5 time units |
| `leaderboard` | do totals stay within the ledger, referrals acyclic and bounded? | 3 addresses, 2 requests at a time, 4 in all, 1 death |
| `investor_partial_kill` | can any amount up to the debt be repaid? | violated, finding 1 |
| `camelot_upgrade` | are the positions' shares within totalShares? | violated, finding 2 |
| `leaderboard_sum` | is a user's total the sum of the ledger, at rest? | violated, finding 3 |

The first nine hold.

**Bounds.** Three ids are enough for every case of swap-and-pop: last, not last, sole
element, an id that comes back to an array it left. In `Investor`, `One` is 10, so that
floors matter, and amounts are chosen such that a debt of 200 on collateral of
100 is healthy at first and liquidatable after one halving of yield or price; two
positions are the least that share a pot, and four calls are two opens and two
edits or liquidations. `MaxIndex` 11 is one accrual of 10%, the `Factor` is 9 of 10, and
swaps lose two per cent, which the padding of four has to cover. Two moves of the
world are the least that combine, such as interest with a fall in price, or a lowered status with
either; a third multiplies the states by five, and what it could break is proved for any number.
In `gmx` amounts exceed the reserve many times and are odd, so that halves
differ; three requests let a deposit and a withdrawal follow each other. In `camelot` a
seed of 2 among deposits of 1 and 3 makes floors matter in every trade; eight calls are
long enough to empty an spNFT after an upgrade and to mint into a new one. `Interval` 2
and five time units are two intervals and a late clock; a crash and a stop are one
end of each kind. The leaderboard's four requests are a referrer, the one it refers,
and two more that race with them. A run of the front end begins while `MaxTxs` leaves room for its calls.
`frontend_accounts` has the two calls of one form, with a switch of accounts or a disconnection (`Choices`)
at every await, or two withdrawals by figures of the same page: of 41 shares, shown as worth 61, 50 does not buy a
whole number, and two burns of 50 are more than there is. It has no cached pages, which are in `frontend_silo`,
where one account stays connected: both together are too many states. Three transactions in
`frontend_silo` are a whole withdrawal beside the first call of another, in any order; that two go through whole, or that
a hash overwrites one that still waits in the cookie, needs a fourth, and is covered by the proofs of
`NothingStranded` and `HashesShownOnce`, which hold for any number. `Collaterals` and `Borrows`
contain 0, which `open` takes like any amount. Owners, tokens, users and addresses are symmetric: they are only
compared. Every `Max...` constant is a guard of the actions it bounds.

**Limits of the instances.** `SignsForRenderedAccount` is checked with one tab: with two, a tab
that hears of a switch after another tab has set the cookie does not reload (the
cookie is right already) and keeps the old account's figures. `OncePerInterval` and
`SchedulesInPlace` are about the schedules all versions have; see the observations for the
others. The run has nodes of one version over a table that an earlier version has left;
nodes of different versions at once are covered by the proofs, which hold for
any `Handlers`. `RateIsExact` needs `calm`: with losses or moves the pending amount, fixed at
the request, is an estimate. `StrategyGMXGM` takes a unit of `tokenShort` to be worth at least one of GM tokens,
as with the 6 decimals of USDC against 18 (`NotEmpty`; see the observations). `NothingStranded` says nothing of
an account with a withdrawal that broke off (`spoiled`), and its fee of a hundredth is the handler's own: the vesting
contract is not in the repository, so the run checks the order of the calls and the overlap of
withdrawals, not the fee. `TotalsBacked` bounds the totals from above only; lost points are the subject of
`PointsAreTheSum`. `HoldersCanLeave` ends with the first upgrade, by finding 2.

**Deadlock** is not checked where the system really stops: `gmx` and `camelot` (an exited strategy,
bounded trades, an spNFT burned with no further mint), and `leaderboard` (all requests made). The
other passing runs check it.

**Fairness.** `StrategyGMXGM!FairSpec`: GMX answers every request (weak fairness of
executing or cancelling it), which is what its protocol gives a request; neither
alternative alone is fair, for GMX may cancel what it likes, and neither the keeper's
`earn` nor the admin is assumed to do anything. `Scheduler!FairSpec`: time passes, and the
scheduler's goroutine of a node goes on while the node is up (Go's runtime schedules
runnable goroutines; `DueIsServed` ends when no node is up, so crashes and stops need no
fairness). `FrontEnd!FairSpec`: the browser finishes the visits and reloads it has begun;
the user, the wallet and the chain are not assumed to do anything.

### Findings

1. `partialKill` checks `amount` against the debt in the pool's asset and uses it as
   borrow shares (`contracts/Investor.sol:616`, `:621`, `:646`): once the index has grown the pool pulls
   more than was approved and the call reverts.
2. `StrategyCamelotV3.move` (`contracts/StrategyCamelotV3.sol:419`) takes the assets over but not
   `totalShares`, the "Total shares issued by the strategy" (`:15`). After `strategyUgrade` the positions'
   shares exceed the new contract's total: a burn of more than that underflows, and whoever
   burns up to it first takes everything. `StrategyGMXGM.move` is empty, with the same result.
3. `LeaderboardView` writes a new user's row, read before the first credit, back whole
   (`controllers/leaderboard.go:29`): a referred user's first hundred points are in the ledger and not
   in the total, which `readme.md:49` defines as the ledger's sum. No concurrency is needed.

### Observations

Other behaviour of the code that the models show and no run states, most of it
against what a comment or a page says:

- `kill` divides by the worth of the position's shares (`contracts/Investor.sol:573`): a position whose shares are
  worth nothing cannot be killed, though it has collateral.
- `PositionManager.burn` asks for no collateral, not for a closed position
  (`contracts/PositionManager.sol:268`, `"NOT_CLOSED"`): one in profit, with its collateral taken out, is burned
  with shares and debt, and only liquidation reaches it afterwards.
- A GMX answer from a handler not on file is refused (`contracts/StrategyGMXGM.sol:505`) and never repeated:
  the amount stays pending, no function clears it, and earn and exit revert. Hence the
  premise of `PendingMeansInFlight` and `PendingClears`.
- `StrategySushiswap.move` requires `totalShares == 0` (`contracts/StrategySushiswap.sol:290`) of a contract that starts with
  1_000_000: the upgrade reverts.
- `StrategyCamelotV3.file("twapPeriod")` assigns the variable to itself: the period never changes.
- After an upgrade an emptied spNFT is burned for good and `exit` reverts until the next mint.
- `call` does not look at the receipt's status (`support/app/app.js:132`): a reverted transaction is
  announced as "Confirmed", and the second call of a form is made after a reverted first.
- The overlay is part of the body that Turbo caches (`support/app/app.js:140`): a page cached while
  a transaction is sent comes back with "Sending transaction..." and nothing running.
- So is the notification (`support/app/app.js:80`): a page cached within its ten seconds announces the same hash
  again on Back or in a preview, and if it comes back after the timer has fired, nothing hides it. Hence the second
  alternative of `HashesShownOnce`; the cookie alone is read once.
- A silo withdrawal that breaks off between its two calls (`support/app/app.js:232`) leaves the freed tokens where they are, and no
  form burns them later.
- `StrategyGMXGM.earn` floors the amount it notes as pending (`contracts/StrategyGMXGM.sol:343`). With a `tokenShort` as fine as GM tokens, of 18
  decimals, an excess below the value of one unit of them is sent out with nothing pending, and a second `earn` may follow; with 6
  decimals such an excess is no unit of `tokenShort`, and GMX rejects the empty deposit.
- `log.Fatal` on SIGTERM ends the process before the two `Stop` calls have waited
  (`lib/server.go:104`): a schedule bumped a moment ago is not enqueued until its next interval, a
  batch taken is not run. Nothing persists what was taken: delivery is at most once.
- A node that does not know a schedule of a newer version bumps it with interval 0
  and drops its job as unknown (`lib/scheduler.go:69`).
- A bump that comes late, in the second half of an interval, rounds up and passes over
  one run (`lib/scheduler.go:71`).
- The check for earlier Discord points and the credit are two statements
  (`controllers/leaderboard.go:81`): two requests at once credit twice.

## 4. Proofs

For every value of the constants that satisfies the named assumptions. What is proved here and
follows from, or is only a step to, a property of the runs is not checked by TLC again: the
`TypeOK` of `PositionRegistry`, `StrategyGMXGM`, `Scheduler` and `StrategyCamelotV3`, `IndexInv`, `ApprovalsAreForOwnedIds`, `BurnIsFinal`, `EachJobInOnePlace`.

- **PositionRegistry** (`RegistryAssumption`; first part of `PositionManager_proofs`): `TypeOK`, `IndexInv` (array and places are inverse), `EnumerationMatchesOwnership`,
  `ApprovalsAreForOwnedIds`, `ApprovalsDieWithOwnership`, `BurnIsFinal`, and the refinement `ImplementsLedger`. The inductive
  invariant `Safe` joins the types (without the bounds by `MaxId`), `IndexInv` and the
  approvals. It is needed because neither the array nor the places are right by
  themselves: swap-and-pop reads a place to find what to overwrite, and the
  unchecked decrement is only right when the balance is the array's length.
  Lemmas about one struct (`WithoutWellFormed`, `WithWellFormed`) carry the two
  halves of `moveId`; `MintSafe`, `BurnSafe`, `TransferSafe` put them together, transfers to
  oneself included. That no place exceeds `MaxId` follows afterwards by counting:
  an array without repetitions is not longer than the set of ids. The
  refinement has one step per call.
- **Investor** (`InvestorAssumption`): `TypeOK`, `SharesBacked`, `DebtMatches`, `CollateralBacked`; `NoDilution`,
  `HealthyStaysHealthy`, `FeesNeverSpent`, `ChangesAreGated`, `ClosingRepaysAll`, `LiquidatorPremium`. The types and the
  three totals are inductive only together: that `debt`, `totalShares` or the Bank never goes
  below zero when a position repays, sells or takes out rests on the totals being sums
  over the positions, and that they stay sums rests on the amounts being natural numbers.
  `IInv` adds that ids up to the counter, and no others, are positions (`Opened`), and that
  only those changed in this block (`BlockOpened`). Each part of a call is a
  lemma on books: it keeps the differences between the totals and the position (`Keeps`) when the position fits
  into the totals (`Fits`). A call is then a `Trade` of one position, and the action
  properties are consequences of what a trade, or a step of the world, does. `LiquidatorPremium`
  was tightened on the way: no unit of rounding has to be granted to the liquidator. `HealthyCanClose` is
  not true of all constants, so `HealthyClose` has two conditions. `PaddingCovers`: for every loss l in
  basis points, 10000 is at most (1 - l/10000) times 10400, and the factor is at most 1 - l/10000; the Investor's slippage
  of 200 (`contracts/Investor.sol:24`) and the factors 0.9 and 0.95 of `contracts/Deploy.s.sol:203` are within it, a loss
  of 400 is not. `FineTokens`: a unit of a collateral token is worth at most a 51st of one of the pool's asset, or is one of
  it; WETH, with 18 decimals against 6, and USDC.e are such, a token of 8 decimals at a high price is not, and there a few
  units missing convert to no collateral at all. Either all of the collateral is sold, and the factor
  covers the losses (`FactorCovers`), or a padded part of it, and 4% of one unit pay for the three roundings (`PaddedWorth`, `PaddingPays`).
- **SumTheorems**: a sum over a finite set, when one term changes and when all agree. The sum is a
  recursive function; the library's induction theorems take an operator, so induction is stated here for
  membership of a set and proved from the least element of a set of natural numbers.
- **PositionManager** (`ManagerAssumption`, which contains the Investor's, and `RegistryAssumption`): `TokensArePositions`,
  `BurnedIsOutOfReach`, and that every behaviour of the composition is one of the registry (`KeepsRegistry`) and, through
  the mapping of the instance, one of the Investor (`PositionsKept`). The invariant `MInv` needs of the
  Investor only that no call changes the owner of a position: one lemma for each part of
  a call says so. With `KeepsRegistry` the registry's results are theorems of the
  composition: `EnumerationMatchesOwnership`, `ApprovalsDieWithOwnership`, `BurnIsFinal` and the refinement
  `ImplementsLedger` hold of NFTs that stand for positions, with direct users and liquidators beside them.
- **Leaderboard** (`LeaderboardAssumption`): `TypeOK`, `TotalsBacked`, `ReferredByEarlier`, `ReferralBudget`. None of
  the last three is inductive. Between the insert of a credit's row and the update of the
  total the ledger is ahead by the credit, so totals are compared with the ledger less what
  is `Pending`; a row read earlier is written back later, so every row in the hands of
  a request must satisfy the same (`Fine`); and a cascade of referrals is paid step by step, so the
  budget counts what the requests in progress still owe (`Owing`): three times the points
  of a credit to a referrer, and what it may bring to the next. `Counted` bounds the users by the requests
  made. TLC checked `IInv` before it was proved. The theorems hold for any finite number of
  requests at once.
- **StrategyGMXGM** (`StrategyAssumption`): `TypeOK`, `OneRequestAtATime`,
  `NothingArrivesAfterExit`, `PendingMeansInFlight`, `RateIsExact`. `Safe` adds to
  the types that every request has its amount pending (`Tracked`, so that earn's
  and exit's check of the amounts is a check of the requests), that there is at
  most one (`Single`), that an exited strategy holds nothing (`Emptied`) and that the
  initial shares stay (`Seeded`, so that `rate` never divides by zero). The arithmetic
  is in lemmas about floor division and basis points. `RateIsExact` needs two facts more: what is
  pending is what the request is worth in GM tokens, rounded down (`Exact`), and nothing
  is pending without a request (`Served`); the only error is then the division by the price.
- **StrategyCamelotV3** (`CamelotAssumption`): `TypeOK`, `SpNFTInReach`, `HoldersCanLeave`, `RateNeverFalls`.
  `SpNFTInReach` alone is not inductive: a mint that finds no LP tokens makes a new spNFT in
  hand, which is right only when no nitro pool is recorded, so `IInv` adds that a recorded
  nitro pool holds some (`NitroHoldsSome`). `HoldersCanLeave` rests on `SeedStays`: until an upgrade the
  shares nobody holds are exactly the initial ones, so every holder's part is a true
  part and its floor is less than the whole (`PartOfAll`). `MintKeepsRate` and `TakeKeepsRate` are the
  roundings. One lemma per action; `PutInReach` is shared by those that move the spNFT.
- **JobQueue** (`JobQueueAssumption`; first part of `Scheduler_proofs`): the types, `EachJobInOnePlace`, and that the nodes' loops implement
  `Delivery`. The invariant adds that a node that is down has ended its loop. Every step is
  first shown to be one of four kinds (a job is added, moved to a node, over, or
  nothing moves), and the properties are proved of the kinds.
- **Scheduler** (`SchedulerAssumption` too): `TypeOK`, `SchedulesInPlace`, `OncePerInterval`; and, since every step
  leaves the queue's variables alone or is a step of the queue, `EachJobInOnePlace` and
  `ImplementsDelivery` of the whole node. The invariant says what a node between its two reads of
  the table has still to insert (`AlignKeepsCommon`), and that a next run comes after the interval
  of the last one (`NextAfterLast`), which is why a second bump with an older clock fails. These
  theorems hold for any number of nodes and any mix of versions.
- **FrontEnd** (`FrontEndAssumption`): `TypeOK`, `RecipientIsSigner`, `BurnsWhatWasAsked`, `HashesShownOnce`, `NothingStranded`,
  for any numbers of accounts, tabs, runs and transactions, where the runs of TLC have one tab; and,
  for one tab, `SignsForRenderedAccount`. The invariant `Inv` says what holds between two awaits of a run.
  *Calls* (`CallsInv`): a run's call fits the page it was made from, what is still to be called is at most one
  call, and never an approval, a burn or a deallocation; `CappedSharesFit` is the rounding. *Hashes* (`HashInv`): a hash
  belongs to one run, at one place of its list, until the run puts it into the cookie, so a hash in the cookie
  cannot have been shown (`CookieUnread`); without this, two runs could announce the same. `HashesShownOnce` is then a
matter of each step: a body gets a notification from the cookie or brings one along from the cache of its
tab (`LoadNotice`). *Withdrawals* (`WithdrawInv`): the
  two calls come in their order with their amounts (`Stage`), the second only after the first is mined; a deallocation
  still to be mined is the first call of a run in progress, or its account is among the `spoiled`. *Free tokens* (`FreeInv`):
  what an account has free is at most the sum, over its withdrawals in progress, of what they have
  freed and not burned. `NothingStranded` cannot be had run by run: two withdrawals of an account submitted at once
  may burn each other's tokens, and a burn by the one whose own deallocation has reverted takes
  what the other needs; only the sum is bounded. One lemma per action and conjunct, over the
  few ways the runs change (`OneRunKept`, `RunsEnded`). TLC checked `Inv` on instances of the size of the runs'
  before it was proved. `SignsForRenderedAccount` has `OneTab` as premise, since it is false with two (see
  the limits above); `TabInv` says that account of the tab, cookie, page and cached pages agree unless a reload is coming.
  `Runs` is assumed finite for the sum, and the model's functions of the contracts are listed (`AllFns`), as
  the provers know of no string that it is one.

Only model-checked: liveness (`PendingClears`, `DueIsServed`, `HashIsShown`), which is beyond the prover; and
`HealthyCanClose` where its two conditions fail, as the price of 5 does in the run.
That the Investor's theorems hold in `PositionManager`, which instantiates it, is said here and not by a theorem, because
the prover does not see theorems through `INSTANCE`; `PositionsKept` is the step that is proved.

## 5. Not modelled, and what remains

- `StrategySushiswap`: its share arithmetic is `Investor`'s vault; its `sqrt` and `log2` are views. `Helper`: one
  call around `kill` without state. `Store`: its deltas and setters are the variables of the
  other modules, its enumerable sets have no caller. `Bank`, `Whitelist`, `InvestorStrategyProxy`: a guarded
  transfer, a toggle, a forwarder.
- `lib/cache.go`: `Try` reads, computes and writes one row; requests that race leave a
  value that one of them computed. Sessions are single inserts and reads; migrations are
  run by hand, one after the other, and a step and its record are two statements
  (`lib/jobs_db.go:101`).
- HTTP plumbing, templates, RPC encoding, the SVG of a token, the hourly automation's
  one call, one-off scripts in `support/`, deployment addresses: no state over time.
- Most of the repository's JavaScript is not its own: `assets/app.js` is a bundle of the
  wallet library (89,000 lines), `assets/turbo.js`, `turbolinks.js` and `trix.js` are libraries. Only
  the functions that `support/app/app.js` awaits are modelled, from the bundle, so that the modelled share
  of all JavaScript is small while `app.js`'s own handlers are all there but for
  the live labels (`updateFarmOpen`, `updateFarmEdit`, `updateSilo`) and the modal. Vendored Solidity (`lib/forge-std`,
  `contracts/vendor`), `out/` and `cache/` are left out too.
- In the modelled contracts: the whitelist check (a constant guard), the setters of
  caps, paddings and slippage (constants here), xGrail's redemption, events, native gas
  payments to GMX.

What remains: GMX's and Sushi's strategies under `strategyUgrade`, and `HealthyCanClose` with the swaps' losses as
a strategy and as the Investor bound them separately.
