# A formal model of VoidChainApp

VoidChainApp sells 1,111 deeds. Each deed is a "chain": applications are
published on it, users call them and pay a toll in VOID, and whoever holds the
deed earns 98% of it. Users need no ETH: they sign a request, a relayer sends it,
and a paymaster pays the relayer in ETH against VOID of the user. The contracts
(`contracts/`) are Solidity; a relay, an indexer with its database, a web
application and scripts (`web/`, `indexer/`, `db/`, `script/`) are TypeScript
around them.

This directory holds TLA+ models of what carries that business, the TLC runs that
check them on small instances, and TLAPS proofs, for instances of any size, that
the books are solvent, that the relayer never signs two transactions with a
nonce, and of who may do what on a chain. Paths below are relative to the
repository; `contracts/parent/` is the home of any contract named without a path.

## 1. Inventory

| Component | State | Operations | Talks to |
|---|---|---|---|
| Runtime (`VoidChainAppRuntime` V1, V3 to V11) | per chain: active, fee, open or closed, pending revenue and its owner; applications and publishers; DAOs and toll ceilings; emergency switches; the open execution and its budgets | wiring, `activate`, `setFee`, `registerApp`, `execute*`, `spendFrom`, `spendNftFrom`, `flush`, `claimOwed`, `sweepProtocol`, pauses | token, deeds, oracle, treasury; hands control to applications |
| Treasury (`VoidChainTreasury`) | claimable balances, settler scopes, the protocol's recipient | `settle`, `settleTo`, `creditTo`, `claim`, `claimFor`, governance | token, deeds |
| VOID token, deeds (`contracts/genesis/VoidTokenV9`, `VoidChainDeed`) | balances, checkpoints; owners, permits, ownership epochs | transfers, frozen operators; transfers, permits, identity | everybody |
| Factories (`VoidChainAppFactoryV3`, `VoidChainDaoFactory`) | what has been deployed | `publish`, `create` | runtime |
| Paymaster (`VoidPaymaster`) | ETH reserve, two VOID accounts, nonces, block and day budgets, limits | `sponsor*`, `refill`, `burnSurplus`, withdrawals, governance | runtime, token, oracle, pool |
| Chain DAO, votes (`VoidChainDao`, `VoidGovernanceVotesV9`) and its panel (`web/app/DaoPanel.tsx`) | proposals, votes, checkpoints; what the panel last read | `propose`, `castVote`, `execute`; refresh, simulate, send | deeds, token, runtime |
| Protocol timelock, emission vault (`VoidProtocolTimelock`, `genesis/VoidEmissionVaultV11`) | scheduled operations; scheduled emissions, epochs | `schedule`, `cancel`, `execute` (open to all) | everything governed; token |
| Revenue claimer (`VoidRevenueClaimerV11`) and button (`web/app/RevenueClaimButton.tsx`) | none; what the button read | `claimAll`; three transactions | runtime, treasury |
| Price oracle (`VoidPriceOracle`, `genesis/VoidTwapOracleV6`, `VoidTwapFreshnessGuardV6`) and keepers (`web/app/api/cron/twap`, `script/update-v6-twap.ts`, `script/paymaster-keeper.ts`) | observations | `bootstrap`, `update`, reads; update and refill | pool, paymaster |
| Genesis (`genesis/VoidGenesisEscrowV6`, `VoidEthGenesisMintV6`, `VoidEthPoolV6`) | escrowed supply, mint counters, reserves | mint, seal, release, swaps | token, deeds, paymaster |
| NFT AMM (`genesis/VoidGenesisNftAmmV6`) | inventory as a linked list, VOID for it | sell, buy, donation | escrow, runtime, staking |
| Soft staking (`genesis/VoidSoftStakingV9`) | positions, reward stream | `activate`, `invalidate`, `claim`, `syncRewards` | token, deeds |
| L3 registry and chain control (`VoidL3MigrationRegistry`, `VoidChainController`, `VoidChainRevenueRouter`, `contracts/child/`) | plans; fees, executors, proposals | `plan`, `activate`, `retire`; cross-chain tickets | treasury |
| Applications (`contracts/apps/`), test-network contracts | their own | anything | runtime |
| Relay (`web/lib/durable-relay.ts`, `relay-guard.ts`, `web/app/relay`, `web/app/api/market/sponsor`) | an outbox table, reservations, quotas, an advisory lock | reserve, simulate, queue, journal, broadcast, report, refuse | paymaster, PostgreSQL, an RPC node |
| Indexer (`indexer/src`, `web/lib/chain-indexer.ts`) and pages (`web/lib/chains.ts`) | cursor and its hash, derived rows, an advisory lock | passes of a cron and of a daemon, reset, repair; queries | reads the contracts |
| Web application (`web/app`, `web/lib`) | profiles in the database; in each page what it last read | save a profile; market page, editors, directory | relay, indexer, wallets |
| Release scripts (`script/deploy-testnet-v10.ts`, `-v11.ts`, `finalize-*`, `audit-*`) | a file with what was sent | stage, finalise, audit | every contract |
| Scans (`script/monitor-public-v11.ts`, `snapshot-testnet-v11.ts`) | a file with a cursor | scan logs, publish | reads the contracts |

What is hard in it:

* **Control leaves in the middle.** `_execute` calls an application, and
  `_sponsor` calls `_execute`. Until they return, the application and whatever it
  calls may do everything `nonReentrant` does not close: sell deeds, change
  prices, withdraw applications, settle on the treasury, execute matured
  governance operations.
* **Revenue changes books while deeds change hands.** A toll is pending for the
  holder of the moment, parked when the deed is sold, credited at the treasury,
  withdrawn; each step by anybody and in any order.
* **One balance backs several promises.** The paymaster's VOID is replacement,
  margin and the prefund of an open call; the runtime's is pending, parked and
  the protocol's; the AMM's pays for every deed outside.
* **Failure inside success.** The call of a sponsored request may fail and be
  undone while the sponsorship stands.
* **Prices and limits are read more than once**, and may have changed.
* **A worker may die at every await** and its database session - with the lock it
  held - before it. A commit may succeed and its answer be lost; a broadcast may
  be lost in either direction; a chain reorganises under a cursor; a script dies
  between sending a transaction and writing down that it did.
* **Pages show the past.** An answer may be late, of another account, or of the
  chain before an edit; a form signs what its page had loaded.

What makes each component correct, in a line: the runtime spends only what was
signed and holds what it owes; the treasury pays every credit, once, to its
owner; the paymaster bills a request once, never fails after validating, and
keeps both accounts whole; a DAO counts each wallet's VOID once, as of
the snapshot, and executes nothing voted under a former holder of the deed; the
timelock and the vault let out what was decided, as often as it was decided and
no faster than the cap; the AMM can pay every deed and sells each one once;
staking never owes more than it received; the price is the average of one whole
window; the relay never signs two transactions with a nonce nor pays for a
request twice, and its queue drains; the explorer shows one fork of the chain and
catches up with it; a profile is one signature's; pages show their newest answer;
a release takes effect in its order, however often it is rerun; and a scan
publishes the state at the block it names; where that fails, section 3 says how.

## 2. What is modelled

| Module | Models | Extends |
|---|---|---|
| `Assets` | VOID balances and deed ownership | |
| `Treasury` | `VoidChainTreasury`; `TreasurySpec` is the treasury alone | `Assets` |
| `AppRuntime` | `VoidChainAppRuntime` with its V3 and V6 forms; `Spec` is the composition of runtime, treasury and assets | `Treasury` |
| `Authority` | `AppRuntime` with history variables: who called, who published | `AppRuntime` |
| `Earnings` | the abstract promise about revenue; `AppRuntime` implements it | |
| `Paymaster` | `VoidPaymaster` in composition with all of the above | `AppRuntime` |
| `Sponsorship` | `Paymaster` with history variables and its properties | `Paymaster` |
| `Relay` | both relay routes, the reservations and the write-ahead outbox, with their faults | |
| `Outbox` | the abstract promise about the relayer's transactions; `Relay` implements it | |
| `Indexer` | a pass of the cron and of the daemon, await by await, over a chain that reorganises, and the queries of the pages | |
| `Mirror` | the abstract promise about the explorer's database; `Indexer` implements it | |
| `Admission` | the quota of signed requests, of the relay and of profiles | |
| `Profiles` | the two editors of a profile, the route and the saving transaction | |
| `Market` | the market page: polls, accounts, a trade from the button to the receipt | |
| `ChainDao` | the DAO of one deed and the panel that uses it | |
| `Claims` | the claim button and `claimAll` over the books of runtime and treasury | |
| `Keepers` | pool, oracle, guard and the overlapping keepers | |
| `Emissions` | timelock and emission vault | |
| `NftVault` | the market of deeds, with the escrow's backing | |
| `SoftStaking` | positions and the reward stream | |
| `ChainCard`, `Directory` | the card of a chain with its editors; the list of cards | |
| `Cutover` | the staged releases V10 and V11, their second scripts, the audit and the security page | |
| `Scans` | the public monitor and the inventory before a migration | |
| `Sums`, `*Proofs` | lemmas and proofs | |
| `MC*` | instances for TLC | |

### Contracts

**One step per transaction, except around an application.** A transaction runs
alone and a failed one leaves no trace, so a function is one action whose guards
are the code's reverts. An execution is three parts: `Execute` (checks, toll,
budgets, `executingChain`), the steps taken while `executing # Idle`, and
`Return` (the rest of `_execute`). An execution that fails is undone altogether:
it is the behaviour in which it was not taken. `Return` may therefore come at any
time, after any number of steps, and the other calls of the open execution are
ordinary actions with any caller: what an application does, and makes others do,
is not limited to what honest applications do. The lock shows as the guard
`executing = Idle` of `flush`, `claimOwed`, `sweepProtocol` and every `execute`.

A sponsored call has the same shape one level up: `Sponsor` (`_validate` and the
prefund), `RunCall` (the runtime's `executeForWithBudget`), the application's
steps, `Return`, `Finish` (the settlement). `Finish` without `RunCall` is the call
that failed inside. Between `Sponsor` and `RunCall`, and between `Return` and
`Finish`, no application has control and nobody else acts (`Interleaved`).

**Correspondence.** Variables keep the names of the code where they can:
`pending`, `pendingOwner`, `owed`, `protocolAccrued`, `claimable`,
`settlerScope`, `spendBudget`, `nftBudget`, `publisherOf`, `daoOf`,
`reimbursable`, `surplus`, `nonces`. `apps[t]` is the set of applications for which
`belongsTo[t]` holds; `ceiling[t]` is `None` until `hasTollCeiling`;
`treasuryRevenue` and `appRevenue` are the two `lifetimeRevenue`s; `executing` collects
`executingChain`, `executingCaller`, `executingSpendPayer` and the lists
(`budgetedTokens`, ...) that `Return` clears by; `limits` collects the
paymaster's parameters; `sponsoring` holds the locals of `_sponsor`, among them
the toll pinned at validation. The map in `PROJECT.json` gives the lines of every
definition.

**The two contracts in `AppRuntime`.** `DirectRuntime = TRUE` is the base contract,
where anyone registers an application and executes for himself. `FALSE` is V3 and
later, where both always revert and `VoidChainAppFactoryV3.publish` registers.

**Abstractions.** Payloads, events, names, signatures and permits are left out: a
request is one its user signed. The oracle answers any value of a bounded set at
every read, so a price may change between validation and settlement, and it
always answers; where its answer comes from is `Keepers`. Gas is a number from a
bounded set; what a call may cost at worst and what it cost are chosen
independently, so the latches of `_sponsor` are exercised. ETH is counted only in
the paymaster; a relayer accepts what it is sent. A token other than VOID and a
collection other than the deeds keep their own ledger and are represented by
their budgets. Amounts are unbounded naturals: the code's 256-bit arithmetic
reverts on overflow, and supply and prices stay far from it.

**Initial states.** Chains of `Imported` are configured, open and priced, as the
V6 constructor writes them, but with nothing pending: what a replaced runtime
still owed has to be paid into the new one by the deployment, which no contract
enforces.

### Relay

A worker is one invocation of a route; each of its steps ends at an await.
`pc[w]` names the await it is at; `req`, `seen`, `tx` are its locals. `reservation`,
`outbox` and `lock` are the tables `relay_requests`, `relayer_transactions` and the
advisory lock; `eoa`, `paid` and `receipts` are the chain, `mempool` the node.
Faults: a worker dies (`Crash`), its session and the lock go (`LoseSession`), the
insert is committed and its answer lost or nothing is written (`Journal`), a
broadcast is lost in either direction (`Broadcast`, `Rebroadcast`), the node
forgets a transaction (`Forget`), a request's deadline or price passes on the way
(`Decay`). A transaction carries the worker that signed it, so that two signatures
of one request are two transactions.

### Indexer

`chain` is the parent chain from `FIRST_BLOCK` on and `Fork(n)`, the history up to
block n, is that block's hash: a hash commits to everything below it. `Extend` and
`Reorg` change it between any two steps of a pass, `Reorg` to any depth; it replaces
blocks by as many others, the first of them of another kind. `rows` are the recorded
events, each named by the block it was read from.

`pc[w]` names the await an indexer is at. In the order of the code: `Acquire`;
`SelectDeployment` and, for a new deployment, `AlignDeployment` and `Import`; the check of the
saved hash (`SelectState`, `GetSavedBlock`, then `AdoptHash` or `Reset`);
`HydrateImportedRuntimeState` (read, then write); `ReadCursor` and
`GetBlockNumber`, in one order for the cron and in the other for the daemon;
`HydrateDeedMetadata` (the cron only: select, read, write); `GetStateLogs`, `GetRecordedLogs`,
`Blocks` (one block at a time, refusing mixed forks), `GetHeadBlock`, and `WritePass`, one
transaction. `TellCursor` is `cursor()` where the daemon calls it for its log: it
inserts the row. Two pairs of reads are one step each: of the eleven `getLogs`, those of
one half, and `configured` with `statsOf`, of which only the second one's answer is kept. `Fail` is
a read or write that fails, `Crash` the death of the process, `LoseSession` the
loss of the lock while the pass goes on.

*What `disturbed` means.* The code trusts blocks below `CONFIRMATIONS` and looks at each
block it used once more; after its last look, nothing tells it that the block was
replaced. The history variable `disturbed` records that this happened, in one of
three ways. (1) A reorganisation deeper than `CONFIRMATIONS` that the code does
not survive, by the definition `Survives`: it does when what was replaced is neither shown
nor relied on, when the pass that relies on it still has the block's hash to check
and so refuses, and when the only indexer under way has yet to compare the cursor's block.
(2) A session lost while a reset is due (`Canonical` is false): the two indexers
then drop and write in turn. (3) A pass without the lock that adopts a hash for
a cursor that another has moved meanwhile (`AdoptHash`). `OneForkShown`, `MirrorsOneFork`,
`CatchesUp` and one half of `TotalsCountCalls` are claimed until then; deep
reorganisations in mid-pass that are refused, or come before the comparison, are within
the claim. The run `mixed_fork` shows what the first way leaves behind.

### Services

Thirteen small modules share no state with each other: what one needs of another
(a quote, a revenue, a receipt) it takes as any value the other may give.
`MCServices` puts them in one instance: an initial state names one service, only
its actions are enabled, and the other variables rest. This is no composition, and
none is claimed; it keeps thirteen questions of one kind - does what is shown,
saved, scheduled or paid survive the interleavings around it - in one run.

Where state is read before an await and used after it, the read and the use are
two steps: the page's answers travel (`Market`), the panel and the button decide on
what they read (`ChainDao`, `Claims`), a keeper sends what it planned (`Keepers`), an
editor submits what its page had loaded (`Profiles`, `ChainCard`), a script's file
says what it had sent (`Cutover`), and a scan's cursor is what an earlier pass
confirmed (`Scans`). The identity's form is typed into the state the card
shows; `typed` and `since` in `ChainCard` say which of its fields no longer come from the chain.

## 3. What the runs show

| Run | Instance | Checks | Distinct states |
|---|---|---|---|
| `runtime` | `MCRuntime`: 2 wallets, 2 chains, 2 applications, along one of three questions: tolls of 1 and 60 with deed sales also in mid-call; the treasury alone with settlers of one chain or of both; budgets in 2 tokens and a deed over 2 calls | `TypeOK`, `RuntimeSolvent`, `NothingStranded`, `TreasurySolvent`, `BudgetDiesWithCall`, `RevenueBelongsToEarner`, `CreditsAreKept`, `NoDustStranded`, `OnlySigned` | 267 thousand |
| `policy` | `MCPolicy`: 2 chains from before their DAOs exist | `ActiveHasDao`, `PriceFollowsDao`, `OnlyBuilderWithdraws` | 523 thousand |
| `paymaster` | `MCPaymaster`: 2 chains, 2 requests, 2 prices, 2 days | `AccountsBacked`, `NothingRevertsAfterValidation`, `RequestBilledOnce`, `OneChainOneQuarter` | 3.0 million |
| `relay` | `MCRelay`: 2 concurrent invocations, 3 requests, two of them of one user for one nonce, 1 fault | `RelayTypeOK`, `WriteAhead`, `OneTransactionPerNonce`, `NoSecondPayment`, `OneOutstanding`, `OutboxDrains` | 505 thousand |
| `explorer` | `MCIndexer`: a cron and a daemon, 3 blocks, 1 reorganisation of up to 3 blocks at 1 confirmation at any step, 1 fault | `OneForkShown`, `TotalsCountCalls`, `MirrorsOneFork`, `CatchesUp`, `RepairsStatus` | 1.5 million |
| `services` | `MCServices`: each of the thirteen services, from each of its initial states | `QuotaHolds`, `StoredAsSigned`, `ShowsNewestAnswer`, `StagedInOrder`, `NoVoidVotesTwice`, `PriceIsWindowAverage`, `EmissionsArePaced`, `PublishedAtItsHash`, `CardTellsTruth`, `EveryDeedCanBeSold`, `StakersFunded`, `DirectoryListsWhatItFound`, `ClaimedByItsEarner` | 1.3 million |
| `reregister` | `MCPolicy`, base contract | finds `OnlyBuilderWithdraws` violated | |
| `closed_chain` | `MCPolicy`, V3 and later | finds `ClosedChainAdmitsThroughDao` violated | |
| `sweep` | `MCPaymaster`, governance sweeps in mid-call | finds `AccountsUntouchedBySweep` violated | |
| `mixed_fork` | `MCIndexer`, without faults | finds `MixedForksRefused` violated | |
| `withdrawn_apps` | `Scans`, 1 application, 4 blocks | finds `InventoryIsFresh` violated | |
| `rolling_epoch` | `MCRolling`: 2 emissions of a whole cap | finds `RollingCeiling` violated | |

The properties, and what would break them:

* `RuntimeSolvent`, `TreasurySolvent`: the VOID behind pending, parked, accrued
  and credited amounts is there. A cut counted twice, a book not cleared, a credit
  of the gross breaks them.
* `RevenueBelongsToEarner`: refinement. Under the mapping `due[u]` = what is
  pending in u's name, parked for u and credited to u, every step of runtime and
  treasury is a step of `Earnings`, which knows only who earned what. Flushing to
  the present holder breaks it.
* `NothingStranded`: with the runtime authorised, whatever is pending, parked,
  credited or accrued can be collected at once; the call that does it is enabled.
  The promise "open to anyone" of `flush` and `claimOwed` is this.
* `OnlySigned`, `BudgetDiesWithCall`: VOID and deeds move without their holder's
  own call only within the open execution and its signature, and the signature is
  worth nothing afterwards.
* `PriceFollowsDao`, `ActiveHasDao`, `OnlyBuilderWithdraws`: who governs what, across
  deed sales, pauses and withdrawn applications that are published again.
* `CreditsAreKept`: changing the protocol's recipient, a settler or the governor
  takes nothing from anybody. `NoDustStranded`: every unit that comes in with a
  settlement has an owner.
* `AccountsBacked`: the paymaster holds both accounts and the prefund of the open
  call. `NothingRevertsAfterValidation`: whatever the application did and the call
  cost, `Finish` is possible. `RequestBilledOnce`: also when the call failed inside.
  `OneChainOneQuarter`: the daily ETH paid for one chain is within a quarter of
  the highest reserve of that day.
* `WriteAhead`, `OneTransactionPerNonce`: what the network has is in the database,
  and no two signatures compete for a nonce, though the lock may be lost while
  its holder goes on. Broadcasting before the commit, or reading the nonce of the
  chain without looking at the outbox, breaks them. `NoSecondPayment`: a second
  transaction for a signed nonce exists only after the first has reverted.
* `OneOutstanding`: refinement. The journal in the order of its nonces is the queue
  of `Outbox`, which decides one transaction at a time. `OutboxDrains`: liveness;
  what was journaled is included, whatever was lost.
* `OneForkShown`: until the projection is disturbed, while the cursor is on the chain
  no row is of an abandoned fork and no event below the cursor is missing. Fetching
  the blocks of the logs without comparing their hashes breaks it. `TotalsCountCalls`: a total is the
  imported calls and the rows counted, whatever was reorganised or replayed; a page
  that has room under its limit lists every one of them, and until disturbed the
  profile's revenue is within the card's. `MirrorsOneFork`: refinement of
  `Mirror`, until disturbed. `CatchesUp`: liveness; what a reset dropped comes back and
  the rows are in the end those of the confirmed chain, or the projection was disturbed.
  `RepairsStatus`: in any case.
* `QuotaHolds`: in every minute of the table, though `now()` is when a transaction
  began. `StoredAsSigned`: one signature's name with its own links, once.
  `ShowsNewestAnswer`: the generation check of the page. `NoVoidVotesTwice`: VOID
  that moves between wallets during a vote. `ClaimedByItsEarner`: who is paid when a deed
  is sold between the button's transactions, and what `claimAll` leaves.
* `PriceIsWindowAverage`: keepers that race and swaps that crowd. `EmissionsArePaced`: one
  emission for one decision, at least both delays later, within the cap of its
  epoch. `EveryDeedCanBeSold`: solvency and the linked list of the AMM.
  `StakersFunded`: integer rates and quotients never promise more than was received.
* `StagedInOrder`: no step of a release before the ones it needs, across crashes,
  reruns and reverts, and what audit and security page mean. `PublishedAtItsHash`:
  the monitor's applications and the inventory's balances are those of the block
  whose hash is published, over reorganisations between the reads; for the monitor until a
  file's block is abandoned between its comparison and the next pin (`straddled`),
  after which the second look does not help; the inventory's applications
  are those ever registered, which is not what it promises (`withdrawn_apps`).
  `CardTellsTruth`: a name or status shown is one the chain had since the card was opened; of an identity that
  is claimed of what its visitor has not typed since, for a draft stays after a
  declined or reverted edit. `DirectoryListsWhatItFound`: what a search shows.

Every property of a passing run has a mutant: an operator beside the definition
it replaces, with a bug that code like this could have (a dropped guard, a book
not cleared, the current holder instead of the recorded one, a broadcast before
the commit), under which TLC finds the property violated.

**Bounds, and why they are enough.** They are the constants marked as bounds in the
modules. Contracts: two chains and two wallets are what a deed sale, a settler of
the wrong chain or an application of another chain needs; two calls are what an
inherited budget or a parked balance needs; tolls of 1 and 60 are the two sides of
the 2% rule (the first is all floor, the second rounds down); two prices and two
costs make the charge end under, at and over the signed ceiling; two days and
two requests fill and renew the daily budget. In `runtime` each
question leaves out the actions the others are about; `policy`
has the remaining ones, and the proofs have all of them interleaved.

Relay: two invocations compete for everything there is one of (nonce, lock,
reservation); three requests of two users contain both kinds of conflict, over the
user's nonce and over the relayer's; one fault at any place is each fault of the
list, and reservations expire and requests decay besides. With two faults the
state space is beyond five minutes; the safety properties and the refinement
of `Outbox` are proved for any number of faults and workers.

Explorer: three blocks, passes of one block and one confirmation give several
passes, a head the cursor may not follow yet, and a reorganisation both within and
beyond the confirmations, at any step. One cron and one daemon are the two programs; with a
lost session they overlap. `DETAIL_LIMIT` is 1 (25 in the code), so that a second call
passes the limit. `Mixes` bounds what happens on one chain: calls and settlements, or a
pause; resumptions and sales do not happen in the run, and do in the proofs.

Services: the constants are the smallest in which the hazard of each module
occurs: three submissions at a limit of two; two tabs; two accounts and three
refreshes; three blocks of votes with one sale; a window, its staleness and one
tick more; two epochs and a decision repeated; four deeds in the list, so that one
leaves from the middle; three days of a stream of two; three chains on pages of
two, searched by number, chain id and term. In `Profiles` each tab signs once.

The results that are proved (section 4) do not rest on the bounds. Instances that
list only the actions their question is about say so in their `MC` modules.

Deadlock is not checked: a protocol in which nobody has anything to do may stop,
and the instances stop at their bounds.

**Fairness and liveness.** No contract acts by itself and nobody is obliged to
call, so for the contracts none is assumed and no liveness claimed; what their
code does promise is that the call would succeed, and that is a safety property
with `ENABLED` (`NothingStranded`, `NothingRevertsAfterValidation`).

`RelayFairness`: an invocation that is not killed reaches its next await (the
routes bound every wait: 15 seconds for the lock, 45 for a receipt); the chain
includes what its node holds; a reservation expires after ten minutes; and users
keep sending requests, since without traffic nothing looks at the outbox.
`OutboxDrains` says so in its consequent: it excuses a relay to which nobody can
send a request that passes. Faults are not fair: they happen at most `MaxFaults`
times, for a service that is never left alone promises nothing.

`IndexerFairness`: a pass under way goes on, and the cron is called again and again
(`web/vercel.json` schedules it, every minute); nobody promises that a daemon is ever started, so its
`Acquire` is not fair. Reorganisations and faults end at their bounds, as "eventually"
requires. `RepairsStatus` assumes in addition that the daemon does not hold the
lock for ever, because only the cron's pass reads the status anew.

### Disagreements found

1. **`reregister`.** On the base runtime `registerApp` writes `publisherOf` also for
   an application that is already registered (`VoidChainAppRuntime.sol:661-662`). A
   second caller becomes the publisher and may withdraw it, though "ONLY THE
   PUBLISHER can withdraw it" (line 668). From V3 on, the factory registers an
   application once, and `policy` shows the property to hold.
2. **`closed_chain`.** "A closed chain admits a new app only through its DAO" (line
   632). From V3 on the caller that test sees is the factory
   (`VoidChainAppRuntimeV3.sol:78`), so a closed chain admits nothing, its DAO's
   own applications included, until it is opened to all.
3. **`sweep`.** `sweepUnaccounted` "only reaches the excess over the two accounts"
   (`VoidPaymaster.sol:1171-1172`). It is not `nonReentrant`: executed during a sponsored call, the prefund
   is part of the excess, and the refund of that call is then paid out of the
   accounts. `initializeMigrationAccounting` reads the balance the same way. Both need a
   matured governance operation to be executed in mid-call; `AccountsBacked` and
   `NothingRevertsAfterValidation` are claimed for behaviours without that, which
   the history variable `disturbed` tells apart.

4. **`mixed_fork`.** "RPC logs and block hash disagree; refusing mixed-fork events"
   (`web/lib/chain-indexer.ts:238`, `indexer/src/index.ts:100`). The comparison
   comes before the hash of the range's last block is fetched (`:456`, `:220`), and nothing
   compares the two: blocks replaced between them, deeper than the confirmations,
   leave rows of the old fork under a hash that every later check finds canonical.
5. **`withdrawn_apps`.** The "fresh read-only inventory" (`script/snapshot-testnet-v11.ts:1`)
   declares `AppUnregistered` with three arguments (`:16`); the contract's has
   two (`VoidChainAppRuntime.sol:356`). The filter matches nothing, the deletion of
   `:116` never happens, and withdrawn applications are listed.
6. **`rolling_epoch`.** "A hard rolling-epoch emission ceiling"
   (`genesis/VoidEmissionVaultV11.sol:8`). The epochs are fixed windows (`:53`): two caps
   may leave in two blocks. `EmissionsArePaced` is the cap the code does keep.

## 4. What is proved

`tlapm` checks every proof; nothing is assumed beyond the named assumptions on
constants, which TLC evaluates in the runs. Those of the contracts
(`AccountAssumption`, `InitialAssumption`, `TreasuryAssumption`,
`RuntimeAssumption`, `PaymasterAssumption`): contract addresses are distinct from each other and from
wallets, users and chains are finite sets, amounts are naturals, each chain has a
DAO address of its own, runtime and treasury start with no VOID, and applications
are called through the paymaster where there is one. Those of the
relay, the services and the web application type their constants, say which sets are
finite, and keep what a deployment fixes: intervals and epochs are not zero, attempts are
kept longer than a minute and the longest wait, the market's fees are within the price.

| Theorem | Module | States |
|---|---|---|
| `TreasuryIsSolvent` | `AppRuntimeProofs` | `TreasurySpec => []TreasurySolvent` |
| `TreasuryKeepsCredits` | `AppRuntimeProofs` | `TreasurySpec => CreditsAreKept` |
| `TreasuryStrandsNoDust` | `AppRuntimeProofs` | `TreasurySpec => NoDustStranded` |
| `RuntimeTypeCorrect` | `AppRuntimeProofs` | `Spec => []TypeOK` |
| `RuntimeIsSolvent` | `AppRuntimeProofs` | `Spec => []RuntimeSolvent` |
| `TreasurySolventUnderRuntime` | `AppRuntimeProofs` | `Spec => []TreasurySolvent` |
| `RuntimeImplementsEarnings` | `AppRuntimeProofs` | `Spec => RevenueBelongsToEarner`, the refinement |
| `RevenueIsNeverStranded` | `AppRuntimeProofs` | `Spec => []EverythingPayable`: `NothingStranded` without `ENABLED` |
| `ActiveChainsHaveDaos` | `AuthorityProofs` | chains that were activated have a DAO |
| `BudgetsDieWithTheirCall` | `AuthorityProofs` | no budget outlives its call |
| `PricesFollowTheirDao` | `AuthorityProofs` | a configured chain's price changes only by its DAO |
| `OnlyItsBuilderWithdraws` | `AuthorityProofs` | with the factory, only the publisher withdraws |
| `OnlySignedLeaves` | `AuthorityProofs` | VOID and deeds leave only as signed |
| `PaymasterKeepsAccounts` | `SponsorshipProofs` | `SSpec => []AccountsBacked` |
| `SponsoredRuntimeIsSolvent` | `SponsorshipProofs` | `SSpec => []RuntimeSolvent` |
| `RequestsAreBilledOnce` | `SponsorshipProofs` | `SSpec => []RequestBilledOnce` |
| `ChainsTakeAQuarter` | `SponsorshipProofs` | `SSpec => []OneChainOneQuarter` |
| `SettlementNeverReverts` | `SponsorshipProofs` | `SSpec => []SettlementGoesThrough`: `NothingRevertsAfterValidation` without `ENABLED` |
| `RelayTypeCorrect` | `RelayProofs` | `RelaySafetySpec => []RelayTypeOK` |
| `RelayWritesAhead` | `RelayProofs` | `RelaySafetySpec => []WriteAhead` |
| `RelayNeverSignsTwice` | `RelayProofs` | `RelaySafetySpec => []OneTransactionPerNonce` |
| `RelayPaysOnce` | `RelayProofs` | `RelaySafetySpec => []NoSecondPayment` |
| `RelayImplementsOutbox` | `RelayProofs` | `RelaySafetySpec => OneOutstanding`, the refinement |
| `EmissionsPaced` | `ContractProofs` | `EmissionsSpec => []EmissionsArePaced` |
| `PriceAveragesWindow` | `ContractProofs` | `KeepersSpec => []PriceIsWindowAverage` |
| `VotesAreSnapshots` | `ContractProofs` | `DaoSpec => []NoVoidVotesTwice` |
| `EarnerIsPaid` | `ContractProofs` | `ClaimsSpec => ClaimedByItsEarner` |
| `StakersCanClaim` | `ContractProofs` | `StakingSpec => []StakersFunded` |
| `DeedsCanBeSold` | `ContractProofs` | `VaultSpec => []EveryDeedCanBeSold` |
| `PageShowsNewestAnswer` | `WebProofs` | `MarketSpec => []ShowsNewestAnswer` |
| `ProfileStoredAsSigned` | `WebProofs` | `ProfilesSpec => []StoredAsSigned` |
| `QuotaHoldsInEveryMinute` | `WebProofs` | `AdmissionSpec => []QuotaHolds` |
| `CardsTellTruth` | `WebProofs` | `CardSpec => []CardTellsTruth` |
| `ScansTellTheirBlock` | `WebProofs` | `ScansSpec => []PublishedAtItsHash` |
| `DirectoryListsAll` | `WebProofs` | `DirectorySpec => []DirectoryListsWhatItFound` |
| `ReleaseStagedInOrder` | `WebProofs` | `CutoverSpec => []StagedInOrder` |
| `ExplorerShowsOneFork` | `IndexerProofs` | `IndexerSpec => []OneForkShown` |
| `ExplorerCountsCalls` | `IndexerProofs` | `IndexerSpec => []TotalsCountCalls` |
| `ExplorerMirrorsOneFork` | `IndexerProofs` | `IndexerSpec => MirrorsOneFork`, the refinement |

*Solvency.* `RuntimeSolvent` compares a balance with three sums over functions,
and is not inductive alone: a flush takes from the runtime exactly what it
clears, but only the types say that what is cleared is a natural and has an
owner who is not the runtime itself; and a claim at the treasury would underflow
if the treasury did not hold what it credits. The inductive invariant is

    RuntimeInv == TypeOK /\ TreasurySolvent /\ RuntimeSolvent

where `TypeOK` contains the clause that carries the information: pending revenue
always has an owner, a wallet.

`Sums` relates the community modules' `SumFunctionOnSet`, which is a
fold, to what a proof needs: the sum is a natural (`SumNat`), depends only on
the values (`SumSame`), and changes by what one entry changes (`SumChange`). The
fold is a recursive function over sets, so these start from its uniqueness
(`FoldUnique`) by induction on the cardinality. `AppRuntimeProofs` adds `MoveEffect` (what
a transfer does to balances, also when sender and receiver are the same) and
`BookEntry` (an amount entered for one account raises the sum by it), and has a
lemma per group of actions, for the treasury alone and then for the runtime:
`CollectTollKeepsSolvent` is the one with content, where a toll is split, a
former holder's revenue moves to another book and the liabilities grow by
exactly the toll; `CreditEffect` is shared by the three actions that pay into the
treasury; everything that touches no money goes through `QuietKeepsInv`.

*Earnings.* The refinement needs `RuntimeInv` before and after a step: what is due to an
account is a sum over chains, and a flush is a payment of `Earnings` only because what
it delivers is no more than that. `WaitingChanges` says how the sum moves when one
chain's books do, `DueParts` that its parts are naturals, `PurseEffect` who pays and
who is paid. With content are `TollIsEarned`, where the part that is parked cancels out of the former
holder's due, and `CreditKeepsPromise`: a credit of the runtime's is a stutter, or a
payment when the beneficiary is the protocol's treasury, which is paid at once.

*Credits and dust.* Both are properties of steps. They go over the treasury's
actions once: a settlement enters what it brought in, and the only action that
takes from a credit is the claim, which pays all of it to its owner. `TreasuryInv` is
needed because a transfer out of a treasury that held less would not be the
difference of the two books.

*Sponsored calls.* `AccountsBacked` looks at the paymaster's accounts, but the charge at the
end subtracts the toll and the cost from a prefund taken earlier, under prices and
limits that may have changed meanwhile. `PayInv` adds to the runtime's invariant where
an open call is (`CallInv`): what was pinned at validation is within the prefund, the
toll in force is the pinned one until the runtime has taken it, and no open execution
spends from the paymaster; `ChargeBounds` is then the arithmetic of the margin. In the
same invariant are the types of the books. `BilledInv`: no nonce that is still
to be used has been charged for, and that of the open call neither. `QuarterInv`: what a
chain's calls were paid today, and the worst case of the open one, is within what the
day has booked for it, and four times that within the day's highest reserve; books of
days to come are empty, which is what a new block relies on.

*Calls that go through.* `ENABLED` is beyond this prover, its content is not: the guard of
an action together with a next state that satisfies it. `Settles`, `Moves` and `Credits` are
`Finish`, `Move` and `CreditTo` with the values they assign as parameters; `FinishSettles` and
`PayoutsAre` prove that each action is its parameterised form at the primed variables,
and otherwise only clears what was paid and leaves the rest alone. The theorems then
exhibit the values, all of them naturals. For a payout that needs the amount within the
balance, which is solvency and `EntryWithinTotal`, and an owner who is a wallet. For the
settlement it needs `Backed`, `ChargeBounds` and `WorstCovered`: the ETH the open call may still
cost is in the reserve, since everything that takes from the reserve waits until no
sponsorship is open. That such values make the actions `ENABLED` is the last step, and is
left to the definition of `ENABLED` and to TLC.

*Authority.* `AuthorityProofs` takes `TypeOK` from the runtime. `GovernedInv` adds that
a configured chain has a DAO (or was imported) and that an active one is configured:
`ActiveHasDao` alone would not survive `setActive`, which looks at `configured` and not at the DAO.
`BuiltInv` relates the publisher the contract records to the history variable that
remembers who published, and needs that an application belongs to the one chain
the factory deployed it for. The action properties go over the disjuncts of the
next-state relation once, grouped by what they leave unchanged.

*Relay.* `RelayInv == RelayTypeOK /\ WriteAhead /\ OneRowPerNonce /\ InHand`. That two signatures
never share a nonce is a fact about the table - its key is the nonce - and not
about the lock, which may be lost; `OneRowPerNonce` is that, and `WriteAhead` carries
it to the network and the chain. `InHand` says what a worker holds at each await: what
it is about to broadcast is already journaled, which no step of another worker
undoes.

*Outbox.* For paying twice and for the refinement the lock does matter, and `RelayInv`
says nothing of it. `QueueInv` adds that every nonce used has a receipt and a row and at
most one row is beyond them; `KnowsQueue` is what an invocation still knows at each
await: if it holds the lock when it writes the journal, nothing was written since
it looked, so all of the queue is settled and the nonce it read is still the
account's. A session that was lost makes no claim, and its insert fails. The mapping is
`Decided`, a function of the set of rows: `QueueLength` shows by a bijection that the
journal holds one row for each of the first nonces, `QueueEntries` that the queue is a
sequence of them. Then writing the journal is `Decide` (`JournalDecides`), the inclusion of
a transaction is `Settle`, and everything else a stutter.

*Emissions.* The property counts what has left; the invariant follows each decision through both
contracts. The decisions the timelock has executed of an emission are as many as
those that left the vault and the one waiting there (`DecisionsHeld`); what left for
the n-th time had n decisions that were old enough at that moment (`EmittedHeld`),
to which later decisions and cancellations add nothing; and an epoch's counter is the volume of what left in
that epoch (`EpochsHeld`).

*Price.* `KeepersInv` gives both accumulators their meaning: `Observed` is the area under the
pool's prices since the first moment, the oracle's the area at its last update, so that
a rate is the difference of two areas, which is the area between (`Area` of adjacent
windows adds up), divided by the time between.

*Votes.* `ProposalsSound`: the votes of a proposal are the snapshot's balances of those
who have voted, and each of them once; the sum over a subset is at most the sum over
all (`SumSubset`), which is the snapshot's supply. The snapshot is one moment's, so what moves
later does not matter.

*Claims.* `ClaimsInv`: what an account has earned is what is credited to it in the four
places it may be in. Each step of the button, the claimer and a stranger moves an
amount from one place to the next, and a sale parks what is pending under the
holder who earned it.

*Staking.* The claims of all positions are at most what a growth of the reward per weight
has taken from the stream: `StreamSound` multiplies the books by the scale, where no
quotient is left, and the rounding of each of `_startStream`, `_rewardPerWeight` and
`earned` loses in the stakers' disfavour only. `SumLinear` moves the growth of the
accumulator out of the sum over positions.

*Market.* `InOrder` is the linked list: `next` and `previous` agree with the neighbours in the
order of listing, `head` and `tail` with its ends. `Added` and `Removed` keep it for a deed at
either end, in the middle or alone; that the walk from the head then finds the
listed deeds in order is a least counterexample on the position. Solvency needs that a
deed pays its backing once (`released`), and the price at which it is bought back.

*Market page.* `MarketInv == Addressed /\ ShowsNewestAnswer`: a request on its way has the
generation and the account it was begun with, so an older one is recognised.

*Profiles.* A transaction holds the row it has upserted, and the nonce it has inserted,
until it ends, so at most one save is between its statements (`RowAndNonceHeld`), and what it writes was
signed and is signed no more (`SignedForGood`).

*Admission.* What a transaction counted is still all there is when it commits: the two locks
keep every other one of its user or client out (`OneAtATime`), and no attempt deleted
meanwhile is younger than a minute, because `RETENTION` covers `WINDOW` and the longest wait
(`CountedIsBound`). The property is about all attempts there have been, the deleted ones too.

*Cards.* `CardKnown` says of each await what a card may still believe: a read that is on its way
returns a value of the chain since the card was opened, and a receipt that says success is of
an edit the chain has had. `Reflects` says of an identity which fields are still the chain's, and of an
edit under way which were typed since it was pressed: those, but for the one that the
success writes back, are all that is left of the draft.

*Scans.* `IsOn(p, c)`: the block a scan has pinned, which is its whole history `p`, is still on
the chain `c`. As long as it is, what the scan has read belongs to that block
(`MonitorSound`, `InventorySound`); after a reorganisation nothing is claimed, and the last
comparison of hashes stops the scan. A block once abandoned does not come back,
which takes the history of the blocks made so far (`MadeBy`). A file whose block
went away between the two first reads of a pass is what `straddled` excepts.

*Directory.* The search itself needs no more than the types of what was typed and chosen
(`DirectoryInv`). What takes the work is the order: `Before` is a strict total order on
the chains found, any finite set with such an order can be listed in it (`SortedExists`), and
a chain is then listed at the place that is its rank (`SortedRanks`); the pages cut that list
without a gap or an overlap, and the page asked for is brought inside it (`OnThePage`).

*Releases.* `StagedInv == Recorded /\ Underway`: what the file says was sent was sent for that
step, no transaction of the stage was sent before all earlier steps had succeeded, a fact holds on the
chain only if a step done gives it, and is missing only if a step done takes it. Whether a step
is legal then depends on the plan alone, which is checked step by step (`EveryStepFits`): what a
step needs is given by an earlier one, and nobody takes it before its last use
(`LastUse`). The final two steps, which the second script may send before the stage is complete,
are the last use of nothing the stage needs. That the security page and the
audit are green only for a complete release is `GovernedMeansStaged`.

*Explorer.* `IndexerInv == Shape /\ (disturbed \/ Sound)`. `Shape` holds whatever is reorganised:
types, numbers of blocks within the chain, and the total of the last recount
(`TotalCounted`); it carries `TotalsCountCalls`, with `ShortListIsWhole` for the page
under its limit. `Sound` says of each await of a pass what its locals still say of the
chain (`PassKnows`): the range ends among confirmed blocks, what was read is all there
is in it, and no event below it is missing from the rows - or that the pass is
`Doomed`: it holds a log of a block that was replaced and that it is still to fetch, so
that it will refuse, whatever else changes (`StillRefuses`). A reorganisation of blocks
that are not confirmed takes nothing of that away (`ForkKept`, `PassKept`). A deeper one
that leaves the projection undisturbed leaves each pass its knowledge or dooms it, or finds only the
holder of the lock under way, who is doomed or compares the cursor first (`Alone`); the rows are
then the whole of the abandoned fork (`DeepReplaced`, `Replaced`), which the next pass drops. `OneFork`
keeps the rows equal to the events of one history up to *some* confirmed block and not up
to the cursor: an overlapping pass moves the cursor back. That gives `WritePass` its
meaning (`WrittenEvents`): an older and a newer pass write in either order, and the
longer history is left. The same lemma makes it a `Follow` of `Mirror` (`ShownIs`,
`CutsArePrefixes`, `WriteFollows`). For the pages, `SharesBounded` goes along the history block by
block: the settlements so far and the calls still waiting make no more than the calls;
shares are rounded up, so a settlement's share of several tolls may be less than theirs one by one,
never more (`ShareIs`).

*Only model-checked* is what this prover cannot reach: `NothingStranded` and
`NothingRevertsAfterValidation`, being about `ENABLED` (their counterparts without it are proved), and
the liveness of `OutboxDrains`, `CatchesUp` and `RepairsStatus`. Every other property of a
passing run is stated by a theorem. Induction is by a
smallest counterexample (`NatMin` in `Sums`), since the library's induction theorems
take an operator.

## 5. Limits of what is claimed

Facts about the code met while modelling it. The properties above are stated so
that they hold in spite of these. Those that contradict a line of the repository are
the disagreements of section 3; these do not, and no run shows them.

* *Explorer.* The owner of a deed is read at the unconfirmed tip, so a shallow
  reorganisation may leave a wrong owner until the next sale (`OneForkShown` says
  nothing of it; `Indexer.HydrateDeedMetadata` does it). Beside what `mixed_fork` shows, a session that is
  lost while a reset is due, and a hash adopted too late, disturb the projection (section 2). The
  model's reorganisations replace blocks by as many others: the chain never gets
  shorter, so no block that was read is missing when it is fetched again (in the
  code that read fails, which is `Fail`). A daemon that dies between the alignment of a
  new deployment and the hydration leaves imported chains "reserved" until the cron
  has the lock. `ProfilePage` returns the holder's share of what was settled, where
  its comment says gross tolls (`web/lib/chains.ts:393`).
* *Relay.* An insert whose answer is lost may be committed: the user is told to sign
  again though a later worker sends the first transaction; the paymaster's nonce
  keeps it to one payment.
* *Releases.* A label is saved after its transaction was sent. A crash between the two
  repeats the transaction: a transfer funds twice, a step that works once fails at
  gas estimation on every rerun; a recorded transaction that reverted stops every
  rerun. The mint's constructor wants the exact owners of the snapshot, so a
  deed that moves blocks the staging. `StagedInOrder` is about the order.
* *Scans.* A deep reorganisation between the monitor's first two reads, of the saved block's hash
  and of the block it pins (`script/monitor-public-v11.ts:34`, `:40`), is not
  noticed, and what the monitor keeps from its file may then be of the other fork
  (`straddled`). The monitor requires of a page every application, the query of
  which ends at 25.
* *Web.* After a switch of accounts in mid-trade the market page shows the old
  account until its next poll; the button and the panel have no generation check. The
  activity strip keeps whatever answer came last. Editors submit the whole of what
  their page had loaded: an older signed profile may replace a newer one
  within its ten minutes, and an identity edited in two tabs loses one edit. What was
  typed into the identity's form stays on the card after the edit was declined, reverted
  or cancelled, and goes out with the next one.
* *Contracts.* Between `bootstrap` and the first update the rate is zero
  though fresh. VOID streamed to stakers while nobody has weight is not
  distributed later. A deed whose backing circulated in an earlier market may have it
  released again: a surplus of the market, never a shortfall.

### Not modelled

* Permits and allowances of the assets, their minting, and of `VoidPaymaster` the
  setters `setOracle`, `setSwapRoute`, `setVoidEthPoolOnce` and `setRunwayTreasury`: prices
  may change at every read anyway, routes are constants.
* The curve of the pool, the paid mint, the caps of the escrow's other accounts; the dollar
  feed of the oracle; `VoidTimelockVaultV6`; batches of the timelock.
* L3 registry and L3 chain control: the first is three one-way status changes read
  by one panel, the second is superseded, in no deployment, and correct only as
  far as the ticket system of a vendored inbox is.
* Applications and test-network contracts: to the protocol an application is any
  sequence of calls, and `AppRuntime` lets it be one.
* `admitRelayIngress`, the first gate of the relay's routes: one upsert per client in the table
  `relay_ingress` (`web/lib/relay-guard.ts:28-42`), a single statement that refuses
  the 61st request of a window and touches nothing else. Names, applications and
  sponsored calls of the explorer, written as calls are.
* Rendering, translations, the earlier release scripts, and scripts that carry out
  one trade: they keep no state somebody else changes meanwhile.

A DAO and a governor are addresses in `AppRuntime`, `Treasury` and `Paymaster` that may
call at any time, which includes everything a vote or the timelock would have
them do, and more.

## 6. What would come next

The explorer with a chain that is
activated after FIRST_BLOCK, whose owner and status then come from events only.

## 7. Running

    tlc -config MCRelay.cfg MCRelay          # any run of PROJECT.json
    tlapm RelayProofs.tla                    # any module whose name ends in Proofs, and Sums
