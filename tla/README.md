# RWCAR V2 in TLA+

A verification development of the RWCAR repo protocol: models of its contracts and of
the services around them as TLA+ state machines, TLC runs over small instances of them,
and TLAPS proofs for every value of the constants. The models are translated from the
Solidity and TypeScript source; `PROJECT.json` maps each definition to the lines it
stands for.

## 1. The system

RWCAR lends settlement tokens (aUSDC) against tokenised receivables (CVA tokens) on
an EVM chain. Its own logic is in contracts, services and scripts.

| part | state it keeps | operations |
|---|---|---|
| `RepoMarketV2` | offers, positions, position of each auction, asset configuration, pause flag, guardian, fee treasury | deposit, withdraw, create / fill / cancel / expire an offer, repurchase, start / buy / fail an auction, claim in kind, administration |
| `CollateralVaultV2` | one CVA token: free balance per owner and one bucket per offer, position, auction and margin account; total accounted | 14 calls, all from its controller |
| `DutchAuctionV2` | auctions, auction of each reference | create, markSold, markFailed |
| `SettlementEscrowV2` | claims, claimable per account, total claims | recordClaim (controller), claim (beneficiary) |
| `RiskManagerV2` | configuration in force, one scheduled | schedule, apply, cancel |
| `SignedValuationOracle` | latest valuation per asset, used nonces, signers | submit, invalidate, rotate signers, freshPrice |
| `MarginEngineV2` | cross-margin accounts and their exposures | 20 transactions, on its own vault, auction house and escrow |
| `RepoMarketV1` | offers and positions of the direct market | create, accept, repurchase, mark default |
| indexer, projector (`apps/indexer`) | raw logs, checkpoints, read model, automation jobs, notices | sync, reset on reorganisation, project, schedule and cancel jobs |
| keeper (`v2-keeper.ts`) | job rows used as an outbox of signed transactions | lease, sign, persist, broadcast, reconcile, replace |
| oracle heartbeat | none beyond the oracle's | sign and submit the next valuation |
| agent platform (`apps/api/src/services/agent.ts`) | agents, mandates, credentials, intents, steps, daily usage | prepare, approve, lease, report, complete, fail; pause, revoke, replace |
| agent executor (`apps/agent-executor`) | none beyond the intents' | lease, refresh, sign through Privy, report, wait |
| preflight (`v2-preflight.ts` and its helpers) | none | reasons, approvals and calls for each user action |
| client (`src/AppLive.jsx`, `src/lib`) | pending records in the browser's storage | execute, reconcile |
| scripts (`packages/contracts/scripts`) | journal, manifest, evidence files | deploy, register, hand over, publish, open |

How they interact. A market transaction calls its modules synchronously: either all
of them succeed or the chain undoes everything. Between transactions everything
interleaves: sellers, lenders, bidders, the keeper, governance, the guardian, the
oracle's signers and the compliance pool act in any order. Contracts never act on
their own, so whatever must happen (expiry, default, the end of an auction) waits for
somebody to call. Off chain, the indexer turns events into jobs after a number of
confirmations and the keeper sends them. Users go through the preflight, which reads
the index, the chain and the compliance service, and sign what it prepares; agents go
through mandates and intents, whose transactions the executor has signed by Privy. The
deployment scripts make the contracts and open them.

What is hard, and what makes each part correct:

- *custody*: one unit of collateral passes through offer, position and auction buckets
  over a long sequence of calls by different actors; it must be in exactly one of them,
  and end with whoever the outcome of the trade gives it to;
- *rounding*: partial fills, fees, interest and prices are rounded at every step; the
  result must not depend on how a trade is split and must never lose a unit;
- *races at a boundary*: repayment against auction start after the deadline, a bid
  against the failure of an auction, an auction that needs a fresh price against a
  claim in kind that needs the absence of one;
- *changing surroundings*: risk parameters, pause flag, readiness, treasury, the
  compliance of a beneficiary and the price all change while a position is open;
- *payment that cannot be delivered*: it becomes a claim on the escrow, and the escrow
  must hold what it owes;
- *liveness*: a default always has a way out, and with a keeper it is taken;
- *services that stop anywhere*: keeper, indexer, executor, heartbeat, browser and
  deployment scripts are killed, lose answers or meet reorganisations between any two
  steps, and must neither repeat, forget nor invent an effect;
- *withdrawn authority*: an administrator pauses, revokes or replaces while an executor
  is about to sign;
- *two implementations of one rule*: the preflight computes in TypeScript what the
  contracts compute in Solidity, and refuses or approves before they are asked.

`PROJECT.json` lists these under `hazards`, each at its line, with the properties that
would catch it, or a note saying why no property does.

## 2. The modules

```
BlockContext               accounts, auction ids, block.timestamp
 ├─ RwcarMath              mulDiv, value, loan-to-value, interest, cumulative shares
 ├─ CollateralVaultV2      vault calls as actions         ── CustodyLedger (abstract)
 ├─ DutchAuctionV2         auction house calls as actions
 ├─ SettlementEscrowV2     token balances and claims as one book
 ├─ RiskManagerV2          timelocked configuration
 └─ ValuationFeed          what the oracle promises its readers
      ├─ RepoMarketV2      the market's transactions, composed of all the above
      └─ MarginEngineV2    the cross-margin engine's, on modules of its own

SignedValuationOracle      signatures, nonces, rotation   ── ValuationFeed (abstract)
 └─ OracleHeartbeat        everybody who writes to it

Economics, Eligibility     the API's arithmetic and its compliance decision
 ├─ V2Preflight            over RepoMarketV2: what users are given to sign
 └─ V2MarginPreflight      over MarginEngineV2

MonadNode                  pool, nonces and reorganisations of one account
 └─ KeeperOutbox           the keeper's worker over its job rows

ProtocolLog + RwcarDb → V2Projector → V2Indexer     logs, tables, handlers, rounds

AgentAuthority → AgentIntents → AgentExecutor       authority, intents, workers

WalletSession              the client executing one action in two tabs
UatDeployment              the scripts from the first contract to open entry
```

`*Properties` modules state what is checked, `.cfg` files, with an `MC*` module where a
constant needs a definition, give TLC small instances, `*Theorems` and `*Proofs` hold what TLAPS proves.

**Transactions.** An action of `RepoMarketV2` is one *successful* transaction. Every
`revert` of the code, in the market or in a module it calls, is the negation of a
conjunct, so a call that would revert is a disabled action. The vault's and the auction
house's calls are actions on their own variables that the market's action conjoins. The
guard of a transaction, with those of the calls it makes, has a name of its own
(`CanRepurchase`, `CanStartAuction`, ...); the rest of the action are assignments, so the
transaction is possible exactly when the guard holds. A throw-away run confirmed
`ENABLED A <=> CanA` for every guard a property uses; the properties about what can be
done are stated with the guards.
Settlement tokens may move several times in one transaction (seller, treasury, escrow),
so balances and claims form one record `book`, and a transaction's next book is a
composition of payments and claims (`PaidTo`, `PaidToEscrow`, `WithClaim`).

`RepoMarketV2` and `MarginEngineV2` never appear in one instance: on chain each has a
vault, an auction house and an escrow of its own, and they share only the risk manager
and the oracle, which neither writes.

**State.** Variables carry the source's names: `offers`, `positions`, `auctions`,
`offerReserved`, `availableBalance`, `totalAccounted`, `positionForAuction`, ... Private
Solidity mappings lose their underscore. `vaultAssets` and `cva` are the CVA token's
balances, `book.cash` and `book.escrowCash` the settlement token's, `compliant` is what
`complianceVerify` accepts, `now` the block's timestamp. Fields a position copies from
its offer are grouped in `terms`, those it copies from the risk configuration in
`closeout`.

**What is abstracted.** One CVA asset, hence no `vault` and `asset` fields. Digests,
reference hashes and events. Token allowances and exact-delta checks: a transfer
succeeds if and only if the payer holds the amount. The 128-bit caps and 256-bit
overflow: amounts are natural numbers. Scales (`10 ** decimals`, `1e18`, 10 000, a year
in seconds) are constants: the runs use small ones, the proofs any positive ones.
`MAX_ANNUAL_RATE_BPS` is implied by the risk manager's cap, and `MAX_GRACE_PERIOD` and
`MAX_REPO_DURATION` bound constructor arguments that are constants here.
`rescueVaultExcess` touches no modelled state because it refuses the CVA token.
`cancelConfig` with nothing scheduled, setters that set what is already set and
`guardianPauseEntry` of a paused market change nothing and are stuttering steps.

**Bounds.** `OfferIds`, `PositionIds`, `AuctionIds` are finite prefixes of the ids: the
action that would need another id is disabled. A reference is auctioned once, so
`AuctionIdsSuffice` asks for as many auction ids as there are references (on chain both are
256 bits wide) and no auction fails for want of an id. `MaxTime` stops the clock,
`EntryHorizon` is the last moment at which anything new is deposited, offered or filled,
so that what was opened has time to end, and `MaxInterventions` counts governance,
guardian, compliance and invalidation steps. No other counter is capped. The theorems
do not depend on the values of these bounds.

**Deviations.** An operator whose comment begins with "Deviation:" is not part of any
specification. It is a faulty variant of the definition after it, such as a dropped
guard, a rounding per fill or a fee taken too early, and each property has one with
which the run that checks it fails. They show that the instances are big enough to
notice.

### CustodyLedger and the vault

`CustodyLedger` says what tri-party custody promises in three variables: what each owner
is owed, what is held, and what is outside. Collateral enters for an owner and leaves by
reducing what *that owner* is owed, and nothing else moves. `CollateralVaultV2` has five
kinds of buckets and fourteen calls, which the market and the margin engine make inside
their transactions; `VaultCall` is any of them with any arguments. The refinement
mapping sums an owner's buckets, so every reserve, allocate and release must be a
stuttering step of the ledger.

### ValuationFeed

The market sees the oracle through `freshPrice`. `ValuationFeed` keeps the valuation and
whether it is withdrawn; `Publish` accepts any price of `Prices` with any later
observation time, so the signers are arbitrary within the order the oracle enforces,
and may attest for another settlement token, which makes the market's price stale.

### SignedValuationOracle and OracleHeartbeat

The detailed oracle keeps the nonces used and burned, the signer set, the set waiting for
its delay and the `isSigner` flags beside the latest valuation. A signed message is its
content with the set of its signers; the digest and the recovery of signatures are not
spelled out. `OracleHeartbeat` adds everybody who writes: the owner, an operator with
proposals of its own that it may submit late, and the heartbeat, whose round reads the
chain in three separate calls, signs, simulates, broadcasts and waits, and whose
transactions outlive the process in a public pool. `ImplementsFeed` is the proof that the
market and the margin engine were checked against the right abstraction.

### MarginEngineV2

One seller's collateral secures the exposures of several lenders. `accounts` and
`exposures` are the contract's mappings. What the seller fixes at the opening is grouped
in `mandate` and what is copied from the risk configuration in `snapshot`. The engine
keeps no list of lenders: `totalFaceDebt` and `activeExposureCount` stand for the
exposures while the account runs, `frozenDebt` and `unclaimedExposureCount` from closeout
on, and each lender computes its own share from them.

| part of an account's life | actions |
|---|---|
| collateral | `DepositCollateral`, `WithdrawAvailable`, `AddMarginCollateral`, `WithdrawExcessCollateral` |
| mandate and debt | `OpenMarginAccount`, `FundMarginAccount`, `CloseFunding`, `RepayExposure`, `CloseMarginAccount` |
| trouble | `OpenMarginCall`, `CureMarginCall`, `DeclarePaymentDefault` |
| closeout | `StartMarginLiquidation`, `BuyMarginAuction`, `FinalizeFailedMarginAuction`, `StartInKindOracleFallback` |
| recovery | `MaterializeLiquidationClaim`, `ClaimFailedCollateral`, `EscrowClaim` |

A closeout in kind puts the collateral in a vault pool whose id is
`IN_KIND_AUCTION_OFFSET | accountId`. The offset is a constant here, and
`MarginAssumption` says that it is neither zero nor an auction id (in the code it is `1 << 255`). The bucket ids of the runs contain
the pool ids (11, 12) beside the auctions' (1, 2), and auction ids, counted from 1, do
not reach the offset. The duration comes with `AccountParams`, so `allowedDurations`
and its setup in the constructor are that constant.

### KeeperOutbox

One worker takes due rows of `automation_jobs`. Each RPC read and each database statement
is a step: claim a row, read the target, simulate, take a nonce, sign, store hash and
bytes, broadcast, read the receipt, wait for the confirmation depth, replace what has left
the pool, cancel what is obsolete, defer or fail. `MonadNode` holds the pool, the nonce and
the blocks above the confirmation depth, which can be reorganised away; what is below is one
summary. The V1 keeper of the same process is another user of the account. A transaction is
the target it moves, its nonce and its fee, so stored bytes and their hash are comparable.

### V2Indexer

`ProtocolLog` is the contracts as the indexer sees them: the transactions of one product,
the rules of their order, and the logs each emits. `RwcarDb` is the tables as partial
functions from unique keys to rows, `V2Projector` what each log does to them,
`V2Indexer` a round over the sources: compare the checkpoint with the chain, read a batch,
project log by log, write the checkpoint. `TruthAt(Final)` derives from the chain
what the tables ought to say. The four products (repo, custody, margin, oracle and risk
reference data) share no rows and are explored one at a time.

### AgentAuthority, AgentIntents, AgentExecutor

The first keeps what lets an agent act: its row, credential, mandate and the compliance
check that reads Cleanverse in one step and records its verdict in a later one. The second
prepares, approves, executes, expires and terminates intents under the agent's advisory
lock, with the usage bucket; termination outside the lock reads the bucket in one step and
commits in another. The third is the workers: each HTTP call, and each of the two updates
inside a report, is a step, and a worker may stop or lose an answer between any two.

| executor step | code |
|---|---|
| `Lease`, `LeaseRefused` | `leaseIntent`, with its refusals (failed step, revoked agent, ambiguous signing) |
| `Refresh` | `refreshIntent`: expiry, access, fresh preflight, renewed lease |
| `ReportStepRow`, `ReportIntentRow` | the two updates of `reportStep` |
| `Send`, `SendRefused`, `Receipt`, `IndexTimeout` | `executeStep` and the loop around it |
| `Complete` | `completeIntent` |

### V2Preflight and V2MarginPreflight

For each request the API answers with the reasons not to send, the approvals missing and
the calls to sign. Each handler is an operator over the *contract's* state that returns
exactly that (`Prepared`), with `Economics` for the quotes and `Eligibility` for the
transfer edges. They add no steps: the properties compare what is prepared in a state with
the market's or engine's action in the same state.

### WalletSession

`executeV2Action` and `reconcilePendingV2` of the client, in two tabs over one storage. A
tab preflights, has missing approvals signed, preflights again, has the calls signed, stores
a record per transaction, and waits for receipt and index. While a record of the wallet is
there no tab starts another action, and every idle tab tries to resolve it.

### UatDeployment

A script is a list of stages, each a transaction with a condition that says it is done. The
deployment keeps its journal (file), the others ask the chain. `contracts` holds for
every contract which others it was constructed with, its owner and the stages done to it, so a
stage sent to the wrong or to a second copy of a contract is visible. `contracts` of engines
include their vaults, auction houses and escrows.

## 3. The runs

The market's and the engine's runs use three accounts, of which the treasury is also the
owner and a bidder. Amounts are a few units, so that every division rounds, and fees and
rates are large percentages, so that they are felt at that size.

| run | instance | what it shows |
|---|---|---|
| `closeout` | 2 offers, 2 positions, 2 auctions of two ticks, odd amounts, 20 % fee, prices 1 and 8, valuations that expire | cumulative collateral and fee are those of one fill (`FillsAreCumulative`) and what the API quoted (`QuotesMatchContract`); custody follows status (`CustodyMatchesStatus`); market and auction house agree (`AuctionAgreement`); the lender is senior and the price is distributed in full (`LenderIsSenior`); collateral leaves by two ways only (`CollateralExit`); a payoff never falls while one waits (`PayoffNeverFalls`) |
| `governed` | 1 position, an unconfigured market, 4 interventions among all administrative, risk, compliance and oracle ones, claims of 1 | terms are those of the fill (`CloseoutOnFillTerms`); defaults have a way out and no exit closes, in every state (`WaysOutStayOpen`); no amount goes below zero, positions add up, escrow and vault hold what they owe (`BooksBalance`); a repayment is worth its payoff (`RepaidInFull`); what the preflight approves executes (`ApprovedCallsExecute`), and it never refuses an exit the contract allows (`PreflightKeepsExitsOpen`) |
| `liveness` | 1 position, fairness as below, one intervention | offers close (`OffersClose`), defaults resolve and auctions settle (`CloseoutEnds`), the vault implements the ledger (`ImplementsCustody`) |
| `margin_closeout` | 1 account, 2 exposures, a unit of collateral, prices 16 and 32, stricter risk parameters scheduled from the start and 1 intervention that applies them, pauses, withdraws compliance or another, 6 time units | custody, aggregates, types and mandate (`MarginBooks`); a way out of overdue debt and for the seller in every state (`NobodyIsLockedIn`); closeout has a reason and collateral leaves only from a healthy or closed-out account (`CollateralIsKept`); deposits, openings and fundings the preflight approves execute (`ApprovedFundingExecutes`), and of the exits it refuses only claims in kind that round to zero (`OnlyEmptyClaimsRefused`) |
| `margin_shares` | 1 account, 3 exposures of 1 to 3 units, prices 8 and 32, sale at a surplus, at the debt and at the floor, failed auction | aggregates and frozen denominators, every share is covered by what it is taken from and no claim reverts, and the escrow holds claims plus unclaimed proceeds exactly (`SharesAreBacked`); pari-passu shares with the dust to the last (`PariPassu`) |
| `outbox` | 1 market and 1 margin job, confirmation depth 1, fees 0 and 1, one mishap among crash, failed RPC call, eviction, reorganisation and V1 transaction | every live call is the one its row holds, stored bytes match their hash, success is final (`OutboxIsSound`); every job settles (`EveryJobSettles`) |
| `rebuild` | 4 products with 4 or 5 blocks, 2 priced assets, 1 offer and 2 positions or 2 exposures, a reorganisation of up to 3 blocks and a failed call | once caught up the tables say what the projector can say of the final chain, jobs wait for what has to be done (of a margin account, its first call or default), each default and auction is noticed once (`RebuildIsFaithful`); the indexer catches up (`CatchesUp`) |
| `agents` | a supervised and an autonomous mandate, a fill with an allowance step and a repayment, 2 workers, one mishap | what is sent was approved, never withdrawn before its lease, and authorised when its step was last checked, so a withdrawal lets at most the one call out that was already past the check (`OnlyPermittedIsSent`); a wallet has one signer and an intent one end (`LeaseIsExclusive`); the queue drains (`QueueDrains`); a pause stands against a check that was under way (`WithdrawalStands`) |
| `heartbeat` | 2 prices, 4 keys, 1 proposal, 1 owner call, 1 restart, 2 pending transactions, 4 time units | the oracle implements the feed (`ImplementsFeed`); no late heartbeat reprices (`LateHeartbeatNeverReprices`); two live signers (`TwoLiveSigners`); observations keep coming (`HeartbeatKeepsUp`) |
| `wallet` | 2 tabs, three kinds of action, 4 transactions, 2 mishaps among reload, failed read, refused store and replaced transaction | an action is done once, and done when its user is told (`DoneOnce`); the lock goes again (`LockIsReleased`) |
| `deployment` | both profiles, 2 faults (1 for the standard profile), 1 pause by the guardian | the manifest names contracts that belong together (`ManifestIsCoherent`); entry opens only on what the chain shows (`EntryIsProven`); the ceremony can be completed (`CeremonyCompletes`) |
| `recovery` | 1 intent, 1 worker, 2 mishaps; expects a violation | see section 5 |

Properties such as `BooksBalance` are conjunctions of named parts, each with its own
comment: a state of these systems can be wrong in several ways that one run looks for at
once.

Why the bounds are enough. Two positions of one offer are the fewest for which a fill
depends on an earlier one, an amount can go to the wrong bucket, and one position can be
repaid while another is in auction. `MaxTime` lets a position pass maturity, grace,
fallback delay and the end of its auction. Prices 1 and 8 (with `PriceScale` 4) put the
value on both sides of the debt and round the smallest floor to zero. Four interventions
suffice for configuring the market, attesting the vault and then changing two
more things, such as scheduling and applying a configuration, while a position is open.
In `margin_shares` three equal debts against two units of collateral give shares of
zero, one lender's among them the last, and a pool of one unit is left whole to the last
claimant; three exposures are the fewest for which a share of the rest differs from a
share of the pool. The escrow's equality is exact, so what one netting set took too much
is missed at once, without a second one to take it from. `margin_closeout` lasts six units
because declaring a default takes four and the delay of the fallback two more; a change
of its risk parameters is already scheduled when it starts (`InitialPending`), so that the
one intervention can apply it at any moment.

In the services one mishap at any of the steps is what they claim to survive, and all
pairs of a mishap with any step of another actor occur. Two jobs are the fewest that
compete for a nonce, two workers for a wallet or a lease, two tabs for the lock. In
`rebuild` chains are just long enough for each product's whole lifecycle, the reorganisation
may be deeper than the confirmation depth, and it is followed by empty blocks so that the
last transactions are confirmed. Two faults in `deployment` allow a kill while a
transaction is in flight and a failure while resuming.
For every property the deviation named in `PROJECT.json` is found under the run's own
configuration.

Deadlock checking is off: clocks stop, chains are bounded, and when nothing is left to do
a system may rest.

**Fairness** assumes only what somebody is there for.

- *Contracts.* The clock advances. The keeper keeps a durable job for every offer past
  expiry, position past its deadline and auction past its end and retries each with bounded
  delay (`fail` of `v2-keeper.ts` never lets a lifecycle action die, and `EveryJobSettles`
  is checked of it), so `FinalizeOfferExpiry`, `StartAuction` and `FinalizeFailedAuction` are
  weakly fair; anybody else may call them too. A lender collects what is due to it. Sellers,
  bidders, signers and governance owe nothing. The market's stale-oracle claim is the
  lender's own call. Because the clock stops at `MaxTime`, the properties speak of
  deadlines that fall before it; at the end the oracle falls silent or stays
  live, and either way one of the two exits is continuously enabled. For the margin engine
  `NobodyIsLockedIn` and `SharesAreBacked` say that in every state the next step
  of its close-out is possible.
- *Keeper.* The process loops, timers run out, blocks come and include what can
  execute, the indexer projects. `Claim` is strongly fair because selection takes the
  oldest due row first.
- *Indexer.* The polling loop runs (`PollsForEver` is weak fairness of `SyncStep` with its
  guard written out).
- *Agents.* Workers work, leases run out, Monad mines, the index gets there. Administrators
  and agents owe nothing.
- *Heartbeat.* Its loop runs, its transactions are mined and time passes.
- *Client.* Open tabs' timers run, transactions are mined and indexed. Users owe nothing.
- *Deployment.* A running script goes on, transactions are mined, delays pass, and the
  operator runs the scripts the manifest does not yet record as done.

**Assumptions of the service models.**

- Keeper: one worker process, as deployed. `EveryJobSettles` excepts histories in which the
  node lost a transaction or a block (section 5 says what then happens).
- Indexer: `HiddenReorgs = FALSE`. A reorganisation deeper than the confirmations that falls
  between the reading of a batch and of its checkpoint's hash leaves orphaned rows for good;
  with `TRUE` TLC finds `RebuildIsFaithful` violated. The chain never gets shorter: readers see a
  branch when it is as high as the old one. A block holds one transaction, so a log keeps its
  index when its transaction is included again. Every party has an agent to be told.
- Agents: no worker outlives its lease (`SlowWorkers = FALSE`): a lease lasts 600 s, a
  receipt is awaited for at most 180 s. `LeaseIsExclusive` and its theorem need this, for
  `reportStep` checks the lease in one statement and updates by id alone in a later one;
  `OnlyPermittedIsSent` and `WithdrawalStands` are proved without. One UTC day, so one usage
  bucket per mandate.
- Preflight: the index has caught up; simulation accepts what the contract accepts;
  `PROTOCOL_FEE_BPS` of the API is the deployed fee; an account has an active CVI and proof exactly
  while the pool admits it; no verdict comes from the cache. `PreflightKeepsExitsOpen` has
  the premise that the API's sources are registered (`ExitsConfigured`).
- Client: one user who starts an action in one tab at a time; no chain reorganisation.
- Deployment: one operator, one script at a time, the deployment not restarted once its
  manifest is written (the file is created with `wx`); a killed runner's child dies with it;
  the price is fresh and accounts are eligible when a window script asks, and the oracle is
  verified without its live valuation. Valuations do not age and a second pause is none, so
  `EntryIsProven` does not see a price that expires, or a pause that comes, between a window
  script's reads and its unpause. Every `publishInitialValuation` is accepted: the nonce or time of
  a repeated one may be refused in the code, which another run overcomes. The four attempts of
  one Cleanverse registration are one. The standard
  profile ends with governance and valuation, since the window scripts accept the hackathon
  profile only.

## 4. The proofs

| theorem | module | property |
|---|---|---|
| `Invariance` | `RepoMarketV2Proofs` | `Spec => []IInv` |
| `TypeCorrectness` | `RepoMarketV2Proofs` | `Spec => []TypeOK` |
| `CumulativeFills` | `RepoMarketV2Proofs` | `Spec => []FillsAreCumulative` |
| `Custodial` | `RepoMarketV2Proofs` | `Spec => []CustodyMatchesStatus` |
| `AuctionsAgree` | `RepoMarketV2Proofs` | `Spec => []AuctionAgreement` |
| `CollateralLeavesOnlyByExit` | `RepoMarketV2Proofs` | `Spec => CollateralExit` |
| `RepaymentIsFull` | `RepoMarketV2Proofs` | `Spec => RepaidInFull` |
| `WaitingNeverPays` | `RepoMarketV2Proofs` | `Spec => PayoffNeverFalls` |
| `FillTermsGovernCloseout` | `RepoMarketV2Proofs` | `Spec => []CloseoutOnFillTerms` |
| `MarketImplementsCustody` | `RepoMarketV2Proofs` | `Spec => ImplementsCustody` |
| `MarketBooksBalance` | `RepoMarketV2Proofs` | `Spec => []BooksBalance` |
| `SaleSharesBySeniority` | `RepoMarketV2Proofs` | `Spec => LenderIsSenior` |
| `QuotesAreTheContracts` | `RepoMarketV2Proofs` | `Spec => []QuotesMatchContract` |
| `PreflightNeverBlocksExits` | `RepoMarketV2Proofs` | `Spec => PreflightKeepsExitsOpen` |
| `NobodyIsLockedOut` | `RepoMarketV2Proofs` | `Spec => []WaysOutStayOpen` |
| `PreparedCallsExecute` | `RepoMarketV2Proofs` | `Spec => []ApprovedCallsExecute` |
| `MarginBooksBalance` | `MarginEngineV2Proofs` | `Spec => []MarginBooks` |
| `MarginImplementsCustody` | `MarginEngineV2Proofs` | `Spec => ImplementsCustody` |
| `MarginCollateralIsKept` | `MarginEngineV2Proofs` | `Spec => CollateralIsKept` |
| `RecoveryIsPariPassu` | `MarginEngineV2Proofs` | `Spec => PariPassu` |
| `LendersAreServed` | `MarginEngineV2Proofs` | `Spec => []SharesAreBacked` |
| `NobodyIsLockedOut` | `MarginEngineV2Proofs` | `Spec => []NobodyIsLockedIn` |
| `PreflightRefusesOnlyEmptyClaims` | `MarginEngineV2Proofs` | `Spec => OnlyEmptyClaimsRefused` |
| `PreparedFundingExecutes` | `MarginEngineV2Proofs` | `Spec => []ApprovedFundingExecutes` |
| `HeartbeatInvariance` | `OracleHeartbeatProofs` | `Spec => []HInv` |
| `LateHeartbeatsKeepThePrice` | `OracleHeartbeatProofs` | `Spec => LateHeartbeatNeverReprices` |
| `OnlyLiveSignersCount` | `OracleHeartbeatProofs` | `Spec => TwoLiveSigners` |
| `OracleImplementsFeed` | `OracleHeartbeatProofs` | `Spec => ImplementsFeed` |
| `OutboxSoundness` | `KeeperOutboxProofs` | `Spec => []OutboxIsSound` |
| `WithdrawalsStand` | `AgentExecutorProofs` | `Spec => WithdrawalStands` |
| `OnlyTheCheckedIsSent` | `AgentExecutorProofs` | `Spec => OnlyPermittedIsSent` |
| `LeasesAreExclusive` | `AgentExecutorProofs` | `~SlowWorkers`: `Spec => []LeaseIsExclusive` |
| `ActionsAreDoneOnce` | `WalletSessionProofs` | `Spec => []DoneOnce` |
| `ManifestBelongsTogether` | `UatDeploymentProofs` | `Spec => []ManifestIsCoherent` |
| `EntryWaitsForProof` | `UatDeploymentProofs` | `Spec => []EntryIsProven` |

The market's hold for any number of accounts, offers, positions and auctions, any amounts,
rates, durations and prices, the API's promises also for any of its configurations; the
engine's for any number of netting sets, exposures and lenders; the oracle's for any prices,
keys, signer sets, intervals and bounds; the outbox's for any jobs, confirmation depth and
fees; the agents' for any intents, plans, mandates and workers; the client's for any number of
tabs and transactions; the deployment's for both profiles and any number of kills, failed
reads, repeated ceremonies and pauses; those of the services for any number of mishaps. The
assumptions are those the modules
declare on their constants: amounts are naturals, scales and durations positive, the initial
risk configuration passes `_validate`, the fee is below 100 % (the constructors check these),
a signer set has the fixed size and the heartbeat holds two keys; no target of the keeper is
called `"none"`; the sets of accounts and ids are finite, since sums over them are taken
(only finitely many ever occur on a chain), and there are auction ids enough
(`AuctionIdsSuffice`); the pool offset of the margin engine is no auction id and not zero; the
API offers no duration that the market refuses (`DurationsAssumption`). The agents' two
invariants have the premise of their run that no worker outlives its lease.

**The market.** Most rest on one inductive invariant, `IInv == TypeOK /\ RecordsInv`. None
of the properties is inductive alone, and types are the first to fail: `Nat` for an
offer's remaining collateral needs that cumulative rounding never exceeds the total
(`MulDivPart`), and for a released amount it needs the bucket to hold exactly what the
record says. So `RecordsInv` carries, per record,

- *offers*: real owner, positive amounts, custody of the unallocated rest, cumulative
  shares. A fill needs them to show that the next share is not negative and that
  nothing is left when the target is reached. `MulDivProperPart` shows that an offer
  that is not full still has something to release;
- *positions*: ids handed out in order, two different parties, positive collateral,
  maturity after acceptance, a passed deadline in every unpaid end state, and the
  auction naming the position that names it. `CollateralExit` is that deadline;
- *auctions*: every id not yet given out is untouched and references are decided once,
  so that `AllocateAuction` never meets an occupied bucket.

The proof has one lemma per action (`FillOfferStep`, `StartAuctionStep`, ...), over
frame lemmas for what the action leaves alone and module lemmas for the vault, the
auction house and the escrow (`ProtocolModulesV2Theorems`), over the arithmetic of
rounding (in the same module).

`WaitingNeverPays` joins two facts. `PositionSteps` lists what any step can do to a
position, so one that stays `ACTIVE` is untouched while the clock moves on; and the
payoff grows with time (`PayoffGrows`) because each formula does and the scheduled
interest lies between them at maturity (`InterestAroundSchedule`).
`FillTermsGovernCloseout` needs an invariant on top of `IInv`: a repayment deadline is
never before maturity (`DeadlineAfterMaturity`), so a position in default owes its whole
schedule when `StartAuction` freezes the debt, and no later step changes what either
record says of the close-out (`AuctionSteps`, `AuctionedPositionKept`).

**Sums.** What the vault, the escrow and the aggregates hold are sums over finite sets
(`SumFunctionOnSet`), and the library's induction theorems take an operator as a parameter,
which the provers cannot instantiate. `ProtocolModulesV2Theorems` therefore proves induction for a
*set*: if `Good` contains every finite part of `S` whose proper parts it all contains, then
it contains every part of `S` (`SubsetInduction`). With the parts for which a formula holds as
`Good`, it gives that the recursive function under the library's fold exists (`TallyExists`), and
what a sum needs: nothing to add (`SumEmpty`), one element more or less (`SumAdd`,
`SumMinus`), functions that agree (`SumAgree`), naturals (`SumNat`), one entry that
changes (`SumChange`, `SumGroup`), parts (`SumSubset`). `ProtocolModulesV2Theorems` has one lemma per
call of the vault and of the escrow on top of it: which owner's sum moves, and by how much
(`VaultOutcomes`, `VaultBooksKept`, `BookBacked`). So `ImplementsCustody` is a
refinement proved call by call, once for the modules, and each of market and engine adds only that its
steps are such calls or leave the vault alone. `BooksBalance` adds that a fill appends the
position it allocates to, and `LenderIsSenior` follows a sale's claims through the book.

**The margin engine.** `MInv == MarginTypeOK /\ RecordsInv /\ PoolsInv` is the inductive
invariant. `MarginBooks` needs it because the engine never loops over lenders:

- `AggregatesRight`, `FundedByMandate`: counters and totals are the sums over the exposures,
  so that a decrement never goes below zero and a share has the right denominator;
- `AccountSound`: an account remembers the reason of what was done to it (a declared default
  had an overdue exposure, an open call its whole period, a closeout a positive frozen debt).
  `MarginCollateralIsKept` is these reasons, with `LimitsRise`: an account's snapshot is one of
  a valid configuration, so beyond the liquidation limit is beyond maintenance;
- `PoolLeft`: what is left of a pool is the pool less the shares claimed so far. This makes
  `RecoveryIsPariPassu` inductive: the rounded shares of any subset of lenders sum to at most the
  pool, and all of them to more than the pool less one unit per lender (`SharesOfPool`), so a
  share is always covered by what is left, and the last claimant's surplus is bounded
  (`LeftCoversShares`, `FairShare`);
- `ExposureSound`, `PoolsApart`, `AuctionsSound`, `PoolCustody`: a pool of the vault belongs to one
  account. Auction ids are given out in order below the offset, those in kind lie above it.

`SharesSpared`, that the escrow holds beyond all claims exactly the proceeds still to be
claimed, is inductive on top of `MInv`: a payment through the escrow leaves the difference
alone, a sale raises it by the lenders' part, a materialised claim lowers it by the share.
`LendersAreServed` joins it with `PoolLeft`, the vault's books and what `MarginBooks` says of
exposures and counters: the guard of a claim holds for every lender in every state.

**Ways out.** `NobodyIsLockedOut` is proved of the market and of the engine. Cancelling,
withdrawing, repaying and claiming follow from the invariants above, since what they need is
in the bucket that the record names. Starting an auction also needs an id.
`AuctionIdsInOrder` says that the ids given out are `1..n`, each to a reference of its own
that is closed out and stays so; so an active position or running account beside them has
room (`AuctionIdsSuffice`, counting by an injection of ids into references). It needs a
positive length of time (`AuctionsTakeTime`, copied from a valid risk configuration) and in
the engine some collateral: `Secured` says that an account that owes has some, because every
step that adds debt or removes collateral checks a limit that no debt meets without
(`CoveredIsSecured`, `AuctionsPossible`). The market also needs `PositionsEstablished` below
for the claim in kind, and for withdrawing that whatever the vault holds is of a configured
asset (`HoldingsConfigured`).

**The API.** `economics.ts` rounds with `ceilDiv`, which subtracts before it divides, the
contracts with `mulDiv`, which adds; `CeilDivIsMulDivCeil` says that they agree on every
natural, and `FillQuotedAsFilled` that the difference of two totals on a row is the
contract's cumulative share, because fills are cumulative (`IInv`). A payoff is quoted from
the terms of the row, so before maturity it may only lie below (`PayoffQuotedBelow`).
`PreflightNeverBlocksExits` and `PreflightRefusesOnlyEmptyClaims` go backwards from what a
step did: `PositionMovedBy`, `OfferClosedBy`, `ClaimPaidBy`, `AccountMoves` and
`RepaidByRepayment` find the one call that can have done it, its guard gives the facts, and
each reason of the preflight's answer is refuted by one of them. One remains: a claim of unsold
collateral that rounds to zero closes in the engine and is refused by the API, and the theorem
says that it is refused for this alone. Eligibility is common to
both (`EdgesPass`, `ParticipantsPass`): whom the pool admits passes, custody passes on the
factory's record, and a lender who does not pass is paid through the escrow, which does.
The market's needs one invariant more, `PositionsEstablished`: a position exists only of a
configured asset, since a claim in kind is refused of an unconfigured one, and a running position
names no auction, by which the preflight tells an oracle failure from a failed auction.
Both keep the property's premise that the API's sources are registered.

`PreparedCallsExecute` and `PreparedFundingExecutes` go the other way. The reasons of an answer
are a set with one member per check that failed; if it is empty each check passed, and
each conjunct of the contract's guard follows from one check or from the invariant. What no
check covers shows this way: the maximal rate of an offer is left to the contract, so the
property has it as a premise, and durations are the same by `DurationsAssumption`.

**The oracle.** A heartbeat signs the nonce after the one it read, so whatever it signed is
acceptable only if no other valuation came in between, and then its price is the one in
force. `HInv` follows that through the stages of a round: what was read, what is
signed, what is in the pool and may be submitted by anybody each *follows* the valuation it
was made from. It also ties the `isSigner` flags, which the rotation clears and sets one by
one, to the signer set. The three properties are its consequences step by step.

**The outbox.** `OutboxIsSound` speaks of rows and the pool, but between two steps the
worker knows more than the row: it has signed what it has not stored, or stored what it has not sent.
`OInv` therefore follows the worker's copy (`CopyStands`): it is the row's unless the
indexer cancelled the row meanwhile, and a signed replacement has the nonce of what it replaces.
`CallsTracked` then says that the pool holds no call of a job but the one that the row and the
copy name by nonce. This needs that a freshly read nonce is nobody else's, hence
`NoncesInOrder`, and that there is such a nonce at all: the pool is finite, so a window one
longer than the pool has a free number in it (`PendingNonceType`, by the pigeonhole
principle), and a set of naturals has a least element (`MinNat`). `CompletionsFinal` carries the depth
at which a receipt was read until the row succeeds. These three are stated while no block has
been reorganised away; types, `RowsIntact` and `CopyStands` hold always.

**The agents.** `QueueInv` joins intents and workers. `WorkerHolds`: a worker that is not idle
has the fresh lease of its intent, whose row no transaction holds, unless it is on its way out;
so no two workers are at one intent, and with `OneLease` none are at one wallet.
`SettlingKept`: while a transaction that ends an intent holds its row, the intent stays in the
state it was read in, so the event is its first. `LeaseExpirySound` is the one lemma that uses
the premise on leases. `OnlyTheCheckedIsSent` does without them, by an invariant of its own:
`PermitInv` ties decision, mandate and approval together from the request to the end, and says
that whoever is about to sign has an intent that left the queue through a lease. That nobody
joins the signers of an intent without authority is then read off `Refresh`, the only step that
leads there. `WithdrawalsStand` needs no invariant of the queue: `AuthoritySteps` lists what can
touch authority at all.

**The client.** `WInv` says what storage, tabs and transactions know of each other. A *final*
call is the one that performs the action, after the approvals. `Once` is the core:
at most one final call is live (in the pool or successful); until the user is told,
a stored record or the page that has just handed it over holds on to it (`Guarded`); and no
execution is still before its own final call. The last part carries the proof: an
execution starts only when the storage is empty, and `OneAtATime` keeps two tabs from
being in one. `Once` is stated while no hash is lost and every record can be stored (`Kept`),
the histories `DoneOnce` speaks of. `StorageSound` needs one record per id
(`OneRecordPerId`): writing a record replaces the one with its id, so removing it removes it
all. That the user is told only of what was done holds always (`Sound`).

**The deployment.** `DInv` relates four memories of the same facts: the chain, the
transactions, the journal with what the running script has printed, and the manifest.

- *Contracts keep* kind, modules, a final owner and everything in `Lasting` (`Keeps`,
  `WrittenKeeps`): a pause is undone, a schedule is replaced by its application, the rest
  stays. So what was true of a contract when a transaction succeeded is true for good
  (`GrowthKeeps`).
- `TxSound`: a transaction writes to a contract of the right kind, and what it did is there.
- `EntrySound`: a hash of the journal is of its own stage, and was sent to the addresses that
  the *same* map gives. This is what a resumed run can break, by mixing an address it
  knows with one from the journal. `RecoverStep` needs that what is printed agrees with the
  journal wherever both speak, and `StagesInOrder`, that each stage comes after those that
  create what it uses.
- `DeployedIsCoherent`: when all stages are behind, the printed addresses are coherent, which is
  `ManifestIsCoherent`, and `GrowthKeeps` keeps it.
- `Opening`: a transaction that readies an engine exists only once everything `EntryIsProven`
  asks of that engine is on the chain. A window script checks it when it starts
  (`WindowsAreProven`), and since all of it lasts it still holds when the transaction is
  sent, and when it is included after the script was killed.

`PendingLast` (what is in flight was sent last) makes what is left after a script ends a
suffix of what was sent.

TLC checked `IInv` with `PositionsEstablished`, `MInv` with `SharesSpared` and `LimitsRise`,
`HInv`, `OInv`, `QueueInv`, `PermitInv`, `WInv` and `DInv` on instances.

**Model-checked only.** The liveness properties (`OffersClose`, `CloseoutEnds`,
`EveryJobSettles`, `CatchesUp`, `QueueDrains`, `HeartbeatKeepsUp`, `LockIsReleased`,
`CeremonyCompletes`) need fairness, which is outside the prover's reach. The indexer's
`RebuildIsFaithful` compares the tables with a fold of the projector over the logs of a chain
of any length, an induction over data. All other properties of the passing runs are theorems.

## 5. Findings

One run shows a place where the code does not do what a document says.

`recovery`: `docs/AGENT_PLATFORM.md` says that ambiguous outcomes recover through the same
Privy idempotency key. The executor may stop, or lose Privy's answer, after the transaction
is signed and before its hash is recorded. When its lease has run out the intent
is leased again, and the worker first asks for a fresh authorisation. If the intent has expired
(its lifetime is shorter than the lease), access is withdrawn or the fresh preflight objects,
`refreshIntent` fails it as an ordinary failure and releases its reservation, while the
transaction lives.

Four other behaviours are not runs: the properties state what the code does, their comments
and the notes on `hazards` what the documents, where they speak of it, say.

- A pause or revocation cancels intents from `PREPARED` to `QUEUED` (`agent.ts:1027-1042`). One
  that a worker has leased and checked is still signed and sent, for `reportStep` looks at the
  lease alone. `docs/AGENT_PLATFORM.md:96` says that it "atomically cancels all unsubmitted work
  and releases reserved daily notional", and line 98 that authority that changes while `SIGNING`
  is recorded "fails closed with `AMBIGUOUS_SIGNING_OUTCOME`". `OnlyPermittedIsSent` says
  how far it goes: the one call the worker was about to make.
- The two jobs of a margin account (`startMarginLiquidation`, `startInKindOracleFallback`) serve
  its first call or default. After a cure or a full repayment their rows stay `CANCELLED`
  (`v2-projector.ts:124`), and the next call or default gets no automation, nor does the
  default declared after a cured call. `docs/ARCHITECTURE.md:122` promises durable jobs for both.
  `RebuildIsFaithful` has them live exactly during the first need.
- A lender's claim of unsold collateral that rounds to zero is refused by the API
  (`economics.ts:139` throws, `v2-preflight.ts:1374` reports a revert). The engine closes it
  "so closeout cannot deadlock before the final claimant receives all remaining dust"
  (`MarginEngineV2.sol:737`), and `docs/RUNBOOK.md:258` asks for "zero-rounded claim progress".
  The call itself remains open to the lender. `OnlyEmptyClaimsRefused` has it as the one exception.
- Two tables say less than the contracts on every path, without any fault or reorganisation.
  Valuations are unique by nonce as well as by asset and nonce (`schema.ts:402`), so a second
  asset's valuation whose nonce is taken is dropped. A vault balance row is keyed by bucket
  without the reference (`schema.ts:354`), so of the offers, positions or auctions that share a
  bucket it shows the one touched last. `RebuildIsFaithful` states both.

Other behaviours met while modelling are recorded as notes on `hazards`: an evicted
transaction of a cancelled job leaves a nonce gap that the next job cannot close; the
heartbeat publishes a withdrawn valuation again; the usage bucket is read and written
without a lock; a truncated journal may wedge a resumed deployment.

## 6. Not modelled

- `RepoMarketV1` with its indexer and keeper: legacy, kept so that old positions can be
  closed. Only the V1 keeper's use of the shared account is modelled.
- Routes, OAuth and MCP: parsing and authorisation around the modelled services.
- The compliance service's cache and HTTP client, `cleanverse.ts`, read views of `chain.ts`
  and `store.ts`: their answers are inputs of the models.
- Of the client: forms, rendering, the agent console. Of the agent platform: identities,
  challenges, signatures, audit texts.
- Of the scripts: fee-treasury onboarding, funding of role accounts, plan mode, the V1
  deployment, hashes of evidence files, verification of child modules.

Lines: the map covers about 32 % of the TypeScript and JavaScript; the contracts are
mapped nearly in full. The rest of the scripts' and services' lines is configuration,
parsing, formatting, ABI tables and markup.

## 7. Plan

1. An abstract outbox (a set of due calls, each executed at most once) that `KeeperOutbox`
   implements, so that the market's fairness becomes a refinement.
2. An abstract repo (principal lent, collateral pledged, one outcome) that
   `RepoMarketV2` refines.
3. The projector's handlers as a recursive function over a chain instead of a fold, with
   lemmas per handler, as far as `RebuildIsFaithful` can be had without induction: a round
   that projects one more log of a chain keeps the tables those of the logs projected.
4. **RepoMarketV1** with its keeper: the windows of repayment and default.
