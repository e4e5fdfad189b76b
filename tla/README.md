# Manci in TLA+: the on-chain programs and the server beside them

Manci issues, sells, trades and vests tokenized assets on Solana. Two programs
hold the money and the units: `asset_registry` (issuers, share classes, sales,
payout vaults, trades, vesting, custody, the platform's roles) and
`transfer_hook` (what every transfer of a unit must pass). A server
(`front/lib/server`, `front/app/api`, SQL functions in `front/supabase`) keeps
what the programs cannot know or show: a mirror of their accounts, and how much
of its legal EUR cap an issuer has raised. This directory models the parts in
which several parties act on one balance, one role or one table, and states what
must hold however their steps interleave.

## How the code is modelled

**On chain.** A Solana transaction is atomic and an instruction that returns an
error leaves nothing behind. So **an instruction is one action**: its guard is
the conjunction of the account constraints and the `require!`s, its primed
variables are the accounts it writes, the whole handler in one step, including
the transfers it makes and the settlement it ends in (`deposit_otc_*`). What
interleaves is *transactions*: of issuer, founder, investors, Admins, the super
admin, strangers who crank what is permissionless, the passing of time, and the
brakes (pause bits, issuer freeze, blocklist, KYC). "Cannot fail in the middle"
is given by the platform; "the next transaction finds a state nobody thought
of" is what the models look for.

**On the server** it is the other way round: a handler *can* stop in the middle.
It reads the chain (from a node, at a commitment) in one step, decides, and
writes the database in a later one. **A read of the chain is one step, a SQL
function is one step** (each runs in a transaction under row or advisory locks),
and between two steps of a handler anything else may happen: another handler,
the chain, or its own end (a deadline, a failed RPC, a dead process). What a
handler has read and where it is are part of the state (`doing` in
`SaleCapacity`; `worker`, `scan` and `beat` in `Indexer`).

Conventions used by every module:

* An account is a record or a component of a function; "the account exists" is
  a value other than `NoSale`, `NoProposal`, `Absent`, ... `init` is the guard
  that it does not exist, `close` the assignment that makes it so again. What
  `reclaim_rent` shrinks to an 8-byte tombstone is `Tombstone`: the account is
  gone but its address can never be used again.
* `SELECT ... FOR UPDATE`, unique indexes and leases appear as what they do:
  the step's atomicity, `Taken`, `Leased`.
* Token balances are variables of their own beside the ledgers kept in program
  accounts, because most of what can go wrong is the two parting.
* Time is in ticks. A guard of the code compares `Clock::unix_timestamp` with
  stored times, so only the order and the multiples of `MONTH` matter.
* A Merkle root is the weight function it commits to: "the proof of
  (investor, weight) verifies" becomes "weight = root[investor]".
* Checked arithmetic (`checked_add`, `u128` intermediates) makes an overflow an
  error, that is, a disabled action; amounts are small naturals.
* A definition commented `\* Slip:` is not part of the model. It is a plausible
  wrong version of the definition below it, used to confirm that each property
  notices when the code goes wrong in that way.

## The system

| Component | State | Operations | Interacts with |
|---|---|---|---|
| Payout vault | `PayoutVault`, `VaultVote`, `VaultVoteRecord`, `ClaimRecord`, escrow | open, post update, release, freeze, open/cast/finalize vote, claim refund, route yield, claim both yields | takes a Startup sale's proceeds; brakes; protocol treasury |
| Primary sale and supply | `SaleApproval`, `Sale`, `ShareClass` counters, proceeds escrow | approve, revoke, open, buy, mint to treasury, burn, lock, close, open vault | Admin records, KYC, issuer freeze, custody burns |
| Platform governance | `Platform`, `Admin`, `PendingAdmin`, `AuthorityProposal`, `PlatformRecovery` | propose/add/cancel/remove Admin, rotate, recover, pause | every privileged instruction reads it |
| Secondary market | `Offer`, `OtcDeal`, `EscrowMarker`, escrows | create, deposit, take/settle, cancel, expire, reclaim rent | transfer hook, KYC, blocklist |
| Vesting series | `VestingSeries`, `VestingPosition`, `EscrowIdentity`, escrow | create, add, finalize, deposit, approve, claim, push, recover, cancel, withdraw | transfer hook, KYC |
| Transfer hook, blocklist | `HookConfig`, `BlockEntry`, rotation of the blocklist authority | execute, block, unblock, rotate | every movement of units |
| KYC registry | `KycRegistry`, `KycEntry` | approve, revoke, jurisdictions, rotate | every receiver of a gated class |
| Custody vaults, clawbacks | `CustodyVault`, its escrow, the `AuthorityProposal` of its operator | open, deposit, mint into, trigger, realize, revert, return, reclaim; claw back; rotate | share-class supply, hook, Admins |
| Distributions, rights, proposals | `Distribution` + receipts, `RightsIssuance` + milestones, `Proposal` + votes | create, batch, claim, vote, close | Merkle snapshots |
| Issuer registration | `Issuer`, permissions, freeze | register, verify, freeze, permit, rotate | all issuer instructions |
| Sale capacity ledger | `sale_capacity_reservations`, `sale_capacity_holds`, rates; what each handler has read | reserve, confirm, release (Admin routes); reconcile, scan approvals, scan sales, close jobs (worker) | reads approvals and sales from the chain; `approve_sale` is sent by the Admin |
| Indexer and heartbeat | `indexer_events`, `indexer_jobs`, `indexer_account_versions` with the typed rows, `indexer_sync_state`, `indexer_heartbeat_watermarks` | webhook, claim/read/apply/finish a job, full reconcile, plan/sample/confirm | reads every account of the program; every page of the front reads its tables |
| Set-up, treasury setting, pages and other routes, operations | - | - | outside the models |

`PROJECT.json` lists the components with their sources and status, the line of
code behind every definition (`map`), and the hazards each property answers to.

### What is hard in this code, and what makes each part correct

* **Payout vault.** One token account holds four pots whose instructions know
  nothing of each other: unreleased principal, refunds, the founder's yield and
  the investors'. The total weight is fixed by whichever comes first, a yield
  or a vote, while each vote round brings a new root. `finalize_vault_vote`
  moves the schedule. Correct: the escrow covers all four together; an amount of
  principal goes to the founder in a due tranche *or* back to the investors of
  the deciding snapshot, once; ballots count once; a founder who posts is paid;
  nobody's inaction but the founder's, Admin's or voters' holds the money.
* **Primary sale.** What an Admin reviews is used weeks later by an issuer who
  picks price, amount and start; sales, mints and burns share one cap. Correct:
  no sale outside a review; the cap holds across all issuers of units; Startup
  money leaves into a payout vault only.
* **Governance.** Proposals are accounts that outlive their proposer's role and
  are rewritten in place; the bootstrap window waives the timelocks. Correct:
  no role without its full public notice, a recovery that neither rotation nor
  a hostile key can dodge, a super admin who always has a record.
* **Secondary market.** Escrow markers lift the hook's receiver check, anybody
  can push units into a marked escrow, KYC lapses while units are inside.
  Correct: nobody who is not vetted ends up with more than it put in, money
  moves only with units, nothing is lost with a closed escrow, trades end.
* **Vesting.** Funding by anybody in instalments, delivery, cancellation and
  withdrawal out of one possibly underfunded escrow; approval with a time limit.
  Correct: the vested part is the recipient's, the escrow backs it, the client
  gets back no more than it may.
* **Custody.** A delivery escrow has the markers and pushes of a trade's escrow,
  an operator who can lose its role after triggering it, and a return that may
  be partial. Seizures are justified by a passport entry that shows only its
  latest decision. Correct: every unit is in a wallet or a vault with an exit;
  seized units only burn; no sequence of mint, push and return gives units to
  somebody without a passport; a holder loses nothing it has not signed, short
  of what the code names; a deposit does not outstay its deadline.
* **Sale capacity.** The cap lives in the server, the approval on the chain, and
  the Admin's transaction between them can land late, twice asked for, or never.
  Two handlers and the chain interleave; sales may be approved without asking and
  in tokens nobody can price yet. Correct: nothing counts twice, what the cap was
  asked about never exceeds it, room is freed only when nothing can use it, and
  every sale is counted in the end.
* **Indexer.** Nodes lag, webhooks are late, lost, doubled or without a slot,
  leases lapse under a worker that goes on, a full reconcile and a heartbeat run
  beside the workers. Correct: a row never goes back in time, an event that
  counts as handled is in the tables, and what `checked_at` vouches for is there.

## The modules

| Module | What it is |
|---|---|
| `PayoutVault` | every instruction of a payout vault |
| `PayoutPromise` | abstract: what a Startup raise promises about its principal |
| `MCPayoutVault` | instance, sum properties, the refinement mapping to `PayoutPromise` |
| `MCPayoutVaultLive` | its scenarios and one with an endless clock and fairness |
| `PayoutVaultProofs` | the theorems about a vault's ledger, schedule and ballots, the sums over its investors and the refinement of `PayoutPromise` |
| `SumTheorems` | sums over a finite set: change at one element, one element more, shares fit the pot |
| `PrimarySale` | approvals, sales, minting, the supply cap and lock |
| `MCPrimarySale`, `MCPrimarySaleLapse` | instance; the instance with a history of lost roles |
| `PlatformGovernance` | roles, timelocks, recovery, pause flags |
| `MCPlatformGovernance`, `MCPlatformIncident` | instance with the history of public notice; the incident build against a hostile super admin |
| `PlatformGovernanceProofs` | the theorems about it |
| `SecondaryMarket`, `MCSecondaryMarket` | offers, OTC deals, the hook; instance |
| `SecondaryMarketProofs` | the theorems about its ledgers, its sums and the wallets' stakes |
| `VestingSeries`, `MCVestingSeries` | one vesting series; instance |
| `Clock` | the clock that a sale and a vesting series read |
| `IssuanceProofs` | the theorems about the two ways units reach their holders: vesting series and primary sales |
| `CustodyVault` | custody vaults, clawbacks, passports, the rotation of operators |
| `MCCustodyVault` | units and passports under one operator; one vault under changing roles |
| `CustodyVaultProofs` | the theorems about its units, its quarantine and its holders |
| `SaleCapacity` | the EUR ledger, its routes, its worker, and the chain they read |
| `MCSaleCapacity`, `MCSaleCapacityLive` | two ids in two scenarios; one id with the worker running |
| `SaleCapacityProofs` | the theorems about it |
| `Indexer` | webhook queue, workers, full reconcile, heartbeat |
| `ChainMirror` | abstract: what readers of the tables are promised |
| `MCIndexer` | instance, its scenarios and symmetry |
| `IndexerProofs` | the theorems about it: the refinement of `ChainMirror`, and what the reconcile and the heartbeat vouch for |

Names follow the source: fields keep their Rust names (`tranches_released`,
`vote_pending`, `asset_deposited_amount`), an action has the instruction's name
in CamelCase (`release_payout` is `ReleasePayout`), and helpers of `util.rs`
keep theirs (`vesting_position_entitlement`, `split_escrow_release` as
`Release`), SQL columns and functions likewise (`NewRow`, `Applied` name what
`reserve_sale_capacity` inserts and `apply_indexer_snapshot` leaves). History variables, which no account holds, are in lower CamelCase
(`refundsPaid`, `treasuryMinted`, `reviewed`, `noticed`, `lapsed`, `unvetted`).

### PayoutVault

`OpenPayoutVault` sweeps the proceeds of a sale and fixes the schedule;
`PostUpdate` and `ReleasePayout` are the founder's monthly pair, the last
tranche taking the remainder of the division; `FreezeVault` is open to anybody
once `overdue_periods` reaches the threshold; `OpenVaultVote`, `CastVaultVote`
and `FinalizeVaultVote` either cancel the raise (`ClaimRefund`) or shift
`start_ts` by `ExtendBy`. `RouteYield` cuts a payment in three, two of which
stay in the escrow, and the two yield claims draw on it.

`PayoutPromise` has the principal only: one pot, paid to the founder while
streaming; if it is returned, every investor's share is fixed at that moment,
the shares fit what is left, each is paid once, and the founder gets nothing
more. `MCPayoutVault!KeepsPromise` maps the vault to it: the vault's state to
the promise's mode, `released` to what the founder got, the floor of
`weight * rest / total_weight` to the share. Schedule, freezing, votes, brakes
and yield are stutters.

### PrimarySale

One share class. `ApproveSale`/`RevokeSaleApproval` (an Admin) write the
reviewed terms under a sale id; `OpenSale` checks the issuer's terms against
them and consumes the account; `Buy` issues units against money;
`MintToTreasury` and `BurnFromCustody` change the same counters; `LockSupply`
is one-way; `CloseSale` sweeps a Mature sale to the issuer, `OpenPayoutVault` a
Startup sale into a vault (the same instruction whose other half is
`PayoutVault!OpenPayoutVault`). `AddAdmin` and `RemoveAdmin` come from
governance and appear here because an approval names its approver.

### PlatformGovernance

`grants`, `transfer` and `recovery` are the three proposal accounts. A grant or
rotation carries the super admin who was in office (`current`) and is refused
under another. `MoveUpgradeAuthority` is the loader's, outside both programs.
`Cleared` ends the bootstrap window with any clear of any pause.

### SecondaryMarket

`HookPasses` is `process_execute` in KycGated mode: a blocked source never
passes; the receiver's KYC is checked unless source or destination is an escrow
whose marker exists. A `trades` record holds the account and its escrow
balances side by side: `deposited` is the ledger, `escrow` the balance.
`Push`, `PushPayment` and `Transfer` are plain token transfers, by anybody.
`Release` splits what an escrow gives back: the payee's own deposit without a
check, anything else only to an eligible payee.

### VestingSeries

`terms` is what creation fixes, `series` the rest. `vesting_cumulative`,
`vesting_deliverable_cumulative` and `vesting_position_entitlement` are the
functions of `util.rs`, the interpolation before the cliff and the floors
included. `identity` is the `EscrowIdentity` that tells the client's own deposits
from others' when the client's KYC has lapsed.
Its `VestingInit`, `VestingNext` and so on carry the name, and the clock is `Clock`'s,
so that `IssuanceProofs` can extend this module and `PrimarySale` together.

### CustodyVault

Vaults of three types: `DeliveryEscrow` (a holder's own units, realized for it
or returned) and `RedemptionQueue` and `Vesting`, whose exits burn. A `vaults`
record has `deposited` and `escrow` side by side, as a trade has;
`ReturnCustodyVault` splits the balance by `Release`, spends the ledger
(`Spent`) and ends the vault only when nothing was withheld. `RealizeCustodyVault`
and `RevertCustodyVault` are `BurnEscrow` under different conditions, and each is
one of the two burns that `PrimarySale!BurnFromCustody` stands for. Both
clawbacks are `SeizeIntoQuarantine`, past the hook's sender check. `kyc` has the
entries themselves, because `ClawbackFromHolder` reads their status and expiry
where the hook asks only whether they pass. `ProposeCustodyAuthority`,
`AcceptCustodyAuthority` and `CancelCustodyAuthorityTransfer` change who decides;
`AddAdmin`, `RemoveAdmin`, `InstallAdmin` are `PlatformGovernance`'s, at any
time here.

### SaleCapacity

One issuer ("subject"), sale ids of one share class. `chain` is what a node
shows at *confirmed*, `final` at *finalized*; `txs` follows the `approve_sale`
an Admin sends for each reservation (not sent, sent, landed, failed, its
blockhash outlived). `rows` are the reservations, oldest first: `reserved`,
`consumed` (a sale is open), then `booked`, `unsold` or `released`; `conf` says
that the approval was seen, `adopted` that the row follows the chain, not a
request. `holds` are the facts no rate could count; while one exists
`MayReserve` refuses (the trigger `sale_capacity_hold_guard`,
`0073_sale_capacity_followups.sql:201-219`).

`doing[a]` is a handler: its `kind` (`reserve`, `confirm`, `release` are an
Admin's routes; `reconcile`, `approvals`, `sales`, `close` the retry worker's
passes), the `step` it does next, and what it read: the row, the approval's
terms, the sale. The *looks* at the chain (`ConfirmLook`, `ReleaseLook`,
`ReconcileLook`, `SaleLook`) only fill it in; the *writes* (`Reserve`, `Adopt`,
`Confirm`, `Release`, `Consume`, `Book`, `Hold`, `Clear`) are the SQL functions
and check what those check. A route releases only what it can prove dead: a
failed signature, or a blockhash that is past its height and nothing at
*finalized*.

### Indexer

A slot is one successful transaction of the program that writes or closes one
account; `RowAt(a, s)` is account `a` after slot `s` (0 when closed). `mirror`
holds for each account the slot it was read at and the row; `Applied` is
`apply_indexer_snapshot` with its two refusals (older than the row; a row over
a tombstone of its own slot). A worker claims a job under a lease, reads the
account at any slot from `MinContextSlot` on, applies it, and finishes the job
if the lease is still its own. A reconcile reads everything at one slot, writes
what lives, then closes what the tables showed and the snapshot did not. The
heartbeat plans a sample, reads it, lists signatures back to its floor, and
`Confirm` moves the watermark over decoded events and, when everything agrees,
`checked_at` (`proven`).

`ChainMirror` promises that every account is shown as the chain had it at some
slot, and that this slot never goes back. `MirrorsChain` maps the indexer to it.

## The runs

All with the configurations here; sizes are distinct states.

| Run | Configuration, module | States | What it shows |
|---|---|---|---|
| `payout` | `PayoutVault.cfg`, `MCPayoutVaultLive` | 615,738 | a raise from the sweep to the last tranche or refund: the schedule, the tallies, one escrow that covers every promise, a fresh start after an Extend, the refinement of `PayoutPromise`; no vault stays Active for ever, an earned tranche is paid, every refund is paid although all brakes stay on |
| `sale` | `PrimarySale.cfg`, `MCPrimarySale` | 389,872 | a sale runs within one review, the money goes where the kind of raise says, the cap holds, the lock is final |
| `governance` | `PlatformGovernance.cfg`, `MCPlatformGovernance` | 746,040 | roles stay consistent, a pending recovery stays bound to the super admin in office, nobody takes a role without its full public notice |
| `incident` | `PlatformIncident.cfg`, `MCPlatformIncident` | 15,878 | the `incident` build against a hostile super admin: a recovery lands before its window ends |
| `market` | `SecondaryMarket.cfg`, `MCSecondaryMarket` | 1,295,176 | ledgers backed, nothing lost with a closed escrow, nobody unvetted gains, money moves only with units, trades end |
| `vesting` | `VestingSeries.cfg`, `MCVestingSeries` | 554,896 | recipients stay backed, what vested stays theirs, an unvetted client takes only its own, what is deliverable is delivered |
| `custody` | `CustodyVault.cfg`, `MCCustodyVault` | 527,920 | every unit accounted for, seized units only burn, nobody unvetted holds more, nobody loses unawares; a deposit comes back although roles are lost and entry is paused |
| `capacity` | `SaleCapacity.cfg`, `MCSaleCapacity` | 1,705,234 | no id counts twice, a row follows its sale, the cap is passed only by adopting what the chain already has, releases are justified, holds end counted |
| `capacity_live` | `SaleCapacityLive.cfg`, `MCSaleCapacityLive` | 80,636 | with the worker running every priced sale is counted, and booked or found unsold once closed |
| `indexer` | `Indexer.cfg`, `MCIndexer` | 1,473,762 | the mirror implements `ChainMirror`, a decoded event is in it, what is vouched for is complete for what lives |
| `sale_lapse` | `PrimarySaleLapse.cfg`, `MCPrimarySaleLapse` | violation | an approval outlives its approver's role (below) |
| `indexer_ghost` | `IndexerGhost.cfg`, `MCIndexer` | violation | `checked_at` moves over a row of a closed account (below) |

`payout`, `market`, `vesting` and `custody` check their liveness in the same run as
safety, `incident` and `capacity_live` liveness alone; the other runs assume no fairness. `CHECK_DEADLOCK FALSE` everywhere: the
clock, the chain's length or the number of reservations is bounded, and a
completed vault or a super admin who has been replaced in `incident` really has
nothing left to do.

### Bounds, and why they are enough

Several instances are the union of *scenarios*, constraints on the steps that cut
off what would only multiply states. Each is named in its MC module.

* **Payout vault.** Two investors with weights 2:1, 1:2 and 1:1 (the last with
  a different total, refused after the others). `PrincipalScenario`: raises 2
  and 5, `MONTH` of two ticks, so that times fall inside a period and on its
  edge, threshold 3 as in `constants.rs`, 14 ticks: time for two freezes, two
  rounds and the end of the schedule. `YieldScenario`: raise 7 in two tranches,
  which no snapshot divides, one round, payments of 3 and 8, pool up to
  `MaxPool` = 4, 8 ticks: a claim can precede, fall between and follow
  routings, and a vote end. `Endless`: raise 4 over one or two months, one
  snapshot, two rounds, every brake on or off, and a clock that slides on at
  `EndlessTime` = 2, since only differences of times matter. `MaxTime`, `MaxRounds`, `MaxPool` are guards of `Tick`,
  `OpenVaultVote` and `RouteYield`; the proofs do not depend on them.
* **Primary sale.** `ReviewScenario`: one sale id under every combination of two
  approvals and twelve sale terms, six of them outside the review in one way
  each; the clock of 3 passes the approval's life, start and end.
  `SupplyScenario`: two sales that together offer more than the cap of 3, all
  four kinds of class, and `MaxMinted` = 5, so burned units can be issued again.
* **Governance.** Three keys (outgoing, incoming and a third), timelocks and
  windows of one tick, clock up to 2: a proposal can be early, ripe and expired,
  and be rewritten at each. Keys are interchangeable in `Init`, `Next` and every
  property, hence the symmetry; the run has no liveness property. In `incident`
  the delay is 0, as the build has it, there are three keys of which the
  attacker controls two, and no symmetry.
* **Market.** A treasury with 3 units, a trader with money, an outsider who is
  never eligible; one offer of 2 and one deal of 2 units, moved one at a time,
  so that an escrow is under-, exactly and over-full and the two trades compete
  for units. `TradingSpec` lets pauses and blocks happen while at most one trade
  is open, and two trades while there are none (`Room`): a pause or a block only
  ever refuses an instruction.
* **Vesting.** Three units over two tranches and at most two positions, schedule
  interpolated before the cliff by half, clock 3: before, at and after each
  unlock and the end of an approval window. `MaxEscrow` = 4 leaves one unit of
  surplus from a push. `UnblockedSpec` leaves out pauses and block entries,
  which refuse a step or hold up a delivery as a lapsed KYC entry does; KYC
  lapses and returns at any time.
* **Custody.** `Passports`: an investor with 2 units whose passport is given,
  renewed, revoked, lapses and is reclaimed at any time, an outsider with 1 unit
  who never has one, a delivery escrow for either and a redemption
  queue, cap 3, so that burned units are minted again. Units move one at a
  time or are swept. Validity 2, grace 1, deadlines 1 to 2 ticks ahead, clock 4:
  an entry can be valid, in grace and past it, and renewed in each.
  `signer` and `lapsed` are histories: a holder's push into a quarantine and a
  seizure change the same balances, and an entry does not tell for how long
  there was no valid one. One operator, who may always act, and no pause: both
  only ever refuse. The other scene has them: two operators in every
  combination of grants, removals, rotations of roles and of the vault, one
  vault of any type, an investor who may deposit and push.
* **Sale capacity.** Cap 4 and rates that do not divide a token's units, so that
  every conversion rounds. `Raced`: reservations, landed approvals and releases
  of id 1 in any order (three together) while a reservation of id 2 competes for
  room: an id can be reserved, released and adopted again, and an old handler
  can come back to a row that has moved on. `Unasked`: one approval of each id
  that nobody reserved, id 2 in a token without a rate, which sets and clears a
  hold. A sale sells all or nothing; one larger than its reservation does occur.
  Liveness: one id, one reservation, one approval that lands, a rate that may
  come late.
* **Indexer.** Two accounts, two workers, three transactions, a sample of one.
  `Pairs`: any two of the four handlers at once. `Third`: the third transaction
  touches the same account as the first two (open, close and open again, or
  write twice), with one worker beside the reconcile, without the heartbeat, and
  with one event lost. Accounts and workers are interchangeable; the run has no
  liveness property.

### Fairness

* `payout`: time goes on for ever; weak fairness of `FreezeVault`, `FinalizeVaultVote`
  and `ClaimRefund`, which somebody with something to gain can send and which no
  brake stops; strong fairness of `ReleasePayout`, which anybody may send
  whenever it is enabled and which brakes may hold off again and again. Nothing
  is assumed of the founder's updates, of the Admin, of voters. `ActiveEnds` and
  `EarnedTrancheIsPaid` hold under `[]<>(brakes = {})`; the two on votes and
  refunds with every brake on for ever. A clock that stops would excuse what is
  due later, so in the `Endless` scenario time slides on: at `EndlessTime` a tick
  moves every stored time back instead (the module's head says why this is the
  same behaviour). The fairness rules the other scenarios' finite clocks out.
* `market`, `vesting`: weak fairness of time and of the permissionless
  cranks (`expire_offer`, `expire_otc_deal`, `push_vested`), which need nobody's
  signature but the sender's. The properties name what excuses them: the block
  entry of a party with a deposit; a recipient who is blocked or not eligible.
* `custody`: weak fairness of time and of the return of an overdue vault,
  which anybody may send (`OverdueReturn`). Nothing is assumed of an operator or
  the super admin. No vault is ever blocked in the instance: the block entry of a
  vault itself holds its return back for as long as it is there.
* `incident`: weak fairness of `ExecutePlatformRecovery` only. The attacker is
  not fair; the clock may stop.
* `capacity_live`: the chain finalizes, a handler that has begun goes on
  (`WorkerProceeds`), handlers are not cut off for ever, and the worker, which
  runs every minute, gets to the due close jobs and to the sales no row covers
  (strong fairness: it does one thing at a time). Nobody has to add a rate, open,
  buy or close; `SalesGetBooked` starts where a rate exists.

## The findings

**An approval outlives its approver's role.** `sale_lapse` is expected to fail. The comment in `open_sale.rs:90-92` says that
"an approval dies with its approver's Admin role (`remove_admin`, or a
super-admin rotation, closes the record), so a removed or compromised key's
approvals cannot be used". An approval names its approver by key, and
`open_sale` asks whether that key has an Admin record *now*. TLC finds the
sequence: approve, remove the approver, grant the role to the same key again
(the 48 hours of timelock fit the approval's 90 days), open the sale. The
approval was suspended, not dead. It takes the super admin's two signatures to
bring the key back, so this is a difference between code and comment: an
operator who relies on the comment will not think of revoking.

**`checked_at` over a row of a closed account.** `indexer_ghost` is expected to
fail. Migration `0075_indexer_heartbeat.sql:9-10` says that the heartbeat
"extends checked_at ONLY when this SQL proves, from chain evidence gathered in
the same run, that the mirror is still in sync". TLC finds: an account is opened
in slot 1 and closed in slot 2, and the event of the close is lost. A worker
reads the account at slot 1 and is late. A full reconcile at slot 2 finds
neither account nor row, so it leaves no tombstone (`indexer-sync.ts:206-214`)
and becomes the heartbeat's floor. A plan samples the mirror, empty still; the
worker writes its row and finishes. The heartbeat now finds no pending job,
nothing above its floor and an empty sample, and moves `checked_at` to a slot at
which the row it leaves in the tables had no account. `NothingMissing` is what
does hold: all that lives is shown. The next reconcile removes the row.

One deviation has no document to contradict and so no run: `applySale` and
`consume_sale_reservation` never compare a sale's payment mint with that of the
row they consume. Only an approval revoked and given again in another mint
between a reservation and its consumption makes the two differ, and a row is
then counted at the old mint's rate; sizes are compared (`Grew`).

A second one concerns only rent. `rotate_authority.rs:340` has the cancel
instruction withdraw a custody rotation "live, stale or expired", but it takes
the vault as an `Account<CustodyVault>`, and `reclaim_rent` turns a finished vault
into a tombstone without looking at its proposal. A proposal still pending then
(`CustodyVault` allows it, and `CancelCustodyAuthorityTransfer` asks that the vault
exists) can be neither accepted nor withdrawn. No units and no role are at stake:
a tombstoned id is never opened again.

## What is proved

TLAPS checks these for **every** value of the constants that satisfies the
module's assumptions (`ConstantsAssumption`, `MarketAssumption`,
`IndexerAssumption` and so on: named, in the module that declares the constants,
and evaluated by TLC on every run): any number of investors, keys, sales and
workers, any amounts, terms, snapshots, length of a month, threshold, timelock.

**Payout vault** (`PayoutVaultProofs`). `TypeCorrect`, `LedgerSafe`,
`ScheduleSafe`, `EarnedSafe` from the inductive invariant

    IInv == TypeOK /\ Sized /\ Weighed /\ RoundsInOrder
            /\ LedgerBalances /\ ScheduleKept /\ EarnedTrancheIsDue

* `Sized` (an open vault has at least one tranche of at least one unit and
  `num_tranches * tranche_amount <= total_amount`) is needed for the last
  tranche to be positive and for `released` to stay below the principal: without
  it `ScheduleKept` is not preserved by `ReleasePayout`.
* `Weighed` (once there is a root there is a positive total weight) is what
  makes the divisions in the claims natural numbers.
* `RoundsInOrder` (rounds are opened one after the other, the last alone can be
  pending) ties `vote_pending` to the vote accounts; without it a claim could
  name a round whose root was never set.

Then the action properties: `FreshStart` (after an Extend no period is overdue,
from `IInv` and the further invariant that a Frozen vault is overdue, by the
arithmetic of `ExtendCatchesUp`), `BallotsFinal`, `ReturnFinal`.

**Governance** (`PlatformGovernanceProofs`). `RolesTyped` and
`RolesStayConsistent` (the super admin has a record, a pending recovery is bound
to the super admin in office, waived timelocks mean paused entry flows) from
`RoleInv == TypeOK /\ SuperAdminIsAdmin /\ RecoveryIsLive /\ BootstrapMeansPaused`,
and `RecoveryCannotBeDodged` from it: a rotation is refused while a recovery
binds the super admin in office, and by `RecoveryIsLive` a pending one always does.
`NoticeGiven` is about the history `noticed` of `MCPlatformGovernance`. The
invariant `NoticeInv` ties it to the accounts: whoever is named has been named
since no later than the date in the account that names it. It is kept because an
account is written whole, date included, or not at all, and because a recovery
that retires a rotation touches neither its key nor its date. The three
instructions that hand out a role then wait for `proposed_at` plus the timelock,
which `TypeOK` says every proposal carries.

**Sale capacity** (`SaleCapacityProofs`): every safety property of the ledger, for
any number of ids, mints and reservations. `CountedOnceSafe`: no sale id takes
capacity twice. `CountedOnce` is
not inductive: an adoption may bring a released row back, and nothing in
`CountedOnce` says that no other row of the id counts by then. What is inductive
is `RowsInv`: *only the newest row of an id counts*. `NextIsRowsStep` reduces
every action to one of three kinds: the rows stay, one row is rewritten (and if
it counts where it did not, it is the newest), or a row is inserted for an id
nobody counts. For this the handlers' memory does not matter.

For the rest it is everything. A handler writes what it read some steps before,
with the chain, the other handler and aborts in between. The second invariant is

    LedgerInv == RowsInv /\ ChainFine /\ TxsFine /\ RowsFine /\ JobsFine

* `JobsFine` says, step by step of a handler, what is *still* true of what it has
  read: the sale it saw is one the chain has, as it once was (`Behind`: sold no
  more than now, and if closed then finally); the row in its hands is of its id;
  a release was preceded by a look that found neither sale nor usable approval,
  or an approval has landed since (`FreeSince`); and a release the route had to
  prove comes with a transaction that failed or is past (`Proved`).
* `Forward` is why this stays true: a sale only moves on, a row keeps its id, a
  transaction that is past stays past, and an id that was free is taken only by
  an approval that lands. Every action satisfies it (`JobKept` uses nothing else).
* `TxsFine` ties approvals to transactions: one for a reservation is on the chain
  only after its own landed, and once that one is past, finalized shows the
  approval too. So the route's last look at finalized proves what it concludes.
* `RowsFine` is `FollowsItsSale` with the types, and that a reserved row is
  counted in full, which the consumption of a smaller sale needs.

`FollowsSaleSafe`, `ReleasesAreJustified` and `HoldsEnd` follow. `CapSafe` is about a
sum over rows: `Asking`, what a row takes of the amount the cap was asked for, is
lowered or kept by each of the five functions that rewrite a row
(`ConfirmedFine`, `ReleasedFine`, `ConsumedFine`, `BookedFine`, `AdoptedFine`), an
adopted row asks for nothing, and an inserted one was found to fit. Rounding
matters here: `Eur` rounds up, and `EurMonotone` says a larger size at the same rate
is no cheaper, by the integer division alone.

The attempt at this proof corrected `HoldsEndCounted`. It used to demand that a row
covers the sale when the hold ends. In the run's scenarios TLC agrees, but the
induction fails, and TLC without the scenarios shows why: between the worker's adoption and its
`Clear`, a release of the route that had looked *before* the adoption can let the
very row go that was just counted. The property now names that case
(`LetGoMeanwhile`) and demands what then makes it harmless: the chain has the sale,
so the next scan finds it uncovered.

**Indexer** (`IndexerProofs`). `MirrorImplementsChain`, the refinement of
`ChainMirror`, for any number of accounts, workers and transactions. Three kinds
of step again (`StepKinds`): rows move forward, the chain grows, neither. The
invariant `PastInv` says that every row is `RowAt` of its slot, a slot of the
chain, *and that what a worker or the reconcile has read is a slot of the chain*
(`ReadsOfPast`), without which the write that follows could show the future.
`DecodedSafe`, that an event which counts as decoded is in the mirror, from
`DecodedInv`: it adds that a worker past its write *leaves the mirror at or
beyond the event it holds*, also when its lease lapsed and another took the job.
The delicate step is `FinishJob` by a worker whose lease lapsed and was given to
the same worker again.

**What the reconcile and the heartbeat vouch for** (`IndexerProofs`, second
part). `NothingIsMissing` speaks of contents, but what the handlers keep is about
slots. `Passed(s)`: the mirror is past every transaction up to `s` of the accounts
that have lived since. The proof shows that the slot of the last reconcile, the
watermark and `checked_at` are all `Passed` (`Vouched`), and that this stays so:
rows only move forward, and a longer chain has no more accounts that lived since
a slot. The delicate step is the heartbeat's (`EvidencePasses`): it has looked
only above its floor, and an account closed after the floor that lives again is
not one the floor speaks of. It has then been written since, above the floor,
and that event is decoded, so by `DecodedSafe` in the mirror.

**Primary sale** (`IssuanceProofs`, second part). `SupplyCapSafe`, `MoneyTrailSafe`,
`ReviewBinds` and `LockFinal`, from
`SaleInv == TypeOK /\ SupplyCapped /\ MoneyTrail /\ OffersReviewed`.
`SaleWithinReview` says that what was *sold* fits the reviewed gross; a `Buy`
keeps that only because the whole *offer*, price times total, fitted it when the
sale was opened. That is `OffersReviewed`.

**Vesting** (`IssuanceProofs`, first part), for any wallets, schedules of any length,
positions, amounts and windows. `RecipientsAreBacked`, `VestedStaysOwned` and
`UnvettedWithinOwn`, from the inductive invariant

    VestingInv == VestingTypeOK /\ Begins /\ Booked /\ DraftUntouched /\ PromiseFits
                  /\ NothingEarly /\ EscrowCovers
                  /\ unvetted <= identity.own_refunded

* `RecipientsBacked` is about a sum of floors, the share of each position less what it
  has received. It is not inductive: its steps move totals. `EscrowCovers` is: what
  is in the escrow and what has left it to recipients make up at least the lesser of
  the deposits and the promise. `Booked` (the totals of a series are sums over its
  positions), `NothingEarly` (no position is ahead of its share) and `SharesFit` turn
  that into the sum. Deposits beyond the promise and pushes may be withdrawn;
  `withdraw_unvested` reserves just what `EscrowCovers` asks for.
* `DraftUntouched` is what makes a cancelled draft safe: nothing was delivered, so the
  promise can drop to nothing and everything may go back.
* `PromiseFits` says that what is frozen at a cancellation, the earned tranches or the
  interpolation before the cliff, fits what is allocated (`PreCliffFits`).
* `VestedStaysOwned` needs that the amount unlocked never falls with time or across a
  cancellation (`FewerTranches`, `CancelFreezes`) and that a floor is monotone in it
  (`ShareMonotone`), over products of variables, which the solver needs led through.
  A recovery changes the wallet of a position, never its numbers.
* `UnvettedWithinOwn`: the history `unvetted` stays within `own_refunded`, which
  `withdraw_available` in turn keeps within the client's own deposits less what is
  reserved.

The attempt at this proof found two definitions of the model ambiguous: the guards of
two `CASE` expressions, for a cancelled and an unfunded series in
`vesting_deliverable_cumulative` and for the draft in `CancelVestingSeries`, could
both be true, and TLA+ does not say which branch is taken. TLC takes the first, which
is what the code does, so no run was wrong; the definitions now say it.

**Secondary market** (`SecondaryMarketProofs`). `EveryLedgerBacked` and
`MarketTyped`, in which no balance ever goes negative. The invariant adds
`DealFine`: each ledger of an open deal is empty or whole. Without it a
settlement could hand over more than was deposited. A push reaches only an open
trade: the hook lets units into a marked escrow, and the marker goes with the
trade.

`NothingLost`, `VettedGain` and `UnitsPaidFor` go over steps. Each one touches the
wallets and *one* trade (`Touches`), so that a wallet's stake changes by what it and
that trade's ledgers change by (`StakeChange`), and the sums over all trades by
that trade's escrows. `StepFine` then says of every action that units and money are
conserved (`Conserved`), that who gains units is eligible (`Gain`), and that who gains
money sold for it (`PaidFor`). The settlements are the hard case: two stakes in each
currency change while the trade goes away, and only `MarketInv` (a ledger is
empty or whole, and its escrow covers it) makes what is paid out the depositor's own.

**Custody** (`CustodyVaultProofs`), for any finite sets of holders and vaults, any
deadlines, lots and windows. The inductive invariant
`CustodyInv == Around /\ VaultsFine /\ Accounted` holds the types, that an escrow
covers its ledger while its vault is live and is empty once it has ended, that only
a delivery escrow has a beneficiary or a deposit, and the count of the units.

* `CustodyAccounted`: the units in circulation are those in wallets and in escrows of
  live vaults. `Accounted` alone is not inductive: that an ended vault is empty
  is what lets `reclaim_rent` and a new vault under the id drop its account.
* `QuarantineBurns`, `OnlyVettedHold`: what a step takes out of a vault that is
  no delivery escrow leaves circulation, and a holding (the wallet and the holder's own
  deposits) grows only while its holder is eligible. `StepFine` gathers them, and every
  action is one of a few kinds: a vault alone (`VaultAlone`), a vault and a wallet,
  wallets alone, the surroundings.
* `LossesJustified` is about the histories `signer` and `lapsed` of
  `MCCustodyVault`. `LapseCounted` ties the second to the entries: an entry that has
  expired has been counted since it did, so that a seizure which reads the entry's
  `expiry` finds a holder whose lapse really lasted that long. An entry that is
  approved again is valid at that moment, which starts the count anew (`EntrySteps`).

**Sums over investors** (`SumTheorems`, second part of `PayoutVaultProofs`).
`PromisesSafe`, `TalliesSafe`
and `PromiseKept`, the refinement of `PayoutPromise`, are about sums over all
investors. `SumTheorems` proves what they, the cap, the market, custody and vesting need of a
sum along an enumeration of
a finite set: a change of one term changes the sum by as much (`SumChange`), no
term exceeds the sum (`TermWithinSum`), one element more adds its term
(`SumOfOneMore`), and shares rounded down fit the pot
(`SharesFit`). The library's induction rules take an operator and cannot be used; each
induction here looks at the least element of the *set* of counterexamples, which
the well-foundedness of the naturals gives. On top of it
`PayoutVaultProofs` adds to `IInv`

    SumInv == WeightsFit /\ ClaimsInOrder /\ ClaimsBooked /\ NobodyOverdrawn
              /\ \A r \in Rounds : Tallied(r)

`ClaimsBooked` (what left the escrow is what the claims have drawn) turns
`LedgerBalances`, which is about totals, into a statement on the investors;
`WeightsFit` makes the floors fit. The refinement goes step by step: a claim is
one payment of the promise, `FinalizeVaultVote` with ReturnCapital its return,
everything else a tranche or a stutter. Assumed: `Investors` is finite and
`SnapshotsHonest` (see below).

**Only model-checked.** Everything under fairness (`ActiveEnds`, `EarnedTrancheIsPaid`,
`RefundsGetPaid`, `RescueLands`, `SalesGetBooked`, `ExpiringTradesEnd`,
`PromiseIsDelivered`, `DepositComesBack`): liveness is beyond the prover. All other invariants and action properties of the runs have their theorem.

## Assumptions and what is not modelled

* A snapshot's weights sum to at most its total. Nothing on chain enforces it;
  `front/lib/payout-snapshots.ts` and `front/lib/server/payout-snapshots.ts`
  build the total as that sum. Stated as `SnapshotsHonest` in `MCPayoutVault`;
  `PromisesCovered` and the refinement of
  `PayoutPromise` need it, the theorems on one vault's ledger, schedule and
  ballots do not.
* The sets of investors, of accounts and of wallets are finite, which the sums
  need, and `None`, the absent account of the chain, is no account.
  `MCCustodyVault` assumes that the investor of its scenarios is a holder, and
  `VestingSeries` that `NoSeries`, the absent series, is neither terms nor a series.
* Direct transfers into a *payout* escrow and the change of the payee by
  `sync_payout_founder` are left out: the first only adds money no ledger
  counts, the second changes an address, not an amount.
* The issuer's permission bits and KYB are brakes of the environment; a share
  class without a cap is one with a large cap.
* **Custody.** Of a mint only what concerns a vault is here, the rest is
  `PrimarySale`'s. Every approved holder's jurisdiction is allowed, one registry
  serves hook and vaults, the provider approves wallets and not program
  accounts, and no wallet that is seized from is an escrow. Vaults of the retired
  type `ConversionPending` and realize actions that cannot be stored are left
  out.
* `SecondaryMarket`, `CustodyVault` and `VestingSeries` model KycGated classes, the stricter of
  the hook's two modes; Open classes have no receiver check. Escrow accounts
  themselves are never put on the blocklist in the instances.
* **Sale capacity.** Left out: treasury mints, which have rows and proofs of
  their own; stale rates and the revaluation of a row (a rate only ever appears
  or grows); the drift of the supply lock; alerts; the check of the application
  behind a reservation. `reserve` looks twice at the chain, at approval and
  sale; both looks are at one moment. Time: a row is of any age and an approval
  lapses at any moment, so no property rests on a grace period.
* **Indexer.** Left out: the heartbeat's conditions on clocks, the tip's rate and
  incidents (it may *decline* at any time, which is all they do); resume cursors
  and probes; the off and shadow modes; failed transactions and exempt
  signatures; the hook's tables and program; legacy accounts; the decoding of an
  account into its typed row. A node that lags, or has not finalized, is a read
  of an earlier slot. The reconcile's read of existing rows is one step with its
  writes of others: they concern different accounts and commute.
* Not modelled:
  distributions, rights issuances, shareholder proposals, issuer registration
  and permissions, the KYC registry's and the blocklist's authorities, set-up of
  assets and mints, the treasury setting, the operations scripts. `PROJECT.json`
  gives the reason for each.
* Most of the repository's lines are the web front end: pages that show the
  tables and build transactions, generated clients, simulation scripts, and
  routes that keep applications, documents and mail. They hold hardly any state
  that several actors share, and what they do with it (layout, validation,
  formatting) is not what these models can say something about. The models follow
  the programs, the SQL functions and the two server subsystems that write what
  the rest reads; measured in lines of the front they are a small part.
* Two ways for money to stay are by design and have no property. A frozen vault
  waits for an Admin to open a vote (`ops/wind-down-plan.md`). A Startup sale
  that raised less than one unit per tranche can be closed by neither of the two
  instructions (`open_payout_vault.rs`).

## Plan

In order of what they add:

1. `CustodyVault` over `PrimarySale`, whose `BurnFromCustody` then becomes the
   vault's realize and revert.
2. `SaleCapacity` over `PrimarySale`: the ledger's chain becomes the sale module,
   and treasury mints get their rows.
3. `StartupRaise`: `PrimarySale` and `PayoutVault` over one proceeds escrow,
   with `PayoutPromise` extended back to the buyers' money. Includes the sale
   that can be closed by neither instruction.
4. `Distribution` (batches, receipts, replay after close) and `RightsIssuance`,
   which pay out of an escrow against Merkle proofs the same way.
5. `IssuerAuthority`, the KYC registry's and the blocklist's authorities: the
   proposal pattern of `PlatformGovernance` under other timelocks; one abstract
   two-step handover that all of them implement.

## Running

    tlc -workers 2 -config PayoutVault.cfg MCPayoutVaultLive
    tlapm PayoutVaultProofs.tla

`PROJECT.json` names the module and the configuration of each run. Every run
takes under four minutes with two workers, the proofs a few minutes a module.
