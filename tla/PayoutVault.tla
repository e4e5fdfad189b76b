----------------------------- MODULE PayoutVault -----------------------------
(***************************************************************************)
(* The payout vault of a Startup raise (programs/asset_registry).          *)
(*                                                                         *)
(* open_payout_vault sweeps the proceeds of a Startup sale into an escrow. *)
(* The founder earns one tranche per month by posting an update; anybody   *)
(* may crank release_payout.  A founder who falls MISSED_FREEZE_THRESHOLD  *)
(* periods behind may be frozen by anybody; an Admin then opens a vote of  *)
(* the investors in a snapshot, and the vote either returns the rest of    *)
(* the principal (claim_refund) or moves the schedule forward (Extend).    *)
(* route_yield pours income into the SAME escrow account, a third of it    *)
(* for the founder, a third for the investors of a snapshot.               *)
(*                                                                         *)
(* A Solana transaction is atomic, so an instruction is one action; what   *)
(* is interleaved is the instructions of founder, investors, Admin,        *)
(* strangers (the permissionless cranks), the passing of time, and the     *)
(* brakes (platform pauses, issuer freeze, blocklist).                     *)
(*                                                                         *)
(* Time is counted in ticks: MONTH and MIN_VAULT_VOTING_PERIOD are numbers *)
(* of ticks.  A Merkle root is represented by the weight function it       *)
(* commits to, so that "the proof of (investor, weight) verifies" is       *)
(* "weight = root[investor]".                                              *)
(***************************************************************************)
EXTENDS Integers, FiniteSets

CONSTANTS
    Investors,                \* wallets that can be in a snapshot
    Raises,                   \* balances the proceeds escrow may hold when swept
    Terms,                    \* [cliff, vesting] months a Startup sale may carry
    Snapshots,                \* [root, total] an Admin may bring to an instruction
    YieldAmounts,             \* amounts an Admin may route as yield
    VotingPeriods,            \* voting periods an Admin may ask for
    NoRoot,                   \* investor_yield_root before it is set: all zeros
    BrakeSets,                \* combinations of brakes the environment may set
    MONTH,                    \* constants.rs, in ticks
    MIN_VAULT_VOTING_PERIOD,  \* constants.rs, in ticks
    MISSED_FREEZE_THRESHOLD,  \* constants.rs
    MaxTime,                  \* bound: the clock stops here
    MaxRounds,                \* bound: vote rounds
    MaxPool                   \* bound: no yield is routed once the pool is here

BrakeNames == {"PAUSE_ISSUER_PROCEEDS", "PAUSE_DISTRIBUTIONS",
               "PAUSE_PAYOUT_MODULES", "IssuerFreeze", "FounderBlocked"}

ASSUME ConstantsAssumption ==
    /\ IsFiniteSet(Investors)
    /\ Raises \subseteq Nat
    /\ Terms \subseteq [cliff : 0..255, vesting : 0..255]
    /\ Snapshots \subseteq [root : [Investors -> Nat], total : Nat]
    /\ NoRoot \notin [Investors -> Nat]
    /\ YieldAmounts \subseteq Nat
    /\ VotingPeriods \subseteq Nat
    /\ BrakeSets \subseteq SUBSET BrakeNames
    /\ {} \in BrakeSets
    /\ MONTH \in Nat \ {0}
    /\ MIN_VAULT_VOTING_PERIOD \in Nat \ {0}
    /\ MISSED_FREEZE_THRESHOLD \in Nat \ {0}
    /\ MaxTime \in Nat /\ MaxRounds \in Nat /\ MaxPool \in Nat

VARIABLES
    now,                      \* Clock::unix_timestamp, in ticks
    brakes,                   \* the pauses, freeze and block entries in force
    \* PayoutVault: state and principal
    state, total_amount, released, start_ts,
    num_tranches, tranche_amount, tranches_released, updates_posted,
    \* PayoutVault: votes
    total_weight, vote_round, vote_pending,
    votes,                    \* VaultVote accounts by round
    records,                  \* VaultVoteRecord accounts by round and voter
    \* PayoutVault: yield
    founder_yield_claimable, investor_yield_pool, investor_yield_root,
    \* ClaimRecord accounts, by kind
    refund_claimed, yield_claimed,
    \* the escrow token account
    escrow,
    \* history: what has left the escrow as refunds and as investor yield
    refundsPaid, yieldPaid

schedule  == <<total_amount, num_tranches, tranche_amount>>
progress  == <<released, tranches_released, updates_posted>>
ballot    == <<vote_round, vote_pending, votes, records>>
yield     == <<founder_yield_claimable, investor_yield_pool, investor_yield_root>>
claims    == <<refund_claimed, yield_claimed, refundsPaid, yieldPaid>>
vars == <<now, brakes, state, start_ts, total_weight, schedule, progress,
          ballot, yield, claims, escrow>>

-----------------------------------------------------------------------------
Rounds == 1..MaxRounds

VaultVoteChoice == {"ReturnCapital", "Extend"}
NoVote == [root |-> NoRoot, end_ts |-> 0, return_weight |-> 0,
           extend_weight |-> 0, outcome |-> "NotOpened"]

Roots == {s.root : s \in Snapshots}
VaultVote == [root : Roots \cup {NoRoot}, end_ts : Int,
              return_weight : Nat, extend_weight : Nat,
              outcome : {"NotOpened", "Pending"} \cup VaultVoteChoice]

(* Months the oldest unfulfilled update is overdue: the measure freeze_vault *)
(* and the Extend branch of finalize_vault_vote share.                       *)
oldest_due_ts == start_ts + updates_posted * MONTH
overdue_periods ==
    IF now < oldest_due_ts THEN 0 ELSE ((now - oldest_due_ts) \div MONTH) + 1

\* Slip: the share is rounded in the investor's favour.
EntitlementRoundedUp(weight, pot) ==
    (weight * pot + total_weight - 1) \div total_weight

(* floor(weight * pot / total_weight), computed in u128 by both claims.      *)
Entitlement(weight, pot) == (weight * pot) \div total_weight

Init ==
    /\ now = 0 /\ brakes = {}
    /\ state = "Uninitialized"
    /\ total_amount = 0 /\ num_tranches = 0 /\ tranche_amount = 0
    /\ released = 0 /\ tranches_released = 0 /\ updates_posted = 0
    /\ start_ts = 0
    /\ total_weight = 0 /\ vote_round = 0 /\ vote_pending = FALSE
    /\ votes = [r \in Rounds |-> NoVote]
    /\ records = [r \in Rounds |-> [i \in Investors |-> "None"]]
    /\ founder_yield_claimable = 0 /\ investor_yield_pool = 0
    /\ investor_yield_root = NoRoot
    /\ refund_claimed = [i \in Investors |-> 0]
    /\ yield_claimed = [i \in Investors |-> 0]
    /\ refundsPaid = 0 /\ yieldPaid = 0
    /\ escrow = 0

-----------------------------------------------------------------------------
(* Environment: time, and the brakes operators put on and take off.          *)

Tick ==
    /\ now < MaxTime
    /\ now' = now + 1
    /\ UNCHANGED <<brakes, state, start_ts, total_weight, schedule, progress,
                   ballot, yield, claims, escrow>>

SetBrakes ==
    /\ brakes' \in BrakeSets \ {brakes}
    /\ UNCHANGED <<now, state, start_ts, total_weight, schedule, progress,
                   ballot, yield, claims, escrow>>

(* Most instructions of the schedule ask for an Active vault.                *)
IsRunning == state = "Active"

(* The gates release_payout and claim_founder_yield share.                   *)
IssuerMayBePaid ==
    brakes \cap {"PAUSE_ISSUER_PROCEEDS", "IssuerFreeze", "FounderBlocked"} = {}

(* open_payout_vault: gated by the issuer freeze, by no pause bit.           *)
OpenPayoutVault(swept, term) ==
    /\ state = "Uninitialized"
    /\ "IssuerFreeze" \notin brakes
    /\ swept > 0
    /\ term.vesting > term.cliff
    /\ num_tranches' = term.vesting - term.cliff
    /\ swept >= num_tranches'
    /\ start_ts' = now + term.cliff * MONTH
    /\ total_amount' = swept
    /\ tranche_amount' = swept \div num_tranches'
    /\ state' = "Active"
    /\ escrow' = escrow + swept
    /\ UNCHANGED <<now, brakes, total_weight, progress, ballot, yield, claims>>

(* post_update, signed by the founder.                                       *)
PostUpdate ==
    /\ IsRunning
    /\ updates_posted < num_tranches
    /\ now >= oldest_due_ts
    /\ updates_posted' = updates_posted + 1
    /\ UNCHANGED <<now, brakes, state, start_ts, total_weight, schedule,
                   released, tranches_released, ballot, yield, claims, escrow>>

(* release_payout: the next tranche needs an update of its own, and the last *)
(* one pays the whole remainder.                                             *)
\* Slip: an update earns the tranche before its own.
TrancheEarnedInArrears == updates_posted > tranches_released + 1
TrancheEarned == updates_posted > tranches_released

\* Slip: the last tranche is like the others.
TrancheDueNoSweep == tranche_amount
TrancheDue ==
    IF tranches_released + 1 = num_tranches
    THEN total_amount - released ELSE tranche_amount

ReleasePayout ==
    /\ IsRunning
    /\ IssuerMayBePaid
    /\ tranches_released < num_tranches
    /\ now >= start_ts + tranches_released * MONTH
    /\ TrancheEarned
    /\ TrancheDue > 0
    /\ TrancheDue <= escrow
    /\ escrow' = escrow - TrancheDue
    /\ released' = released + TrancheDue
    /\ tranches_released' = tranches_released + 1
    /\ state' = IF tranches_released' = num_tranches THEN "Completed" ELSE state
    /\ UNCHANGED <<now, brakes, start_ts, total_weight, schedule,
                   updates_posted, ballot, yield, claims>>

(* freeze_vault, by anybody.                                                 *)
\* Slip: a founder who never posted at all does not count as late.
MissedTooManyOnceStarted ==
    updates_posted > 0 /\ overdue_periods >= MISSED_FREEZE_THRESHOLD
MissedTooMany == overdue_periods >= MISSED_FREEZE_THRESHOLD

FreezeVault ==
    /\ IsRunning
    /\ updates_posted < num_tranches /\ released < total_amount
    /\ MissedTooMany
    /\ state' = "Frozen"
    /\ UNCHANGED <<now, brakes, start_ts, total_weight, schedule, progress,
                   ballot, yield, claims, escrow>>

-----------------------------------------------------------------------------
(* The total weight is whatever the Admin's first snapshot claims, and every *)
(* later snapshot must claim the same; nothing on chain ties it to a root.   *)
FixesTotalWeight(total) ==
    /\ total_weight \in {0, total}
    /\ total_weight' = total

(* open_vault_vote: a fresh VaultVote account for the next round.            *)
OpenVaultVote(snapshot, voting_period) ==
    /\ state = "Frozen"
    /\ ~vote_pending
    /\ vote_round < MaxRounds
    /\ snapshot.total > 0
    /\ voting_period >= MIN_VAULT_VOTING_PERIOD
    /\ vote_round' = vote_round + 1
    /\ vote_pending' = TRUE
    /\ votes' = [votes EXCEPT ![vote_round + 1] =
                    [NoVote EXCEPT !.root = snapshot.root,
                                   !.end_ts = now + voting_period,
                                   !.outcome = "Pending"]]
    /\ FixesTotalWeight(snapshot.total)
    /\ UNCHANGED <<now, brakes, state, start_ts, schedule, progress, records,
                   yield, claims, escrow>>

(* cast_vault_vote names the vote account it votes in; the record's `init`   *)
(* lets each voter vote once in it.                                          *)
\* Slip: the record is opened with `init_if_needed`.
MayVoteAgain(round, voter) == TRUE
MayVote(round, voter) == records[round][voter] = "None"

CastVaultVote(round, voter, choice) ==
    LET vote == votes[round]
        weight == vote.root[voter]
    IN /\ vote.outcome = "Pending"
       /\ state = "Frozen" /\ vote_pending /\ round = vote_round
       /\ MayVote(round, voter)
       /\ now < vote.end_ts
       /\ weight > 0
       /\ vote.return_weight + vote.extend_weight + weight <= total_weight
       /\ votes' = [votes EXCEPT ![round] =
              IF choice = "ReturnCapital"
              THEN [vote EXCEPT !.return_weight = vote.return_weight + weight]
              ELSE [vote EXCEPT !.extend_weight = vote.extend_weight + weight]]
       /\ records' = [records EXCEPT ![round] =
                        [records[round] EXCEPT ![voter] = choice]]
       /\ UNCHANGED <<now, brakes, state, start_ts, total_weight, schedule,
                      progress, vote_round, vote_pending, yield, claims, escrow>>

(* How far the Extend branch moves the schedule: as far as it is overdue.    *)
\* Slip: the shift the comment in the code says it had before.
ExtendByElapsed ==
    LET elapsed == IF now < start_ts THEN 0 ELSE (now - start_ts) \div MONTH + 1
        due == IF elapsed < num_tranches THEN elapsed ELSE num_tranches
    IN (due - updates_posted) * MONTH
\* Slip: a month on top.
ExtendByOneMore == (overdue_periods + 1) * MONTH
ExtendBy == overdue_periods * MONTH

(* A strict majority of the weight cast returns the capital, all else        *)
(* extends, an empty vote too.                                               *)
Outcome(vote) == IF vote.return_weight > vote.extend_weight
                 THEN "ReturnCapital" ELSE "Extend"

VotingOver(vote) == now >= vote.end_ts

(* finalize_vault_vote, by anybody once the voting period is over.           *)
FinalizeVaultVote(round) ==
    LET outcome == Outcome(votes[round])
    IN /\ state = "Frozen" /\ vote_pending
       /\ round = vote_round /\ votes[round].outcome = "Pending"
       /\ VotingOver(votes[round])
       /\ vote_pending' = FALSE
       /\ votes' = [votes EXCEPT ![round] =
                       [votes[round] EXCEPT !.outcome = outcome]]
       /\ IF outcome = "ReturnCapital"
          THEN state' = "Cancelled" /\ start_ts' = start_ts
          ELSE state' = "Active" /\ start_ts' = start_ts + ExtendBy
       /\ UNCHANGED <<now, brakes, total_weight, schedule, progress, vote_round,
                      records, yield, claims, escrow>>

(* Both claims pay what is due beyond what was drawn before, if anything,    *)
(* from the escrow.                                                          *)
\* Slip: what was drawn before is paid again.
UndrawnOrAgain(due, already) == due
Undrawn(due, already) == due - already

\* Slip: the brakes that stop the founder's money stop the claims too.
PayableUnbraked(payout) == payout > 0 /\ payout <= escrow /\ IssuerMayBePaid
Payable(payout) == payout > 0 /\ payout <= escrow

(* claim_refund: no pause, freeze or block entry stands in its way.          *)
ClaimRefund(round, investor) ==
    LET due == Entitlement(votes[round].root[investor], total_amount - released)
        payout == Undrawn(due, refund_claimed[investor])
    IN /\ state = "Cancelled" /\ ~vote_pending
       /\ round = vote_round /\ votes[round].outcome = "ReturnCapital"
       /\ Payable(payout)
       /\ escrow' = escrow - payout
       /\ refund_claimed' = [refund_claimed EXCEPT ![investor] = due]
       /\ refundsPaid' = refundsPaid + payout
       /\ UNCHANGED <<now, brakes, state, start_ts, total_weight, schedule,
                      progress, ballot, yield, yield_claimed, yieldPaid>>

-----------------------------------------------------------------------------
(* All yield of a vault is shared out over one snapshot, the first.          *)
FixesYieldRoot(root) ==
    /\ investor_yield_root \in {NoRoot, root}
    /\ investor_yield_root' = root

\* Slip: the remainder of the division is booked to nobody.
InvestorThirdRoundedDown(amount) == amount \div 3
InvestorThird(amount) == amount - 2 * (amount \div 3)

(* route_yield: a third to the founder, a third straight to the platform     *)
(* treasury (outside the escrow), the rest to the investors.                 *)
RouteYield(amount, snapshot) ==
    /\ IsRunning
    /\ brakes \cap {"PAUSE_DISTRIBUTIONS", "PAUSE_PAYOUT_MODULES"} = {}
    /\ investor_yield_pool < MaxPool
    /\ amount >= 3
    /\ snapshot.total > 0
    /\ FixesYieldRoot(snapshot.root)
    /\ FixesTotalWeight(snapshot.total)
    /\ founder_yield_claimable' = founder_yield_claimable + amount \div 3
    /\ investor_yield_pool' = investor_yield_pool + InvestorThird(amount)
    /\ escrow' = escrow + (amount - amount \div 3)
    /\ UNCHANGED <<now, brakes, state, start_ts, schedule, progress, ballot,
                   claims>>

(* claim_investor_yield: in every state of the vault, past every brake.      *)
ClaimInvestorYield(investor) ==
    LET due == Entitlement(investor_yield_root[investor], investor_yield_pool)
        payout == Undrawn(due, yield_claimed[investor])
    IN /\ investor_yield_root # NoRoot
       /\ Payable(payout)
       /\ escrow' = escrow - payout
       /\ yield_claimed' = [yield_claimed EXCEPT ![investor] = due]
       /\ yieldPaid' = yieldPaid + payout
       /\ UNCHANGED <<now, brakes, state, start_ts, total_weight, schedule,
                      progress, ballot, yield, refund_claimed, refundsPaid>>

ClaimFounderYield ==
    /\ state # "Uninitialized"
    /\ IssuerMayBePaid
    /\ founder_yield_claimable > 0
    /\ founder_yield_claimable <= escrow
    /\ escrow' = escrow - founder_yield_claimable
    /\ founder_yield_claimable' = 0
    /\ UNCHANGED <<now, brakes, state, start_ts, total_weight, schedule,
                   progress, ballot, investor_yield_pool, investor_yield_root,
                   claims>>

-----------------------------------------------------------------------------
Next ==
    \/ Tick
    \/ SetBrakes
    \/ \E swept \in Raises, term \in Terms : OpenPayoutVault(swept, term)
    \/ PostUpdate
    \/ ReleasePayout
    \/ FreezeVault
    \/ \E s \in Snapshots, p \in VotingPeriods : OpenVaultVote(s, p)
    \/ \E r \in Rounds, i \in Investors, c \in VaultVoteChoice : CastVaultVote(r, i, c)
    \/ \E r \in Rounds : FinalizeVaultVote(r)
    \/ \E r \in Rounds, i \in Investors : ClaimRefund(r, i)
    \/ \E a \in YieldAmounts, s \in Snapshots : RouteYield(a, s)
    \/ \E i \in Investors : ClaimInvestorYield(i)
    \/ ClaimFounderYield

Spec == Init /\ [][Next]_vars

-----------------------------------------------------------------------------
(* Types of the accounts (state.rs: PayoutVault, VaultVote, ClaimRecord).    *)
States == {"Uninitialized", "Active", "Frozen", "Cancelled", "Completed"}

TypeOK ==
    /\ now \in Int /\ brakes \in BrakeSets
    /\ state \in States
    /\ total_amount \in Nat /\ released \in Nat /\ start_ts \in Int
    /\ num_tranches \in Nat /\ tranche_amount \in Nat
    /\ tranches_released \in Nat /\ updates_posted \in Nat
    /\ total_weight \in Nat /\ vote_round \in 0..MaxRounds
    /\ vote_pending \in BOOLEAN
    /\ votes \in [Rounds -> VaultVote]
    /\ records \in [Rounds -> [Investors -> VaultVoteChoice \cup {"None"}]]
    /\ founder_yield_claimable \in Nat /\ investor_yield_pool \in Nat
    /\ investor_yield_root \in Roots \cup {NoRoot}
    /\ refund_claimed \in [Investors -> Nat]
    /\ yield_claimed \in [Investors -> Nat]
    /\ escrow \in Nat /\ refundsPaid \in Nat /\ yieldPaid \in Nat

(* The one escrow account holds three pots whose instructions know nothing   *)
(* of each other: the principal not yet released or refunded, the founder's  *)
(* yield, and the investors' yield.  Its balance is exactly their sum.       *)
LedgerBalances ==
    escrow = (total_amount - released - refundsPaid)
             + founder_yield_claimable
             + (investor_yield_pool - yieldPaid)

(* release_payout, post_update and freeze_vault keep the schedule: tranches  *)
(* follow updates, updates stay within the tranches, every tranche before    *)
(* the last has the same size, and the vault is Completed exactly when the   *)
(* founder has been paid the whole raise.                                    *)
ScheduleKept ==
    /\ tranches_released <= updates_posted /\ updates_posted <= num_tranches
    /\ state # "Completed" => released = tranches_released * tranche_amount
    /\ state = "Completed" <=> state # "Uninitialized" /\ released = total_amount
    /\ state \in {"Active", "Frozen", "Cancelled"} => tranches_released < num_tranches

(* An update earns its tranche for good: the months after which the posted   *)
(* updates fell due are over, whatever Extend did to start_ts since, so a    *)
(* tranche the founder has posted for never waits for the clock again.       *)
EarnedTrancheIsDue ==
    updates_posted > 0 => now >= start_ts + (updates_posted - 1) * MONTH

(* The comment in finalize_vault_vote: Extend gives the founder a fresh      *)
(* start.  After it no period is overdue, the next update is due within a    *)
(* month on the old day of the month, so that MISSED_FREEZE_THRESHOLD - 1    *)
(* whole months pass before anybody can freeze again.                        *)
ExtendIsAFreshStart ==
    [][state = "Frozen" /\ state' = "Active" =>
         /\ now' < oldest_due_ts' /\ oldest_due_ts' <= now' + MONTH
         /\ (start_ts' - start_ts) % MONTH = 0]_vars

(* Ballots are secret to nobody and final: what a voter recorded in a round  *)
(* never changes, a finalized round never changes at all, and a round is     *)
(* opened only when no other is pending.                                     *)
BallotsAreFinal ==
    [][\A r \in Rounds :
         /\ votes[r].outcome \in VaultVoteChoice =>
                votes'[r] = votes[r] /\ records'[r] = records[r]
         /\ \A i \in Investors :
                records[r][i] # "None" => records'[r][i] = records[r][i]
         /\ votes[r].outcome = "NotOpened" /\ votes'[r].outcome = "Pending" =>
                \A q \in Rounds \ {r} : votes'[q].outcome # "Pending"]_vars

(* Once capital is being returned, nothing an operator, the founder or time  *)
(* can do moves what a refund is computed from, or pays the founder another  *)
(* tranche: claim_refund reads the same fraction for every investor.         *)
ReturnIsFinal ==
    [][state = "Cancelled" =>
         /\ state' = "Cancelled"
         /\ released' = released /\ total_amount' = total_amount
         /\ total_weight' = total_weight /\ votes' = votes
         /\ vote_round' = vote_round /\ ~vote_pending']_vars

(* What a claim has drawn never exceeds what the pot, root and total weight  *)
(* of today entitle it to, so that `entitlement - already` never goes below  *)
(* zero: claim_investor_yield stays right while route_yield grows the pool.  *)
NobodyOverdrawn ==
    \A i \in Investors :
      /\ yield_claimed[i] > 0 =>
           yield_claimed[i] <= Entitlement(investor_yield_root[i], investor_yield_pool)
      /\ refund_claimed[i] > 0 =>
           refund_claimed[i] = Entitlement(votes[vote_round].root[i],
                                           total_amount - released)
=============================================================================
