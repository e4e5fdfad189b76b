---------------------------- MODULE VestingSeries ----------------------------
(***************************************************************************)
(* One vesting series of a KycGated token (programs/asset_registry).       *)
(*                                                                         *)
(* A client creates a Draft with a fixed schedule, adds the recipients'    *)
(* positions, and finalizes it before the first unlock.  Anybody may fund  *)
(* it, in instalments; nothing is delivered before it is fully funded.     *)
(* Recipients claim, or anybody pushes, what has unlocked; in Approval     *)
(* mode a tranche waits for the client, but no longer than a window.  The  *)
(* client may cancel, and then takes out what is reserved for nobody.      *)
(*                                                                         *)
(* The escrow is an ordinary token account anybody may push units into.    *)
(* Delivery always asks for the recipient's KYC; a withdrawal only gives   *)
(* the client units beyond its own deposits if its own KYC passes.         *)
(***************************************************************************)
EXTENDS Integers, Sequences, FiniteSetsExt, Clock

CONSTANTS
    Wallets, Client,        \* the series authority is one of the wallets
    SeriesTerms,            \* what create_vesting_series may be called with
    Allocations, Lots,      \* of a position; of a deposit or a push
    MIN_APPROVAL_WINDOW_SECS, MAX_APPROVAL_WINDOW_SECS, MAX_VESTING_TRANCHES,
    NoSeries,
    MaxPositions,           \* bound: positions
    MaxEscrow               \* bound: nobody pushes units once it holds this

TimingModes   == {"Auto", "Approval"}
DeliveryModes == {"Push", "Claim"}
Statuses == {"Draft", "Active", "Cancelled"}

SeriesState ==
    [status : Statuses, total_allocated : Nat, deposited : Nat, total_released : Nat,
     approved_mask : SUBSET Nat, final_cumulative : Nat, cancellation_enabled : BOOLEAN]

ASSUME VestingAssumption ==
    /\ Client \in Wallets
    /\ Allocations \subseteq Nat \ {0} /\ Lots \subseteq Nat \ {0}
    /\ MIN_APPROVAL_WINDOW_SECS \in Nat /\ MAX_APPROVAL_WINDOW_SECS \in Nat
    /\ MAX_VESTING_TRANCHES \in Nat
    /\ MaxTime \in Nat /\ MaxPositions \in Nat /\ MaxEscrow \in Nat
    /\ \A t \in SeriesTerms :
         /\ t.tranches \in Seq([unlock_ts : Nat, amount : Nat])
         /\ t.timing_mode \in TimingModes /\ t.delivery_mode \in DeliveryModes
         /\ t.approval_window_secs \in Nat /\ t.pre_cliff_bps \in Nat
         /\ t.recovery_enabled \in BOOLEAN /\ t.cancellation_enabled \in BOOLEAN
    /\ NoSeries \notin SeriesTerms /\ NoSeries \notin SeriesState

VARIABLES
    paused,             \* PAUSE_DISTRIBUTIONS
    eligible, blocked,  \* wallets whose KYC passes; wallets with a BlockEntry
    terms,              \* VestingSeries: what is fixed at creation
    series,             \* VestingSeries: the rest
    positions,          \* VestingPosition accounts by index
    identity,           \* EscrowIdentity: the client's own deposits and refunds
    escrow,             \* balance of the escrow token account
    unvetted            \* history: what the client took while its KYC failed

environment == <<now, paused, eligible, blocked>>
vestingVars == <<environment, terms, series, positions, identity, escrow, unvetted>>

VestingInit ==
    /\ now = 0 /\ paused = FALSE
    /\ eligible = {} /\ blocked = {}
    /\ terms = NoSeries /\ series = NoSeries /\ positions = <<>>
    /\ identity = [own_deposited |-> 0, own_refunded |-> 0]
    /\ escrow = 0 /\ unvetted = 0

-----------------------------------------------------------------------------
(* The schedule (util.rs).                                                   *)
Tranches == IF terms = NoSeries THEN {} ELSE DOMAIN terms.tranches

Total(amounts) == MapThenSumSet(LAMBDA i : amounts[i], DOMAIN amounts)
SumOfTranches(S) == Total([i \in S |-> terms.tranches[i].amount])

vesting_schedule_total == SumOfTranches(Tranches)
vesting_cumulative == SumOfTranches({i \in Tranches : terms.tranches[i].unlock_ts <= now})

\* Slip: a tranche waits for its approval for as long as it takes.
RipeOnceApproved(i) == i \in series.approved_mask
Ripe(i) ==
    \/ i \in series.approved_mask
    \/ terms.tranches[i].unlock_ts + terms.approval_window_secs <= now

IsFunded == series.total_allocated > 0 /\ series.deposited >= series.total_allocated

vesting_deliverable_cumulative ==
    IF series.status = "Cancelled" THEN series.final_cumulative
    ELSE IF series.status = "Draft" \/ ~IsFunded THEN 0
    ELSE IF terms.timing_mode = "Auto" THEN vesting_cumulative
    ELSE SumOfTranches({i \in Tranches : terms.tranches[i].unlock_ts <= now /\ Ripe(i)})

vesting_position_entitlement(p, cumulative) ==
    IF series.total_allocated = 0 THEN 0
    ELSE (positions[p].allocation * cumulative) \div series.total_allocated

IsCommitted == vesting_schedule_total > 0 /\ series.total_allocated = vesting_schedule_total

-----------------------------------------------------------------------------
(* Draft.                                                                    *)
CreateVestingSeries(t) ==
    /\ series = NoSeries
    /\ Len(t.tranches) \in 1..MAX_VESTING_TRANCHES
    /\ \A i \in DOMAIN t.tranches :
         /\ t.tranches[i].amount > 0
         /\ i > 1 => t.tranches[i - 1].unlock_ts < t.tranches[i].unlock_ts
    /\ IF t.timing_mode = "Auto" THEN t.approval_window_secs = 0
       ELSE t.approval_window_secs \in MIN_APPROVAL_WINDOW_SECS..MAX_APPROVAL_WINDOW_SECS
    /\ t.pre_cliff_bps <= 10000
    /\ terms' = t
    /\ series' = [status |-> "Draft", total_allocated |-> 0, deposited |-> 0,
                  total_released |-> 0, approved_mask |-> {}, final_cumulative |-> 0,
                  cancellation_enabled |-> t.cancellation_enabled]
    /\ UNCHANGED <<environment, positions, identity, escrow, unvetted>>

StatusIn(S) == series # NoSeries /\ series.status \in S

AddVestingPosition(wallet, allocation) ==
    /\ StatusIn({"Draft"})
    /\ Len(positions) < MaxPositions
    /\ positions' = Append(positions,
          [wallet |-> wallet, allocation |-> allocation, released |-> 0])
    /\ series' = [series EXCEPT !.total_allocated = @ + allocation]
    /\ UNCHANGED <<environment, terms, identity, escrow, unvetted>>

FinalizeVestingSeries ==
    /\ StatusIn({"Draft"})
    /\ positions # <<>> /\ IsCommitted
    /\ now < terms.tranches[1].unlock_ts
    /\ series' = [series EXCEPT !.status = "Active"]
    /\ UNCHANGED <<environment, terms, positions, identity, escrow, unvetted>>

(* deposit_to_vesting_escrow: by anybody, up to the schedule.                *)
DepositToVestingEscrow(depositor, n) ==
    /\ StatusIn({"Draft", "Active"})
    /\ ~paused /\ depositor \notin blocked
    /\ n > 0 /\ series.deposited + n <= vesting_schedule_total
    /\ escrow' = escrow + n
    /\ series' = [series EXCEPT !.deposited = @ + n]
    /\ identity' = IF depositor = Client
                   THEN [identity EXCEPT !.own_deposited = @ + n] ELSE identity
    /\ UNCHANGED <<environment, terms, positions, unvetted>>

-----------------------------------------------------------------------------
(* Delivery.                                                                 *)
ApproveVestingTranche(i) ==
    /\ StatusIn({"Active"}) /\ terms.timing_mode = "Approval"
    /\ series' = [series EXCEPT !.approved_mask = @ \cup {i}]
    /\ UNCHANGED <<environment, terms, positions, identity, escrow, unvetted>>

Due(p) ==
    vesting_position_entitlement(p, vesting_deliverable_cumulative) - positions[p].released

\* Slip: an underfunded escrow is not looked at.
WithinEscrowAny(due) == due
(* An underfunded cancelled series pays what is there.                       *)
WithinEscrow(due) == Min({due, escrow})

(* release_vested, and the recipient's KYC and block entry.                  *)
ReleaseVested(p) ==
    LET amount == WithinEscrow(Due(p)) IN
    /\ StatusIn({"Active", "Cancelled"}) /\ IsCommitted
    /\ p \in DOMAIN positions
    /\ amount > 0
    /\ positions[p].wallet \in eligible \ blocked
    /\ escrow' = escrow - amount
    /\ positions' = [positions EXCEPT ![p].released = @ + amount]
    /\ series' = [series EXCEPT !.total_released = @ + amount]
    /\ UNCHANGED <<environment, terms, identity, unvetted>>

ClaimVested(p) == series # NoSeries /\ terms.delivery_mode = "Claim" /\ ReleaseVested(p)
PushVested(p)  == series # NoSeries /\ terms.delivery_mode = "Push"  /\ ReleaseVested(p)

RecoverVestingPosition(p, wallet) ==
    /\ StatusIn({"Active", "Cancelled"}) /\ terms.recovery_enabled
    /\ p \in DOMAIN positions
    /\ positions' = [positions EXCEPT ![p].wallet = wallet]
    /\ UNCHANGED <<environment, terms, series, identity, escrow, unvetted>>

-----------------------------------------------------------------------------
(* Cancellation.                                                             *)
DisableVestingCancellation ==
    /\ StatusIn({"Active"}) /\ series.cancellation_enabled
    /\ series' = [series EXCEPT !.cancellation_enabled = FALSE]
    /\ UNCHANGED <<environment, terms, positions, identity, escrow, unvetted>>

\* Slip: a recipient keeps what could be delivered by now.
EarnedIfDeliverable == vesting_deliverable_cumulative
Earned == vesting_cumulative

CancelVestingSeries ==
    /\ \/ StatusIn({"Draft"})
       \/ StatusIn({"Active"}) /\ series.cancellation_enabled /\ IsCommitted
    /\ series' = [series EXCEPT
          !.status = "Cancelled",
          !.final_cumulative =
             IF series.status = "Draft" THEN 0
             ELSE IF Earned > 0 THEN Earned
             ELSE (series.total_allocated * terms.pre_cliff_bps) \div 10000]
    /\ UNCHANGED <<environment, terms, positions, identity, escrow, unvetted>>

AtLeastZero(n) == Max({n, 0})

\* Slip: a lapsed client may take the units others pushed in.
FreeForClientAny(free, own) == free
(* split_escrow_release, towards the client.                                 *)
FreeForClient(free, own) == IF Client \in eligible THEN free ELSE Min({free, own})

(* withdraw_available: what is reserved for nobody, of which an unvetted     *)
(* client takes only what is left of its own deposits.                       *)
WithdrawAvailable(reserved, own_consumed) ==
    LET free   == AtLeastZero(escrow - reserved)
        own    == AtLeastZero(AtLeastZero(identity.own_deposited - own_consumed)
                                - identity.own_refunded)
        amount == FreeForClient(free, own)
    IN  /\ amount > 0
        /\ escrow' = escrow - amount
        /\ identity' = [identity EXCEPT !.own_refunded = @ + Min({free, own})]
        /\ unvetted' = IF Client \in eligible THEN unvetted ELSE unvetted + amount
        /\ UNCHANGED <<environment, terms, series, positions>>

\* Slip: what is delivered is taken off twice.
ReservedLessTwice == AtLeastZero(series.final_cumulative - 2 * series.total_released)
Reserved == AtLeastZero(series.final_cumulative - series.total_released)

WithdrawUnvested ==
    /\ StatusIn({"Cancelled"})
    /\ WithdrawAvailable(Reserved, series.total_released)

WithdrawVestingSurplus ==
    /\ StatusIn({"Active"}) /\ IsCommitted
    /\ WithdrawAvailable(series.total_allocated - series.total_released,
                         series.total_allocated)

-----------------------------------------------------------------------------
(* Around the series: raw transfers into the escrow, the KYC provider, the   *)
(* blocklist, the pause, time.                                               *)
Push(n) ==
    /\ series # NoSeries /\ escrow + n <= MaxEscrow
    /\ escrow' = escrow + n
    /\ UNCHANGED <<environment, terms, series, positions, identity, unvetted>>

Toggled(S, x) == IF x \in S THEN S \ {x} ELSE S \cup {x}

SetEligible(w) ==
    /\ eligible' = Toggled(eligible, w)
    /\ UNCHANGED <<now, paused, blocked, terms, series, positions, identity, escrow, unvetted>>

SetBlocked(w) ==
    /\ blocked' = Toggled(blocked, w)
    /\ UNCHANGED <<now, paused, eligible, terms, series, positions, identity, escrow, unvetted>>

SetPaused ==
    /\ paused' = ~paused
    /\ UNCHANGED <<now, eligible, blocked, terms, series, positions, identity, escrow, unvetted>>

VestingTick ==
    /\ ClockTicks
    /\ UNCHANGED <<paused, eligible, blocked>>
    /\ UNCHANGED <<terms, series, positions, identity, escrow, unvetted>>

-----------------------------------------------------------------------------
Indices == 1..MaxPositions

Instructions ==
    \/ \E t \in SeriesTerms : CreateVestingSeries(t)
    \/ \E w \in Wallets, a \in Allocations : AddVestingPosition(w, a)
    \/ FinalizeVestingSeries
    \/ \E w \in Wallets, n \in Lots : DepositToVestingEscrow(w, n)
    \/ \E i \in Tranches : ApproveVestingTranche(i)
    \/ \E p \in Indices : ClaimVested(p) \/ PushVested(p)
    \/ \E p \in Indices, w \in Wallets : RecoverVestingPosition(p, w)
    \/ DisableVestingCancellation \/ CancelVestingSeries
    \/ WithdrawUnvested \/ WithdrawVestingSurplus
    \/ \E n \in Lots : Push(n)

Surroundings ==
    \/ \E w \in Wallets : SetEligible(w) \/ SetBlocked(w)
    \/ SetPaused \/ VestingTick

VestingNext == Instructions \/ Surroundings

VestingSpec == VestingInit /\ [][VestingNext]_vestingVars

(* push_vested is permissionless; time passes.                               *)
Cranks ==
    WF_vestingVars(VestingTick) /\ \A p \in Indices : WF_vestingVars(PushVested(p))

-----------------------------------------------------------------------------
(* Types of the accounts; the escrow never goes negative.                    *)
VestingTypeOK ==
    /\ now \in Nat /\ paused \in BOOLEAN
    /\ eligible \subseteq Wallets /\ blocked \subseteq Wallets
    /\ terms \in SeriesTerms \cup {NoSeries} /\ (terms = NoSeries <=> series = NoSeries)
    /\ series # NoSeries =>
         series \in SeriesState /\ series.approved_mask \subseteq Tranches
    /\ positions \in Seq([wallet : Wallets, allocation : Nat, released : Nat])
    /\ identity \in [own_deposited : Nat, own_refunded : Nat]
    /\ escrow \in Nat /\ unvetted \in Nat

(* Whose units the escrow is for: all that is allocated, and after a         *)
(* cancellation what was frozen then.                                        *)
Promised == IF series.status = "Cancelled" THEN series.final_cumulative
                                           ELSE series.total_allocated

(* withdraw_unvested: "recipients are always made whole".  Whatever deposits,*)
(* pushes, withdrawals and deliveries interleave, the escrow holds what has  *)
(* been deposited towards the promise and not been delivered, and once it is *)
(* funded it covers all that the positions can ever claim, rounding included;*)
(* no balance or counter ever turns negative.                                *)
RecipientsBacked ==
    /\ VestingTypeOK
    /\ StatusIn({"Active", "Cancelled"}) =>
      /\ escrow >= Min({series.deposited, Promised}) - series.total_released
      /\ series.deposited >= Promised =>
           escrow >= Total([p \in DOMAIN positions |->
              vesting_position_entitlement(p, Promised) - positions[p].released])

(* A position's share of what has unlocked, whether approved or not.         *)
Owned(p) == vesting_position_entitlement(p,
    IF series.status = "Cancelled" THEN series.final_cumulative ELSE vesting_cumulative)

(* approve_vesting_tranche: "Approval gates TIMING, never ownership".  From  *)
(* finalization on, no step of the client takes back what has vested, and    *)
(* nothing is delivered that has not.                                        *)
VestedIsOwned ==
    [][StatusIn({"Active", "Cancelled"}) =>
         \A p \in DOMAIN positions :
           Owned(p)' >= Owned(p) /\ positions'[p].released <= Owned(p)']_vestingVars

(* withdraw_available: a client whose KYC fails takes no unit that somebody  *)
(* else supplied: its own deposits first back what is allocated (Active) or  *)
(* what has been delivered (Cancelled), and it gets no more than the rest.   *)
UnvettedClientTakesItsOwn ==
    [][unvetted' > unvetted =>
         unvetted' + (IF series.status = "Active" THEN series.total_allocated
                                                  ELSE series.total_released)
           <= identity.own_deposited]_vestingVars

(* vesting_deliverable_cumulative: "approval delays but can never freeze a   *)
(* vested tranche".  In a funded Push series every recipient ends up with    *)
(* all that is promised, whatever the client does, unless its wallet is      *)
(* blocked or not eligible.                                                  *)
IsOutstanding(p) ==
    /\ StatusIn({"Active", "Cancelled"}) /\ IsCommitted
    /\ terms.delivery_mode = "Push" /\ series.deposited >= Promised
    /\ p \in DOMAIN positions
    /\ positions[p].released < vesting_position_entitlement(p, Promised)
    /\ positions[p].wallet \in eligible \ blocked

PromiseIsDelivered == \A p \in Indices : IsOutstanding(p) ~> ~IsOutstanding(p)
=============================================================================
