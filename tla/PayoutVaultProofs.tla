-------------------------- MODULE PayoutVaultProofs --------------------------
(***************************************************************************)
(* What holds of the payout vault for every set of investors, snapshots,   *)
(* raises and terms, every MONTH and threshold, and without the bounds of  *)
(* the model-checking runs (MaxTime, MaxRounds and MaxPool are any number).*)
(*                                                                         *)
(* The first part is about one account at a time.  The second is about     *)
(* sums over the investors: that one escrow covers every promise, that a   *)
(* vote's tallies are the weights of those who voted, and that the vault   *)
(* implements PayoutPromise, for every finite set of investors and all     *)
(* snapshots whose total is at least their sum (SnapshotsHonest).          *)
(***************************************************************************)
EXTENDS MCPayoutVault, SumTheorems

(* The vault before open_payout_vault, and its sizes after.                  *)
Sized ==
    IF state = "Uninitialized"
    THEN /\ total_amount = 0 /\ released = 0 /\ tranches_released = 0
         /\ updates_posted = 0 /\ num_tranches = 0 /\ ~vote_pending
    ELSE /\ num_tranches >= 1 /\ tranche_amount >= 1
         /\ num_tranches * tranche_amount <= total_amount

(* Entitlements are only computed once a snapshot has fixed their divisor.   *)
Weighed == investor_yield_root # NoRoot \/ vote_round > 0 => total_weight > 0

(* Rounds are opened one after the other, and only the last can be pending.  *)
RoundsInOrder ==
    /\ vote_pending => state = "Frozen" /\ vote_round > 0
    /\ \A r \in Rounds :
         /\ r > vote_round <=> votes[r].outcome = "NotOpened"
         /\ votes[r].outcome = "Pending" <=> r = vote_round /\ vote_pending
         /\ votes[r].outcome # "NotOpened" => votes[r].root \in Roots

IInv == /\ TypeOK /\ Sized /\ Weighed /\ RoundsInOrder
        /\ LedgerBalances /\ ScheduleKept /\ EarnedTrancheIsDue

-----------------------------------------------------------------------------
(* Integer arithmetic the vault relies on.                                   *)

(* A weight of a snapshot is a natural number.                               *)
LEMMA RootsAreWeights ==
    ASSUME NEW root \in Roots, NEW i \in Investors
    PROVE  root \in [Investors -> Nat] /\ root[i] \in Nat
  BY ConstantsAssumption DEF Roots

(* NoRoot is not the root of a snapshot.                                     *)
LEMMA NoRootIsNoRoot == NoRoot \notin Roots
  BY ConstantsAssumption DEF Roots

(* overdue_periods counts whole or begun months past the due date.           *)
LEMMA OverdueBounds ==
    ASSUME TypeOK
    PROVE  /\ overdue_periods \in Nat
           /\ now < oldest_due_ts => overdue_periods = 0
           /\ now >= oldest_due_ts =>
                /\ now < oldest_due_ts + overdue_periods * MONTH
                /\ now >= oldest_due_ts + (overdue_periods - 1) * MONTH
<1> DEFINE late == now - oldest_due_ts
<1>1. MONTH \in Nat \ {0} /\ now \in Int /\ oldest_due_ts \in Int
  BY ConstantsAssumption DEF TypeOK, oldest_due_ts
<1>2. CASE now < oldest_due_ts
  BY <1>1, <1>2 DEF overdue_periods
<1>3. CASE now >= oldest_due_ts
  <2>1. late \in Nat
    BY <1>1, <1>3
  <2>2. /\ late \div MONTH \in Nat
        /\ (late \div MONTH) * MONTH <= late
        /\ late < ((late \div MONTH) + 1) * MONTH
    BY <1>1, <2>1
  <2>3. overdue_periods = (late \div MONTH) + 1
    BY <1>1, <1>3 DEF overdue_periods
  <2> QED
    BY <1>1, <1>3, <2>1, <2>2, <2>3
<1> QED
  BY <1>1, <1>2, <1>3

-----------------------------------------------------------------------------
(* An uninitialized vault satisfies the invariant.                           *)
LEMMA InitInv == Init => IInv
<1> SUFFICES ASSUME Init PROVE IInv
  OBVIOUS
<1> USE DEF Init
<1>1. TypeOK
  <2>1. NoVote \in VaultVote
    BY DEF NoVote, VaultVote
  <2>2. brakes \in BrakeSets /\ vote_round \in 0..MaxRounds
    BY ConstantsAssumption
  <2>3. votes \in [Rounds -> VaultVote]
    BY <2>1
  <2>4. records \in [Rounds -> [Investors -> VaultVoteChoice \cup {"None"}]]
    OBVIOUS
  <2>6. vote_pending \in BOOLEAN
    OBVIOUS
  <2>5. /\ refund_claimed \in [Investors -> Nat]
        /\ yield_claimed \in [Investors -> Nat]
    OBVIOUS
  <2> QED
    BY <2>2, <2>3, <2>4, <2>5, <2>6 DEF TypeOK, States
<1>2. Sized /\ Weighed /\ LedgerBalances /\ ScheduleKept /\ EarnedTrancheIsDue
  BY DEF Sized, Weighed, LedgerBalances, ScheduleKept, EarnedTrancheIsDue
<1>3. RoundsInOrder
  BY ConstantsAssumption DEF RoundsInOrder, NoVote, VaultVoteChoice, Rounds
<1> QED
  BY <1>1, <1>2, <1>3 DEF IInv

(* Steps that leave the vault and its accounts alone.                        *)
LEMMA EnvironmentStep ==
    ASSUME IInv, Tick \/ SetBrakes \/ UNCHANGED vars
    PROVE  IInv'
<1> USE DEF IInv, schedule, progress, ballot, yield, claims
<1>1. /\ now \in Int /\ now' \in Int /\ now' >= now /\ brakes' \in BrakeSets
      /\ UNCHANGED <<state, start_ts, total_weight, schedule, progress, ballot,
                     yield, claims, escrow>>
  BY DEF TypeOK, Tick, SetBrakes, vars
<1>2. TypeOK'
  BY <1>1 DEF TypeOK
<1>3. EarnedTrancheIsDue'
  BY <1>1, ConstantsAssumption DEF TypeOK, EarnedTrancheIsDue
<1>4. Sized' /\ Weighed' /\ LedgerBalances' /\ ScheduleKept'
  BY <1>1 DEF Sized, Weighed, LedgerBalances, ScheduleKept
<1>5. RoundsInOrder'
  BY <1>1 DEF RoundsInOrder
<1> QED
  BY <1>2, <1>3, <1>4, <1>5

(* open_payout_vault starts the schedule with the whole raise undrawn.       *)
LEMMA OpenPayoutVaultStep ==
    ASSUME IInv, NEW swept \in Raises, NEW term \in Terms,
           OpenPayoutVault(swept, term)
    PROVE  IInv'
<1> USE DEF IInv, OpenPayoutVault, progress, ballot, yield, claims
<1>1. /\ swept \in Nat /\ swept > 0 /\ MONTH \in Nat
      /\ num_tranches' \in Nat \ {0} /\ swept >= num_tranches'
      /\ term.cliff \in Nat
  <2>1. swept \in Nat /\ MONTH \in Nat
    BY ConstantsAssumption
  <2>2. term.cliff \in 0..255 /\ term.vesting \in 0..255
    BY ConstantsAssumption
  <2>3. PICK c \in 0..255, v \in 0..255 : c = term.cliff /\ v = term.vesting
    BY ONLY <2>2
  <2>4. /\ v > c /\ num_tranches' = v - c
        /\ swept > 0 /\ swept >= num_tranches'
    BY <2>3
  <2>5. num_tranches' \in Nat \ {0}
    BY ONLY <2>4
  <2>6. term.cliff \in Nat
    BY ONLY <2>2
  <2> QED
    BY ONLY <2>1, <2>4, <2>5, <2>6
<1>2. /\ tranche_amount' \in Nat
      /\ num_tranches' * tranche_amount' <= swept
      /\ tranche_amount' >= 1
  <2> DEFINE n == num_tranches'
  <2>1. tranche_amount' = swept \div n /\ n \in Nat \ {0} /\ swept >= n
    BY <1>1
  <2> HIDE DEF n
  <2>2. swept \div n \in Nat /\ n * (swept \div n) <= swept /\ swept \div n >= 1
    BY ONLY <1>1, <2>1
  <2> QED
    BY <2>1, <2>2 DEF n
<1>3. start_ts' \in Int
  BY <1>1 DEF TypeOK
<1>4. TypeOK'
  BY <1>1, <1>2, <1>3 DEF TypeOK, States
<1>5. Sized'
  BY <1>1, <1>2 DEF Sized
<1>6. ScheduleKept'
  BY <1>1, <1>2 DEF Sized, ScheduleKept, TypeOK
<1>7. LedgerBalances' /\ EarnedTrancheIsDue'
  BY <1>1 DEF Sized, LedgerBalances, EarnedTrancheIsDue, TypeOK
<1>8. Weighed' /\ RoundsInOrder'
  BY DEF Weighed, RoundsInOrder, Sized
<1> QED
  BY <1>4, <1>5, <1>6, <1>7, <1>8

(* post_update: the update that fell due lies in the past.                   *)
LEMMA PostUpdateStep ==
    ASSUME IInv, PostUpdate
    PROVE  IInv'
<1> USE DEF IInv, PostUpdate, IsRunning, schedule, ballot, yield, claims
<1>1. TypeOK'
  BY DEF TypeOK
<1>2. EarnedTrancheIsDue'
  BY ConstantsAssumption DEF EarnedTrancheIsDue, oldest_due_ts, TypeOK
<1>3. ScheduleKept'
  BY DEF ScheduleKept, TypeOK
<1>4. Sized' /\ Weighed' /\ LedgerBalances' /\ RoundsInOrder'
  BY DEF Sized, Weighed, LedgerBalances, RoundsInOrder
<1> QED
  BY <1>1, <1>2, <1>3, <1>4

(* All tranches but the last together stay short of the raise.               *)
LEMMA TranchesFit ==
    ASSUME NEW k \in Nat, NEW n \in Nat, NEW size \in Nat, NEW total \in Nat,
           k < n, size >= 1, n * size <= total
    PROVE  /\ k * size < total
           /\ (k + 1) * size = k * size + size
           /\ k + 1 < n => k * size + size < total
  OBVIOUS

(* release_payout: the last tranche sweeps the remainder, every other one is *)
(* the floor of the raise over the tranches.                                 *)
LEMMA ReleasePayoutStep ==
    ASSUME IInv, ReleasePayout
    PROVE  IInv'
<1> USE DEF IInv, ReleasePayout, IsRunning, TrancheEarned, schedule, ballot, yield, claims
<1>1. /\ tranches_released \in Nat /\ num_tranches \in Nat
      /\ tranche_amount \in Nat /\ tranche_amount >= 1 /\ total_amount \in Nat
      /\ num_tranches * tranche_amount <= total_amount
      /\ tranches_released < num_tranches
      /\ released = tranches_released * tranche_amount
  BY DEF TypeOK, Sized, ScheduleKept
<1>2. /\ released < total_amount
      /\ tranches_released + 1 < num_tranches =>
            /\ released + tranche_amount < total_amount
            /\ (tranches_released + 1) * tranche_amount = released + tranche_amount
  BY <1>1, TranchesFit
<1>0. /\ released \in Nat /\ escrow \in Nat
      /\ TrancheDue > 0 /\ TrancheDue <= escrow /\ escrow' = escrow - TrancheDue
      /\ released' = released + TrancheDue
  BY DEF TypeOK
<1>3. TrancheDue \in Nat /\ released' \in Nat /\ escrow' \in Nat
  <2>1. TrancheDue \in Int
    BY <1>0, <1>1 DEF TrancheDue
  <2> QED
    BY ONLY <1>0, <2>1
<1>4. TypeOK'
  BY <1>3 DEF TypeOK, States
<1>5. CASE tranches_released + 1 = num_tranches
  <2>1. released' = total_amount /\ state' = "Completed"
    BY <1>0, <1>1, <1>5 DEF TrancheDue
  <2>2. ScheduleKept'
    BY <1>1, <1>5, <2>1 DEF ScheduleKept, TypeOK
  <2>3. LedgerBalances'
    BY <1>0, <1>3 DEF LedgerBalances, TypeOK
  <2>4. RoundsInOrder' /\ Sized'
    BY <1>1, <2>1 DEF RoundsInOrder, Sized
  <2> QED
    BY <1>4, <2>2, <2>3, <2>4 DEF Weighed, EarnedTrancheIsDue
<1>6. CASE tranches_released + 1 # num_tranches
  <2>1. /\ released' = released + tranche_amount /\ state' = "Active"
        /\ released' = tranches_released' * tranche_amount
        /\ released' < total_amount
        /\ tranches_released' < num_tranches
    BY <1>0, <1>1, <1>2, <1>6 DEF TrancheDue
  <2>2. ScheduleKept'
    <3>1. /\ updates_posted \in Nat /\ updates_posted > tranches_released
          /\ updates_posted <= num_tranches
      BY DEF TypeOK, ScheduleKept
    <3>2. UNCHANGED <<updates_posted, num_tranches, tranche_amount, total_amount>>
      OBVIOUS
    <3>3. tranches_released' = tranches_released + 1
      OBVIOUS
    <3> QED
      BY ONLY <1>1, <2>1, <3>1, <3>2, <3>3 DEF ScheduleKept
  <2>3. LedgerBalances'
    BY <1>0, <1>3 DEF LedgerBalances, TypeOK
  <2>4. RoundsInOrder' /\ Sized'
    BY <1>1, <2>1 DEF RoundsInOrder, Sized
  <2> QED
    BY <1>4, <2>2, <2>3, <2>4 DEF Weighed, EarnedTrancheIsDue
<1> QED
  BY <1>5, <1>6

(* freeze_vault changes nothing but the state.                               *)
LEMMA FreezeVaultStep ==
    ASSUME IInv, FreezeVault
    PROVE  IInv'
<1> USE DEF IInv, FreezeVault, IsRunning, schedule, progress, ballot, yield, claims
<1>1. TypeOK'
  BY DEF TypeOK, States
<1>2. ScheduleKept' /\ Sized' /\ LedgerBalances' /\ Weighed'
  BY DEF ScheduleKept, Sized, LedgerBalances, Weighed
<1>3. EarnedTrancheIsDue' /\ RoundsInOrder'
  BY DEF EarnedTrancheIsDue, RoundsInOrder
<1> QED
  BY <1>1, <1>2, <1>3

(* open_vault_vote: the next round is one nobody has voted in.               *)
LEMMA OpenVaultVoteStep ==
    ASSUME IInv, NEW snapshot \in Snapshots, NEW voting_period \in VotingPeriods,
           OpenVaultVote(snapshot, voting_period)
    PROVE  IInv'
<1> USE DEF IInv, OpenVaultVote, FixesTotalWeight, schedule, progress, yield, claims
<1>0. /\ snapshot \in [root : [Investors -> Nat], total : Nat]
      /\ voting_period \in Nat /\ MaxRounds \in Nat
  BY ConstantsAssumption
<1>1. /\ vote_round + 1 \in Rounds /\ snapshot.total \in Nat /\ snapshot.total > 0
      /\ snapshot.root \in Roots /\ now + voting_period \in Int
      /\ votes \in [Rounds -> VaultVote] /\ vote_round \in Nat
  BY <1>0 DEF Rounds, Roots, TypeOK
<1> DEFINE opened == [NoVote EXCEPT !.root = snapshot.root,
                                    !.end_ts = now + voting_period,
                                    !.outcome = "Pending"]
<1>2. opened \in VaultVote /\ opened.outcome = "Pending" /\ opened.root \in Roots
  BY <1>1 DEF VaultVote, NoVote
<1>3. /\ votes' \in [Rounds -> VaultVote] /\ votes'[vote_round + 1] = opened
      /\ \A r \in Rounds : r # vote_round + 1 => votes'[r] = votes[r]
  <2>1. votes' = [votes EXCEPT ![vote_round + 1] = opened]
    BY DEF opened
  <2>2. DOMAIN votes = Rounds /\ votes \in [Rounds -> VaultVote]
    BY <1>1
  <2> HIDE DEF opened, IInv, OpenVaultVote, FixesTotalWeight, schedule, progress, yield, claims
  <2> QED BY <1>1, <1>2, <2>1, <2>2
<1>4. TypeOK'
  BY <1>1, <1>3 DEF TypeOK, Rounds
<1>5. RoundsInOrder'
  BY <1>1, <1>2, <1>3 DEF RoundsInOrder, Rounds
<1>6. Sized' /\ Weighed' /\ LedgerBalances' /\ ScheduleKept' /\ EarnedTrancheIsDue'
  BY <1>1 DEF Sized, Weighed, LedgerBalances, ScheduleKept, EarnedTrancheIsDue
<1> QED
  BY <1>4, <1>5, <1>6

(* cast_vault_vote: the vote stays the pending one of the current round.     *)
LEMMA CastVaultVoteStep ==
    ASSUME IInv, NEW round \in Rounds, NEW voter \in Investors,
           NEW choice \in VaultVoteChoice, CastVaultVote(round, voter, choice)
    PROVE  IInv'
<1> USE DEF IInv, CastVaultVote, schedule, progress, yield, claims
<1> DEFINE vote == votes[round]
           weight == vote.root[voter]
<1>1. /\ vote \in VaultVote /\ vote.outcome = "Pending" /\ vote.root \in Roots
      /\ votes \in [Rounds -> VaultVote]
  BY DEF TypeOK, RoundsInOrder
<1>2. weight \in Nat
  BY <1>1, RootsAreWeights
<1>3. PICK counted \in VaultVote :
        /\ votes' = [votes EXCEPT ![round] = counted]
        /\ counted.outcome = "Pending" /\ counted.root = vote.root
  <2>1. CASE choice = "ReturnCapital"
    <3> DEFINE new == [vote EXCEPT !.return_weight = vote.return_weight + weight]
    <3>1. new \in VaultVote /\ new.outcome = "Pending" /\ new.root = vote.root
      BY <1>1, <1>2 DEF VaultVote
    <3>2. votes' = [votes EXCEPT ![round] = new]
      BY <2>1
    <3> QED
      BY <3>1, <3>2
  <2>2. CASE choice # "ReturnCapital"
    <3> DEFINE new == [vote EXCEPT !.extend_weight = vote.extend_weight + weight]
    <3>1. new \in VaultVote /\ new.outcome = "Pending" /\ new.root = vote.root
      BY <1>1, <1>2 DEF VaultVote
    <3>2. votes' = [votes EXCEPT ![round] = new]
      BY <2>2
    <3> QED
      BY <3>1, <3>2
  <2> QED
    BY <2>1, <2>2
<1>4. records' \in [Rounds -> [Investors -> VaultVoteChoice \cup {"None"}]]
  BY DEF TypeOK
<1>5. TypeOK'
  <2>1. votes' \in [Rounds -> VaultVote]
    BY <1>1, <1>3
  <2>2. UNCHANGED <<now, brakes, state, start_ts, total_weight, schedule, progress,
                    vote_round, vote_pending, yield, claims, escrow>>
    OBVIOUS
  <2> HIDE DEF CastVaultVote
  <2> QED
    BY <2>1, <2>2, <1>4 DEF TypeOK
<1>6. RoundsInOrder'
  BY <1>1, <1>3 DEF RoundsInOrder
<1>7. Sized' /\ Weighed' /\ LedgerBalances' /\ ScheduleKept' /\ EarnedTrancheIsDue'
  BY DEF Sized, Weighed, LedgerBalances, ScheduleKept, EarnedTrancheIsDue
<1> QED
  BY <1>5, <1>6, <1>7

(* Extend brings the founder up to date: nothing is overdue, the next update *)
(* falls due within a month, and every posted update's month stays over.     *)
LEMMA ExtendCatchesUp ==
    ASSUME IInv, start_ts' = start_ts + ExtendBy,
           now' = now, updates_posted' = updates_posted
    PROVE  /\ start_ts' \in Int
           /\ EarnedTrancheIsDue'
           /\ now' < oldest_due_ts'
           /\ now >= oldest_due_ts => oldest_due_ts' <= now' + MONTH
           /\ (start_ts' - start_ts) % MONTH = 0
<1> USE DEF IInv
<1>1. /\ MONTH \in Nat \ {0} /\ now \in Int /\ start_ts \in Int
      /\ updates_posted \in Nat
  BY ConstantsAssumption DEF TypeOK
<1> DEFINE months == overdue_periods
<1>2. months \in Nat
  BY OverdueBounds
<1>3. start_ts' = start_ts + months * MONTH
  BY DEF ExtendBy
<1>4. oldest_due_ts' = oldest_due_ts + months * MONTH /\ oldest_due_ts \in Int
  BY <1>1, <1>2, <1>3 DEF oldest_due_ts
<1>5. now < oldest_due_ts => months = 0
  BY OverdueBounds
<1>6. now >= oldest_due_ts => /\ now < oldest_due_ts + months * MONTH
                              /\ now >= oldest_due_ts + (months - 1) * MONTH
  BY OverdueBounds
<1>7. EarnedTrancheIsDue'
  <2>1. SUFFICES ASSUME updates_posted > 0
                 PROVE  now >= start_ts + months * MONTH + (updates_posted - 1) * MONTH
    BY <1>3 DEF EarnedTrancheIsDue
  <2>2. CASE now < oldest_due_ts
    BY <1>1, <1>5, <2>1, <2>2 DEF EarnedTrancheIsDue
  <2>3. CASE now >= oldest_due_ts
    BY <1>1, <1>2, <1>6, <2>3 DEF oldest_due_ts
  <2> QED
    BY <1>1, <1>4, <2>2, <2>3
<1>8. (start_ts' - start_ts) % MONTH = 0
  <2>1. start_ts' - start_ts = months * MONTH
    BY ONLY <1>1, <1>2, <1>3
  <2> HIDE DEF months
  <2>2. (months * MONTH) % MONTH = 0
    BY ONLY <1>1, <1>2
  <2> QED
    BY ONLY <2>1, <2>2
<1> QED
  BY <1>1, <1>2, <1>3, <1>4, <1>5, <1>6, <1>7, <1>8

(* finalize_vault_vote: Extend moves start_ts by whole months, and never past*)
(* the months already earned.                                                *)
LEMMA FinalizeVaultVoteStep ==
    ASSUME IInv, NEW round \in Rounds, FinalizeVaultVote(round)
    PROVE  IInv'
<1> USE DEF IInv, FinalizeVaultVote, schedule, progress, yield, claims
<1>1. /\ votes \in [Rounds -> VaultVote] /\ votes[round].root \in Roots
      /\ now' = now /\ updates_posted' = updates_posted
  BY DEF TypeOK, RoundsInOrder
<1>2. PICK decided \in VaultVote :
        /\ votes' = [votes EXCEPT ![round] = decided]
        /\ decided.outcome \in VaultVoteChoice /\ decided.root = votes[round].root
  <2> DEFINE outcome == Outcome(votes[round])
             new == [votes[round] EXCEPT !.outcome = outcome]
  <2>0. outcome \in VaultVoteChoice
    BY DEF Outcome, VaultVoteChoice
  <2> HIDE DEF outcome
  <2>1. /\ new \in VaultVote /\ new.outcome \in VaultVoteChoice
        /\ new.root = votes[round].root
    BY <1>1, <2>0 DEF VaultVote
  <2>2. votes' = [votes EXCEPT ![round] = new]
    BY DEF outcome
  <2> QED
    BY <2>1, <2>2
<1>3. start_ts' \in Int /\ EarnedTrancheIsDue'
  <2>1. CASE start_ts' = start_ts
    BY <1>1, <2>1 DEF EarnedTrancheIsDue, TypeOK
  <2>2. CASE start_ts' = start_ts + ExtendBy
    BY <1>1, <2>2, ExtendCatchesUp
  <2> QED
    BY <2>1, <2>2
<1>4. TypeOK'
  BY <1>1, <1>2, <1>3 DEF TypeOK, States
<1>5. RoundsInOrder'
  BY <1>1, <1>2 DEF RoundsInOrder, VaultVoteChoice
<1>6. state' \in {"Active", "Cancelled"} /\ state = "Frozen"
  OBVIOUS
<1>7. Sized' /\ Weighed' /\ LedgerBalances' /\ ScheduleKept'
  BY <1>6 DEF Sized, Weighed, LedgerBalances, ScheduleKept
<1> QED
  BY <1>3, <1>4, <1>5, <1>7

(* An entitlement is a natural number once its divisor is known.             *)
LEMMA EntitlementIsNat ==
    ASSUME NEW weight \in Nat, NEW pot \in Nat, total_weight \in Nat, total_weight > 0
    PROVE  Entitlement(weight, pot) \in Nat
<1> DEFINE owed == weight * pot
<1>1. owed \in Nat
  OBVIOUS
<1> HIDE DEF owed
<1>2. owed \div total_weight \in Nat
  BY <1>1
<1> QED
  BY <1>2 DEF Entitlement, owed

(* claim_refund: what leaves the escrow is what is booked as refunded.       *)
LEMMA ClaimRefundStep ==
    ASSUME IInv, NEW round \in Rounds, NEW investor \in Investors,
           ClaimRefund(round, investor)
    PROVE  IInv'
<1> USE DEF IInv
<1> DEFINE weight == votes[round].root[investor]
           due == Entitlement(weight, total_amount - released)
           payout == Undrawn(due, refund_claimed[investor])
<1>1. /\ total_amount \in Nat /\ released \in Nat /\ escrow \in Nat
      /\ refundsPaid \in Nat /\ total_weight \in Nat
      /\ refund_claimed \in [Investors -> Nat]
      /\ state = "Cancelled" /\ votes[round].outcome = "ReturnCapital"
      /\ round = vote_round /\ votes[round].root \in Roots
      /\ updates_posted \in Nat
  BY DEF TypeOK, ClaimRefund, RoundsInOrder
<1>2. total_weight > 0 /\ weight \in Nat
  BY <1>1, RootsAreWeights DEF Weighed, Rounds
<1>3. total_amount - released \in Nat
  <2>1. /\ tranches_released \in Nat /\ num_tranches \in Nat /\ tranche_amount \in Nat
        /\ tranche_amount >= 1 /\ num_tranches * tranche_amount <= total_amount
        /\ tranches_released < num_tranches
        /\ released = tranches_released * tranche_amount
    BY <1>1 DEF TypeOK, Sized, ScheduleKept
  <2>2. released < total_amount
    BY ONLY <1>1, <2>1, TranchesFit
  <2> QED
    BY ONLY <1>1, <2>2
<1>4. due \in Nat
  BY <1>1, <1>2, <1>3, EntitlementIsNat
<1>5. /\ payout > 0 /\ payout <= escrow /\ escrow' = escrow - payout
      /\ refundsPaid' = refundsPaid + payout
      /\ refund_claimed' = [refund_claimed EXCEPT ![investor] = due]
      /\ UNCHANGED <<now, brakes, state, start_ts, total_weight, schedule,
                     progress, ballot, yield, yield_claimed, yieldPaid>>
  BY DEF ClaimRefund, Payable
<1> HIDE DEF due
<1>6. payout \in Nat
  BY <1>1, <1>4, <1>5 DEF Undrawn
<1>7. escrow' \in Nat /\ refundsPaid' \in Nat /\ refund_claimed' \in [Investors -> Nat]
  BY <1>1, <1>4, <1>5, <1>6
<1> HIDE DEF payout
<1>8. TypeOK'
  BY <1>5, <1>7 DEF TypeOK, schedule, progress, ballot, yield
<1>9. LedgerBalances'
  BY <1>1, <1>5, <1>6 DEF LedgerBalances, TypeOK, schedule, progress, yield
<1>10. Sized' /\ Weighed' /\ RoundsInOrder' /\ ScheduleKept' /\ EarnedTrancheIsDue'
  BY <1>5 DEF Sized, Weighed, RoundsInOrder, ScheduleKept, EarnedTrancheIsDue,
              schedule, progress, ballot, yield
<1> QED
  BY <1>8, <1>9, <1>10

(* claim_investor_yield: what leaves the escrow is what is booked as paid.   *)
LEMMA ClaimInvestorYieldStep ==
    ASSUME IInv, NEW investor \in Investors, ClaimInvestorYield(investor)
    PROVE  IInv'
<1> USE DEF IInv
<1> DEFINE weight == investor_yield_root[investor]
           due == Entitlement(weight, investor_yield_pool)
           payout == Undrawn(due, yield_claimed[investor])
<1>1. /\ investor_yield_pool \in Nat /\ escrow \in Nat
      /\ yieldPaid \in Nat /\ total_weight \in Nat
      /\ yield_claimed \in [Investors -> Nat]
      /\ investor_yield_root \in Roots /\ investor_yield_root # NoRoot
  BY DEF TypeOK, ClaimInvestorYield
<1>2. total_weight > 0 /\ weight \in Nat
  BY <1>1, RootsAreWeights DEF Weighed
<1>3. due \in Nat
  BY <1>1, <1>2, EntitlementIsNat
<1>4. /\ payout > 0 /\ payout <= escrow /\ escrow' = escrow - payout
      /\ yieldPaid' = yieldPaid + payout
      /\ yield_claimed' = [yield_claimed EXCEPT ![investor] = due]
      /\ UNCHANGED <<now, brakes, state, start_ts, total_weight, schedule,
                     progress, ballot, yield, refund_claimed, refundsPaid>>
  BY DEF ClaimInvestorYield, Payable
<1> HIDE DEF due
<1>5. payout \in Nat
  BY <1>1, <1>3, <1>4 DEF Undrawn
<1>6. escrow' \in Nat /\ yieldPaid' \in Nat /\ yield_claimed' \in [Investors -> Nat]
  BY <1>1, <1>3, <1>4, <1>5
<1> HIDE DEF payout
<1>7. TypeOK'
  BY <1>4, <1>6 DEF TypeOK, schedule, progress, ballot, yield
<1>8. LedgerBalances'
  BY <1>1, <1>4, <1>5 DEF LedgerBalances, TypeOK, schedule, progress, yield
<1>9. Sized' /\ Weighed' /\ RoundsInOrder' /\ ScheduleKept' /\ EarnedTrancheIsDue'
  BY <1>4 DEF Sized, Weighed, RoundsInOrder, ScheduleKept, EarnedTrancheIsDue,
              schedule, progress, ballot, yield
<1> QED
  BY <1>7, <1>8, <1>9

(* route_yield: the two shares add up to what enters the escrow.             *)
LEMMA RouteYieldStep ==
    ASSUME IInv, NEW amount \in YieldAmounts, NEW snapshot \in Snapshots,
           RouteYield(amount, snapshot)
    PROVE  IInv'
<1> USE DEF IInv
<1> DEFINE third == amount \div 3
           investor_third == InvestorThird(amount)
<1>1. /\ amount \in Nat /\ amount >= 3
      /\ snapshot \in [root : [Investors -> Nat], total : Nat]
      /\ investor_yield_pool \in Nat /\ founder_yield_claimable \in Nat
      /\ escrow \in Nat
  BY ConstantsAssumption DEF RouteYield, TypeOK
<1>2. /\ third \in Nat /\ investor_third \in Nat
      /\ amount - third = third + investor_third
  BY <1>1 DEF InvestorThird
<1>3. /\ founder_yield_claimable' = founder_yield_claimable + third
      /\ investor_yield_pool' = investor_yield_pool + investor_third
      /\ escrow' = escrow + (amount - third)
      /\ total_weight' = snapshot.total /\ snapshot.total > 0
      /\ investor_yield_root' = snapshot.root
      /\ UNCHANGED <<now, brakes, state, start_ts, schedule, progress, ballot,
                     claims>>
  BY DEF RouteYield, FixesTotalWeight, FixesYieldRoot
<1> HIDE DEF third, investor_third
<1>4. /\ founder_yield_claimable' \in Nat /\ investor_yield_pool' \in Nat
      /\ escrow' \in Nat /\ total_weight' \in Nat
      /\ investor_yield_root' \in Roots
  BY <1>1, <1>2, <1>3 DEF Roots
<1>5. TypeOK'
  BY <1>3, <1>4 DEF TypeOK, schedule, progress, ballot, claims
<1>6. LedgerBalances'
  BY <1>1, <1>2, <1>3 DEF LedgerBalances, TypeOK, schedule, progress, claims
<1>7. Weighed'
  BY <1>3 DEF Weighed
<1>8. Sized' /\ RoundsInOrder' /\ ScheduleKept' /\ EarnedTrancheIsDue'
  BY <1>3 DEF Sized, RoundsInOrder, ScheduleKept, EarnedTrancheIsDue,
              schedule, progress, ballot
<1> QED
  BY <1>5, <1>6, <1>7, <1>8

(* claim_founder_yield: the founder takes exactly what was booked.           *)
LEMMA ClaimFounderYieldStep ==
    ASSUME IInv, ClaimFounderYield
    PROVE  IInv'
<1> USE DEF IInv, ClaimFounderYield, schedule, progress, ballot, claims
<1>1. TypeOK'
  BY DEF TypeOK
<1>2. LedgerBalances'
  BY DEF LedgerBalances, TypeOK
<1>3. Sized' /\ Weighed' /\ RoundsInOrder' /\ ScheduleKept' /\ EarnedTrancheIsDue'
  BY DEF Sized, Weighed, RoundsInOrder, ScheduleKept, EarnedTrancheIsDue
<1> QED
  BY <1>1, <1>2, <1>3

-----------------------------------------------------------------------------
(* Every instruction, the clock and the brakes keep the inductive invariant. *)
LEMMA NextInv == IInv /\ [Next]_vars => IInv'
<1> SUFFICES ASSUME IInv, [Next]_vars PROVE IInv'
  OBVIOUS
<1>1. CASE Tick \/ SetBrakes \/ UNCHANGED vars
  BY <1>1, EnvironmentStep
<1>2. CASE \E swept \in Raises, term \in Terms : OpenPayoutVault(swept, term)
  BY <1>2, OpenPayoutVaultStep
<1>3. CASE PostUpdate
  BY <1>3, PostUpdateStep
<1>4. CASE ReleasePayout
  BY <1>4, ReleasePayoutStep
<1>5. CASE FreezeVault
  BY <1>5, FreezeVaultStep
<1>6. CASE \E s \in Snapshots, p \in VotingPeriods : OpenVaultVote(s, p)
  BY <1>6, OpenVaultVoteStep
<1>7. CASE \E r \in Rounds, i \in Investors, c \in VaultVoteChoice :
                                                        CastVaultVote(r, i, c)
  BY <1>7, CastVaultVoteStep
<1>8. CASE \E r \in Rounds : FinalizeVaultVote(r)
  BY <1>8, FinalizeVaultVoteStep
<1>9. CASE \E r \in Rounds, i \in Investors : ClaimRefund(r, i)
  BY <1>9, ClaimRefundStep
<1>10. CASE \E a \in YieldAmounts, s \in Snapshots : RouteYield(a, s)
  BY <1>10, RouteYieldStep
<1>11. CASE \E i \in Investors : ClaimInvestorYield(i)
  BY <1>11, ClaimInvestorYieldStep
<1>12. CASE ClaimFounderYield
  BY <1>12, ClaimFounderYieldStep
<1> QED
  BY <1>1, <1>2, <1>3, <1>4, <1>5, <1>6, <1>7, <1>8, <1>9, <1>10, <1>11,
     <1>12 DEF Next

(* The inductive invariant holds of every behaviour of the vault.            *)
THEOREM Invariance == Spec => []IInv
<1>1. Init => IInv
  BY InitInv
<1>2. IInv /\ [Next]_vars => IInv'
  BY NextInv
<1> QED
  BY <1>1, <1>2, PTL DEF Spec

(* Every account field keeps its type: in particular no u64 subtraction of   *)
(* release_payout or the claims goes below zero.                             *)
THEOREM TypeCorrect == Spec => []TypeOK
<1>1. IInv => TypeOK
  BY DEF IInv
<1> QED
  BY <1>1, Invariance, PTL

(* One escrow, three pots: its balance is always the sum of the principal    *)
(* neither released nor refunded and the two yield pots.                     *)
THEOREM LedgerSafe == Spec => []LedgerBalances
<1>1. IInv => LedgerBalances
  BY DEF IInv
<1> QED
  BY <1>1, Invariance, PTL

(* The founder is paid tranche by tranche, never ahead of the updates, and   *)
(* the vault is Completed exactly when the whole raise is paid.              *)
THEOREM ScheduleSafe == Spec => []ScheduleKept
<1>1. IInv => ScheduleKept
  BY DEF IInv
<1> QED
  BY <1>1, Invariance, PTL

(* A posted update's month is over, through any number of Extends.           *)
THEOREM EarnedSafe == Spec => []EarnedTrancheIsDue
<1>1. IInv => EarnedTrancheIsDue
  BY DEF IInv
<1> QED
  BY <1>1, Invariance, PTL

-----------------------------------------------------------------------------
(* A frozen vault stays overdue until its vote is finalized: the founder     *)
(* cannot post into it, so oldest_due_ts stands still and time moves on.     *)
FrozenIsOverdue == state = "Frozen" => now >= oldest_due_ts

(* A frozen vault stays overdue until a vote ends it: time only adds to it.  *)
LEMMA FrozenIsOverdueStep ==
    ASSUME IInv, FrozenIsOverdue, [Next]_vars
    PROVE  FrozenIsOverdue'
<1> USE DEF FrozenIsOverdue, oldest_due_ts
<1>1. now \in Int /\ MONTH \in Nat
  BY ConstantsAssumption DEF IInv, TypeOK
<1>2. CASE Tick
  BY <1>1, <1>2 DEF Tick, progress, IInv, TypeOK
<1>3. CASE UNCHANGED vars
  BY <1>3 DEF vars, progress
<1>4. CASE FreezeVault
  <2>1. now >= oldest_due_ts
    <3>1. overdue_periods > 0
      BY <1>4, ConstantsAssumption, OverdueBounds DEF FreezeVault, MissedTooMany, IInv
    <3> QED
      BY <3>1, <1>1, OverdueBounds DEF IInv, TypeOK
  <2> QED
    BY <1>4, <2>1 DEF FreezeVault, progress
<1>5. ASSUME NEW r \in Rounds, FinalizeVaultVote(r)
      PROVE  FrozenIsOverdue'
  BY <1>5 DEF FinalizeVaultVote
<1>6. CASE SetBrakes \/ ReleasePayout \/ PostUpdate \/ ClaimFounderYield
  BY <1>6 DEF IsRunning, SetBrakes, ReleasePayout, PostUpdate, ClaimFounderYield, progress
<1>7. ASSUME NEW swept \in Raises, NEW term \in Terms, OpenPayoutVault(swept, term)
      PROVE  FrozenIsOverdue'
  BY <1>7 DEF OpenPayoutVault
<1>8. ASSUME NEW s \in Snapshots, NEW p \in VotingPeriods, OpenVaultVote(s, p)
      PROVE  FrozenIsOverdue'
  BY <1>8 DEF OpenVaultVote, progress
<1>9. ASSUME NEW r \in Rounds, NEW i \in Investors, NEW c \in VaultVoteChoice,
             CastVaultVote(r, i, c)
      PROVE  FrozenIsOverdue'
  BY <1>9 DEF CastVaultVote, progress
<1>10. ASSUME NEW r \in Rounds, NEW i \in Investors, ClaimRefund(r, i)
       PROVE  FrozenIsOverdue'
  BY <1>10 DEF ClaimRefund, progress
<1>11. ASSUME NEW a \in YieldAmounts, NEW s \in Snapshots, RouteYield(a, s)
       PROVE  FrozenIsOverdue'
  BY <1>11 DEF RouteYield, progress
<1>12. ASSUME NEW i \in Investors, ClaimInvestorYield(i)
       PROVE  FrozenIsOverdue'
  BY <1>12 DEF ClaimInvestorYield, progress
<1> QED
  BY <1>2, <1>3, <1>4, <1>5, <1>6, <1>7, <1>8, <1>9, <1>10, <1>11, <1>12 DEF Next

(* Only finalize_vault_vote takes a vault from Frozen to Active.             *)
LEMMA OnlyFinalizeThaws ==
    ASSUME [Next]_vars, state = "Frozen", state' = "Active"
    PROVE  \E r \in Rounds : FinalizeVaultVote(r)
<1> USE DEF Next
<1>1. ~ (UNCHANGED vars \/ Tick \/ SetBrakes \/ PostUpdate \/ ReleasePayout
         \/ FreezeVault \/ ClaimFounderYield)
  BY DEF vars, IsRunning, Tick, SetBrakes, PostUpdate, ReleasePayout, FreezeVault,
         ClaimFounderYield
<1>2. /\ \A swept \in Raises, term \in Terms : ~ OpenPayoutVault(swept, term)
      /\ \A s \in Snapshots, p \in VotingPeriods : ~ OpenVaultVote(s, p)
      /\ \A a \in YieldAmounts, s \in Snapshots : ~ RouteYield(a, s)
  BY DEF IsRunning, OpenPayoutVault, OpenVaultVote, RouteYield
<1>3. /\ \A r \in Rounds, i \in Investors, c \in VaultVoteChoice :
                                                    ~ CastVaultVote(r, i, c)
      /\ \A r \in Rounds, i \in Investors : ~ ClaimRefund(r, i)
      /\ \A i \in Investors : ~ ClaimInvestorYield(i)
  BY DEF CastVaultVote, ClaimRefund, ClaimInvestorYield
<1> QED
  BY <1>1, <1>2, <1>3

(* An Extend is the fresh start finalize_vault_vote's comment promises.      *)
THEOREM FreshStart == Spec => ExtendIsAFreshStart
<1>1. Init => FrozenIsOverdue
  BY DEF Init, FrozenIsOverdue
<1>2. IInv /\ FrozenIsOverdue /\ [Next]_vars => FrozenIsOverdue'
  BY FrozenIsOverdueStep
<1>3. IInv /\ FrozenIsOverdue /\ [Next]_vars =>
        [state = "Frozen" /\ state' = "Active" =>
           /\ now' < oldest_due_ts' /\ oldest_due_ts' <= now' + MONTH
           /\ (start_ts' - start_ts) % MONTH = 0]_vars
  <2> SUFFICES ASSUME IInv, FrozenIsOverdue, [Next]_vars,
                      state = "Frozen", state' = "Active"
               PROVE  /\ now' < oldest_due_ts' /\ oldest_due_ts' <= now' + MONTH
                      /\ (start_ts' - start_ts) % MONTH = 0
    OBVIOUS
  <2>1. PICK r \in Rounds : FinalizeVaultVote(r)
    BY OnlyFinalizeThaws
  <2>2. /\ start_ts' = start_ts + ExtendBy /\ now' = now
        /\ updates_posted' = updates_posted
    BY <2>1 DEF FinalizeVaultVote, progress
  <2>3. now >= oldest_due_ts
    BY DEF FrozenIsOverdue
  <2> QED
    BY <2>2, <2>3, ExtendCatchesUp
<1> QED
  BY <1>1, <1>2, <1>3, Invariance, PTL DEF Spec, ExtendIsAFreshStart

-----------------------------------------------------------------------------
(* The steps that do not vote: every other action leaves the ballot alone.   *)
Voting ==
    \/ \E s \in Snapshots, p \in VotingPeriods : OpenVaultVote(s, p)
    \/ \E r \in Rounds, i \in Investors, c \in VaultVoteChoice : CastVaultVote(r, i, c)
    \/ \E r \in Rounds : FinalizeVaultVote(r)

(* No instruction but those of a vote touches a vote or a record.            *)
LEMMA OnlyVotingVotes ==
    ASSUME [Next]_vars
    PROVE  Voting \/ UNCHANGED ballot
<1>1. CASE UNCHANGED vars \/ Tick \/ SetBrakes \/ PostUpdate \/ ReleasePayout
           \/ FreezeVault \/ ClaimFounderYield
  BY <1>1 DEF vars, Tick, SetBrakes, PostUpdate, ReleasePayout, FreezeVault,
              ClaimFounderYield
<1>2. CASE \/ \E swept \in Raises, term \in Terms : OpenPayoutVault(swept, term)
           \/ \E a \in YieldAmounts, s \in Snapshots : RouteYield(a, s)
           \/ \E r \in Rounds, i \in Investors : ClaimRefund(r, i)
           \/ \E i \in Investors : ClaimInvestorYield(i)
  BY <1>2 DEF OpenPayoutVault, RouteYield, ClaimRefund, ClaimInvestorYield
<1> QED
  BY <1>1, <1>2 DEF Next, Voting

(* A vote once decided, and a ballot once cast, are never touched again.     *)
THEOREM BallotsFinal == Spec => BallotsAreFinal
<1> DEFINE Final(r) ==
      /\ votes[r].outcome \in VaultVoteChoice =>
             votes'[r] = votes[r] /\ records'[r] = records[r]
      /\ \A i \in Investors :
             records[r][i] # "None" => records'[r][i] = records[r][i]
      /\ votes[r].outcome = "NotOpened" /\ votes'[r].outcome = "Pending" =>
             \A q \in Rounds \ {r} : votes'[q].outcome # "Pending"
<1>1. ASSUME IInv, [Next]_vars, NEW r \in Rounds
      PROVE  Final(r)
  <2>0. /\ votes \in [Rounds -> VaultVote] /\ vote_round \in Nat
        /\ records \in [Rounds -> [Investors -> VaultVoteChoice \cup {"None"}]]
        /\ RoundsInOrder /\ "Pending" \notin VaultVoteChoice
        /\ "NotOpened" \notin VaultVoteChoice
    BY <1>1 DEF IInv, TypeOK, VaultVoteChoice
  <2>1. CASE UNCHANGED ballot
    BY <2>1 DEF ballot
  <2>2. ASSUME NEW s \in Snapshots, NEW p \in VotingPeriods, OpenVaultVote(s, p)
        PROVE  Final(r)
    <3>1. /\ vote_round + 1 \in Rounds /\ ~ vote_pending /\ records' = records
      BY <2>0, <2>2, ConstantsAssumption DEF OpenVaultVote, Rounds
    <3>2. PICK opened : votes' = [votes EXCEPT ![vote_round + 1] = opened]
      BY <2>2 DEF OpenVaultVote
    <3>3. \A q \in Rounds \ {vote_round + 1} : /\ votes'[q] = votes[q]
                                              /\ votes[q].outcome # "Pending"
      BY <2>0, <3>1, <3>2 DEF RoundsInOrder
    <3>4. votes[vote_round + 1].outcome = "NotOpened"
      BY <2>0, <3>1 DEF RoundsInOrder
    <3> QED
      BY <2>0, <3>1, <3>3, <3>4
  <2>3. ASSUME NEW q \in Rounds, NEW i \in Investors, NEW c \in VaultVoteChoice,
               CastVaultVote(q, i, c)
        PROVE  Final(r)
    <3>1. /\ votes[q].outcome = "Pending" /\ records[q][i] = "None"
          /\ records' = [records EXCEPT ![q] = [records[q] EXCEPT ![i] = c]]
      BY <2>3 DEF CastVaultVote, MayVote
    <3>2. PICK counted : votes' = [votes EXCEPT ![q] = counted]
      BY <2>3 DEF CastVaultVote
    <3>3. \A o \in Rounds \ {q} : votes'[o] = votes[o] /\ records'[o] = records[o]
      BY <2>0, <3>1, <3>2
    <3>4. \A j \in Investors : records[q][j] # "None" => records'[q][j] = records[q][j]
      BY <2>0, <3>1
    <3> QED
      BY <2>0, <3>1, <3>3, <3>4
  <2>4. ASSUME NEW q \in Rounds, FinalizeVaultVote(q)
        PROVE  Final(r)
    <3>1. votes[q].outcome = "Pending" /\ records' = records
      BY <2>4 DEF FinalizeVaultVote
    <3>2. PICK decided : votes' = [votes EXCEPT ![q] = decided]
      BY <2>4 DEF FinalizeVaultVote
    <3>3. \A o \in Rounds \ {q} : votes'[o] = votes[o]
      BY <2>0, <3>2
    <3> QED
      BY <2>0, <3>1, <3>3
  <2> QED
    BY <1>1, <2>1, <2>2, <2>3, <2>4, OnlyVotingVotes DEF Voting
<1>2. IInv /\ [Next]_vars => [\A r \in Rounds : Final(r)]_vars
  BY <1>1
<1> QED
  BY <1>2, Invariance, PTL DEF Spec, BallotsAreFinal

(* Once Cancelled, no instruction changes what a refund is computed from.    *)
THEOREM ReturnFinal == Spec => ReturnIsFinal
<1> DEFINE Still == /\ state' = "Cancelled"
                    /\ released' = released /\ total_amount' = total_amount
                    /\ total_weight' = total_weight /\ votes' = votes
                    /\ vote_round' = vote_round /\ ~vote_pending'
<1>1. ASSUME IInv, [Next]_vars, state = "Cancelled"
      PROVE  Still
  <2> USE DEF schedule, progress, ballot
  <2>1. ~ vote_pending
    BY <1>1 DEF IInv, RoundsInOrder
  <2>2. CASE UNCHANGED vars \/ Tick \/ SetBrakes \/ ClaimFounderYield
    BY <1>1, <2>1, <2>2 DEF vars, Tick, SetBrakes, ClaimFounderYield
  <2>3. CASE \/ \E r \in Rounds, i \in Investors : ClaimRefund(r, i)
             \/ \E i \in Investors : ClaimInvestorYield(i)
    BY <1>1, <2>1, <2>3 DEF ClaimRefund, ClaimInvestorYield
  <2>4. ~ (PostUpdate \/ ReleasePayout \/ FreezeVault \/ Voting)
    BY <1>1 DEF IsRunning, PostUpdate, ReleasePayout, FreezeVault, Voting,
                OpenVaultVote, CastVaultVote, FinalizeVaultVote
  <2>5. /\ \A swept \in Raises, term \in Terms : ~ OpenPayoutVault(swept, term)
        /\ \A a \in YieldAmounts, s \in Snapshots : ~ RouteYield(a, s)
    BY <1>1 DEF IsRunning, OpenPayoutVault, RouteYield
  <2> QED
    BY <1>1, <2>2, <2>3, <2>4, <2>5 DEF Next, Voting
<1>2. IInv /\ [Next]_vars => [state = "Cancelled" => Still]_vars
  BY <1>1
<1> QED
  BY <1>2, Invariance, PTL DEF Spec, ReturnIsFinal

-----------------------------------------------------------------------------
(* Sums over the investors.                                                  *)
(* No snapshot in use hands out more than the whole.                         *)
WeightsFit ==
    /\ investor_yield_root # NoRoot => SumOf(investor_yield_root, Investors) <= total_weight
    /\ \A r \in Rounds : votes[r].outcome # "NotOpened" =>
            SumOf(votes[r].root, Investors) <= total_weight

(* Only a decided return is refunded, and only yield that was routed drawn.  *)
ClaimsInOrder ==
    /\ state = "Cancelled" => vote_round > 0 /\ votes[vote_round].outcome = "ReturnCapital"
    /\ \A i \in Investors : refund_claimed[i] > 0 => state = "Cancelled"
    /\ \A i \in Investors : yield_claimed[i] > 0 => investor_yield_root # NoRoot

(* What left the escrow is what the claims have drawn.                       *)
ClaimsBooked ==
    /\ refundsPaid = SumOf(refund_claimed, Investors)
    /\ yieldPaid = SumOf(yield_claimed, Investors)

(* The weights that voted for a choice in a round.                           *)
Backing(r, choice) ==
    [i \in Investors |-> IF records[r][i] = choice THEN votes[r].root[i] ELSE 0]

(* TalliesMatchRecords, and no record in a round that is yet to be opened.   *)
Tallied(r) ==
    /\ votes[r].outcome = "NotOpened" => \A i \in Investors : records[r][i] = "None"
    /\ votes[r].outcome # "NotOpened" =>
         /\ votes[r].return_weight = SumOf(Backing(r, "ReturnCapital"), Investors)
         /\ votes[r].extend_weight = SumOf(Backing(r, "Extend"), Investors)
         /\ votes[r].return_weight + votes[r].extend_weight <= total_weight
         /\ votes[r].outcome = "ReturnCapital" =>
                votes[r].return_weight > votes[r].extend_weight

SumInv == /\ WeightsFit /\ ClaimsInOrder /\ ClaimsBooked /\ NobodyOverdrawn
          /\ \A r \in Rounds : Tallied(r)

-----------------------------------------------------------------------------
(* SumOver is the sum that SumTheorems is about.                             *)
LEMMA SumOverIsSumOf == \A f : SumOver(f) = SumOf(f, Investors)
  BY Zenon DEF SumOver, SumOf

(* There are finitely many investors.                                        *)
LEMMA FewInvestors == IsFiniteSet(Investors)
  BY ConstantsAssumption

(* A snapshot's weights add up to its total at most.                         *)
LEMMA SnapshotFits ==
    ASSUME NEW s \in Snapshots
    PROVE  s.root \in Roots /\ SumOf(s.root, Investors) <= s.total
  BY SnapshotsHonest, SumOverIsSumOf DEF Roots

(* A sum of nothing.                                                         *)
LEMMA SumOfZeros ==
    ASSUME NEW f \in [Investors -> Int], \A i \in Investors : f[i] = 0
    PROVE  SumOf(f, Investors) = 0
  BY FewInvestors, ZeroSum

(* The same for a function that is zero everywhere.                          *)
LEMMA SumOfNothing == SumOf([i \in Investors |-> 0], Investors) = 0
  <1> DEFINE f == [i \in Investors |-> 0]
  <1>1. f \in [Investors -> Int] /\ \A i \in Investors : f[i] = 0
    OBVIOUS
  <1> HIDE DEF f
  <1>2. SumOf(f, Investors) = 0
    BY <1>1, SumOfZeros
  <1> QED BY <1>2 DEF f

(* Before anything is sold, voted or drawn.                                  *)
LEMMA InitSums == Init => SumInv
<1> SUFFICES ASSUME Init PROVE SumInv
  OBVIOUS
<1>1. /\ refund_claimed \in [Investors -> Int] /\ yield_claimed \in [Investors -> Int]
      /\ \A i \in Investors : refund_claimed[i] = 0 /\ yield_claimed[i] = 0
      /\ refundsPaid = 0 /\ yieldPaid = 0
  BY DEF Init
<1>2. ClaimsBooked
  BY <1>1, SumOfZeros DEF ClaimsBooked
<1>3. /\ state = "Uninitialized" /\ investor_yield_root = NoRoot
      /\ \A r \in Rounds : votes[r].outcome = "NotOpened"
      /\ \A r \in Rounds, i \in Investors : records[r][i] = "None"
  BY DEF Init, NoVote
<1>4. WeightsFit /\ ClaimsInOrder /\ NobodyOverdrawn
  BY <1>1, <1>3 DEF WeightsFit, ClaimsInOrder, NobodyOverdrawn
<1>5. \A r \in Rounds : Tallied(r)
  BY <1>3 DEF Tallied
<1> QED BY <1>2, <1>4, <1>5 DEF SumInv

-----------------------------------------------------------------------------
(* What the steps that leave ballots, claims and snapshots alone have in     *)
(* common: a return is still a return of the same amount.                    *)
Aside ==
    /\ UNCHANGED <<total_weight, votes, records, vote_round, investor_yield_pool,
                   investor_yield_root, claims>>
    /\ state' = "Cancelled" <=> state = "Cancelled"
    /\ state = "Cancelled" => UNCHANGED <<total_amount, released>>

(* They are all but the votes, the claims and route_yield.                   *)
LEMMA MostStepsAside ==
    ASSUME [Next]_vars
    PROVE  \/ Aside \/ Voting
           \/ \E r \in Rounds, i \in Investors : ClaimRefund(r, i)
           \/ \E a \in YieldAmounts, s \in Snapshots : RouteYield(a, s)
           \/ \E i \in Investors : ClaimInvestorYield(i)
<1> USE DEF Aside, ballot, yield, claims, schedule
<1>1. CASE UNCHANGED vars \/ Tick \/ SetBrakes \/ ClaimFounderYield
  BY <1>1 DEF vars, Tick, SetBrakes, ClaimFounderYield, progress
<1>2. CASE PostUpdate \/ ReleasePayout \/ FreezeVault
  BY <1>2 DEF PostUpdate, ReleasePayout, FreezeVault, IsRunning
<1>3. CASE \E swept \in Raises, term \in Terms : OpenPayoutVault(swept, term)
  BY <1>3 DEF OpenPayoutVault
<1> QED BY <1>1, <1>2, <1>3 DEF Next, Voting

(* Such a step leaves every sum as it was.                                   *)
LEMMA AsideStep ==
    ASSUME IInv, SumInv, Aside
    PROVE  SumInv'
<1> USE DEF Aside, claims
<1>1. WeightsFit' /\ ClaimsBooked' /\ ClaimsInOrder'
  BY DEF SumInv, WeightsFit, ClaimsBooked, ClaimsInOrder
<1>2. NobodyOverdrawn'
  <2>1. CASE state = "Cancelled"
    BY <2>1 DEF SumInv, NobodyOverdrawn, Entitlement
  <2>2. CASE state # "Cancelled"
    <3>1. \A i \in Investors : ~(refund_claimed[i] > 0)
      BY <2>2 DEF SumInv, ClaimsInOrder
    <3> QED BY <3>1 DEF SumInv, NobodyOverdrawn, Entitlement
  <2> QED BY <2>1, <2>2
<1>3. ASSUME NEW r \in Rounds PROVE Tallied(r)'
  <2>1. Backing(r, "ReturnCapital")' = Backing(r, "ReturnCapital") /\ Backing(r, "Extend")' = Backing(r, "Extend")
    BY DEF Backing
  <2> QED BY <2>1 DEF SumInv, Tallied
<1> QED BY <1>1, <1>2, <1>3 DEF SumInv

(* Once a snapshot is in use, every other one has the same total.            *)
LEMMA TotalWeightFixed ==
    ASSUME IInv, NEW total \in Nat, FixesTotalWeight(total)
    PROVE  /\ total_weight' = total
           /\ investor_yield_root # NoRoot \/ vote_round > 0 => total_weight = total
           /\ \A r \in Rounds : votes[r].outcome # "NotOpened" => total_weight = total
<1>1. total_weight' = total /\ total_weight \in {0, total}
  BY DEF FixesTotalWeight
<1>2. investor_yield_root # NoRoot \/ vote_round > 0 => total_weight > 0
  BY DEF IInv, Weighed
<1>3. \A r \in Rounds : votes[r].outcome # "NotOpened" => vote_round > 0
  BY ConstantsAssumption DEF IInv, RoundsInOrder, Rounds, TypeOK
<1> QED BY <1>1, <1>2, <1>3

(* open_vault_vote: the fresh vote has no record and no weight in it.        *)
LEMMA OpenVaultVoteSums ==
    ASSUME IInv, SumInv, NEW s \in Snapshots, NEW p \in VotingPeriods, OpenVaultVote(s, p)
    PROVE  SumInv'
<1>1. /\ s \in [root : [Investors -> Nat], total : Nat] /\ s.total \in Nat
      /\ SumOf(s.root, Investors) <= s.total
  BY ConstantsAssumption, SnapshotFits
<1>0. vote_round \in 0..MaxRounds /\ vote_round < MaxRounds /\ MaxRounds \in Nat
  BY ConstantsAssumption DEF OpenVaultVote, IInv, TypeOK
<1> PICK n \in Rounds : n = vote_round + 1
  BY <1>0 DEF Rounds
<1>2. /\ votes \in [Rounds -> VaultVote] /\ vote_round \in Nat
      /\ votes[n].outcome = "NotOpened"
  BY DEF IInv, TypeOK, RoundsInOrder
<1>3. /\ total_weight' = s.total
      /\ investor_yield_root # NoRoot => total_weight = s.total
      /\ \A r \in Rounds : votes[r].outcome # "NotOpened" => total_weight = s.total
  BY <1>1, TotalWeightFixed DEF OpenVaultVote
<1>4. PICK vote : /\ votes' = [votes EXCEPT ![n] = vote]
                  /\ vote.root = s.root /\ vote.outcome = "Pending"
                  /\ vote.return_weight = 0 /\ vote.extend_weight = 0
  <2> DEFINE opened == [NoVote EXCEPT !.root = s.root, !.end_ts = now + p,
                                      !.outcome = "Pending"]
  <2>1. /\ opened.root = s.root /\ opened.outcome = "Pending"
        /\ opened.return_weight = 0 /\ opened.extend_weight = 0
    BY DEF NoVote
  <2>2. votes' = [votes EXCEPT ![n] = opened]
    BY DEF OpenVaultVote
  <2> QED BY <2>1, <2>2
<1>5. /\ state = "Frozen" /\ UNCHANGED <<state, records, yield, claims>>
  BY DEF OpenVaultVote
<1>6. votes'[n] = vote /\ \A r \in Rounds \ {n} : votes'[r] = votes[r]
  BY <1>2, <1>4
<1>7. WeightsFit'
  <2>1. investor_yield_root' # NoRoot => SumOf(investor_yield_root', Investors) <= total_weight'
    BY <1>3, <1>5 DEF SumInv, WeightsFit, yield
  <2>2. ASSUME NEW r \in Rounds, votes'[r].outcome # "NotOpened"
        PROVE  SumOf(votes'[r].root, Investors) <= total_weight'
    <3>1. CASE r = n
      BY <1>1, <1>3, <1>4, <1>6, <3>1
    <3>2. CASE r # n
      BY <1>3, <1>6, <2>2, <3>2 DEF SumInv, WeightsFit
    <3> QED BY <3>1, <3>2
  <2> QED BY <2>1, <2>2 DEF WeightsFit
<1>8. ClaimsBooked' /\ ClaimsInOrder'
  BY <1>5 DEF SumInv, ClaimsBooked, ClaimsInOrder, claims, yield
<1>9. NobodyOverdrawn'
  <2>1. \A i \in Investors : ~(refund_claimed[i] > 0)
    BY <1>5 DEF SumInv, ClaimsInOrder
  <2>2. \A i \in Investors : yield_claimed[i] > 0 => total_weight' = total_weight
    BY <1>3 DEF SumInv, ClaimsInOrder
  <2> QED BY <1>5, <2>1, <2>2 DEF SumInv, NobodyOverdrawn, Entitlement, claims, yield
<1>10. ASSUME NEW r \in Rounds PROVE Tallied(r)'
  <2>1. CASE r = n
    <3>1. \A i \in Investors : records'[n][i] = "None"
      BY <1>2, <1>5 DEF SumInv, Tallied
    <3>2. /\ SumOf(Backing(n, "ReturnCapital")', Investors) = 0
          /\ SumOf(Backing(n, "Extend")', Investors) = 0
      <4>1. ASSUME NEW c \in VaultVoteChoice
            PROVE  SumOf(Backing(n, c)', Investors) = 0
        <5>1. Backing(n, c)' = [i \in Investors |-> 0]
          BY <3>1 DEF Backing, VaultVoteChoice
        <5> QED BY <5>1, SumOfNothing
      <4> QED BY <4>1 DEF VaultVoteChoice
    <3>3. total_weight' >= 0
      BY <1>1, <1>3
    <3> QED BY <1>4, <1>6, <2>1, <3>2, <3>3 DEF Tallied
  <2>2. CASE r # n
    <3>1. votes'[r] = votes[r] /\ records' = records
      BY <1>5, <1>6, <2>2
    <3>2. Backing(r, "ReturnCapital")' = Backing(r, "ReturnCapital") /\ Backing(r, "Extend")' = Backing(r, "Extend")
      BY <3>1 DEF Backing
    <3> QED BY <1>3, <3>1, <3>2 DEF SumInv, Tallied
  <2> QED BY <2>1, <2>2
<1> QED BY <1>7, <1>8, <1>9, <1>10 DEF SumInv

(* One more voter for a choice adds the voter's weight to those behind it.   *)
LEMMA OneMoreVoter ==
    ASSUME IInv, NEW r \in Rounds, NEW voter \in Investors, NEW c \in VaultVoteChoice,
           NEW choice \in VaultVoteChoice, records[r][voter] = "None",
           votes[r].outcome # "NotOpened", votes'[r].root = votes[r].root,
           records' = [records EXCEPT ![r] = [records[r] EXCEPT ![voter] = choice]]
    PROVE  SumOf(Backing(r, c)', Investors) =
              SumOf(Backing(r, c), Investors) + (IF c = choice THEN votes[r].root[voter] ELSE 0)
<1>1. /\ votes[r].root \in [Investors -> Nat] /\ votes[r].root[voter] \in Nat
      /\ records \in [Rounds -> [Investors -> VaultVoteChoice \cup {"None"}]]
      /\ "None" \notin VaultVoteChoice
  BY RootsAreWeights DEF IInv, TypeOK, RoundsInOrder, VaultVoteChoice
<1>2. PICK w \in Nat : w = votes[r].root[voter]
  BY <1>1
<1>3. Backing(r, c) \in [Investors -> Int] /\ Backing(r, c)[voter] = 0
  BY <1>1 DEF Backing
<1>4. CASE c = choice
  <2>1. Backing(r, c)' = [Backing(r, c) EXCEPT ![voter] = w]
    BY <1>1, <1>2, <1>4 DEF Backing
  <2>2. Backing(r, c)' \in [Investors -> Int] /\ Backing(r, c)'[voter] = w
    BY <1>3, <2>1
  <2>3. PICK f \in [Investors -> Int], g \in [Investors -> Int] :
            f = Backing(r, c) /\ g = Backing(r, c)'
    BY <1>3, <2>2
  <2>4. \A i \in Investors \ {voter} : g[i] = f[i]
    BY <2>1, <2>3
  <2>5. SumOf(g, Investors) = SumOf(f, Investors) - f[voter] + g[voter]
    BY <2>4, FewInvestors, SumChange
  <2>6. SumOf(f, Investors) \in Int
    BY FewInvestors, SumType
  <2> QED BY <1>2, <1>3, <1>4, <2>2, <2>3, <2>5, <2>6
<1>5. CASE c # choice
  <2>1. Backing(r, c)' = Backing(r, c)
    BY <1>1, <1>5 DEF Backing
  <2>2. SumOf(Backing(r, c), Investors) \in Int
    BY <1>3, FewInvestors, SumType
  <2> QED BY <1>5, <2>1, <2>2
<1> QED BY <1>4, <1>5

(* cast_vault_vote: the weight goes to the tally of the choice recorded.     *)
LEMMA CastVaultVoteSums ==
    ASSUME IInv, SumInv, NEW round \in Rounds, NEW voter \in Investors,
           NEW choice \in VaultVoteChoice, CastVaultVote(round, voter, choice)
    PROVE  SumInv'
<1>1. /\ votes \in [Rounds -> VaultVote] /\ votes[round] \in VaultVote
      /\ votes[round].return_weight \in Nat /\ votes[round].extend_weight \in Nat
      /\ total_weight \in Nat /\ round = vote_round
      /\ records \in [Rounds -> [Investors -> VaultVoteChoice \cup {"None"}]]
  BY DEF IInv, TypeOK, VaultVote, CastVaultVote
<1> PICK w : w = votes[round].root[voter]
  OBVIOUS
<1>2. /\ votes[round].outcome = "Pending" /\ records[round][voter] = "None"
      /\ votes[round].return_weight + votes[round].extend_weight + w <= total_weight
      /\ records' = [records EXCEPT ![round] = [records[round] EXCEPT ![voter] = choice]]
      /\ state = "Frozen"
      /\ UNCHANGED <<state, total_weight, vote_round, total_amount, released, yield, claims>>
  BY DEF CastVaultVote, MayVote, schedule, progress
<1>3. w \in Nat
  BY <1>2, RootsAreWeights DEF IInv, RoundsInOrder
<1>4. PICK counted :
        /\ votes' = [votes EXCEPT ![round] = counted]
        /\ counted.outcome = "Pending" /\ counted.root = votes[round].root
        /\ counted.return_weight = votes[round].return_weight
                                    + (IF choice = "ReturnCapital" THEN w ELSE 0)
        /\ counted.extend_weight = votes[round].extend_weight
                                    + (IF choice = "Extend" THEN w ELSE 0)
  <2> DEFINE vote == votes[round]
             forReturn == [vote EXCEPT !.return_weight = vote.return_weight + w]
             forExtend == [vote EXCEPT !.extend_weight = vote.extend_weight + w]
  <2>1. votes' = [votes EXCEPT ![round] =
                     IF choice = "ReturnCapital" THEN forReturn ELSE forExtend]
    BY DEF CastVaultVote
  <2>2. /\ forReturn.outcome = "Pending" /\ forReturn.root = vote.root
        /\ forReturn.return_weight = vote.return_weight + w
        /\ forReturn.extend_weight = vote.extend_weight
        /\ forExtend.outcome = "Pending" /\ forExtend.root = vote.root
        /\ forExtend.extend_weight = vote.extend_weight + w
        /\ forExtend.return_weight = vote.return_weight
    BY <1>1, <1>2 DEF VaultVote
  <2> HIDE DEF forReturn, forExtend
  <2>3. CASE choice = "ReturnCapital"
    <3>1. /\ forReturn.return_weight = vote.return_weight + (IF choice = "ReturnCapital" THEN w ELSE 0)
          /\ forReturn.extend_weight = vote.extend_weight + (IF choice = "Extend" THEN w ELSE 0)
      BY <1>1, <2>2, <2>3
    <3>2. votes' = [votes EXCEPT ![round] = forReturn]
      BY <2>1, <2>3
    <3> QED BY <2>2, <3>1, <3>2
  <2>4. CASE choice = "Extend"
    <3>1. /\ forExtend.return_weight = vote.return_weight + (IF choice = "ReturnCapital" THEN w ELSE 0)
          /\ forExtend.extend_weight = vote.extend_weight + (IF choice = "Extend" THEN w ELSE 0)
      BY <1>1, <2>2, <2>4
    <3>2. votes' = [votes EXCEPT ![round] = forExtend]
      BY <2>1, <2>4
    <3> QED BY <2>2, <3>1, <3>2
  <2> QED BY <2>3, <2>4 DEF VaultVoteChoice
<1>5. votes'[round] = counted /\ \A r \in Rounds \ {round} : votes'[r] = votes[r]
  BY <1>1, <1>4
<1>6. WeightsFit' /\ ClaimsBooked'
  BY <1>2, <1>4, <1>5 DEF SumInv, WeightsFit, ClaimsBooked, claims, yield
<1>7. /\ \A i \in Investors : ~(refund_claimed[i] > 0)
      /\ state' # "Cancelled"
  BY <1>2 DEF SumInv, ClaimsInOrder
<1>8. ClaimsInOrder' /\ NobodyOverdrawn'
  BY <1>2, <1>7 DEF SumInv, ClaimsInOrder, NobodyOverdrawn, Entitlement, claims, yield
<1>9. ASSUME NEW r \in Rounds PROVE Tallied(r)'
  <2>1. CASE r = round
    <3>1. /\ SumOf(Backing(round, "ReturnCapital")', Investors) =
                 SumOf(Backing(round, "ReturnCapital"), Investors)
                    + (IF choice = "ReturnCapital" THEN w ELSE 0)
          /\ SumOf(Backing(round, "Extend")', Investors) =
                 SumOf(Backing(round, "Extend"), Investors)
                    + (IF choice = "Extend" THEN w ELSE 0)
      BY <1>2, <1>4, <1>5, OneMoreVoter DEF VaultVoteChoice
    <3>2. /\ votes[round].return_weight = SumOf(Backing(round, "ReturnCapital"), Investors)
          /\ votes[round].extend_weight = SumOf(Backing(round, "Extend"), Investors)
      BY <1>2 DEF SumInv, Tallied
    <3>3. choice = "ReturnCapital" \/ choice = "Extend"
      BY DEF VaultVoteChoice
    <3>4. votes'[round].return_weight + votes'[round].extend_weight <= total_weight'
      BY <1>1, <1>2, <1>3, <1>4, <1>5, <3>3
    <3> QED BY <1>4, <1>5, <2>1, <3>1, <3>2, <3>4 DEF Tallied
  <2>2. CASE r # round
    <3>1. votes'[r] = votes[r] /\ records'[r] = records[r]
      BY <1>1, <1>2, <1>5, <2>2
    <3>2. /\ Backing(r, "ReturnCapital")' = Backing(r, "ReturnCapital")
          /\ Backing(r, "Extend")' = Backing(r, "Extend")
      BY <3>1 DEF Backing
    <3> QED BY <1>2, <3>1, <3>2 DEF SumInv, Tallied
  <2> QED BY <2>1, <2>2
<1> QED BY <1>6, <1>8, <1>9 DEF SumInv

(* finalize_vault_vote: a return has the majority of the tallies.            *)
LEMMA FinalizeVaultVoteSums ==
    ASSUME IInv, SumInv, NEW round \in Rounds, FinalizeVaultVote(round)
    PROVE  SumInv'
<1>1. votes \in [Rounds -> VaultVote] /\ votes[round] \in VaultVote
  BY DEF IInv, TypeOK
<1>2. /\ votes[round].outcome = "Pending" /\ round = vote_round /\ vote_round > 0
      /\ state = "Frozen"
      /\ UNCHANGED <<total_weight, vote_round, total_amount, released, records, yield, claims>>
  BY DEF FinalizeVaultVote, schedule, progress, IInv, RoundsInOrder
<1>3. PICK decided :
        /\ votes' = [votes EXCEPT ![round] = decided]
        /\ decided.root = votes[round].root
        /\ decided.return_weight = votes[round].return_weight
        /\ decided.extend_weight = votes[round].extend_weight
        /\ decided.outcome = Outcome(votes[round])
  <2> DEFINE new == [votes[round] EXCEPT !.outcome = Outcome(votes[round])]
  <2>1. votes' = [votes EXCEPT ![round] = new]
    BY DEF FinalizeVaultVote
  <2>2. /\ new.root = votes[round].root /\ new.outcome = Outcome(votes[round])
        /\ new.return_weight = votes[round].return_weight
        /\ new.extend_weight = votes[round].extend_weight
    BY <1>1 DEF VaultVote
  <2> QED BY <2>1, <2>2
<1>4. votes'[round] = decided /\ \A r \in Rounds \ {round} : votes'[r] = votes[r]
  BY <1>1, <1>3
<1>5. /\ decided.outcome = "ReturnCapital" =>
             state' = "Cancelled" /\ decided.return_weight > decided.extend_weight
      /\ decided.outcome # "ReturnCapital" => state' = "Active"
      /\ decided.outcome # "NotOpened"
  BY <1>3 DEF FinalizeVaultVote, Outcome
<1>6. WeightsFit' /\ ClaimsBooked'
  BY <1>2, <1>3, <1>4 DEF SumInv, WeightsFit, ClaimsBooked, claims, yield
<1>7. \A i \in Investors : ~(refund_claimed[i] > 0)
  BY <1>2 DEF SumInv, ClaimsInOrder
<1>8. ClaimsInOrder' /\ NobodyOverdrawn'
  BY <1>2, <1>4, <1>5, <1>7
     DEF SumInv, ClaimsInOrder, NobodyOverdrawn, Entitlement, claims, yield
<1>9. ASSUME NEW r \in Rounds PROVE Tallied(r)'
  <2>1. votes'[r].root = votes[r].root
    BY <1>3, <1>4
  <2>2. /\ Backing(r, "ReturnCapital")' = Backing(r, "ReturnCapital")
        /\ Backing(r, "Extend")' = Backing(r, "Extend")
    BY <1>2, <2>1 DEF Backing
  <2> QED BY <1>2, <1>3, <1>4, <1>5, <2>2 DEF SumInv, Tallied
<1> QED BY <1>6, <1>8, <1>9 DEF SumInv

-----------------------------------------------------------------------------
(* A larger pot does not shrink anybody's entitlement.                       *)
LEMMA EntitlementGrows ==
    ASSUME NEW weight \in Nat, NEW pot \in Nat, NEW more \in Nat, pot <= more,
           total_weight \in Nat, total_weight > 0
    PROVE  Entitlement(weight, pot) <= Entitlement(weight, more)
  <1>1. weight * pot \in Nat /\ weight * more \in Nat /\ weight * pot <= weight * more
    OBVIOUS
  <1>2. ASSUME NEW m \in Nat, NEW n \in Nat, m <= n, NEW d \in Nat \ {0}
        PROVE  m \div d <= n \div d
    <2> DEFINE p == m \div d
               q == n \div d
    <2>1. p \in Nat /\ q \in Nat /\ p * d <= m /\ n < (q + 1) * d
      BY <1>2
    <2> HIDE DEF p, q
    <2>2. SUFFICES ASSUME q + 1 <= p PROVE FALSE
      BY <2>1 DEF p, q
    <2>3. (q + 1) * d <= p * d
      BY <2>1, <2>2
    <2> QED BY <1>2, <2>1, <2>3
  <1>3. (weight * pot) \div total_weight <= (weight * more) \div total_weight
    BY <1>1, <1>2
  <1> QED BY <1>3 DEF Entitlement

(* route_yield: the pool only grows, and its snapshot is the first.          *)
LEMMA RouteYieldSums ==
    ASSUME IInv, SumInv, NEW a \in YieldAmounts, NEW s \in Snapshots, RouteYield(a, s)
    PROVE  SumInv'
<1>1. /\ a \in Nat /\ a >= 3 /\ s.total \in Nat /\ s.total > 0
      /\ s.root \in Roots /\ s.root \in [Investors -> Nat]
      /\ SumOf(s.root, Investors) <= s.total
  BY ConstantsAssumption, SnapshotFits DEF RouteYield
<1>2. /\ total_weight' = s.total
      /\ investor_yield_root # NoRoot => total_weight = s.total
      /\ \A r \in Rounds : votes[r].outcome # "NotOpened" => total_weight = s.total
  BY <1>1, TotalWeightFixed DEF RouteYield
<1>3. /\ state = "Active"
      /\ UNCHANGED <<state, total_amount, released, ballot, claims>>
      /\ investor_yield_root' = s.root
      /\ investor_yield_root = NoRoot \/ investor_yield_root = s.root
  BY DEF RouteYield, IsRunning, FixesYieldRoot, schedule, progress
<1>4. investor_yield_pool \in Nat /\ investor_yield_pool' \in Nat /\ investor_yield_pool <= investor_yield_pool'
  <2>1. investor_yield_pool' = investor_yield_pool + (a - 2 * (a \div 3))
    BY DEF RouteYield, InvestorThird
  <2> QED BY <1>1, <2>1 DEF IInv, TypeOK
<1>5. WeightsFit' /\ ClaimsBooked' /\ ClaimsInOrder'
  <2>1. s.root # NoRoot
    BY <1>1, NoRootIsNoRoot
  <2> QED BY <1>1, <1>2, <1>3, <2>1
          DEF SumInv, WeightsFit, ClaimsBooked, ClaimsInOrder, claims, ballot
<1>6. NobodyOverdrawn'
  <2>1. \A i \in Investors : ~(refund_claimed[i] > 0) /\ refund_claimed' = refund_claimed
    BY <1>3 DEF SumInv, ClaimsInOrder, claims
  <2>2. ASSUME NEW i \in Investors, yield_claimed'[i] > 0
        PROVE  yield_claimed'[i] <= Entitlement(investor_yield_root[i], investor_yield_pool)'
    <3>1. yield_claimed' = yield_claimed /\ yield_claimed \in [Investors -> Nat]
      BY <1>3 DEF claims, IInv, TypeOK
    <3>2. investor_yield_root = s.root /\ total_weight' = total_weight /\ total_weight = s.total
      BY <1>2, <1>3, <2>2, <3>1 DEF SumInv, ClaimsInOrder
    <3>3. yield_claimed[i] <= Entitlement(s.root[i], investor_yield_pool)
      BY <2>2, <3>1, <3>2 DEF SumInv, NobodyOverdrawn
    <3>4. s.root[i] \in Nat
      BY <1>1
    <3>5. /\ Entitlement(s.root[i], investor_yield_pool) <= Entitlement(s.root[i], investor_yield_pool')
          /\ Entitlement(s.root[i], investor_yield_pool) \in Nat
          /\ Entitlement(s.root[i], investor_yield_pool') \in Nat
      BY <1>1, <1>4, <3>2, <3>4, EntitlementGrows, EntitlementIsNat
    <3>6. yield_claimed[i] <= Entitlement(s.root[i], investor_yield_pool')
      BY <3>1, <3>3, <3>5
    <3> QED BY <1>3, <3>1, <3>2, <3>6 DEF Entitlement
  <2> QED BY <2>1, <2>2 DEF NobodyOverdrawn
<1>7. ASSUME NEW r \in Rounds PROVE Tallied(r)'
  <2>1. /\ Backing(r, "ReturnCapital")' = Backing(r, "ReturnCapital")
        /\ Backing(r, "Extend")' = Backing(r, "Extend")
        /\ votes' = votes /\ records' = records
    BY <1>3 DEF Backing, ballot
  <2> QED BY <1>2, <2>1 DEF SumInv, Tallied
<1> QED BY <1>5, <1>6, <1>7 DEF SumInv

(* Until the last tranche there is principal left.                           *)
LEMMA PrincipalLeft ==
    ASSUME IInv
    PROVE  /\ total_amount - released \in Nat
           /\ state \in {"Active", "Frozen", "Cancelled"} => total_amount - released > 0
<1>1. CASE state \in {"Active", "Frozen", "Cancelled"}
  <2>1. /\ tranches_released \in Nat /\ num_tranches \in Nat /\ tranche_amount \in Nat
        /\ tranche_amount >= 1 /\ num_tranches * tranche_amount <= total_amount
        /\ tranches_released < num_tranches
        /\ released = tranches_released * tranche_amount
        /\ total_amount \in Nat /\ released \in Nat
    BY <1>1 DEF IInv, TypeOK, Sized, ScheduleKept
  <2>2. released < total_amount
    BY ONLY <2>1, TranchesFit
  <2> QED BY ONLY <2>1, <2>2
<1>2. CASE state \in {"Uninitialized", "Completed"}
  <2>1. total_amount \in Nat /\ released = total_amount
    BY <1>2 DEF IInv, TypeOK, Sized, ScheduleKept
  <2> QED BY <1>2, <2>1
<1> QED BY <1>1, <1>2 DEF IInv, TypeOK, States

(* claim_refund: the first claim of an investor takes the whole share, and   *)
(* there is no second.                                                       *)
LEMMA ClaimRefundSums ==
    ASSUME IInv, SumInv, NEW round \in Rounds, NEW investor \in Investors,
           ClaimRefund(round, investor)
    PROVE  /\ SumInv'
           /\ refund_claimed[investor] = 0
           /\ refund_claimed'[investor] > 0
           /\ refundsPaid' = refundsPaid + refund_claimed'[investor]
           /\ refund_claimed'[investor] =
                 Entitlement(votes[vote_round].root[investor], total_amount - released)
<1> PICK due : due = Entitlement(votes[round].root[investor], total_amount - released)
  OBVIOUS
<1>1. /\ state = "Cancelled" /\ round = vote_round
      /\ due - refund_claimed[investor] > 0
      /\ refund_claimed' = [refund_claimed EXCEPT ![investor] = due]
      /\ refundsPaid' = refundsPaid + (due - refund_claimed[investor])
      /\ UNCHANGED <<state, total_weight, total_amount, released, ballot, yield,
                     yield_claimed, yieldPaid>>
      /\ votes[round].outcome # "NotOpened"
  BY DEF ClaimRefund, Undrawn, Payable, schedule, progress
<1>2. /\ refund_claimed \in [Investors -> Nat] /\ refund_claimed[investor] \in Nat
      /\ total_weight \in Nat /\ total_weight > 0
      /\ votes[round].root \in Roots
  BY <1>1 DEF IInv, TypeOK, RoundsInOrder, Weighed, Rounds
<1>3. due \in Nat
  BY <1>2, RootsAreWeights, PrincipalLeft, EntitlementIsNat
<1>4. refund_claimed[investor] > 0 => refund_claimed[investor] = due
  BY <1>1 DEF SumInv, NobodyOverdrawn
<1>5. refund_claimed[investor] = 0 /\ due > 0
  BY <1>1, <1>2, <1>3, <1>4
<1>6. /\ refund_claimed'[investor] = due
      /\ \A i \in Investors \ {investor} : refund_claimed'[i] = refund_claimed[i]
  BY <1>1, <1>2
<1>7. ClaimsBooked'
  <2>1. PICK f \in [Investors -> Int], g \in [Investors -> Int] :
            f = refund_claimed /\ g = refund_claimed'
    <3>1. refund_claimed \in [Investors -> Int] /\ refund_claimed' \in [Investors -> Int]
      BY <1>1, <1>2, <1>3
    <3> QED BY <3>1
  <2>2. SumOf(g, Investors) = SumOf(f, Investors) - f[investor] + g[investor]
    BY <1>6, <2>1, FewInvestors, SumChange
  <2>3. refundsPaid = SumOf(f, Investors) /\ refundsPaid \in Int
    BY <2>1 DEF SumInv, ClaimsBooked, IInv, TypeOK
  <2>4. refundsPaid' = SumOf(g, Investors)
    BY <1>1, <1>3, <1>5, <1>6, <2>1, <2>2, <2>3
  <2> QED BY <1>1, <2>1, <2>4 DEF SumInv, ClaimsBooked
<1>8. WeightsFit' /\ ClaimsInOrder'
  BY <1>1 DEF SumInv, WeightsFit, ClaimsInOrder, ballot, yield
<1>9. NobodyOverdrawn'
  BY <1>1, <1>6 DEF SumInv, NobodyOverdrawn, Entitlement, ballot, yield
<1>10. ASSUME NEW r \in Rounds PROVE Tallied(r)'
  <2>1. /\ Backing(r, "ReturnCapital")' = Backing(r, "ReturnCapital")
        /\ Backing(r, "Extend")' = Backing(r, "Extend")
        /\ votes' = votes /\ records' = records
    BY <1>1 DEF Backing, ballot
  <2> QED BY <1>1, <2>1 DEF SumInv, Tallied
<1> QED BY <1>1, <1>3, <1>5, <1>6, <1>7, <1>8, <1>9, <1>10 DEF SumInv

(* claim_investor_yield: afterwards the whole entitlement of today is drawn. *)
LEMMA ClaimInvestorYieldSums ==
    ASSUME IInv, SumInv, NEW investor \in Investors, ClaimInvestorYield(investor)
    PROVE  SumInv'
<1> PICK due : due = Entitlement(investor_yield_root[investor], investor_yield_pool)
  OBVIOUS
<1>1. /\ investor_yield_root # NoRoot
      /\ due - yield_claimed[investor] > 0
      /\ yield_claimed' = [yield_claimed EXCEPT ![investor] = due]
      /\ yieldPaid' = yieldPaid + (due - yield_claimed[investor])
      /\ UNCHANGED <<state, total_weight, total_amount, released, ballot, yield,
                     refund_claimed, refundsPaid>>
  BY DEF ClaimInvestorYield, Undrawn, Payable, schedule, progress
<1>2. /\ yield_claimed \in [Investors -> Nat] /\ yield_claimed[investor] \in Nat
      /\ total_weight \in Nat /\ total_weight > 0 /\ investor_yield_pool \in Nat
      /\ investor_yield_root \in Roots
  BY <1>1 DEF IInv, TypeOK, Weighed
<1>3. due \in Nat
  BY <1>2, RootsAreWeights, EntitlementIsNat
<1>4. /\ yield_claimed'[investor] = due
      /\ \A i \in Investors \ {investor} : yield_claimed'[i] = yield_claimed[i]
  BY <1>1, <1>2
<1>5. ClaimsBooked'
  <2>1. PICK f \in [Investors -> Int], g \in [Investors -> Int] :
            f = yield_claimed /\ g = yield_claimed'
    <3>1. yield_claimed \in [Investors -> Int] /\ yield_claimed' \in [Investors -> Int]
      BY <1>1, <1>2, <1>3
    <3> QED BY <3>1
  <2>2. SumOf(g, Investors) = SumOf(f, Investors) - f[investor] + g[investor]
    BY <1>4, <2>1, FewInvestors, SumChange
  <2>3. yieldPaid = SumOf(f, Investors) /\ yieldPaid \in Int
    BY <2>1 DEF SumInv, ClaimsBooked, IInv, TypeOK
  <2>4. yieldPaid' = SumOf(g, Investors)
    BY <1>1, <1>2, <1>3, <1>4, <2>1, <2>2, <2>3
  <2> QED BY <1>1, <2>1, <2>4 DEF SumInv, ClaimsBooked
<1>6. WeightsFit' /\ ClaimsInOrder'
  BY <1>1 DEF SumInv, WeightsFit, ClaimsInOrder, ballot, yield
<1>7. NobodyOverdrawn'
  <2>1. due <= due
    BY <1>3
  <2> QED BY <1>1, <1>4, <2>1 DEF SumInv, NobodyOverdrawn, Entitlement, ballot, yield
<1>8. ASSUME NEW r \in Rounds PROVE Tallied(r)'
  <2>1. /\ Backing(r, "ReturnCapital")' = Backing(r, "ReturnCapital")
        /\ Backing(r, "Extend")' = Backing(r, "Extend")
        /\ votes' = votes /\ records' = records
    BY <1>1 DEF Backing, ballot
  <2> QED BY <1>1, <2>1 DEF SumInv, Tallied
<1> QED BY <1>5, <1>6, <1>7, <1>8 DEF SumInv

-----------------------------------------------------------------------------
(* Every step keeps the sums.                                                *)
LEMMA NextSums == IInv /\ SumInv /\ [Next]_vars => SumInv'
<1> SUFFICES ASSUME IInv, SumInv, [Next]_vars PROVE SumInv'
  OBVIOUS
<1>1. CASE Aside
  BY <1>1, AsideStep
<1>2. CASE Voting
  BY <1>2, OpenVaultVoteSums, CastVaultVoteSums, FinalizeVaultVoteSums DEF Voting
<1>3. CASE \E r \in Rounds, i \in Investors : ClaimRefund(r, i)
  BY <1>3, ClaimRefundSums
<1>4. CASE \E a \in YieldAmounts, s \in Snapshots : RouteYield(a, s)
  BY <1>4, RouteYieldSums
<1>5. CASE \E i \in Investors : ClaimInvestorYield(i)
  BY <1>5, ClaimInvestorYieldSums
<1> QED BY <1>1, <1>2, <1>3, <1>4, <1>5, MostStepsAside

(* They hold of every behaviour of the vault.                                *)
THEOREM SumsInvariance == Spec => []SumInv
<1>1. Init => SumInv
  BY InitSums
<1>2. IInv /\ SumInv /\ [Next]_vars => SumInv'
  BY NextSums
<1> QED BY <1>1, <1>2, Invariance, PTL DEF Spec

(* A vote's tallies are the snapshot weights of exactly those who voted.     *)
THEOREM TalliesSafe == Spec => []TalliesMatchRecords
<1>1. SumInv => TalliesMatchRecords
  BY SumOverIsSumOf DEF SumInv, Tallied, Backing, TalliesMatchRecords
<1> QED BY <1>1, SumsInvariance, PTL

-----------------------------------------------------------------------------
(* Entitlements to a pot fit the pot.                                        *)
LEMMA EntitlementsFit ==
    ASSUME NEW root \in [Investors -> Nat], NEW pot \in Nat, total_weight \in Nat,
           total_weight > 0, SumOf(root, Investors) <= total_weight
    PROVE  LET e == [i \in Investors |-> Entitlement(root[i], pot)]
           IN  e \in [Investors -> Nat] /\ SumOf(e, Investors) \in Nat
               /\ SumOf(e, Investors) <= pot
  <1> PICK total \in Nat \ {0} : total = total_weight
    OBVIOUS
  <1>1. [i \in Investors |-> Entitlement(root[i], pot)]
            = [i \in Investors |-> (root[i] * pot) \div total]
    BY DEF Entitlement
  <1> DEFINE e == [i \in Investors |-> (root[i] * pot) \div total]
  <1>2. e \in [Investors -> Nat] /\ SumOf(e, Investors) \in Nat /\ SumOf(e, Investors) <= pot
    BY FewInvestors, SharesFit
  <1> QED BY <1>1, <1>2

(* What is still due from a pot fits what the claims have left of it.        *)
LEMMA DueFits ==
    ASSUME NEW root \in [Investors -> Nat], NEW pot \in Nat, total_weight \in Nat,
           total_weight > 0, SumOf(root, Investors) <= total_weight,
           NEW claimed \in [Investors -> Nat]
    PROVE  LET due == [i \in Investors |-> Undrawn(Entitlement(root[i], pot), claimed[i])]
           IN  /\ SumOf(due, Investors) \in Int
               /\ SumOf(due, Investors) <= pot - SumOf(claimed, Investors)
  <1> DEFINE due == [i \in Investors |-> Undrawn(Entitlement(root[i], pot), claimed[i])]
             e == [i \in Investors |-> Entitlement(root[i], pot)]
  <1>1. e \in [Investors -> Nat] /\ SumOf(e, Investors) \in Nat /\ SumOf(e, Investors) <= pot
    BY EntitlementsFit
  <1>2. \A i \in Investors : e[i] = Entitlement(root[i], pot) /\ e[i] \in Nat
    BY <1>1
  <1>3. \A i \in Investors : due[i] = e[i] - claimed[i] /\ due[i] \in Int
    BY <1>2 DEF Undrawn
  <1>4. due \in [Investors -> Int]
    BY <1>3
  <1> HIDE DEF due, e
  <1>5. PICK f \in [Investors -> Int], g \in [Investors -> Int], h \in [Investors -> Int] :
            f = e /\ g = claimed /\ h = due
    BY <1>1, <1>4
  <1>6. SumOf(h, Investors) = SumOf(f, Investors) - SumOf(g, Investors)
    BY <1>3, <1>5, FewInvestors, SumOfDifferences
  <1>7. SumOf(g, Investors) \in Int
    BY FewInvestors, SumType
  <1>8. /\ SumOf(due, Investors) \in Int
        /\ SumOf(due, Investors) <= pot - SumOf(claimed, Investors)
    BY <1>1, <1>5, <1>6, <1>7
  <1> QED BY <1>8 DEF due

(* The escrow covers every promise at once: the pots do not overlap          *)
(* (LedgerBalances), the shares of each fit it because they are rounded      *)
(* down, and what the claims have drawn is booked.                           *)
THEOREM PromisesSafe == Spec => []PromisesCovered
<1>1. ASSUME IInv, SumInv
      PROVE  PromisesCovered
  <2> DEFINE left == total_amount - released
             refundsDue == SumOver([i \in Investors |->
                 Undrawn(Entitlement(votes[vote_round].root[i], left), refund_claimed[i])])
             yieldDue == IF investor_yield_root = NoRoot THEN 0
                         ELSE SumOver([i \in Investors |->
                 Undrawn(Entitlement(investor_yield_root[i], investor_yield_pool),
                         yield_claimed[i])])
             principalDue == IF state = "Cancelled" THEN refundsDue ELSE left
  <2>1. /\ left \in Nat /\ total_weight \in Nat /\ investor_yield_pool \in Nat
        /\ founder_yield_claimable \in Nat /\ escrow \in Nat
        /\ refundsPaid \in Nat /\ yieldPaid \in Nat
        /\ refund_claimed \in [Investors -> Nat] /\ yield_claimed \in [Investors -> Nat]
        /\ refund_claimed \in [Investors -> Int] /\ yield_claimed \in [Investors -> Int]
    BY <1>1, PrincipalLeft DEF IInv, TypeOK
  <2>2. refundsPaid = SumOf(refund_claimed, Investors) /\ yieldPaid = SumOf(yield_claimed, Investors)
    BY <1>1 DEF SumInv, ClaimsBooked
  <2>3. principalDue \in Int /\ principalDue <= left - refundsPaid
    <3>1. CASE state = "Cancelled"
      <4>1. /\ votes[vote_round].root \in [Investors -> Nat]
            /\ total_weight > 0
            /\ SumOf(votes[vote_round].root, Investors) <= total_weight
        <5>1. /\ vote_round \in Rounds /\ votes[vote_round].outcome = "ReturnCapital"
              /\ vote_round > 0
          BY <1>1, <3>1 DEF SumInv, ClaimsInOrder, IInv, TypeOK, Rounds
        <5>2. votes[vote_round].root \in Roots
          BY <1>1, <5>1 DEF IInv, RoundsInOrder
        <5> QED BY <1>1, <5>1, <5>2, RootsAreWeights, ConstantsAssumption
                DEF SumInv, WeightsFit, IInv, Weighed, Roots
      <4>2. refundsDue \in Int /\ refundsDue <= left - SumOf(refund_claimed, Investors)
        <5> HIDE DEF left
        <5> QED BY <2>1, <4>1, DueFits, SumOverIsSumOf
      <4> QED BY <2>2, <3>1, <4>2
    <3>2. CASE state # "Cancelled"
      <4>1. \A i \in Investors : refund_claimed[i] = 0
        BY <1>1, <2>1, <3>2 DEF SumInv, ClaimsInOrder
      <4>2. refundsPaid = 0
        BY <2>1, <2>2, <4>1, SumOfZeros
      <4> QED BY <2>1, <3>2, <4>2
    <3> QED BY <3>1, <3>2
  <2>4. yieldDue \in Int /\ yieldDue <= investor_yield_pool - yieldPaid
    <3>1. CASE investor_yield_root # NoRoot
      <4>1. /\ investor_yield_root \in [Investors -> Nat] /\ total_weight > 0
            /\ SumOf(investor_yield_root, Investors) <= total_weight
        BY <1>1, <3>1, ConstantsAssumption
           DEF SumInv, WeightsFit, IInv, TypeOK, Weighed, Roots
      <4>2. /\ yieldDue \in Int
            /\ yieldDue <= investor_yield_pool - SumOf(yield_claimed, Investors)
        BY <2>1, <3>1, <4>1, DueFits, SumOverIsSumOf
      <4> QED BY <2>2, <4>2
    <3>2. CASE investor_yield_root = NoRoot
      <4>1. \A i \in Investors : yield_claimed[i] = 0
        BY <1>1, <2>1, <3>2 DEF SumInv, ClaimsInOrder
      <4>2. yieldPaid = 0
        BY <2>1, <2>2, <4>1, SumOfZeros
      <4> QED BY <2>1, <3>2, <4>2
    <3> QED BY <3>1, <3>2
  <2>5. escrow = left - refundsPaid + founder_yield_claimable
                 + (investor_yield_pool - yieldPaid)
    BY <1>1 DEF IInv, LedgerBalances
  <2>6. NobodyOverdrawn
    BY <1>1 DEF SumInv
  <2> HIDE DEF principalDue, yieldDue, left
  <2>7. escrow >= principalDue + yieldDue + founder_yield_claimable
    BY <2>1, <2>3, <2>4, <2>5
  <2> QED BY <2>6, <2>7 DEF PromisesCovered, principalDue, yieldDue, left, refundsDue
<1> QED BY <1>1, Invariance, SumsInvariance, PTL

-----------------------------------------------------------------------------
(* The refinement mapping of MCPayoutVault, by name.                         *)
Mode == CASE state = "Uninitialized" -> "none"
          [] state \in {"Active", "Frozen"} -> "streaming"
          [] state = "Cancelled" -> "returning"
          [] state = "Completed" -> "done"
Share == [i \in Investors |->
            IF state = "Cancelled"
            THEN Entitlement(votes[vote_round].root[i], total_amount - released)
            ELSE 0]
Refunded == {i \in Investors : refund_claimed[i] > 0}

(* The mode of the promise by the state of the vault.                        *)
LEMMA ModeByState ==
    /\ state = "Uninitialized" => Mode = "none"
    /\ state \in {"Active", "Frozen"} => Mode = "streaming"
    /\ state = "Cancelled" => Mode = "returning"
    /\ state = "Completed" => Mode = "done"
  BY DEF Mode

(* A new vault has promised nothing.                                         *)
LEMMA InitPromise == Init => Promise!Init
<1> SUFFICES ASSUME Init PROVE Promise!Init
  OBVIOUS
<1>1. Mode = "none" /\ Share = [i \in Investors |-> 0] /\ Refunded = {}
  BY ModeByState DEF Init, Share, Refunded
<1>2. total_amount = 0 /\ released = 0 /\ refundsPaid = 0
  BY DEF Init
<1> QED BY <1>1, <1>2, Zenon DEF Promise!Init, Promise!NoShare, Mode, Share, Refunded

(* A step that leaves the principal and its claims alone leaves the promise  *)
(* alone.                                                                    *)
LEMMA PromiseStands ==
    ASSUME IInv, Mode' = Mode,
           UNCHANGED <<total_amount, released, refund_claimed, refundsPaid>>,
           state' = "Cancelled" <=> state = "Cancelled",
           state = "Cancelled" => UNCHANGED <<total_weight, votes, vote_round>>
    PROVE  UNCHANGED Promise!promiseVars
<1>1. Share' = Share
  <2>1. CASE state = "Cancelled"
    BY <2>1 DEF Share, Entitlement
  <2>2. CASE state # "Cancelled"
    BY <2>2 DEF Share
  <2> QED BY <2>1, <2>2
<1>2. Refunded' = Refunded
  BY DEF Refunded
<1> QED BY <1>1, <1>2, Zenon DEF Promise!promiseVars, Mode, Share, Refunded

(* open_payout_vault is the raise.                                           *)
LEMMA OpenPayoutVaultPromises ==
    ASSUME IInv, NEW swept \in Raises, NEW term \in Terms, OpenPayoutVault(swept, term)
    PROVE  Promise!Raise(swept)
<1>1. /\ Mode = "none" /\ Mode' = "streaming" /\ swept > 0 /\ total_amount' = swept
      /\ released' = released /\ refundsPaid' = refundsPaid
      /\ refund_claimed' = refund_claimed
  <2>1. state = "Uninitialized" /\ state' = "Active"
    BY DEF OpenPayoutVault
  <2>2. Mode' = "streaming"
    BY <2>1 DEF Mode
  <2> QED BY <2>1, <2>2, ModeByState DEF OpenPayoutVault, progress, claims
<1>2. Share' = Share
  BY DEF OpenPayoutVault, Share
<1>3. Refunded' = Refunded
  BY <1>1 DEF Refunded
<1> QED BY <1>1, <1>2, <1>3, Zenon DEF Promise!Raise, Mode, Share, Refunded

(* release_payout pays the founder, the last tranche all that is left.       *)
LEMMA ReleasePayoutPromises ==
    ASSUME IInv, ReleasePayout
    PROVE  TrancheDue \in 1..(total_amount - released) /\ Promise!PayFounder(TrancheDue)
<1>1. /\ tranches_released \in Nat /\ num_tranches \in Nat
      /\ tranche_amount \in Nat /\ tranche_amount >= 1 /\ total_amount \in Nat
      /\ num_tranches * tranche_amount <= total_amount
      /\ tranches_released < num_tranches
      /\ released = tranches_released * tranche_amount /\ released \in Nat
      /\ state = "Active" /\ TrancheDue > 0
  BY DEF IInv, TypeOK, Sized, ScheduleKept, ReleasePayout, IsRunning
<1>2. /\ released < total_amount
      /\ tranches_released + 1 < num_tranches => released + tranche_amount < total_amount
  BY ONLY <1>1, TranchesFit
<1>3. /\ TrancheDue \in 1..(total_amount - released)
      /\ TrancheDue = total_amount - released <=> tranches_released + 1 = num_tranches
  BY <1>1, <1>2 DEF TrancheDue
<1>4. /\ released' = released + TrancheDue
      /\ state' = IF tranches_released + 1 = num_tranches THEN "Completed" ELSE "Active"
      /\ UNCHANGED <<total_amount, refund_claimed, refundsPaid>>
  BY <1>1 DEF ReleasePayout, schedule, claims
<1>5. /\ Mode = "streaming"
      /\ Mode' = IF TrancheDue = total_amount - released THEN "done" ELSE "streaming"
  <2>1. Mode = "streaming"
    BY <1>1, ModeByState
  <2>2. CASE state' = "Completed"
    BY <1>3, <1>4, <2>1, <2>2 DEF Mode
  <2>3. CASE state' = "Active"
    BY <1>3, <1>4, <2>1, <2>3 DEF Mode
  <2> QED BY <1>4, <2>2, <2>3
<1>6. Share' = Share
  BY <1>1, <1>4 DEF Share
<1>7. Refunded' = Refunded
  BY <1>4 DEF Refunded
<1>8. Promise!PayFounder(TrancheDue)
  BY <1>3, <1>4, <1>5, <1>6, <1>7, Zenon
     DEF Promise!PayFounder, Promise!Left, Mode, Share, Refunded
<1> QED BY <1>3, <1>8

(* finalize_vault_vote either returns the principal, whose shares are then   *)
(* entitlements to all that is left, or leaves it alone.                     *)
LEMMA FinalizeVaultVotePromises ==
    ASSUME IInv, SumInv, NEW round \in Rounds, FinalizeVaultVote(round)
    PROVE  Promise!Return \/ UNCHANGED Promise!promiseVars
<1>1. /\ state = "Frozen" /\ state' \in {"Active", "Cancelled"} /\ round = vote_round
      /\ UNCHANGED <<total_amount, released, refund_claimed, refundsPaid,
                     total_weight, vote_round>>
  BY DEF FinalizeVaultVote, schedule, progress, claims
<1>2. Mode = "streaming"
  BY <1>1, ModeByState
<1>3. CASE state' = "Active"
  <2>1. Mode' = "streaming"
    BY <1>3 DEF Mode
  <2> QED BY <1>1, <1>2, <1>3, <2>1, PromiseStands
<1>4. CASE state' = "Cancelled"
  <2>1. PICK left \in Nat : left = total_amount - released /\ left > 0
    BY <1>1, PrincipalLeft
  <2>2. PICK root \in [Investors -> Nat] :
          /\ root = votes[round].root /\ SumOf(root, Investors) <= total_weight
    <3>1. votes[round].outcome = "Pending"
      BY DEF FinalizeVaultVote
    <3>2. votes[round].root \in [Investors -> Nat]
      BY <3>1, ConstantsAssumption DEF IInv, RoundsInOrder, Roots
    <3> QED BY <3>1, <3>2 DEF SumInv, WeightsFit
  <2>3. votes'[vote_round'].root = root
    <3>1. votes \in [Rounds -> VaultVote] /\ votes[round] \in VaultVote
      BY DEF IInv, TypeOK
    <3>2. votes'[round] = [votes[round] EXCEPT !.outcome = Outcome(votes[round])]
      BY <3>1 DEF FinalizeVaultVote
    <3>3. votes'[round].root = votes[round].root
      BY <3>1, <3>2 DEF VaultVote
    <3> QED BY <1>1, <2>2, <3>3
  <2> DEFINE e == [i \in Investors |-> Entitlement(root[i], left)]
  <2>4. Share' = e
    BY <1>1, <1>4, <2>1, <2>3 DEF Share, Entitlement
  <2>5. total_weight \in Nat /\ total_weight > 0
    BY <1>1 DEF IInv, TypeOK, Weighed, RoundsInOrder, FinalizeVaultVote
  <2>6. e \in [Investors -> Nat] /\ SumOf(e, Investors) <= left
    BY <2>2, <2>5, EntitlementsFit
  <2>7. e \in [Investors -> 0..left]
    <3> HIDE DEF e
    <3>1. PICK f \in [Investors -> Nat] : f = e
      BY <2>6
    <3>2. SumOf(f, Investors) \in Nat
      <4>1. f \in [Investors -> Int]
        OBVIOUS
      <4> QED BY <4>1, FewInvestors, SumType
    <3>3. \A i \in Investors : f[i] <= left
      <4>1. \A i \in Investors : f[i] <= SumOf(f, Investors)
        BY FewInvestors, TermWithinSum
      <4> QED BY <2>6, <3>1, <3>2, <4>1
    <3> QED BY <3>1, <3>3
  <2>8. Mode' = "returning" /\ Refunded' = Refunded
    BY <1>1, <1>4 DEF Mode, Refunded
  <2> HIDE DEF e
  <2>9. /\ Mode = "streaming" /\ total_amount - released > 0 /\ Mode' = "returning"
        /\ Share' \in [Investors -> 0..(total_amount - released)]
        /\ SumOf(Share', Investors) <= total_amount - released
        /\ UNCHANGED <<total_amount, released, Refunded, refundsPaid>>
    BY <1>1, <1>2, <2>1, <2>4, <2>6, <2>7, <2>8
  <2>10. Promise!Return
    BY <2>9, Zenon DEF Promise!Return, Promise!Left, Promise!MapThenSumSet,
       Promise!MapThenFoldSet, SumOf, MapThenSumSet, MapThenFoldSet, Mode, Share, Refunded
  <2> QED BY <2>10
<1> QED BY <1>1, <1>3, <1>4

(* claim_refund pays the share of one investor, the first time only.         *)
LEMMA ClaimRefundPromises ==
    ASSUME IInv, SumInv, NEW round \in Rounds, NEW investor \in Investors,
           ClaimRefund(round, investor)
    PROVE  Promise!Refund(investor)
<1>1. /\ state = "Cancelled" /\ state' = "Cancelled"
      /\ UNCHANGED <<total_amount, released, total_weight, votes, vote_round>>
      /\ \A i \in Investors \ {investor} : refund_claimed'[i] = refund_claimed[i]
  BY DEF ClaimRefund, schedule, progress, ballot, IInv, TypeOK
<1>2. /\ refund_claimed[investor] = 0 /\ refund_claimed'[investor] > 0
      /\ refundsPaid' = refundsPaid + refund_claimed'[investor]
      /\ refund_claimed'[investor] =
            Entitlement(votes[vote_round].root[investor], total_amount - released)
  BY ClaimRefundSums
<1>3. Mode = "returning" /\ Mode' = "returning" /\ Mode' = Mode
  BY <1>1, ModeByState DEF Mode
<1>4. Share' = Share
  BY <1>1 DEF Share, Entitlement
<1>5. Share[investor] > 0 /\ refundsPaid' = refundsPaid + Share[investor]
  BY <1>1, <1>2 DEF Share
<1>6. investor \notin Refunded /\ Refunded' = Refunded \cup {investor}
  BY <1>1, <1>2 DEF Refunded
<1> QED BY <1>1, <1>3, <1>4, <1>5, <1>6, Zenon DEF Promise!Refund, Mode, Share, Refunded

(* Every other step leaves the principal alone.                              *)
LEMMA OtherStepsPromiseNothing ==
    ASSUME IInv, SumInv,
           \/ Tick \/ SetBrakes \/ PostUpdate \/ FreezeVault \/ ClaimFounderYield
           \/ UNCHANGED vars
           \/ \E s \in Snapshots, p \in VotingPeriods : OpenVaultVote(s, p)
           \/ \E r \in Rounds, i \in Investors, c \in VaultVoteChoice : CastVaultVote(r, i, c)
           \/ \E a \in YieldAmounts, s \in Snapshots : RouteYield(a, s)
           \/ \E i \in Investors : ClaimInvestorYield(i)
    PROVE  UNCHANGED Promise!promiseVars
<1> DEFINE Stands ==
      /\ UNCHANGED <<total_amount, released, refund_claimed, refundsPaid>>
      /\ \/ state' = state
         \/ state = "Active" /\ state' = "Frozen"
      /\ state = "Cancelled" => UNCHANGED <<total_weight, votes, vote_round>>
<1>1. Stands
  <2> USE DEF schedule, progress, ballot, claims
  <2>1. CASE Tick \/ SetBrakes \/ ClaimFounderYield \/ UNCHANGED vars
    BY <2>1 DEF Tick, SetBrakes, ClaimFounderYield, vars
  <2>2. CASE PostUpdate \/ FreezeVault
    BY <2>2 DEF PostUpdate, FreezeVault, IsRunning
  <2>3. ASSUME NEW s \in Snapshots, NEW p \in VotingPeriods, OpenVaultVote(s, p)
        PROVE  Stands
    BY <2>3 DEF OpenVaultVote
  <2>4. ASSUME NEW r \in Rounds, NEW i \in Investors, NEW c \in VaultVoteChoice,
               CastVaultVote(r, i, c)
        PROVE  Stands
    BY <2>4 DEF CastVaultVote
  <2>5. ASSUME NEW a \in YieldAmounts, NEW s \in Snapshots, RouteYield(a, s)
        PROVE  Stands
    BY <2>5 DEF RouteYield, IsRunning
  <2>6. ASSUME NEW i \in Investors, ClaimInvestorYield(i)
        PROVE  Stands
    BY <2>6 DEF ClaimInvestorYield
  <2> HIDE DEF Stands
  <2> QED BY <2>1, <2>2, <2>3, <2>4, <2>5, <2>6
<1>2. Mode' = Mode
  <2>1. CASE state' = state
    BY <2>1 DEF Mode
  <2>2. CASE state = "Active" /\ state' = "Frozen"
    <3>1. Mode = "streaming"
      BY <2>2, ModeByState
    <3>2. Mode' = "streaming"
      BY <2>2 DEF Mode
    <3> QED BY <3>1, <3>2
  <2> QED BY <1>1, <2>1, <2>2
<1> QED BY <1>1, <1>2, PromiseStands

(* The vault implements the promise of the raise.                            *)
THEOREM PromiseKept == Spec => KeepsPromise
<1>1. Init => Promise!Init
  BY InitPromise
<1>2. ASSUME IInv, SumInv, [Next]_vars
      PROVE  [Promise!Next]_(Promise!promiseVars)
  <2>1. ASSUME NEW swept \in Raises, NEW term \in Terms, OpenPayoutVault(swept, term)
        PROVE  Promise!Next
    BY <1>2, <2>1, OpenPayoutVaultPromises DEF Promise!Next
  <2>2. CASE ReleasePayout
    BY <1>2, <2>2, ReleasePayoutPromises DEF Promise!Next, Promise!Left
  <2>3. ASSUME NEW r \in Rounds, FinalizeVaultVote(r)
        PROVE  Promise!Next \/ UNCHANGED Promise!promiseVars
    BY <1>2, <2>3, FinalizeVaultVotePromises DEF Promise!Next
  <2>4. ASSUME NEW r \in Rounds, NEW i \in Investors, ClaimRefund(r, i)
        PROVE  Promise!Next
    BY <1>2, <2>4, ClaimRefundPromises DEF Promise!Next
  <2> QED BY <1>2, <2>1, <2>2, <2>3, <2>4, OtherStepsPromiseNothing DEF Next
<1> QED BY <1>1, <1>2, Invariance, SumsInvariance, PTL DEF Spec, KeepsPromise, Promise!Spec
=============================================================================
