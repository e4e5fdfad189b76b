-------------------------- MODULE MCPayoutVaultLive --------------------------
(***************************************************************************)
(* The scenarios of MCPayoutVault, with a third for liveness.  A clock     *)
(* that stops would excuse everything that is due later, so in the Endless *)
(* scenario time goes on for ever in a sliding frame: when `now' has       *)
(* reached EndlessTime, a tick moves start_ts and the end of the pending   *)
(* vote back by one instead.  Only differences from `now' occur in the     *)
(* code, so this is the same behaviour.  Two differences would grow for    *)
(* ever and are folded: a vote's end that has passed stays passed, and a   *)
(* schedule so late that every update still to be posted is past the       *)
(* freeze threshold loses whole months, which neither changes a guard nor, *)
(* by the exact shift of Extend, the schedule after an Extend.             *)
(***************************************************************************)
EXTENDS MCPayoutVault

EndlessRaise == 4
EndlessTime == 2
Endless == total_amount = EndlessRaise

EndlessBounds ==
    /\ now' <= EndlessTime
    /\ \A r \in Rounds : votes'[r].root \in {NoRoot, W(2, 1)}

LongOverdue == (num_tranches + MISSED_FREEZE_THRESHOLD) * MONTH

SlideFrame ==
    /\ Endless /\ now = EndlessTime
    /\ start_ts' = IF now - oldest_due_ts + 1 >= LongOverdue
                   THEN start_ts - 1 + MONTH ELSE start_ts - 1
    /\ votes' = [r \in Rounds |->
                    [votes[r] EXCEPT !.end_ts = IF @ > 0 THEN @ - 1 ELSE @]]
    /\ UNCHANGED <<now, brakes, state, total_weight, schedule, progress,
                   vote_round, vote_pending, records, yield, claims, escrow>>

Time == Tick \/ SlideFrame

LiveNext ==
    /\ Next \/ SlideFrame
    /\ Scenario
    /\ Endless' => EndlessBounds

(* Time goes on for ever, which it can only do in the Endless scenario.  The *)
(* cranks anybody may call are called by whoever gains: release_payout by    *)
(* the founder, freeze_vault and finalize_vault_vote by investors,           *)
(* claim_refund by each investor.  release_payout may be held off by the     *)
(* brakes again and again, hence SF.  Nothing is assumed of the founder's    *)
(* updates, of the Admin, of voters, or of the brakes.                       *)
Fairness ==
    /\ []<><<Time>>_vars
    /\ SF_vars(ReleasePayout)
    /\ WF_vars(FreezeVault)
    /\ \A r \in Rounds : WF_vars(FinalizeVaultVote(r))
    /\ \A r \in Rounds, i \in Investors : WF_vars(ClaimRefund(r, i))

LiveSpec == Init /\ [][LiveNext]_vars /\ Fairness

-----------------------------------------------------------------------------
(* A vault never stays Active for ever: the founder posts and is paid out,   *)
(* or falls behind and is frozen, provided the brakes are released again and *)
(* again (release_payout is behind three of them).                           *)
ActiveEnds ==
    []<>(brakes = {}) =>
        (state = "Active") ~> (state \in {"Completed", "Frozen"})

(* A tranche the founder has posted an update for is paid, or the vault is   *)
(* frozen first: nothing else can take it back.                              *)
EarnedTrancheIsPaid ==
    []<>(brakes = {}) =>
        \A n \in 1..2 :
            (state = "Active" /\ updates_posted = n)
                ~> (tranches_released >= n \/ state = "Frozen")

(* A vote that is opened gets decided, and a cancelled vault pays every      *)
(* investor of the deciding snapshot in full, even with every pause, freeze  *)
(* and block entry on for ever: both ways are permissionless and past every  *)
(* gate.                                                                     *)
RefundsGetPaid ==
    /\ vote_pending ~> ~vote_pending
    /\ (state = "Cancelled") ~>
        state = "Cancelled" /\ \A i \in Investors :
            refund_claimed[i] = Entitlement(votes[vote_round].root[i],
                                            total_amount - released)
=============================================================================
