---------------------------- MODULE MCPayoutVault ----------------------------
(***************************************************************************)
(* A small instance of PayoutVault for TLC, the properties that need sums  *)
(* over the investors, and the refinement of PayoutPromise.                *)
(***************************************************************************)
EXTENDS PayoutVault, FiniteSetsExt

CONSTANTS i1, i2

W(a, b) == [i \in Investors |-> IF i = i1 THEN a ELSE b]
SumOver(f) == MapThenSumSet(LAMBDA i : f[i], Investors)

\* Two honest snapshots of the same supply (units changed hands in between),
\* and one whose total the vault refuses after the other two.
MCSnapshots == {[root |-> W(2, 1), total |-> 3],
                [root |-> W(1, 2), total |-> 3],
                [root |-> W(1, 1), total |-> 2]}
MCTerms == {[cliff |-> 0, vesting |-> 2], [cliff |-> 1, vesting |-> 2],
            [cliff |-> 1, vesting |-> 1], [cliff |-> 1, vesting |-> 3]}
MCBrakeSets == {{}, BrakeNames}

(* Two scenarios, told apart by the raise.                                   *)
(*   Principal: short schedules, two vote rounds, no yield.                  *)
(*   Yield: a raise that no tranche and no snapshot divides evenly, one vote *)
(*     round, and yield routed before, after or without the vote.            *)
YieldRaise == 7
PrincipalScenario ==
    /\ investor_yield_pool' = 0
    /\ state = "Uninitialized" /\ state' = "Active" =>
          num_tranches' = 1 \/ start_ts' = now
YieldScenario ==
    /\ now' <= 8 /\ vote_round' <= 1
    /\ state = "Uninitialized" => num_tranches' = 2 /\ start_ts' = now + MONTH
Scenario == IF total_amount' = YieldRaise THEN YieldScenario ELSE PrincipalScenario

(* Front end: payout-snapshots.ts builds total as the sum of the weights.    *)
ASSUME SnapshotsHonest == \A s \in Snapshots : SumOver(s.root) <= s.total

-----------------------------------------------------------------------------
(* Everything still promised out of the escrow can be paid from it at once:  *)
(* the rest of the principal to whoever it goes to, every refund and every   *)
(* yield entitlement not drawn, and the founder's yield, all from one        *)
(* account; and nobody has drawn more than it is entitled to.                *)
PromisesCovered ==
    LET Owed(i, pot, root, claimed) == Undrawn(Entitlement(root[i], pot), claimed[i])
        refundsDue == SumOver([i \in Investors |->
            Owed(i, total_amount - released, votes[vote_round].root, refund_claimed)])
        yieldDue == IF investor_yield_root = NoRoot THEN 0
                    ELSE SumOver([i \in Investors |->
            Owed(i, investor_yield_pool, investor_yield_root, yield_claimed)])
        principalDue == IF state = "Cancelled" THEN refundsDue
                        ELSE total_amount - released
    IN /\ escrow >= principalDue + yieldDue + founder_yield_claimable
       /\ NobodyOverdrawn

(* A vote's two tallies are the snapshot weights of exactly the voters with  *)
(* a record in that round, and a return is backed by more weight than cast   *)
(* for extending it.                                                         *)
TalliesMatchRecords ==
    \A r \in Rounds : votes[r].outcome # "NotOpened" =>
      LET weightFor(choice) ==
            SumOver([i \in Investors |->
                IF records[r][i] = choice THEN votes[r].root[i] ELSE 0])
      IN /\ votes[r].return_weight = weightFor("ReturnCapital")
         /\ votes[r].extend_weight = weightFor("Extend")
         /\ votes[r].return_weight + votes[r].extend_weight <= total_weight
         /\ votes[r].outcome = "ReturnCapital" =>
                weightFor("ReturnCapital") > weightFor("Extend")

(* A vault implements the promise of the raise.                              *)
Promise == INSTANCE PayoutPromise WITH
    mode <- CASE state = "Uninitialized" -> "none"
              [] state \in {"Active", "Frozen"} -> "streaming"
              [] state = "Cancelled" -> "returning"
              [] state = "Completed" -> "done",
    pot <- total_amount,
    toFounder <- released,
    share <- [i \in Investors |->
                IF state = "Cancelled"
                THEN Entitlement(votes[vote_round].root[i], total_amount - released)
                ELSE 0],
    refunded <- {i \in Investors : refund_claimed[i] > 0},
    returned <- refundsPaid

(* Every step of the vault is a step of PayoutPromise, or leaves the         *)
(* principal alone.                                                          *)
KeepsPromise == Promise!Spec
=============================================================================
