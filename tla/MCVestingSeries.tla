--------------------------- MODULE MCVestingSeries ---------------------------
(***************************************************************************)
(* A small instance of VestingSeries for TLC: three units for at most two  *)
(* recipients over two tranches, a client and a recipient.                 *)
(***************************************************************************)
EXTENDS VestingSeries

CONSTANTS client, holder

Schedule(first, second) ==
    <<[unlock_ts |-> 1, amount |-> first], [unlock_ts |-> 2, amount |-> second]>>

(* A claimed, automatic series; a pushed one that waits for approvals.       *)
MCSeriesTerms ==
    {[tranches |-> Schedule(2, 1), timing_mode |-> "Auto", delivery_mode |-> "Claim",
      approval_window_secs |-> 0, pre_cliff_bps |-> 5000,
      recovery_enabled |-> FALSE, cancellation_enabled |-> TRUE],
     [tranches |-> Schedule(1, 2), timing_mode |-> "Approval", delivery_mode |-> "Push",
      approval_window_secs |-> 1, pre_cliff_bps |-> 0,
      recovery_enabled |-> TRUE, cancellation_enabled |-> TRUE]}

(* Without pauses and blocks: a pause only ever refuses a deposit, a block   *)
(* entry refuses one or holds up a delivery as a lapsed KYC entry does, so   *)
(* every series they let through happens here too.                           *)
UnblockedNext == Instructions \/ VestingTick \/ \E w \in Wallets : SetEligible(w)

UnblockedSpec == VestingInit /\ [][UnblockedNext]_vestingVars /\ Cranks
=============================================================================
