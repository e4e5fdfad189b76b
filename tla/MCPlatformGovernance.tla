------------------------- MODULE MCPlatformGovernance -------------------------
(***************************************************************************)
(* A small instance of PlatformGovernance for TLC, with a history of since *)
(* when each key has been named, without a gap, by a proposal: the notice  *)
(* everybody who watches the chain has had of the key taking the role.     *)
(***************************************************************************)
EXTENDS PlatformGovernance, TLC

CONSTANTS a, b, c, u

VARIABLE noticed     \* since when a grant, a rotation, a recovery names a key

Nobody == MaxTime + 1        \* later than any time
Kinds == {"grant", "rotation", "recovery"}

Names(kind, k) ==
    \/ kind = "grant"    /\ grants[k] # NoProposal
    \/ kind = "rotation" /\ transfer # NoProposal /\ transfer.new = k
    \/ kind = "recovery" /\ recovery # NoProposal /\ recovery.new = k

NoticeInit == Init /\ noticed = [x \in Kinds \X Keys |-> Nobody]

NoticeNext ==
    /\ Next
    /\ noticed' = [x \in Kinds \X Keys |->
          IF ~Names(x[1], x[2])' THEN Nobody
          ELSE IF noticed[x] = Nobody THEN now ELSE noticed[x]]

NoticeSpec == NoticeInit /\ [][NoticeNext]_<<vars, noticed>>

\* A pause, an explicit end of the bootstrap window, a mixed resume, and the
\* two clears of the payout modules: with others (refused) and alone.
MCPauseCalls ==
    {[set |-> {"PAYOUT_MODULES"}, clear |-> {}], [set |-> {}, clear |-> {"BOOTSTRAP"}],
     [set |-> {"PAYOUT_MODULES"}, clear |-> {"ONBOARDING"}],
     [set |-> {}, clear |-> {"ONBOARDING", "PAYOUT_MODULES"}],
     [set |-> {}, clear |-> {"PAYOUT_MODULES"}]}

KeySymmetry == Permutations(Keys) \cup Permutations(UpgradeAuthorities)

-----------------------------------------------------------------------------
Had(kind, k, delay) == now - noticed[<<kind, k>>] >= delay

(* The timelock gives notice.  Once the bootstrap window is closed no key    *)
(* becomes an Admin or the super admin unless a proposal has named it in     *)
(* public, without a gap, for the whole timelock of its kind; a recovery     *)
(* gives its seven days' notice in the bootstrap window too.                 *)
NoRoleWithoutNotice ==
    [][/\ \A k \in admins' \ admins :
            \/ bootstrap_open
            \/ Had("grant", k, ADMIN_TIMELOCK)
            \/ admin' = k
       /\ admin' # admin =>
            \/ /\ bootstrap_open \/ Had("rotation", admin', SUPER_ADMIN_ROTATION_TIMELOCK)
               /\ transfer # NoProposal /\ transfer' = NoProposal
            \/ Had("recovery", admin', PLATFORM_RECOVERY_DELAY)
      ]_<<vars, noticed>>
=============================================================================
