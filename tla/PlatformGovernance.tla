-------------------------- MODULE PlatformGovernance --------------------------
(***************************************************************************)
(* Who runs the platform (programs/asset_registry): the super admin, the   *)
(* Admin records, the timelocked grants and rotations, the recovery of the *)
(* super admin by the program upgrade authority, and the pause flags with  *)
(* the one-way bootstrap window that waives the timelocks.                 *)
(*                                                                         *)
(* Every role moves in two transactions of two signers, days apart, and in *)
(* between anything else may happen: other proposals, removals, vetoes, a  *)
(* change of the upgrade authority.  A proposal is an account that         *)
(* outlives its proposer's role.                                           *)
(***************************************************************************)
EXTENDS Integers

CONSTANTS
    Keys,                   \* wallets that can hold a role
    UpgradeAuthorities,     \* keys ProgramData may name
    PauseBits,              \* PAUSE_FLAGS_ALL, bit by bit
    PauseCalls,             \* [set, clear] masks set_pause_flags is called with
    NoProposal,             \* a proposal account that does not exist
    ADMIN_TIMELOCK, SUPER_ADMIN_ROTATION_TIMELOCK,
    PLATFORM_RECOVERY_DELAY, PROPOSAL_WINDOW,   \* constants.rs, in ticks
    INCIDENT,               \* the `incident` build feature
    MaxTime                 \* bound: the clock stops here

ASSUME ConstantsAssumption ==
    /\ {"ONBOARDING", "PAYOUT_MODULES"} \subseteq PauseBits
    /\ "BOOTSTRAP" \notin PauseBits
    /\ PauseCalls \subseteq [set : SUBSET PauseBits,
                             clear : SUBSET (PauseBits \cup {"BOOTSTRAP"})]
    /\ ADMIN_TIMELOCK \in Nat /\ SUPER_ADMIN_ROTATION_TIMELOCK \in Nat
    /\ PLATFORM_RECOVERY_DELAY \in Nat /\ PROPOSAL_WINDOW \in Nat
    /\ INCIDENT \in BOOLEAN /\ MaxTime \in Nat

VARIABLES
    now,
    upgrade_authority,      \* ProgramData.upgrade_authority_address
    admin,                  \* Platform.admin, the super admin
    pause_flags,            \* Platform.pause_flags; BOOTSTRAP is bit 7
    admins,                 \* keys with an Admin record
    grants,                 \* PendingAdmin accounts, by proposed key
    transfer,               \* AuthorityProposal of the platform
    recovery                \* PlatformRecovery of the platform

proposals == <<grants, transfer, recovery>>
vars == <<now, upgrade_authority, admin, pause_flags, admins, proposals>>

Signers == Keys \cup UpgradeAuthorities
bootstrap_open == "BOOTSTRAP" \in pause_flags

Init ==
    /\ now = 0
    /\ upgrade_authority \in UpgradeAuthorities
    /\ admin \in Keys
    /\ pause_flags = PauseBits \cup {"BOOTSTRAP"}
    /\ admins = {admin}
    /\ grants = [k \in Keys |-> NoProposal]
    /\ transfer = NoProposal /\ recovery = NoProposal

-----------------------------------------------------------------------------
(* Environment: time, and the loader's own change of upgrade authority.      *)

Tick ==
    /\ now < MaxTime
    /\ now' = now + 1
    /\ UNCHANGED <<upgrade_authority, admin, pause_flags, admins, proposals>>

MoveUpgradeAuthority(u) ==
    /\ upgrade_authority' = u
    /\ UNCHANGED <<now, admin, pause_flags, admins, proposals>>

-----------------------------------------------------------------------------
(* What a proposal account says.  A re-proposal overwrites it whole.         *)
Proposal(current, new, proposer, timelock) ==
    [current |-> current, new |-> new, proposed_by |-> proposer,
     proposed_at |-> now, eta |-> now + timelock,
     expires_at |-> now + timelock + PROPOSAL_WINDOW]

Rewritten(old, new) == new

\* Slip: the bootstrap window waives the wait of what was staged in it.
EffectiveEtaOfStaging(p) == IF pause_flags # PauseBits THEN p.proposed_at ELSE p.eta
effective_eta(p) == IF bootstrap_open THEN p.proposed_at ELSE p.eta

InWindow(eta, p) == now >= eta /\ now < p.expires_at

IsVetoHolder(by) == by = admin \/ by = upgrade_authority \/ by \in admins

ProposeAdmin(k) ==
    /\ k \notin admins
    /\ grants' = [grants EXCEPT ![k] =
          Rewritten(grants[k], Proposal(NoProposal, k, admin, ADMIN_TIMELOCK))]
    /\ UNCHANGED <<now, upgrade_authority, admin, pause_flags, admins, transfer,
                   recovery>>

(* add_admin, signed by the new key; the record is `init`.                   *)
AddAdmin(k) ==
    /\ grants[k] # NoProposal
    /\ grants[k].proposed_by = admin
    /\ InWindow(effective_eta(grants[k]), grants[k])
    /\ k \notin admins
    /\ admins' = admins \cup {k}
    /\ grants' = [grants EXCEPT ![k] = NoProposal]
    /\ UNCHANGED <<now, upgrade_authority, admin, pause_flags, transfer, recovery>>

CancelAdminProposal(by, k) ==
    /\ grants[k] # NoProposal
    /\ IsVetoHolder(by)
    /\ grants' = [grants EXCEPT ![k] = NoProposal]
    /\ UNCHANGED <<now, upgrade_authority, admin, pause_flags, admins, transfer,
                   recovery>>

\* Slip: the super admin may strip its own key.
RemovableAny(k) == k \in admins
Removable(k) == k \in admins /\ k # admin

RemoveAdmin(k) ==
    /\ Removable(k)
    /\ admins' = admins \ {k}
    /\ UNCHANGED <<now, upgrade_authority, admin, pause_flags, proposals>>

-----------------------------------------------------------------------------
(* The super admin: rotation by itself, recovery by the upgrade authority.   *)

ProposePlatformAdmin(k) ==
    /\ k # admin
    /\ transfer' = Rewritten(transfer,
                        Proposal(admin, k, admin, SUPER_ADMIN_ROTATION_TIMELOCK))
    /\ UNCHANGED <<now, upgrade_authority, admin, pause_flags, admins, grants,
                   recovery>>

(* install_platform_admin: the outgoing key loses its record, the incoming   *)
(* key has one (it may have had one before).                                 *)
Install(k) ==
    /\ admins' = (admins \ {admin}) \cup {k}
    /\ admin' = k

\* Slip: a recovery counts as pending only once it could be executed.
RecoveryPendingInWindow ==
    recovery # NoProposal /\ recovery.current = admin
                          /\ InWindow(recovery.eta, recovery)
RecoveryPending == recovery # NoProposal /\ recovery.current = admin

AcceptPlatformAdmin(k) ==
    /\ transfer # NoProposal
    /\ transfer.current = admin /\ transfer.proposed_by = admin
    /\ transfer.new = k
    /\ InWindow(effective_eta(transfer), transfer)
    /\ ~RecoveryPending
    /\ Install(k)
    /\ transfer' = NoProposal
    /\ UNCHANGED <<now, upgrade_authority, pause_flags, grants, recovery>>

CancelPlatformAdminTransfer(by) ==
    /\ transfer # NoProposal
    /\ IsVetoHolder(by)
    /\ transfer' = NoProposal
    /\ UNCHANGED <<now, upgrade_authority, admin, pause_flags, admins, grants,
                   recovery>>

ProposePlatformRecovery(k) ==
    /\ k # admin
    /\ recovery' = Rewritten(recovery,
                      Proposal(admin, k, upgrade_authority, PLATFORM_RECOVERY_DELAY))
    /\ UNCHANGED <<now, upgrade_authority, admin, pause_flags, admins, grants,
                   transfer>>

\* Slip: the `incident` build lets the super admin cancel like any other.
MayCancelRecoveryAlways(by) == by = recovery.proposed_by \/ by = admin
MayCancelRecovery(by) == by = recovery.proposed_by \/ (by = admin /\ ~INCIDENT)

CancelPlatformRecovery(by) ==
    /\ recovery # NoProposal
    /\ MayCancelRecovery(by)
    /\ recovery' = NoProposal
    /\ UNCHANGED <<now, upgrade_authority, admin, pause_flags, admins, grants,
                   transfer>>

(* retire_pending_proposal: the pending rotation stays, bound to nobody.     *)
Retired(p) == IF p = NoProposal THEN p ELSE [p EXCEPT !.current = NoProposal]

ExecutePlatformRecovery(k) ==
    /\ recovery # NoProposal
    /\ recovery.current = admin /\ recovery.new = k
    /\ upgrade_authority = recovery.proposed_by
    /\ InWindow(recovery.eta, recovery)
    /\ transfer' = Retired(transfer)
    /\ Install(k)
    /\ recovery' = NoProposal
    /\ UNCHANGED <<now, upgrade_authority, pause_flags, grants>>

-----------------------------------------------------------------------------
(* A clear of anything ends the bootstrap window.                            *)
Cleared(flags, clear) ==
    IF clear = {} THEN flags ELSE flags \ (clear \cup {"BOOTSTRAP"})

(* set_pause, the legacy switch of the super admin.                          *)
SetPause(paused) ==
    /\ pause_flags' = IF paused THEN pause_flags \cup {"ONBOARDING"}
                      ELSE Cleared(pause_flags, {"ONBOARDING"})
    /\ UNCHANGED <<now, upgrade_authority, admin, admins, proposals>>

SetPauseFlags(by, set, clear) ==
    /\ by = admin \/ (by \in admins /\ clear = {})
    /\ set \cap clear = {}
    /\ "PAYOUT_MODULES" \in clear => clear = {"PAYOUT_MODULES"}
    /\ pause_flags' = Cleared(pause_flags \cup set, clear)
    /\ UNCHANGED <<now, upgrade_authority, admin, admins, proposals>>

-----------------------------------------------------------------------------
Next ==
    \/ Tick
    \/ \E u \in UpgradeAuthorities : MoveUpgradeAuthority(u)
    \/ \E k \in Keys : ProposeAdmin(k) \/ AddAdmin(k) \/ RemoveAdmin(k)
    \/ \E by \in Signers, k \in Keys : CancelAdminProposal(by, k)
    \/ \E k \in Keys : ProposePlatformAdmin(k) \/ AcceptPlatformAdmin(k)
    \/ \E by \in Signers : CancelPlatformAdminTransfer(by)
    \/ \E k \in Keys : ProposePlatformRecovery(k) \/ ExecutePlatformRecovery(k)
    \/ \E by \in Signers : CancelPlatformRecovery(by)
    \/ \E paused \in BOOLEAN : SetPause(paused)
    \/ \E by \in Keys, call \in PauseCalls : SetPauseFlags(by, call.set, call.clear)

Spec == Init /\ [][Next]_vars

-----------------------------------------------------------------------------
\* A proposal of one kind: whoever rewrites it, its clocks stay one timelock
\* and one window apart.
ProposalsOf(proposers, timelock) ==
    {p \in [current : Keys \cup {NoProposal}, new : Keys, proposed_by : proposers,
            proposed_at : Int, eta : Int, expires_at : Int] :
        p.eta = p.proposed_at + timelock /\ p.expires_at = p.eta + PROPOSAL_WINDOW}

(* Types of the accounts (state.rs: Platform, Admin and the proposals).      *)
TypeOK ==
    /\ now \in Int /\ upgrade_authority \in UpgradeAuthorities
    /\ admin \in Keys /\ admins \subseteq Keys
    /\ pause_flags \subseteq PauseBits \cup {"BOOTSTRAP"}
    /\ \A k \in Keys :
          grants[k] \in ProposalsOf(Keys, ADMIN_TIMELOCK) \cup {NoProposal}
    /\ DOMAIN grants = Keys
    /\ transfer \in
          ProposalsOf(Keys, SUPER_ADMIN_ROTATION_TIMELOCK) \cup {NoProposal}
    /\ recovery \in
          ProposalsOf(UpgradeAuthorities, PLATFORM_RECOVERY_DELAY) \cup {NoProposal}

(* Every privileged instruction asks for an Admin record; through grants,    *)
(* removals, rotations and recoveries the super admin always has its own.    *)
SuperAdminIsAdmin == admin \in admins

(* The comment on accept_platform_admin's recovery account: a recovery is    *)
(* always against the live super admin, so an A -> B -> A round trip cannot  *)
(* revive one; hence its new key can execute it whatever the super admin did *)
(* meanwhile.                                                                *)
RecoveryIsLive == recovery # NoProposal => recovery.current = admin

(* The comment on effective_eta: while the window that waives the timelocks  *)
(* is open the platform has never been unpaused, so that no investor money   *)
(* can have come in through any gated entry.                                 *)
BootstrapMeansPaused == bootstrap_open => PauseBits \subseteq pause_flags

(* What remove_admin, add_admin, both ways to replace the super admin and    *)
(* the pause calls have to keep between them.                                *)
RolesConsistent == SuperAdminIsAdmin /\ RecoveryIsLive /\ BootstrapMeansPaused

(* The header of platform_recovery.rs: while a recovery is pending, the      *)
(* super admin cannot rotate away from it; the key only changes to the one   *)
(* the recovery names.                                                       *)
NoRotationAwayFromRecovery ==
    [][recovery # NoProposal => admin' \in {admin, recovery.new}]_vars
=============================================================================
