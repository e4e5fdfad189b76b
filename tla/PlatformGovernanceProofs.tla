----------------------- MODULE PlatformGovernanceProofs -----------------------
(***************************************************************************)
(* Proofs for every set of keys, every timelock and both builds.  The four *)
(* invariants of PlatformGovernance are inductive together: a rotation     *)
(* keeps the recovery live because it waits for none to be pending, which  *)
(* it knows only because a pending one is always live.                     *)
(***************************************************************************)
EXTENDS MCPlatformGovernance, TLAPS

RoleInv == TypeOK /\ SuperAdminIsAdmin /\ RecoveryIsLive /\ BootstrapMeansPaused

(* initialize_platform: every pause bit and bit 7, one Admin, no proposal.   *)
LEMMA InitInv == Init => RoleInv
  BY SMT, ConstantsAssumption
  DEF Init, RoleInv, TypeOK, SuperAdminIsAdmin, RecoveryIsLive,
      BootstrapMeansPaused, bootstrap_open

(* write_proposal: what propose_* writes is a proposal of its kind.          *)
LEMMA ProposalIsTyped ==
    ASSUME NEW current \in Keys \cup {NoProposal}, NEW k \in Keys, NEW S, NEW p \in S,
           NEW t \in Nat, now \in Int
    PROVE  Proposal(current, k, p, t) \in ProposalsOf(S, t)
  BY SMT, ConstantsAssumption DEF Proposal, ProposalsOf

(* retire_pending_proposal leaves a proposal of the same kind.               *)
LEMMA RetiredIsTyped ==
    ASSUME NEW S, NEW t \in Nat, NEW p \in ProposalsOf(S, t) \cup {NoProposal}
    PROVE  Retired(p) \in ProposalsOf(S, t) \cup {NoProposal}
  <1>1. CASE p = NoProposal
    BY <1>1, SMT DEF Retired
  <1>2. CASE p # NoProposal
    BY <1>2, SMT DEF Retired, ProposalsOf
  <1> QED BY <1>1, <1>2

(* Every instruction preserves the invariant, one step per instruction.      *)
LEMMA StepInv == RoleInv /\ [Next]_vars => RoleInv'
  <1> SUFFICES ASSUME RoleInv, [Next]_vars PROVE RoleInv'
    OBVIOUS
  <1> USE ConstantsAssumption
  <1>1. CASE Tick
    BY <1>1, SMT DEF Tick, RoleInv, TypeOK, SuperAdminIsAdmin, RecoveryIsLive,
                BootstrapMeansPaused, bootstrap_open, proposals
  <1>2. ASSUME NEW v \in UpgradeAuthorities, MoveUpgradeAuthority(v) PROVE RoleInv'
    BY <1>2, SMT DEF MoveUpgradeAuthority, RoleInv, TypeOK, SuperAdminIsAdmin,
                RecoveryIsLive, BootstrapMeansPaused, bootstrap_open, proposals
  <1>3. ASSUME NEW k \in Keys, ProposeAdmin(k) PROVE RoleInv'
    <2>1. Proposal(NoProposal, k, admin, ADMIN_TIMELOCK)
              \in ProposalsOf(Keys, ADMIN_TIMELOCK)
      <3>1. NoProposal \in Keys \cup {NoProposal} /\ admin \in Keys /\ now \in Int
        BY SMT DEF RoleInv, TypeOK
      <3> QED BY <3>1, SMT DEF Proposal, ProposalsOf
    <2> QED
      BY <1>3, <2>1, SMT DEF ProposeAdmin, Rewritten, RoleInv, TypeOK,
                SuperAdminIsAdmin, RecoveryIsLive, BootstrapMeansPaused, bootstrap_open
  <1>4. ASSUME NEW k \in Keys, AddAdmin(k) PROVE RoleInv'
    BY <1>4, SMT DEF AddAdmin, RoleInv, TypeOK, SuperAdminIsAdmin, RecoveryIsLive,
                BootstrapMeansPaused, bootstrap_open
  <1>5. ASSUME NEW k \in Keys, RemoveAdmin(k) PROVE RoleInv'
    BY <1>5, SMT DEF RemoveAdmin, Removable, RoleInv, TypeOK, SuperAdminIsAdmin,
                RecoveryIsLive, BootstrapMeansPaused, bootstrap_open, proposals
  <1>6. ASSUME NEW by \in Signers, NEW k \in Keys, CancelAdminProposal(by, k)
        PROVE RoleInv'
    BY <1>6, SMT DEF CancelAdminProposal, RoleInv, TypeOK, SuperAdminIsAdmin,
                RecoveryIsLive, BootstrapMeansPaused, bootstrap_open
  <1>7. ASSUME NEW k \in Keys, ProposePlatformAdmin(k) PROVE RoleInv'
    <2>1. Proposal(admin, k, admin, SUPER_ADMIN_ROTATION_TIMELOCK)
              \in ProposalsOf(Keys, SUPER_ADMIN_ROTATION_TIMELOCK)
      BY ProposalIsTyped, SMT DEF RoleInv, TypeOK
    <2> QED
      BY <1>7, <2>1, SMT DEF ProposePlatformAdmin, Rewritten, RoleInv, TypeOK,
                SuperAdminIsAdmin, RecoveryIsLive, BootstrapMeansPaused, bootstrap_open
  <1>8. ASSUME NEW k \in Keys, AcceptPlatformAdmin(k) PROVE RoleInv'
    <2>1. recovery = NoProposal
      BY <1>8, SMT DEF AcceptPlatformAdmin, RecoveryPending, RoleInv, RecoveryIsLive
    <2> QED
      BY <1>8, <2>1, SMT DEF AcceptPlatformAdmin, Install, RoleInv, TypeOK,
                SuperAdminIsAdmin, RecoveryIsLive, BootstrapMeansPaused, bootstrap_open
  <1>9. ASSUME NEW by \in Signers, CancelPlatformAdminTransfer(by) PROVE RoleInv'
    BY <1>9, SMT DEF CancelPlatformAdminTransfer, RoleInv, TypeOK, SuperAdminIsAdmin,
                RecoveryIsLive, BootstrapMeansPaused, bootstrap_open
  <1>10. ASSUME NEW k \in Keys, ProposePlatformRecovery(k) PROVE RoleInv'
    <2>1. Proposal(admin, k, upgrade_authority, PLATFORM_RECOVERY_DELAY)
              \in ProposalsOf(UpgradeAuthorities, PLATFORM_RECOVERY_DELAY)
      BY ProposalIsTyped, SMT DEF RoleInv, TypeOK
    <2>2. recovery'.current = admin'
      BY <1>10, SMT DEF ProposePlatformRecovery, Rewritten, Proposal
    <2> QED
      BY <1>10, <2>1, <2>2, SMT DEF ProposePlatformRecovery, Rewritten, RoleInv, TypeOK,
                SuperAdminIsAdmin, RecoveryIsLive, BootstrapMeansPaused, bootstrap_open
  <1>11. ASSUME NEW k \in Keys, ExecutePlatformRecovery(k) PROVE RoleInv'
    <2>1. transfer' \in
            ProposalsOf(Keys, SUPER_ADMIN_ROTATION_TIMELOCK) \cup {NoProposal}
      BY <1>11, RetiredIsTyped, SMT DEF ExecutePlatformRecovery, RoleInv, TypeOK
    <2> QED
      BY <1>11, <2>1, SMT DEF ExecutePlatformRecovery, Install, RoleInv, TypeOK,
                SuperAdminIsAdmin, RecoveryIsLive, BootstrapMeansPaused, bootstrap_open
  <1>12. ASSUME NEW by \in Signers, CancelPlatformRecovery(by) PROVE RoleInv'
    BY <1>12, SMT DEF CancelPlatformRecovery, RoleInv, TypeOK, SuperAdminIsAdmin,
                RecoveryIsLive, BootstrapMeansPaused, bootstrap_open
  <1>13. ASSUME NEW paused \in BOOLEAN, SetPause(paused) PROVE RoleInv'
    BY <1>13, SMT DEF SetPause, Cleared, RoleInv, TypeOK, SuperAdminIsAdmin,
                RecoveryIsLive, BootstrapMeansPaused, bootstrap_open, proposals
  <1>14. ASSUME NEW by \in Keys, NEW call \in PauseCalls,
                SetPauseFlags(by, call.set, call.clear)
         PROVE RoleInv'
    <2>1. call.set \subseteq PauseBits
      BY SMT
    <2> QED
      BY <1>14, <2>1, SMT DEF SetPauseFlags, Cleared, RoleInv, TypeOK,
                SuperAdminIsAdmin, RecoveryIsLive, BootstrapMeansPaused,
                bootstrap_open, proposals
  <1>15. CASE UNCHANGED vars
    BY <1>15, SMT DEF vars, proposals, RoleInv, TypeOK, SuperAdminIsAdmin,
                RecoveryIsLive, BootstrapMeansPaused, bootstrap_open
  <1> QED
    BY <1>1, <1>2, <1>3, <1>4, <1>5, <1>6, <1>7, <1>8, <1>9, <1>10, <1>11, <1>12,
       <1>13, <1>14, <1>15 DEF Next

(* RoleInv holds of every history of grants, removals, rotations, recoveries *)
(* and pauses.                                                               *)
THEOREM RolesInvariant == Spec => []RoleInv
  BY InitInv, StepInv, PTL DEF Spec

(* The accounts keep their types, and every proposal its whole timelock and  *)
(* window, however often it is rewritten.                                    *)
THEOREM RolesTyped == Spec => []TypeOK
  <1>1. RoleInv => TypeOK BY DEF RoleInv
  <1> QED BY <1>1, RolesInvariant, PTL

(* remove_admin, add_admin, both ways to replace the super admin and the     *)
(* pause calls leave the super admin its record, a pending recovery bound to *)
(* it, and the bootstrap window open only on a platform that is all paused.  *)
THEOREM RolesStayConsistent == Spec => []RolesConsistent
  <1>1. RoleInv => RolesConsistent BY DEF RoleInv, RolesConsistent
  <1> QED BY <1>1, RolesInvariant, PTL

(* accept_platform_admin against a pending recovery: the super admin changes *)
(* to the key the recovery names or not at all.                              *)
THEOREM RecoveryCannotBeDodged == Spec => NoRotationAwayFromRecovery
  <1>1. RoleInv /\ [Next]_vars
          => [recovery # NoProposal => admin' \in {admin, recovery.new}]_vars
    <2> SUFFICES ASSUME RoleInv, Next, recovery # NoProposal
                 PROVE  admin' \in {admin, recovery.new}
      BY Zenon
    <2>1. CASE \E k \in Keys : AcceptPlatformAdmin(k)
      BY <2>1, SMT DEF AcceptPlatformAdmin, RecoveryPending, RoleInv, RecoveryIsLive
    <2>2. CASE \E k \in Keys : ExecutePlatformRecovery(k)
      BY <2>2, SMT DEF ExecutePlatformRecovery, Install
    <2>3. CASE \E k \in Keys : ProposeAdmin(k) \/ AddAdmin(k) \/ RemoveAdmin(k)
                               \/ ProposePlatformAdmin(k) \/ ProposePlatformRecovery(k)
      BY <2>3, SMT DEF ProposeAdmin, AddAdmin, RemoveAdmin, ProposePlatformAdmin,
                  ProposePlatformRecovery
    <2>4. CASE \/ \E by \in Signers, k \in Keys : CancelAdminProposal(by, k)
               \/ \E by \in Signers : CancelPlatformAdminTransfer(by)
                                      \/ CancelPlatformRecovery(by)
      BY <2>4, SMT DEF CancelAdminProposal, CancelPlatformAdminTransfer,
                  CancelPlatformRecovery
    <2>5. CASE Tick \/ \E v \in UpgradeAuthorities : MoveUpgradeAuthority(v)
      BY <2>5, SMT DEF Tick, MoveUpgradeAuthority
    <2>6. CASE \E paused \in BOOLEAN : SetPause(paused)
      BY <2>6, SMT DEF SetPause
    <2>7. CASE \E by \in Keys, call \in PauseCalls :
                  SetPauseFlags(by, call.set, call.clear)
      BY <2>7, SMT DEF SetPauseFlags
    <2> QED
      BY <2>1, <2>2, <2>3, <2>4, <2>5, <2>6, <2>7 DEF Next
  <1> QED BY <1>1, RolesInvariant, PTL DEF Spec, NoRotationAwayFromRecovery

-----------------------------------------------------------------------------
(* The notice a proposal has given: since a time no later than its own.      *)
Naming(kind, k) == IF kind = "grant" THEN grants[k]
                   ELSE IF kind = "rotation" THEN transfer ELSE recovery

NoticeInv ==
    /\ now \in 0..MaxTime
    /\ noticed \in [Kinds \X Keys -> Int]
    /\ \A kind \in Kinds, k \in Keys :
          IF Names(kind, k)
          THEN /\ noticed[<<kind, k>>] <= Naming(kind, k).proposed_at
               /\ Naming(kind, k).proposed_at \in 0..now
          ELSE noticed[<<kind, k>>] = Nobody

(* A grant is as it was, or was written just now.                            *)
LEMMA GrantsAreFresh ==
    ASSUME RoleInv, Next, NEW k \in Keys, grants'[k] # NoProposal
    PROVE  grants'[k] = grants[k] \/ grants'[k].proposed_at = now
  <1>1. DOMAIN grants = Keys
    BY DEF RoleInv, TypeOK
  <1>2. CASE UNCHANGED grants
    BY <1>2
  <1>3. ASSUME NEW j \in Keys, ProposeAdmin(j)
        PROVE  grants'[k] = grants[k] \/ grants'[k].proposed_at = now
    BY <1>1, <1>3, SMT DEF ProposeAdmin, Rewritten, Proposal
  <1>4. ASSUME NEW j \in Keys, grants' = [grants EXCEPT ![j] = NoProposal]
        PROVE  grants'[k] = grants[k]
    BY <1>1, <1>4
  <1>5. \/ UNCHANGED grants
        \/ \E j \in Keys : ProposeAdmin(j) \/ grants' = [grants EXCEPT ![j] = NoProposal]
    <2> USE DEF proposals
    <2>1. CASE \E j \in Keys : ProposeAdmin(j) \/ AddAdmin(j) \/ RemoveAdmin(j)
      BY <2>1 DEF AddAdmin, RemoveAdmin
    <2>2. CASE \E by \in Signers, j \in Keys : CancelAdminProposal(by, j)
      BY <2>2 DEF CancelAdminProposal
    <2>3. CASE \/ Tick \/ \E v \in UpgradeAuthorities : MoveUpgradeAuthority(v)
               \/ \E paused \in BOOLEAN : SetPause(paused)
               \/ \E by \in Keys, call \in PauseCalls : SetPauseFlags(by, call.set, call.clear)
      BY <2>3 DEF Tick, MoveUpgradeAuthority, SetPause, SetPauseFlags
    <2>4. CASE \/ \E j \in Keys : \/ ProposePlatformAdmin(j) \/ AcceptPlatformAdmin(j)
                                  \/ ProposePlatformRecovery(j) \/ ExecutePlatformRecovery(j)
               \/ \E by \in Signers : CancelPlatformAdminTransfer(by) \/ CancelPlatformRecovery(by)
      BY <2>4 DEF ProposePlatformAdmin, AcceptPlatformAdmin, ProposePlatformRecovery,
             ExecutePlatformRecovery, CancelPlatformAdminTransfer, CancelPlatformRecovery
    <2> QED BY <2>1, <2>2, <2>3, <2>4 DEF Next
  <1> QED BY <1>2, <1>3, <1>4, <1>5

(* propose_platform_admin writes the rotation whole; the recovery retires it *)
(* and touches neither its key nor its date.                                 *)
LEMMA RotationIsFresh ==
    ASSUME RoleInv, Next, transfer' # NoProposal
    PROVE  \/ /\ transfer # NoProposal /\ transfer'.new = transfer.new
              /\ transfer'.proposed_at = transfer.proposed_at
           \/ transfer'.proposed_at = now
  <1>1. CASE UNCHANGED transfer
    BY <1>1
  <1>2. ASSUME NEW j \in Keys, ProposePlatformAdmin(j) PROVE transfer'.proposed_at = now
    BY <1>2, SMT DEF ProposePlatformAdmin, Rewritten, Proposal
  <1>3. CASE transfer' = Retired(transfer)
    <2>1. transfer # NoProposal /\ transfer' = [transfer EXCEPT !.current = NoProposal]
      BY <1>3 DEF Retired
    <2>2. transfer \in ProposalsOf(Keys, SUPER_ADMIN_ROTATION_TIMELOCK)
      BY <2>1 DEF RoleInv, TypeOK
    <2> QED BY <2>1, <2>2, SMT DEF ProposalsOf
  <1>4. \/ UNCHANGED transfer \/ transfer' = Retired(transfer) \/ transfer' = NoProposal
        \/ \E j \in Keys : ProposePlatformAdmin(j)
    <2> USE DEF proposals
    <2>1. CASE \E j \in Keys : ProposeAdmin(j) \/ AddAdmin(j) \/ RemoveAdmin(j)
      BY <2>1 DEF ProposeAdmin, AddAdmin, RemoveAdmin
    <2>2. CASE \E by \in Signers, j \in Keys : CancelAdminProposal(by, j)
      BY <2>2 DEF CancelAdminProposal
    <2>3. CASE \/ Tick \/ \E v \in UpgradeAuthorities : MoveUpgradeAuthority(v)
               \/ \E paused \in BOOLEAN : SetPause(paused)
               \/ \E by \in Keys, call \in PauseCalls : SetPauseFlags(by, call.set, call.clear)
      BY <2>3 DEF Tick, MoveUpgradeAuthority, SetPause, SetPauseFlags
    <2>4. CASE \/ \E j \in Keys : \/ ProposePlatformAdmin(j) \/ AcceptPlatformAdmin(j)
                                  \/ ProposePlatformRecovery(j) \/ ExecutePlatformRecovery(j)
               \/ \E by \in Signers : CancelPlatformAdminTransfer(by) \/ CancelPlatformRecovery(by)
      BY <2>4 DEF AcceptPlatformAdmin, ProposePlatformRecovery,
             ExecutePlatformRecovery, CancelPlatformAdminTransfer, CancelPlatformRecovery
    <2> QED BY <2>1, <2>2, <2>3, <2>4 DEF Next
  <1> QED BY <1>1, <1>2, <1>3, <1>4

(* A recovery is as it was, or was written just now.                         *)
LEMMA RecoveryIsFresh ==
    ASSUME Next, recovery' # NoProposal
    PROVE  recovery' = recovery \/ recovery'.proposed_at = now
  <1>1. ASSUME NEW j \in Keys, ProposePlatformRecovery(j) PROVE recovery'.proposed_at = now
    BY <1>1, SMT DEF ProposePlatformRecovery, Rewritten, Proposal
  <1>2. \/ UNCHANGED recovery \/ recovery' = NoProposal
        \/ \E j \in Keys : ProposePlatformRecovery(j)
    <2> USE DEF proposals
    <2>1. CASE \E j \in Keys : ProposeAdmin(j) \/ AddAdmin(j) \/ RemoveAdmin(j)
      BY <2>1 DEF ProposeAdmin, AddAdmin, RemoveAdmin
    <2>2. CASE \E by \in Signers, j \in Keys : CancelAdminProposal(by, j)
      BY <2>2 DEF CancelAdminProposal
    <2>3. CASE \/ Tick \/ \E v \in UpgradeAuthorities : MoveUpgradeAuthority(v)
               \/ \E paused \in BOOLEAN : SetPause(paused)
               \/ \E by \in Keys, call \in PauseCalls : SetPauseFlags(by, call.set, call.clear)
      BY <2>3 DEF Tick, MoveUpgradeAuthority, SetPause, SetPauseFlags
    <2>4. CASE \/ \E j \in Keys : \/ ProposePlatformAdmin(j) \/ AcceptPlatformAdmin(j)
                                  \/ ProposePlatformRecovery(j) \/ ExecutePlatformRecovery(j)
               \/ \E by \in Signers : CancelPlatformAdminTransfer(by) \/ CancelPlatformRecovery(by)
      BY <2>4 DEF ProposePlatformAdmin, AcceptPlatformAdmin,
             ExecutePlatformRecovery, CancelPlatformAdminTransfer, CancelPlatformRecovery
    <2> QED BY <2>1, <2>2, <2>3, <2>4 DEF Next
  <1> QED BY <1>1, <1>2

(* Time only moves forward, and stops at the bound.                          *)
LEMMA TimeMovesOn ==
    ASSUME now \in 0..MaxTime, Next
    PROVE  now' \in 0..MaxTime /\ now' >= now
  <1> USE ConstantsAssumption
  <1>1. CASE Tick
    BY <1>1, SMT DEF Tick
  <1>2. CASE UNCHANGED now
    BY <1>2, SMT
  <1>3. Tick \/ UNCHANGED now
    BY DEF Next, MoveUpgradeAuthority, ProposeAdmin, AddAdmin, RemoveAdmin,
       CancelAdminProposal, ProposePlatformAdmin, AcceptPlatformAdmin,
       CancelPlatformAdminTransfer, ProposePlatformRecovery, ExecutePlatformRecovery,
       CancelPlatformRecovery, SetPause, SetPauseFlags
  <1> QED BY <1>1, <1>2, <1>3

(* What names a key now named it before with the same date, or is of now.    *)
LEMMA NamingIsFresh ==
    ASSUME RoleInv, Next, NEW kind \in Kinds, NEW k \in Keys, Names(kind, k)'
    PROVE  \/ /\ Names(kind, k)
              /\ Naming(kind, k)'.proposed_at = Naming(kind, k).proposed_at
           \/ Naming(kind, k)'.proposed_at = now
  <1>1. CASE kind = "grant"
    <2>1. grants'[k] # NoProposal
      BY <1>1 DEF Names
    <2> QED BY <1>1, <2>1, GrantsAreFresh DEF Names, Naming
  <1>2. CASE kind = "rotation"
    <2>1. transfer' # NoProposal /\ transfer'.new = k
      BY <1>2 DEF Names
    <2>2. \/ /\ transfer # NoProposal /\ transfer'.new = transfer.new
             /\ transfer'.proposed_at = transfer.proposed_at
          \/ transfer'.proposed_at = now
      BY <2>1, RotationIsFresh
    <2> QED BY <1>2, <2>1, <2>2 DEF Names, Naming
  <1>3. CASE kind = "recovery"
    <2>1. recovery' # NoProposal /\ recovery'.new = k
      BY <1>3 DEF Names
    <2> QED BY <1>3, <2>1, RecoveryIsFresh DEF Names, Naming
  <1> QED BY <1>1, <1>2, <1>3 DEF Kinds

(* initialize_platform: no proposal, no notice.                              *)
LEMMA NoticeStarts == NoticeInit => NoticeInv
  <1> SUFFICES ASSUME NoticeInit PROVE NoticeInv
    OBVIOUS
  <1>1. now \in 0..MaxTime /\ Nobody \in Int
    BY ConstantsAssumption, SMT DEF NoticeInit, Init, Nobody
  <1>2. noticed \in [Kinds \X Keys -> Int]
    BY <1>1 DEF NoticeInit
  <1>3. ASSUME NEW kind \in Kinds, NEW k \in Keys
        PROVE  ~Names(kind, k) /\ noticed[<<kind, k>>] = Nobody
    BY SMT DEF NoticeInit, Init, Names
  <1> QED BY <1>1, <1>2, <1>3 DEF NoticeInv

(* A step that keeps a proposal keeps its notice; a new one starts it now.   *)
LEMMA NoticeStep ==
    RoleInv /\ NoticeInv /\ [NoticeNext]_<<vars, noticed>> => NoticeInv'
  <1> SUFFICES ASSUME RoleInv, NoticeInv, [NoticeNext]_<<vars, noticed>>
               PROVE  NoticeInv'
    OBVIOUS
  <1>1. CASE UNCHANGED <<vars, noticed>>
    BY <1>1 DEF NoticeInv, Names, Naming, vars, proposals
  <1>2. CASE NoticeNext
    <2> DEFINE Since(x) == IF ~Names(x[1], x[2])' THEN Nobody
                           ELSE IF noticed[x] = Nobody THEN now ELSE noticed[x]
    <2>1. Next /\ noticed' = [x \in Kinds \X Keys |-> Since(x)]
      BY <1>2 DEF NoticeNext
    <2>2. now \in 0..MaxTime /\ noticed \in [Kinds \X Keys -> Int]
      BY DEF NoticeInv
    <2>3. now' \in 0..MaxTime /\ now' >= now
      BY <2>1, <2>2, TimeMovesOn
    <2>4. now \in Int /\ now' \in Int /\ Nobody \in Int /\ now < Nobody /\ now >= 0
      BY <2>2, <2>3, ConstantsAssumption, SMT DEF Nobody
    <2>5. \A x \in Kinds \X Keys : Since(x) \in Int
      BY <2>2, <2>4
    <2>6. noticed' \in [Kinds \X Keys -> Int]
      <3> HIDE DEF Since
      <3> QED BY <2>1, <2>5
    <2>7. ASSUME NEW kind \in Kinds, NEW k \in Keys
          PROVE  (IF Names(kind, k)
                  THEN /\ noticed[<<kind, k>>] <= Naming(kind, k).proposed_at
                       /\ Naming(kind, k).proposed_at \in 0..now
                  ELSE noticed[<<kind, k>>] = Nobody)'
      <3>1. noticed'[<<kind, k>>] =
               IF ~Names(kind, k)' THEN Nobody
               ELSE IF noticed[<<kind, k>>] = Nobody THEN now ELSE noticed[<<kind, k>>]
        BY <2>1
      <3>2. CASE ~Names(kind, k)'
        BY <3>1, <3>2
      <3>3. CASE Names(kind, k)'
        <4>1. \/ /\ Names(kind, k)
                 /\ Naming(kind, k)'.proposed_at = Naming(kind, k).proposed_at
              \/ Naming(kind, k)'.proposed_at = now
          BY <2>1, <3>3, NamingIsFresh
        <4>2. noticed[<<kind, k>>] \in Int
          BY <2>2
        <4>3. IF Names(kind, k)
              THEN /\ noticed[<<kind, k>>] <= Naming(kind, k).proposed_at
                   /\ Naming(kind, k).proposed_at \in 0..now
              ELSE noticed[<<kind, k>>] = Nobody
          BY DEF NoticeInv
        <4> DEFINE n == noticed[<<kind, k>>]
                   m == noticed'[<<kind, k>>]
                   d == Naming(kind, k).proposed_at
                   e == Naming(kind, k)'.proposed_at
        <4>4. m = IF n = Nobody THEN now ELSE n
          BY <3>1, <3>3
        <4>5. CASE Names(kind, k)
          <5>1. n <= d /\ d \in 0..now /\ (e = d \/ e = now)
            BY <4>1, <4>3, <4>5
          <5>2. n \in Int
            BY <4>2
          <5>3. m <= e /\ e \in 0..now'
            <6> HIDE DEF n, m, d, e
            <6> QED BY <5>1, <5>2, <4>4, <2>3, <2>4, SMT
          <5> QED BY <5>3, <3>3
        <4>6. CASE ~Names(kind, k)
          <5>1. n = Nobody /\ e = now
            BY <4>1, <4>3, <4>6
          <5>2. m <= e /\ e \in 0..now'
            <6> HIDE DEF n, m, d, e
            <6> QED BY <5>1, <4>4, <2>3, <2>4, SMT
          <5> QED BY <5>2, <3>3
        <4> QED BY <4>5, <4>6
      <3> QED BY <3>2, <3>3
    <2> QED BY <2>3, <2>6, <2>7 DEF NoticeInv
  <1> QED BY <1>1, <1>2

(* The account behind a name has given notice since its own date.            *)
LEMMA NoticeGivenBy ==
    ASSUME NoticeInv, NEW kind \in Kinds, NEW k \in Keys, Names(kind, k),
           NEW delay \in Nat, now >= Naming(kind, k).proposed_at + delay
    PROVE  Had(kind, k, delay)
  <1> DEFINE n == noticed[<<kind, k>>]
             d == Naming(kind, k).proposed_at
  <1>1. n <= d /\ d \in 0..now /\ n \in Int /\ now \in 0..MaxTime
    BY DEF NoticeInv
  <1>2. now >= d + delay
    OBVIOUS
  <1>3. now - n >= delay
    <2> HIDE DEF n, d
    <2> QED BY <1>1, <1>2, ConstantsAssumption, SMT
  <1> QED BY <1>3 DEF Had

NoticeOfStep ==
    /\ \A k \in admins' \ admins :
          \/ bootstrap_open
          \/ Had("grant", k, ADMIN_TIMELOCK)
          \/ admin' = k
    /\ admin' # admin =>
          \/ /\ bootstrap_open \/ Had("rotation", admin', SUPER_ADMIN_ROTATION_TIMELOCK)
             /\ transfer # NoProposal /\ transfer' = NoProposal
          \/ Had("recovery", admin', PLATFORM_RECOVERY_DELAY)

(* add_admin, accept_platform_admin and execute_platform_recovery each wait  *)
(* for the clock of the account they consume; nothing else adds a role.      *)
LEMMA RolesComeWithNotice == RoleInv /\ NoticeInv /\ Next => NoticeOfStep
  <1> SUFFICES ASSUME RoleInv, NoticeInv, Next PROVE NoticeOfStep
    OBVIOUS
  <1> USE ConstantsAssumption
  <1>1. ASSUME NEW k \in Keys, AddAdmin(k) PROVE NoticeOfStep
    <2>1. bootstrap_open \/ Had("grant", k, ADMIN_TIMELOCK)
      <3> SUFFICES ASSUME ~bootstrap_open PROVE Had("grant", k, ADMIN_TIMELOCK)
        OBVIOUS
      <3>1. grants[k] # NoProposal /\ now >= grants[k].eta
        BY <1>1, SMT DEF AddAdmin, InWindow, effective_eta
      <3>2. grants[k].eta = grants[k].proposed_at + ADMIN_TIMELOCK
        BY <3>1, SMT DEF RoleInv, TypeOK, ProposalsOf
      <3>3. Names("grant", k) /\ Naming("grant", k) = grants[k] /\ "grant" \in Kinds
        BY <3>1 DEF Names, Naming, Kinds
      <3> QED BY <3>1, <3>2, <3>3, NoticeGivenBy
    <2> QED BY <1>1, <2>1, SMT DEF AddAdmin, NoticeOfStep
  <1>2. ASSUME NEW k \in Keys, AcceptPlatformAdmin(k) PROVE NoticeOfStep
    <2>1. bootstrap_open \/ Had("rotation", k, SUPER_ADMIN_ROTATION_TIMELOCK)
      <3> SUFFICES ASSUME ~bootstrap_open
                   PROVE  Had("rotation", k, SUPER_ADMIN_ROTATION_TIMELOCK)
        OBVIOUS
      <3>1. transfer # NoProposal /\ transfer.new = k /\ now >= transfer.eta
        BY <1>2, SMT DEF AcceptPlatformAdmin, InWindow, effective_eta
      <3>2. transfer.eta = transfer.proposed_at + SUPER_ADMIN_ROTATION_TIMELOCK
        BY <3>1, SMT DEF RoleInv, TypeOK, ProposalsOf
      <3>3. /\ Names("rotation", k) /\ Naming("rotation", k) = transfer
            /\ "rotation" \in Kinds
        BY <3>1 DEF Names, Naming, Kinds
      <3> QED BY <3>1, <3>2, <3>3, NoticeGivenBy
    <2>2. /\ admin' = k /\ admins' \ admins \subseteq {k}
          /\ transfer # NoProposal /\ transfer' = NoProposal
      BY <1>2, SMT DEF AcceptPlatformAdmin, Install
    <2> QED BY <2>1, <2>2 DEF NoticeOfStep
  <1>3. ASSUME NEW k \in Keys, ExecutePlatformRecovery(k) PROVE NoticeOfStep
    <2>1. recovery # NoProposal /\ recovery.new = k /\ now >= recovery.eta
      BY <1>3, SMT DEF ExecutePlatformRecovery, InWindow
    <2>2. recovery.eta = recovery.proposed_at + PLATFORM_RECOVERY_DELAY
      BY <2>1, SMT DEF RoleInv, TypeOK, ProposalsOf
    <2>3. /\ Names("recovery", k) /\ Naming("recovery", k) = recovery
          /\ "recovery" \in Kinds
      BY <2>1 DEF Names, Naming, Kinds
    <2>4. Had("recovery", k, PLATFORM_RECOVERY_DELAY)
      BY <2>1, <2>2, <2>3, NoticeGivenBy
    <2>5. admin' = k /\ admins' \ admins \subseteq {k}
      BY <1>3, SMT DEF ExecutePlatformRecovery, Install
    <2> QED BY <2>4, <2>5 DEF NoticeOfStep
  <1>4. CASE UNCHANGED admin /\ admins' \subseteq admins
    BY <1>4, Zenon DEF NoticeOfStep
  <1>5. \/ UNCHANGED admin /\ admins' \subseteq admins
        \/ \E k \in Keys : \/ AddAdmin(k) \/ AcceptPlatformAdmin(k)
                           \/ ExecutePlatformRecovery(k)
    <2>1. CASE \E k \in Keys : RemoveAdmin(k)
      BY <2>1 DEF RemoveAdmin
    <2>2. CASE \/ \E k \in Keys : ProposeAdmin(k) \/ ProposePlatformAdmin(k)
                                                 \/ ProposePlatformRecovery(k)
               \/ \E by \in Signers, k \in Keys : CancelAdminProposal(by, k)
               \/ \E by \in Signers : CancelPlatformAdminTransfer(by)
                                      \/ CancelPlatformRecovery(by)
      BY <2>2 DEF ProposeAdmin, ProposePlatformAdmin, ProposePlatformRecovery,
             CancelAdminProposal, CancelPlatformAdminTransfer, CancelPlatformRecovery
    <2>3. CASE \/ Tick \/ \E v \in UpgradeAuthorities : MoveUpgradeAuthority(v)
               \/ \E paused \in BOOLEAN : SetPause(paused)
               \/ \E by \in Keys, call \in PauseCalls : SetPauseFlags(by, call.set, call.clear)
      BY <2>3 DEF Tick, MoveUpgradeAuthority, SetPause, SetPauseFlags
    <2> QED BY <2>1, <2>2, <2>3 DEF Next
  <1> QED BY <1>1, <1>2, <1>3, <1>4, <1>5

(* The timelocks of add_admin, accept_platform_admin and                     *)
(* execute_platform_recovery give their notice whatever is proposed,         *)
(* overwritten, vetoed or retired in between.                                *)
THEOREM NoticeGiven == NoticeSpec => NoRoleWithoutNotice
  <1>1. NoticeInit => RoleInv /\ NoticeInv
    BY NoticeStarts, InitInv DEF NoticeInit
  <1>2. RoleInv /\ NoticeInv /\ [NoticeNext]_<<vars, noticed>> => (RoleInv /\ NoticeInv)'
    <2>1. [NoticeNext]_<<vars, noticed>> => [Next]_vars
      BY DEF NoticeNext
    <2> QED BY <2>1, NoticeStep, StepInv
  <1>3. RoleInv /\ NoticeInv /\ [NoticeNext]_<<vars, noticed>>
          => [NoticeOfStep]_<<vars, noticed>>
    BY RolesComeWithNotice DEF NoticeNext
  <1>4. NoticeSpec => [][NoticeOfStep]_<<vars, noticed>>
    BY <1>1, <1>2, <1>3, PTL DEF NoticeSpec
  <1> QED BY <1>4 DEF NoticeOfStep, NoRoleWithoutNotice
=============================================================================
