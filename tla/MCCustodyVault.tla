---------------------------- MODULE MCCustodyVault ----------------------------
(***************************************************************************)
(* Custody of units for TLC, in scenes chosen at the start.                *)
(*   Passports: an investor whose passport comes and goes, an outsider no  *)
(*     provider approves, a delivery escrow and a burn-only vault under    *)
(*     one operator, who is always free to act; seizures and blocks.       *)
(*   Roles: one of the two vaults and the investor, under two operators    *)
(*     with pauses and every grant, removal and rotation of roles.         *)
(*                                                                         *)
(* Two histories: who signed the last step, because a seizure and the      *)
(* holder's own push look alike, and for how long a holder has had no      *)
(* valid passport, because an entry only shows the latest decision.        *)
(***************************************************************************)
EXTENDS CustodyVault

CONSTANTS investor, outsider, delivery, quarantine, op1, op2,
          InvestorUnits, OutsiderUnits

ASSUME InvestorHolds == investor \in Holders

VARIABLES scene, signer, lapsed

mcVars == <<vars, scene, signer, lapsed>>

MCStartUnits == [h \in Holders |-> IF h = investor THEN InvestorUnits ELSE OutsiderUnits]
MCOpenTypes == [v \in VaultIds |->
    IF v = delivery THEN {"DeliveryEscrow"} ELSE {"RedemptionQueue", "Vesting"}]

Passports == "passports"
Scenes == {Passports} \cup VaultIds     \* the scene of a vault's roles is its id

Actors == IF scene = Passports THEN Holders ELSE {investor}

\* A vesting vault is a redemption queue without seizures; here all are queues.
IsQueue(v) == Exists(v) /\ ~IsDelivery(v) => vaults[v].type = "RedemptionQueue"

PassportsStep ==
    \/ \E h \in Holders : PassportStep(h) \/ SeizureStep(h)
    \/ \E v \in VaultIds : VaultStep(v) /\ IsQueue(v)'
    \/ \E x \in Blockable : SetBlocked(x)

\* The passport plays no part in it but for a realize: one decision is enough.
RolesStep ==
    \/ kyc[investor] = NoEntry /\ ApproveHolder(investor, now + MAX_KYC_VALIDITY_SECS)
    \/ VaultStep(scene) \/ RotationStep(scene)
    \/ RoleStep \/ SetPaused

ServiceStep ==
    \/ scene = Passports /\ PassportsStep
    \/ scene # Passports /\ RolesStep
    \/ Tick

CustodyInit ==
    /\ Init
    /\ scene \in Scenes /\ signer = "none" /\ lapsed = [h \in Holders |-> 0]

\* Longer than the grace period is long enough.
Lapsing(h) ==
    IF kyc'[h] = NoEntry \/ Eligible(h)' THEN 0
    ELSE Min({lapsed[h] + now' - now, KYC_EXPIRY_CLAWBACK_GRACE_SECS + 1})

CustodyNext ==
    /\ \/ \E h \in Actors : HolderStep(h) /\ signer' = h
       \/ ServiceStep /\ signer' = "none"
    /\ lapsed' = [h \in Holders |-> Lapsing(h)]
    /\ UNCHANGED scene

CustodySpec == CustodyInit /\ [][CustodyNext]_mcVars /\ Cranks

Seized(h) ==
    \E v \in VaultIds : Held(v)' - Held(v) = Holding(h) - Holding(h)'
Realized(h) ==
    \E v \in VaultIds : Exists(v) /\ vaults[v].beneficiary = h /\ vaults'[v].state = "Realized"

(* A holder's property, in its wallet or in its own delivery escrows, only   *)
(* shrinks by its own signature, by a seizure while it is revoked, blocked   *)
(* or has been without a valid passport for the whole grace period, or by a  *)
(* conversion of what it deposited while it is eligible.                     *)
NobodyLosesUnawares ==
    [][\A h \in Holders : Holding(h)' < Holding(h) =>
          \/ signer' = h
          \/ Seized(h) /\ (\/ h \in blocked \/ kyc[h].status = "Revoked"
                           \/ lapsed[h] > KYC_EXPIRY_CLAWBACK_GRACE_SECS)
          \/ Realized(h) /\ Eligible(h)]_mcVars
=============================================================================
