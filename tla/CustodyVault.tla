----------------------------- MODULE CustodyVault -----------------------------
(***************************************************************************)
(* Custody vaults of one KycGated share class: delivery escrows, which     *)
(* take a holder's own units and give them back or burn them, and the      *)
(* burn-only vaults that are minted into or that take seized units.  With  *)
(* them the clawbacks, the passports (KycEntry) that justify both, the     *)
(* roles that may decide, and the rotation of a vault's operator.          *)
(*                                                                         *)
(* A vault's escrow is an ordinary token account: while the vault has its  *)
(* EscrowMarker anybody may push units into it, and they leave it without  *)
(* the hook's receiver check.  The ledger `deposited' says what of the     *)
(* balance is the beneficiary's.                                           *)
(***************************************************************************)
EXTENDS Integers, FiniteSets, FiniteSetsExt

CONSTANTS
    Keys, FirstAdmin,       \* operators, and the one that starts as super admin
    Holders,                \* wallets that hold or receive units
    Approvable,             \* holders the provider may ever approve
    Blockable,              \* wallets and vaults the BlocklistAuthority may block
    VaultIds, OpenTypes,    \* ids, and the types each may be opened with
    StartUnits,
    Lots,                   \* units that are moved or minted at once
    Deadlines,              \* deadlines a vault is opened with; 0 is none
    KYC_EXPIRY_CLAWBACK_GRACE_SECS, MAX_KYC_VALIDITY_SECS,
    DELIVERY_ESCROW_MIN_DEADLINE_SECS, DELIVERY_ESCROW_MAX_DEADLINE_SECS,
    PROPOSAL_WINDOW_SECS,
    MaxSupply,              \* the class's authorized supply
    MaxTime                 \* bound: the clock stops here

ASSUME CustodyAssumption ==
    /\ FirstAdmin \in Keys
    /\ IsFiniteSet(Holders) /\ IsFiniteSet(VaultIds)
    /\ Holders \cap VaultIds = {} /\ Approvable \subseteq Holders
    /\ Blockable \subseteq Holders \cup VaultIds
    /\ OpenTypes \in [VaultIds -> SUBSET {"DeliveryEscrow", "RedemptionQueue", "Vesting"}]
    /\ StartUnits \in [Holders -> Nat]
    /\ Lots \subseteq Nat \ {0} /\ Deadlines \subseteq Nat
    /\ {KYC_EXPIRY_CLAWBACK_GRACE_SECS, MAX_KYC_VALIDITY_SECS,
        DELIVERY_ESCROW_MIN_DEADLINE_SECS, DELIVERY_ESCROW_MAX_DEADLINE_SECS,
        PROPOSAL_WINDOW_SECS, MaxSupply, MaxTime} \subseteq Nat

VARIABLES
    now,
    paused,                 \* PAUSE_CUSTODY_ENTRY
    admin, admins,          \* Platform.admin; keys with an Admin record
    kyc, blocked,           \* KycEntry accounts; BlockEntry accounts of the hook
    units,                  \* share units in each holder's wallet
    circulating_supply,
    vaults,                 \* CustodyVault accounts with their escrows
    transfers               \* AuthorityProposal of each vault

vars == <<now, paused, admin, admins, kyc, blocked, units, circulating_supply,
          vaults, transfers>>
roles == <<admin, admins, transfers>>
environment == <<now, paused, kyc, blocked, roles>>

NoEntry       == [status |-> "none"]
NoProposal    == [new |-> "none"]
NoBeneficiary == "default"
(* An account that was never created, and what reclaim_rent leaves of one.   *)
Absent    == [state |-> "Absent"]
Tombstone == [state |-> "Tombstone"]

VaultTypes == {"DeliveryEscrow", "RedemptionQueue", "Vesting"}
Terminal   == {"Realized", "Reverted", "Returned"}
Exists(v)     == vaults[v] \notin {Absent, Tombstone}
\* The EscrowMarker: every terminal path closes it.
IsLive(v)     == vaults[v].state \in {"Active", "Triggered"}
IsActive(v)   == vaults[v].state = "Active"
IsDelivery(v) == vaults[v].type = "DeliveryEscrow"

Total(f, S) == MapThenSumSet(LAMBDA x : f[x], S)

Init ==
    /\ now = 0 /\ paused = FALSE
    /\ admin = FirstAdmin /\ admins = {FirstAdmin}
    /\ kyc = [h \in Holders |-> NoEntry] /\ blocked = {}
    /\ units = StartUnits /\ circulating_supply = Total(StartUnits, Holders)
    /\ vaults = [v \in VaultIds |-> Absent]
    /\ transfers = [v \in VaultIds |-> NoProposal]

-----------------------------------------------------------------------------
(* Passports and the hook.  The registry's jurisdiction lists allow every    *)
(* holder that is approved here.                                             *)
Eligible(x) == x \in Holders /\ kyc[x].status = "Approved" /\ kyc[x].expiry > now
IsMarked(x) == x \in VaultIds /\ IsLive(x)

HookPasses(source, destination) ==
    /\ source \notin blocked
    /\ IsMarked(destination) \/ IsMarked(source) \/ Eligible(destination)

ApproveHolder(h, expiry) ==
    /\ h \in Approvable
    /\ expiry > now /\ expiry <= now + MAX_KYC_VALIDITY_SECS
    /\ kyc' = [kyc EXCEPT ![h] = [status |-> "Approved", expiry |-> expiry]]
    /\ UNCHANGED <<now, paused, blocked, roles, units, circulating_supply, vaults>>

RevokeHolder(h) ==
    /\ kyc[h] # NoEntry
    /\ kyc' = [kyc EXCEPT ![h].status = "Revoked"]
    /\ UNCHANGED <<now, paused, blocked, roles, units, circulating_supply, vaults>>

ReclaimKycEntry(h) ==
    /\ kyc[h].status = "Revoked" /\ kyc[h].expiry <= now
    /\ kyc' = [kyc EXCEPT ![h] = NoEntry]
    /\ UNCHANGED <<now, paused, blocked, roles, units, circulating_supply, vaults>>

SetBlocked(x) ==
    /\ x \in Blockable
    /\ blocked' = IF x \in blocked THEN blocked \ {x} ELSE blocked \cup {x}
    /\ UNCHANGED <<now, paused, kyc, roles, units, circulating_supply, vaults>>

-----------------------------------------------------------------------------
(* The life of a vault.                                                      *)
OpenCustodyVault(by, v, type, deadline, beneficiary) ==
    /\ by \in admins
    /\ type = "RedemptionQueue" \/ ~paused
    /\ vaults[v] = Absent
    /\ (type = "DeliveryEscrow") <=> (beneficiary # NoBeneficiary)
    /\ type = "DeliveryEscrow" =>
          deadline \in now + DELIVERY_ESCROW_MIN_DEADLINE_SECS
                       .. now + DELIVERY_ESCROW_MAX_DEADLINE_SECS
    /\ vaults' = [vaults EXCEPT ![v] =
          [state |-> "Active", type |-> type, authority |-> by, deadline |-> deadline,
           beneficiary |-> beneficiary, deposited |-> 0, escrow |-> 0]]
    /\ UNCHANGED <<environment, units, circulating_supply>>

DepositToCustodyVault(v, n) ==
    LET depositor == vaults[v].beneficiary IN
    /\ ~paused
    /\ IsActive(v) /\ IsDelivery(v)
    /\ units[depositor] >= n /\ HookPasses(depositor, v)
    /\ units' = [units EXCEPT ![depositor] = @ - n]
    /\ vaults' = [vaults EXCEPT ![v].deposited = @ + n, ![v].escrow = @ + n]
    /\ UNCHANGED <<environment, circulating_supply>>

(* The other conditions of a mint, and its other destinations, are           *)
(* PrimarySale's.                                                            *)
MintToVault(v, n) ==
    /\ IsActive(v) /\ ~IsDelivery(v)
    /\ circulating_supply + n <= MaxSupply
    /\ circulating_supply' = circulating_supply + n
    /\ vaults' = [vaults EXCEPT ![v].escrow = @ + n]
    /\ UNCHANGED <<environment, units>>

AuthorityDecides(v) == vaults[v].authority \in admins
PastDeadline(v) == vaults[v].deadline > 0 /\ now >= vaults[v].deadline

TriggerCustodyVault(v) ==
    /\ IsActive(v) /\ AuthorityDecides(v)
    /\ vaults' = [vaults EXCEPT ![v].state = "Triggered"]
    /\ UNCHANGED <<environment, units, circulating_supply>>

\* Slip: only what was deposited is taken out of the supply.
BurnedDeposit(v) == vaults[v].deposited
Burned(v) == vaults[v].escrow

BurnEscrow(v, state) ==
    /\ circulating_supply' = circulating_supply - Burned(v)
    /\ vaults' = [vaults EXCEPT ![v].escrow = 0, ![v].state = state]
    /\ UNCHANGED <<environment, units>>

RealizeCustodyVault(v) ==
    /\ vaults[v].state = "Triggered" /\ AuthorityDecides(v)
    /\ IsDelivery(v) => Eligible(vaults[v].beneficiary)
    /\ BurnEscrow(v, "Realized")

RevertCustodyVault(v) ==
    /\ IsActive(v) /\ ~IsDelivery(v)
    /\ now >= vaults[v].deadline
    /\ AuthorityDecides(v) \/ vaults[v].deadline > 0
    /\ BurnEscrow(v, "Reverted")

\* Slip: before the deadline rule, a triggered vault waited for its authority.
UntriggeredPastDeadline(v) == AuthorityDecides(v) \/ (PastDeadline(v) /\ IsActive(v))
MayReturn(v) == AuthorityDecides(v) \/ PastDeadline(v)

\* Slip: the payee takes whatever the escrow holds.
ReleaseBalance(balance, ledger, receiver) == balance
(* split_escrow_release: the payee's own deposit without any check, what     *)
(* somebody else pushed only to an eligible payee.                           *)
Release(balance, ledger, receiver) ==
    IF Eligible(receiver) THEN balance ELSE Min({balance, ledger})

\* Slip: a ledger that is kept.
SpentNothing(balance, ledger, payout) == 0
Spent(balance, ledger, payout) == Min({balance, ledger})

(* A return that withholds a surplus leaves the vault as it is, with a spent *)
(* ledger.                                                                   *)
ReturnCustodyVault(v) ==
    LET vault  == vaults[v]
        payout == Release(vault.escrow, vault.deposited, vault.beneficiary)
    IN  /\ IsLive(v) /\ IsDelivery(v)
        /\ MayReturn(v)
        /\ payout > 0 \/ vault.escrow = 0
        /\ payout > 0 => HookPasses(v, vault.beneficiary)
        /\ units' = [units EXCEPT ![vault.beneficiary] = @ + payout]
        /\ vaults' = [vaults EXCEPT
              ![v].escrow = @ - payout,
              ![v].deposited = @ - Spent(vault.escrow, @, payout),
              ![v].state = IF payout = vault.escrow THEN "Returned" ELSE @]
        /\ UNCHANGED <<environment, circulating_supply>>

ReclaimVault(v) ==
    /\ vaults[v].state \in Terminal /\ vaults[v].escrow = 0
    /\ vaults' = [vaults EXCEPT ![v] = Tombstone]
    /\ UNCHANGED <<environment, units, circulating_supply>>

-----------------------------------------------------------------------------
(* Units that move past the vaults' own instructions.                        *)
Transfer(h, to, n) ==
    /\ h # to /\ units[h] >= n /\ HookPasses(h, to)
    /\ units' = [units EXCEPT ![h] = @ - n, ![to] = @ + n]
    /\ UNCHANGED <<environment, circulating_supply, vaults>>

IntoEscrow(h, v, n) ==
    /\ units[h] >= n
    /\ units' = [units EXCEPT ![h] = @ - n]
    /\ vaults' = [vaults EXCEPT ![v].escrow = @ + n]
    /\ UNCHANGED <<environment, circulating_supply>>

Push(h, v, n) == IsMarked(v) /\ HookPasses(h, v) /\ IntoEscrow(h, v, n)

(* seize_into_quarantine: the hook lets the share class's permanent delegate *)
(* through, also from a blocked holder.  An Admin signs.                     *)
Seizures(h) == (Lots \cup {units[h]}) \ {0}
SeizeIntoQuarantine(h, v, n) ==
    /\ admins # {}
    /\ IsActive(v) /\ vaults[v].type = "RedemptionQueue"
    /\ IntoEscrow(h, v, n)

\* Slip: an expired passport is as bad as a revoked one.
SeizableOnExpiry(h) == kyc[h].status = "Revoked" \/ kyc[h].expiry <= now
Seizable(h) ==
    kyc[h].status = "Revoked" \/ kyc[h].expiry + KYC_EXPIRY_CLAWBACK_GRACE_SECS <= now

ClawbackFromHolder(h, v, n) ==
    /\ kyc[h] # NoEntry /\ Seizable(h)
    /\ SeizeIntoQuarantine(h, v, n)

ClawbackBlocklistedHolder(h, v, n) ==
    /\ h \in blocked
    /\ SeizeIntoQuarantine(h, v, n)

-----------------------------------------------------------------------------
(* Roles.  How a key becomes an Admin or the super admin is the business of  *)
(* PlatformGovernance; here it happens at any time.                          *)
SetPaused ==
    /\ paused' = ~paused
    /\ UNCHANGED <<now, kyc, blocked, roles, units, circulating_supply, vaults>>

AddAdmin(k) ==
    /\ k \notin admins /\ admins' = admins \cup {k}
    /\ UNCHANGED <<now, paused, kyc, blocked, admin, transfers, units,
                   circulating_supply, vaults>>

RemoveAdmin(k) ==
    /\ k # admin /\ k \in admins /\ admins' = admins \ {k}
    /\ UNCHANGED <<now, paused, kyc, blocked, admin, transfers, units,
                   circulating_supply, vaults>>

InstallAdmin(k) ==
    /\ k # admin /\ admin' = k /\ admins' = (admins \ {admin}) \cup {k}
    /\ UNCHANGED <<now, paused, kyc, blocked, transfers, units,
                   circulating_supply, vaults>>

ProposeCustodyAuthority(v, k) ==
    /\ IsLive(v)
    /\ k \in admins /\ k # vaults[v].authority
    /\ transfers' = [transfers EXCEPT ![v] =
          [current |-> vaults[v].authority, new |-> k, proposed_by |-> admin,
           expires_at |-> now + PROPOSAL_WINDOW_SECS]]
    /\ UNCHANGED <<now, paused, kyc, blocked, admin, admins, units,
                   circulating_supply, vaults>>

AcceptCustodyAuthority(v) ==
    /\ IsLive(v)
    /\ transfers[v] # NoProposal
    /\ transfers[v].current = vaults[v].authority
    /\ transfers[v].proposed_by = admin
    /\ transfers[v].new \in admins
    /\ now < transfers[v].expires_at
    /\ vaults' = [vaults EXCEPT ![v].authority = transfers[v].new]
    /\ transfers' = [transfers EXCEPT ![v] = NoProposal]
    /\ UNCHANGED <<now, paused, kyc, blocked, admin, admins, units, circulating_supply>>

\* The super admin may cancel any pending proposal, as long as there is a vault.
CancelCustodyAuthorityTransfer(v) ==
    /\ Exists(v)
    /\ transfers[v] # NoProposal
    /\ transfers' = [transfers EXCEPT ![v] = NoProposal]
    /\ UNCHANGED <<now, paused, kyc, blocked, admin, admins, units,
                   circulating_supply, vaults>>

Tick ==
    /\ now < MaxTime /\ now' = now + 1
    /\ UNCHANGED <<paused, kyc, blocked, roles, units, circulating_supply, vaults>>

-----------------------------------------------------------------------------
\* What a holder signs for itself.
HolderStep(h) ==
    \/ \E to \in Holders, n \in Lots : Transfer(h, to, n)
    \/ \E v \in VaultIds, n \in Lots : Push(h, v, n)
    \/ \E v \in VaultIds, n \in Lots :
         Exists(v) /\ vaults[v].beneficiary = h /\ DepositToCustodyVault(v, n)

PassportStep(h) ==
    \/ \E expiry \in 0 .. MaxTime + MAX_KYC_VALIDITY_SECS : ApproveHolder(h, expiry)
    \/ RevokeHolder(h) \/ ReclaimKycEntry(h)

SeizureStep(h) ==
    \E v \in VaultIds, n \in Seizures(h) :
        ClawbackFromHolder(h, v, n) \/ ClawbackBlocklistedHolder(h, v, n)

VaultStep(v) ==
    \/ \E by \in Keys, type \in OpenTypes[v], deadline \in Deadlines,
          beneficiary \in Holders \cup {NoBeneficiary} :
            OpenCustodyVault(by, v, type, deadline, beneficiary)
    \/ \E n \in Lots : MintToVault(v, n)
    \/ TriggerCustodyVault(v) \/ RealizeCustodyVault(v) \/ RevertCustodyVault(v)
    \/ ReturnCustodyVault(v) \/ ReclaimVault(v)

RotationStep(v) ==
    \/ \E k \in Keys : ProposeCustodyAuthority(v, k)
    \/ AcceptCustodyAuthority(v) \/ CancelCustodyAuthorityTransfer(v)

RoleStep == \E k \in Keys : AddAdmin(k) \/ RemoveAdmin(k) \/ InstallAdmin(k)

Next ==
    \/ \E h \in Holders : HolderStep(h) \/ PassportStep(h) \/ SeizureStep(h)
    \/ \E v \in VaultIds : VaultStep(v) \/ RotationStep(v)
    \/ \E x \in Blockable : SetBlocked(x)
    \/ RoleStep \/ SetPaused \/ Tick

(* Anybody can send the return of a vault past its deadline, and time goes   *)
(* on.  Nobody is obliged to anything else.                                  *)
OverdueReturn(v) == IsLive(v) /\ PastDeadline(v) /\ ReturnCustodyVault(v)
Cranks == WF_vars(Tick) /\ \A v \in VaultIds : WF_vars(OverdueReturn(v))

Spec == Init /\ [][Next]_vars /\ Cranks

-----------------------------------------------------------------------------
Proposals == [current : Keys, new : Keys, proposed_by : Keys, expires_at : Nat]

\* The types of the variables, nothing more.
TypeOK ==
    /\ now \in 0 .. MaxTime /\ paused \in BOOLEAN
    /\ admin \in admins /\ admins \subseteq Keys
    /\ blocked \subseteq Blockable
    /\ units \in [Holders -> Nat] /\ circulating_supply \in Nat
    /\ \A h \in Holders :
          kyc[h] \in {NoEntry} \cup [status : {"Approved", "Revoked"}, expiry : Nat]
    /\ \A v \in VaultIds :
          /\ vaults[v] \in {Absent, Tombstone} \cup
                [state : {"Active", "Triggered"} \cup Terminal, type : VaultTypes,
                 authority : Keys, deadline : Nat,
                 beneficiary : Holders \cup {NoBeneficiary},
                 deposited : Nat, escrow : Nat]
          /\ transfers[v] \in {NoProposal} \cup Proposals

Held(v) == IF Exists(v) THEN vaults[v].escrow ELSE 0
OwnDeposits(h) ==
    Total([v \in VaultIds |->
              IF IsLive(v) /\ vaults[v].beneficiary = h THEN vaults[v].deposited ELSE 0],
          VaultIds)
\* What belongs to a holder: its wallet, and what it has deposited itself.
Holding(h) == units[h] + OwnDeposits(h)

(* Every unit of the class is in a wallet or in the escrow of a vault that   *)
(* still has an exit, whatever was pushed, seized, minted, burned and        *)
(* partly returned; a live vault's ledger never promises more than it has,   *)
(* and no balance is negative.                                               *)
UnitsAccounted ==
    /\ TypeOK
    /\ circulating_supply =
          Total(units, Holders) + Total([v \in VaultIds |-> Held(v)], VaultIds)
    /\ \A v \in VaultIds :
          /\ ~IsLive(v) => Held(v) = 0
          /\ IsLive(v) => vaults[v].deposited <= vaults[v].escrow

(* "Every exit burns": units that a mint, a push or a seizure brought into a *)
(* vault that is no delivery escrow leave it only out of circulation.        *)
QuarantineOnlyBurns ==
    [][\A v \in VaultIds :
          Exists(v) /\ ~IsDelivery(v) /\ Held(v)' < Held(v) =>
              circulating_supply' = circulating_supply - (Held(v) - Held(v)')]_vars

(* Nobody's holding grows without a valid passport, by no sequence of mints, *)
(* pushes into somebody's delivery escrow and returns.                       *)
OnlyVettedHoldMore ==
    [][\A h \in Holders : Holding(h)' > Holding(h) => Eligible(h)]_vars

(* A deposit does not stay in a vault past its deadline: it has gone back or *)
(* was realized for an eligible beneficiary, also if the vault was triggered *)
(* and its operator lost its role, and however often units were pushed in.   *)
DepositComesBack ==
    \A v \in VaultIds :
        (IsLive(v) /\ vaults[v].deposited > 0 /\ vaults[v].deadline <= MaxTime)
            ~> (~IsLive(v) \/ vaults[v].deposited = 0)
=============================================================================
