----------------------------- MODULE PrimarySale -----------------------------
(***************************************************************************)
(* Primary issuance of one share class (programs/asset_registry).          *)
(*                                                                         *)
(* An Admin reviews an application and approves exactly one sale under a   *)
(* sale id (approve_sale); the issuer opens it within those terms          *)
(* (open_sale, which consumes the approval); buyers pay into the proceeds  *)
(* escrow of the sale and units are minted to them (buy).  A Mature sale   *)
(* is closed by sweeping the proceeds to the issuer (close_sale), a        *)
(* Startup sale by moving them into a payout vault (open_payout_vault,     *)
(* whose life after that is module PayoutVault).  Units also come from     *)
(* mint_to_treasury and go with the burns of a custody vault, and all of   *)
(* it shares the supply cap and the supply lock of the class.              *)
(*                                                                         *)
(* Admins come and go while approvals are outstanding; pauses, the issuer  *)
(* freeze, KYB and the blocklist (together: brakes) are put on and taken   *)
(* off at any moment.                                                      *)
(***************************************************************************)
EXTENDS Integers, Clock

CONSTANTS
    SaleIds, Admins,
    Issuer,                 \* the issuer authority: a key that may be an Admin
    Classes,                \* [max_supply, cumulative_cap, mintable_post_launch]
    ApprovalTerms,          \* what approve_sale may be called with
    SaleTerms,              \* what open_sale may be called with
    Amounts,                \* units of a buy, a treasury mint or a burn
    BrakeSets,              \* combinations of brakes the environment may set
    SALE_APPROVAL_MAX_TTL, MAX_SALE_DURATION,  \* constants.rs, in ticks
    NoApproval, NoSale,     \* accounts that do not exist
    MaxMinted               \* bound: units ever issued

BrakeNames == {"PAUSE_PRIMARY", "PAUSE_PAYOUT_MODULES", "PAUSE_ISSUER_PROCEEDS",
               "IssuerFreeze", "IssuerNotVerified", "IssuerBlocked", "BuyerIneligible"}

RaiseTypes == {"Mature", "Startup"}

ApprovalTerm == [raise_type : RaiseTypes, max_gross : Nat, min_price : Nat,
                 max_price : Nat, ttl : Int, cliff : 0..255, vesting : 0..255]
SaleTerm == [raise_type : RaiseTypes, price : Nat, total : Nat, start_in : Int,
             duration : Int, cliff : 0..255, vesting : 0..255]

ASSUME ConstantsAssumption ==
    /\ Classes \subseteq [max_supply : Nat, cumulative_cap : BOOLEAN,
                          mintable_post_launch : BOOLEAN]
    /\ ApprovalTerms \subseteq ApprovalTerm
    /\ SaleTerms \subseteq SaleTerm
    /\ Amounts \subseteq Nat
    /\ BrakeSets \subseteq SUBSET BrakeNames /\ {} \in BrakeSets
    /\ SALE_APPROVAL_MAX_TTL \in Nat /\ MAX_SALE_DURATION \in Nat
    /\ MaxTime \in Nat /\ MaxMinted \in Nat

VARIABLES
    brakes,
    admins,                 \* keys with an Admin record
    class,                  \* fixed terms of the share class
    supply_locked, circulating_supply, lifetime_minted,
    approvals,              \* SaleApproval accounts by sale id
    sales,                  \* Sale accounts by sale id; never closed
    proceeds,               \* balance of each sale's proceeds escrow
    \* history
    reviewed,               \* the approval each sale was opened with
    paidOut,                \* proceeds swept to the issuer, by sale
    vaulted,                \* proceeds moved into a payout vault, by sale
    treasuryMinted, burned

env    == <<now, brakes, admins>>
supply == <<class, supply_locked, circulating_supply, lifetime_minted,
            treasuryMinted, burned>>
money  == <<proceeds, paidOut, vaulted>>
vars == <<env, supply, approvals, sales, reviewed, money>>

Off(names) == brakes \cap names = {}

SaleIdsTo(S) == [SaleIds -> S]

Init ==
    /\ now = 0 /\ brakes = {} /\ admins = Admins
    /\ class \in Classes
    /\ supply_locked = FALSE
    /\ circulating_supply = 0 /\ lifetime_minted = 0
    /\ treasuryMinted = 0 /\ burned = 0
    /\ approvals = [s \in SaleIds |-> NoApproval]
    /\ sales = [s \in SaleIds |-> NoSale]
    /\ reviewed = [s \in SaleIds |-> NoApproval]
    /\ proceeds = [s \in SaleIds |-> 0]
    /\ paidOut = [s \in SaleIds |-> 0] /\ vaulted = [s \in SaleIds |-> 0]

-----------------------------------------------------------------------------
(* Environment.  Granting the Admin role is timelocked elsewhere; to this    *)
(* component a key simply gains or loses its record.                         *)

Tick ==
    /\ ClockTicks
    /\ UNCHANGED <<brakes, admins, supply, approvals, sales, reviewed, money>>

SetBrakes ==
    /\ brakes' \in BrakeSets \ {brakes}
    /\ UNCHANGED <<now, admins, supply, approvals, sales, reviewed, money>>

RemoveAdmin(admin) ==
    /\ admin \in admins
    /\ admins' = admins \ {admin}
    /\ UNCHANGED <<now, brakes, supply, approvals, sales, reviewed, money>>

AddAdmin(admin) ==
    /\ admin \in Admins \ admins
    /\ admins' = admins \cup {admin}
    /\ UNCHANGED <<now, brakes, supply, approvals, sales, reviewed, money>>

-----------------------------------------------------------------------------
(* A sale id is free until a Sale account exists, which then stays for ever. *)
IsFree(s) == sales[s] = NoSale

(* approve_sale: not a pause-gated entry; the account is `init`, so one live *)
(* approval per sale id, and the Sale address must still be empty.           *)
ApproveSale(admin, s, t) ==
    /\ admin \in admins
    /\ Off({"IssuerNotVerified"})
    /\ IsFree(s)
    /\ approvals[s] = NoApproval
    /\ t.max_gross > 0
    /\ t.min_price > 0 /\ t.min_price <= t.max_price
    /\ t.ttl > 0 /\ t.ttl <= SALE_APPROVAL_MAX_TTL
    /\ \/ t.raise_type = "Mature" /\ t.cliff = 0 /\ t.vesting = 0
       \/ t.raise_type = "Startup" /\ t.vesting > t.cliff
    /\ approvals' = [approvals EXCEPT ![s] =
          [raise_type |-> t.raise_type, max_gross |-> t.max_gross,
           min_price |-> t.min_price, max_price |-> t.max_price,
           expires_at |-> now + t.ttl, cliff |-> t.cliff, vesting |-> t.vesting,
           approved_by |-> admin]]
    /\ UNCHANGED <<env, supply, sales, reviewed, money>>

(* revoke_sale_approval: any Admin, live or expired, in every pause.         *)
RevokeSaleApproval(admin, s) ==
    /\ admin \in admins
    /\ approvals[s] # NoApproval
    /\ approvals' = [approvals EXCEPT ![s] = NoApproval]
    /\ UNCHANGED <<env, supply, sales, reviewed, money>>

(* The terms open_sale holds against the approval it consumes.               *)
\* Slip: units are held against an amount of money.
WithinGrossInUnits(t, approval) == t.total <= approval.max_gross
WithinGross(t, approval) == t.price * t.total <= approval.max_gross

WithinApproval(t, approval) ==
    /\ now <= approval.expires_at
    /\ t.raise_type = approval.raise_type
    /\ t.cliff = approval.cliff /\ t.vesting = approval.vesting
    /\ now + t.start_in <= approval.expires_at
    /\ t.price >= approval.min_price /\ t.price <= approval.max_price
    /\ WithinGross(t, approval)

OpenSale(s, t) ==
    LET start == now + t.start_in
        end   == start + t.duration
    IN /\ Off({"PAUSE_PRIMARY", "IssuerFreeze", "IssuerNotVerified"})
       /\ t.raise_type = "Startup" => Off({"PAUSE_PAYOUT_MODULES"})
       /\ IsFree(s)
       /\ approvals[s] # NoApproval
       /\ approvals[s].approved_by \in admins
       /\ t.total > 0 /\ t.price > 0
       /\ end > 0 /\ end > start
       /\ end <= (IF start > now THEN start ELSE now) + MAX_SALE_DURATION
       /\ t.raise_type = "Startup" => t.vesting > t.cliff
       /\ WithinApproval(t, approvals[s])
       /\ sales' = [sales EXCEPT ![s] =
             [status |-> "Open", raise_type |-> t.raise_type, price |-> t.price,
              total |-> t.total, sold |-> 0, start_ts |-> start, end_ts |-> end,
              cliff |-> t.cliff, vesting |-> t.vesting]]
       /\ approvals' = [approvals EXCEPT ![s] = NoApproval]
       /\ reviewed' = [reviewed EXCEPT ![s] = approvals[s]]
       /\ UNCHANGED <<env, supply, money>>

-----------------------------------------------------------------------------
(* next_issuance_supply: a PhysicalGood class is capped over its lifetime,   *)
(* any other over what circulates, so its burned units may be issued again.  *)
\* Slip: every class is capped over what circulates.
WithinCapOfCirculation(amount) == circulating_supply + amount <= class.max_supply
WithinCap(amount) ==
    IF class.cumulative_cap
    THEN lifetime_minted + amount <= class.max_supply
    ELSE circulating_supply + amount <= class.max_supply

\* Slip: under the lock, burned units may still be replaced.
MayMintReplacements ==
    ~supply_locked \/ class.mintable_post_launch \/ burned > 0
MayMint == ~supply_locked \/ class.mintable_post_launch

LifetimeAfter(amount) == lifetime_minted + amount

Issue(amount) ==
    /\ MayMint
    /\ WithinCap(amount)
    /\ LifetimeAfter(amount) <= MaxMinted
    /\ circulating_supply' = circulating_supply + amount
    /\ lifetime_minted' = LifetimeAfter(amount)

(* A sale on which units can be bought, or which can be settled.             *)
IsOpen(s) == sales[s] # NoSale /\ sales[s].status = "Open"

Buy(s, amount) ==
    /\ IsOpen(s)
    /\ Off({"PAUSE_PRIMARY", "IssuerFreeze", "IssuerNotVerified", "BuyerIneligible"})
    /\ sales[s].raise_type = "Startup" => Off({"PAUSE_PAYOUT_MODULES"})
    /\ amount > 0
    /\ now >= sales[s].start_ts
    /\ sales[s].end_ts = 0 \/ now <= sales[s].end_ts
    /\ sales[s].sold + amount <= sales[s].total
    /\ Issue(amount)
    /\ proceeds' = [proceeds EXCEPT ![s] = proceeds[s] + sales[s].price * amount]
    /\ sales' = [sales EXCEPT ![s].sold = sales[s].sold + amount]
    /\ UNCHANGED <<env, class, supply_locked, treasuryMinted, burned,
                   approvals, reviewed, paidOut, vaulted>>

(* mint_to_treasury: to the issuer's own account only if its key is a        *)
(* platform Admin, else into an admin-made escrow whose exits burn or are    *)
(* KYC-checked.  Neither the issuer freeze nor a blocked issuer stops it.    *)
MintToTreasury(amount, destination) ==
    /\ Off({"PAUSE_PRIMARY", "IssuerNotVerified"})
    /\ destination = "treasury" => Issuer \in admins
    /\ Issue(amount)
    /\ treasuryMinted' = treasuryMinted + amount
    /\ UNCHANGED <<env, class, supply_locked, burned, approvals, sales,
                   reviewed, money>>

\* Slip: the burn is not held against what circulates.
BurnableAny(amount) == amount > 0
Burnable(amount) == amount > 0 /\ amount <= circulating_supply

(* realize_custody_vault and revert_custody_vault burn what their escrow     *)
(* holds; to this component, some of the units in circulation.               *)
BurnFromCustody(amount) ==
    /\ Burnable(amount)
    /\ circulating_supply' = circulating_supply - amount
    /\ burned' = burned + amount
    /\ UNCHANGED <<env, class, supply_locked, lifetime_minted, treasuryMinted,
                   approvals, sales, reviewed, money>>

LockSupply(admin) ==
    /\ admin \in admins
    /\ supply_locked' = TRUE
    /\ UNCHANGED <<env, class, circulating_supply, lifetime_minted,
                   treasuryMinted, burned, approvals, sales, reviewed, money>>

-----------------------------------------------------------------------------
Close(s) == sales' = [sales EXCEPT ![s].status = "Closed"]

\* Slip: a Startup sale can be swept too.
SweptToIssuerAny(s) == TRUE
SweptToIssuer(s) == sales[s].raise_type = "Mature"
MaySweep == Off({"PAUSE_ISSUER_PROCEEDS", "IssuerFreeze", "IssuerBlocked"})

(* close_sale sweeps the whole balance, at any time in the sale's window.    *)
CloseSale(s) ==
    /\ IsOpen(s)
    /\ SweptToIssuer(s)
    /\ MaySweep
    /\ paidOut' = [paidOut EXCEPT ![s] = paidOut[s] + proceeds[s]]
    /\ proceeds' = [proceeds EXCEPT ![s] = 0]
    /\ Close(s)
    /\ UNCHANGED <<env, supply, approvals, reviewed, vaulted>>

(* open_payout_vault, as seen from the sale.                                 *)
OpenPayoutVault(s) ==
    /\ IsOpen(s)
    /\ sales[s].raise_type = "Startup"
    /\ Off({"IssuerFreeze"})
    /\ proceeds[s] > 0
    /\ sales[s].vesting > sales[s].cliff
    /\ proceeds[s] >= sales[s].vesting - sales[s].cliff
    /\ vaulted' = [vaulted EXCEPT ![s] = vaulted[s] + proceeds[s]]
    /\ proceeds' = [proceeds EXCEPT ![s] = 0]
    /\ Close(s)
    /\ UNCHANGED <<env, supply, approvals, reviewed, paidOut>>

-----------------------------------------------------------------------------
Next ==
    \/ Tick
    \/ SetBrakes
    \/ \E a \in Admins : RemoveAdmin(a) \/ AddAdmin(a) \/ LockSupply(a)
    \/ \E a \in Admins, s \in SaleIds, t \in ApprovalTerms : ApproveSale(a, s, t)
    \/ \E a \in Admins, s \in SaleIds : RevokeSaleApproval(a, s)
    \/ \E s \in SaleIds, t \in SaleTerms : OpenSale(s, t)
    \/ \E s \in SaleIds, n \in Amounts : Buy(s, n)
    \/ \E n \in Amounts, d \in {"treasury", "escrow"} : MintToTreasury(n, d)
    \/ \E n \in Amounts : BurnFromCustody(n)
    \/ \E s \in SaleIds : CloseSale(s) \/ OpenPayoutVault(s)

Spec == Init /\ [][Next]_vars

-----------------------------------------------------------------------------
SaleApproval == [raise_type : RaiseTypes, max_gross : Nat, min_price : Nat,
                 max_price : Nat, expires_at : Int, cliff : 0..255,
                 vesting : 0..255, approved_by : Admins]
Sale == [status : {"Open", "Closed"}, raise_type : RaiseTypes, price : Nat,
         total : Nat, sold : Nat, start_ts : Int, end_ts : Int,
         cliff : 0..255, vesting : 0..255]

ASSUME NoSaleAssumption == NoSale \notin Sale

(* Types of the accounts (state.rs: ShareClass, Sale, SaleApproval).         *)
TypeOK ==
    /\ now \in Int /\ brakes \in BrakeSets /\ admins \subseteq Admins
    /\ class \in Classes /\ supply_locked \in BOOLEAN
    /\ circulating_supply \in Nat /\ lifetime_minted \in Nat
    /\ treasuryMinted \in Nat /\ burned \in Nat
    /\ approvals \in SaleIdsTo(SaleApproval \cup {NoApproval})
    /\ reviewed \in SaleIdsTo(SaleApproval \cup {NoApproval})
    /\ sales \in SaleIdsTo(Sale \cup {NoSale})
    /\ proceeds \in SaleIdsTo(Nat)
    /\ paidOut \in SaleIdsTo(Nat) /\ vaulted \in SaleIdsTo(Nat)

(* Whatever sales, treasury mints and burns interleave, the cap of the class *)
(* holds: over the lifetime for a PhysicalGood, over the circulating units   *)
(* for any other, also for several open sales that together offer more.      *)
SupplyCapped ==
    /\ class.cumulative_cap => lifetime_minted <= class.max_supply
    /\ circulating_supply <= class.max_supply
    /\ circulating_supply = lifetime_minted - burned

(* The review binds the raise: every sale was opened with an approval, at    *)
(* the reviewed price range, raise type and schedule, starts before that     *)
(* approval expired, can never gross more than was approved, and leaves no   *)
(* approval behind that could open it again.                                 *)
SaleWithinReview ==
    \A s \in SaleIds : sales[s] # NoSale =>
      LET sale == sales[s] review == reviewed[s]
      IN /\ review # NoApproval /\ approvals[s] = NoApproval
         /\ sale.raise_type = review.raise_type
         /\ sale.cliff = review.cliff /\ sale.vesting = review.vesting
         /\ sale.price >= review.min_price /\ sale.price <= review.max_price
         /\ sale.start_ts <= review.expires_at
         /\ sale.sold <= sale.total
         /\ proceeds[s] + paidOut[s] + vaulted[s] <= review.max_gross

(* Every unit sold has been paid for, and the money is in exactly one place: *)
(* the proceeds escrow of an open sale, the issuer for a closed Mature one,  *)
(* the payout vault for a closed Startup one.                                *)
MoneyTrail ==
    \A s \in SaleIds :
      LET paid == IF sales[s] = NoSale THEN 0 ELSE sales[s].price * sales[s].sold
          inEscrow == sales[s] # NoSale /\ sales[s].status = "Open"
          mature == sales[s] # NoSale /\ sales[s].raise_type = "Mature"
      IN /\ proceeds[s] = IF inEscrow THEN paid ELSE 0
         /\ paidOut[s] = IF ~inEscrow /\ mature THEN paid ELSE 0
         /\ vaulted[s] = IF ~inEscrow /\ ~mature THEN paid ELSE 0

(* lock_supply is one-way: after it the class never grows again, unless      *)
(* post-launch minting was declared when the class was created.              *)
LockIsFinal ==
    [][supply_locked =>
         /\ supply_locked'
         /\ ~class.mintable_post_launch => lifetime_minted' = lifetime_minted
      ]_vars
=============================================================================
