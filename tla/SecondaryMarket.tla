---------------------------- MODULE SecondaryMarket ----------------------------
(***************************************************************************)
(* Program-mediated trading of a KycGated share class: permissionless sell *)
(* offers and admin-created OTC deals (programs/asset_registry), with the  *)
(* transfer hook that every move of share units passes.                    *)
(*                                                                         *)
(* An escrow is an ordinary token account: while its EscrowMarker exists   *)
(* anybody may push units into it, and units leave it for a wallet without *)
(* the hook's receiver check.  What a trade may release therefore rests on *)
(* a ledger of what its own party deposited, kept beside the balance.      *)
(***************************************************************************)
EXTENDS Integers, FiniteSets, FiniteSetsExt

CONSTANTS
    Wallets, OfferIds, DealIds,
    Outsiders,              \* wallets no provider ever approves
    StartUnits, StartMoney, \* what each wallet holds at first
    Amounts, Prices,        \* terms a trade is opened with
    Lots,                   \* units that are deposited or moved at once
    OTC_DEAL_MAX_TTL_SECS,
    MaxTime                 \* bound: the clock stops here

Ids == OfferIds \cup DealIds

ASSUME MarketAssumption ==
    /\ IsFiniteSet(Wallets) /\ IsFiniteSet(Ids)
    /\ Wallets \cap Ids = {} /\ OfferIds \cap DealIds = {} /\ Outsiders \subseteq Wallets
    /\ StartUnits \in [Wallets -> Nat] /\ StartMoney \in [Wallets -> Nat]
    /\ Amounts \subseteq Nat \ {0} /\ Lots \subseteq Nat \ {0}
    /\ Prices \subseteq Nat \ {0}
    /\ OTC_DEAL_MAX_TTL_SECS \in Nat /\ MaxTime \in Nat

VARIABLES
    now,
    paused,         \* PAUSE_SECONDARY
    eligible,       \* wallets whose KycEntry passes: approved, current, allowed
    blocked,        \* wallets with a BlockEntry of the hook
    units, money,   \* share units and payment tokens in each wallet
    trades          \* Offer and OtcDeal accounts

vars == <<now, paused, eligible, blocked, units, money, trades>>
environment == <<now, paused, eligible, blocked>>

(* An account that was never created, and what reclaim_rent leaves of one.   *)
Absent    == [status |-> "absent"]
Tombstone == [status |-> "tombstone"]
Statuses  == {"Open", "Filled", "Completed", "Cancelled", "Expired"}
IsOpen(t) == trades[t].status = "Open"

Init ==
    /\ now = 0 /\ paused = FALSE
    /\ eligible = {} /\ blocked = {}
    /\ units = StartUnits /\ money = StartMoney
    /\ trades = [t \in Ids |-> Absent]

-----------------------------------------------------------------------------
(* The transfer hook (process_execute), in KycGated mode.  A marker lives as *)
(* long as its trade is open: every terminal path closes it.                 *)
IsMarked(x) == x \in Ids /\ IsOpen(x)

HookPasses(source, destination) ==
    /\ source \notin blocked
    /\ IsMarked(destination) \/ IsMarked(source) \/ destination \in eligible

Moved(f, from, to, n) ==
    IF from = to THEN f ELSE [f EXCEPT ![from] = @ - n, ![to] = @ + n]

\* Slip: the payee takes whatever the escrow holds.
ReleaseBalance(balance, ledger, receiver) == balance
(* split_escrow_release: the payee's own deposit without any check, what     *)
(* somebody else pushed only to an eligible payee.                           *)
Release(balance, ledger, receiver) ==
    IF receiver \in eligible THEN balance ELSE Min({balance, ledger})

-----------------------------------------------------------------------------
(* Offers.                                                                   *)
CreateOffer(o, maker, amount, price, expires_at) ==
    /\ ~paused
    /\ trades[o] = Absent
    /\ expires_at = 0 \/ expires_at > now
    /\ trades' = [trades EXCEPT ![o] =
          [status |-> "Open", maker |-> maker, amount |-> amount, price |-> price,
           expires_at |-> expires_at, deposited |-> 0, escrow |-> 0]]
    /\ UNCHANGED <<environment, units, money>>

\* Slip: an offer takes any deposit.
WithinOfferAny(o, n) == TRUE
WithinOffer(o, n) == trades[o].deposited + n <= trades[o].amount

DepositToOfferEscrow(o, n) ==
    /\ ~paused
    /\ IsOpen(o)
    /\ n > 0 /\ WithinOffer(o, n)
    /\ units[trades[o].maker] >= n /\ HookPasses(trades[o].maker, o)
    /\ units' = [units EXCEPT ![trades[o].maker] = @ - n]
    /\ trades' = [trades EXCEPT ![o].deposited = @ + n, ![o].escrow = @ + n]
    /\ UNCHANGED <<environment, money>>

\* Slip: rc.x sold what the escrow held, whoever had put it there.
FundedByBalance(o) == trades[o].escrow >= trades[o].amount
Funded(o) == trades[o].deposited >= trades[o].amount

TakeOffer(o, taker) ==
    LET offer == trades[o] IN
    /\ ~paused
    /\ IsOpen(o)
    /\ taker \notin blocked /\ offer.maker \notin blocked
    /\ offer.expires_at = 0 \/ now <= offer.expires_at
    /\ Funded(o)
    /\ taker \in eligible
    /\ money[taker] >= offer.price
    /\ money' = Moved(money, taker, offer.maker, offer.price)
    /\ units' = [units EXCEPT ![taker] = @ + offer.amount]
    /\ trades' = [trades EXCEPT
          ![o].escrow = @ - offer.amount, ![o].deposited = @ - offer.amount,
          ![o].status = "Filled"]
    /\ UNCHANGED environment

EndOffer(o, status) ==
    LET offer  == trades[o]
        payout == Release(offer.escrow, offer.deposited, offer.maker)
    IN  /\ HookPasses(o, offer.maker)
        /\ units' = [units EXCEPT ![offer.maker] = @ + payout]
        /\ trades' = [trades EXCEPT
              ![o].escrow = @ - payout,
              ![o].deposited = @ - Min({offer.escrow, offer.deposited}),
              ![o].status = status]
        /\ UNCHANGED <<environment, money>>

CancelOffer(o) == IsOpen(o) /\ EndOffer(o, "Cancelled")

ExpireOffer(o) ==
    /\ IsOpen(o)
    /\ trades[o].expires_at > 0 /\ now > trades[o].expires_at
    /\ EndOffer(o, "Expired")

-----------------------------------------------------------------------------
(* OTC deals.  A deposit flag of the code is set with its ledger, which is   *)
(* never zero then.                                                          *)
AssetDeposited(d)   == trades[d].asset_deposited_amount > 0
PaymentDeposited(d) == trades[d].payment_deposited_amount > 0
PartiesClear(d) == trades[d].buyer \notin blocked /\ trades[d].seller \notin blocked

CreateOtcDeal(d, buyer, seller, amount, price, expires_at) ==
    /\ ~paused
    /\ trades[d] = Absent
    /\ buyer # seller
    /\ expires_at > now /\ expires_at <= now + OTC_DEAL_MAX_TTL_SECS
    /\ trades' = [trades EXCEPT ![d] =
          [status |-> "Open", buyer |-> buyer, seller |-> seller, amount |-> amount,
           price |-> price, expires_at |-> expires_at,
           asset_deposited_amount |-> 0, payment_deposited_amount |-> 0,
           asset_escrow |-> 0, payment_escrow |-> 0]]
    /\ UNCHANGED <<environment, units, money>>

\* Slip: a settlement hands over the live balance of the asset escrow.
DeliveredBalance(deal) == deal.asset_escrow
Delivered(deal) == deal.amount

(* The deposit that completes the pair swaps in the same instruction, or the *)
(* whole instruction fails.  `funded` is the deal after the deposit.         *)
Settle(d, funded, unitsLeft, moneyLeft) ==
    /\ funded.buyer \in eligible
    /\ units' = [unitsLeft EXCEPT ![funded.buyer] = @ + Delivered(funded)]
    /\ money' = [moneyLeft EXCEPT ![funded.seller] = @ + funded.price]
    /\ trades' = [trades EXCEPT ![d] =
          [funded EXCEPT !.asset_escrow = @ - Delivered(funded),
                         !.payment_escrow = @ - funded.price,
                         !.status = "Completed"]]

DepositOtcAsset(d) ==
    LET deal   == trades[d]
        funded == [deal EXCEPT !.asset_escrow = @ + deal.amount,
                               !.asset_deposited_amount = deal.amount]
        left   == [units EXCEPT ![deal.seller] = @ - deal.amount]
    IN  /\ ~paused
        /\ IsOpen(d) /\ ~AssetDeposited(d)
        /\ PartiesClear(d)
        /\ now <= deal.expires_at
        /\ units[deal.seller] >= deal.amount /\ HookPasses(deal.seller, d)
        /\ \/ PaymentDeposited(d) /\ Settle(d, funded, left, money)
           \/ /\ ~PaymentDeposited(d)
              /\ trades' = [trades EXCEPT ![d] = funded]
              /\ units' = left /\ UNCHANGED money
        /\ UNCHANGED environment

DepositOtcPayment(d) ==
    LET deal   == trades[d]
        funded == [deal EXCEPT !.payment_escrow = @ + deal.price,
                               !.payment_deposited_amount = deal.price]
        left   == [money EXCEPT ![deal.buyer] = @ - deal.price]
    IN  /\ ~paused
        /\ IsOpen(d) /\ ~PaymentDeposited(d)
        /\ PartiesClear(d)
        /\ now <= deal.expires_at
        /\ money[deal.buyer] >= deal.price
        /\ \/ AssetDeposited(d) /\ Settle(d, funded, units, left)
           \/ /\ ~AssetDeposited(d)
              /\ trades' = [trades EXCEPT ![d] = funded]
              /\ money' = left /\ UNCHANGED units
        /\ UNCHANGED environment

(* refund_otc_deposits.                                                      *)
EndDeal(d, status) ==
    LET deal   == trades[d]
        asset  == Release(deal.asset_escrow, deal.asset_deposited_amount, deal.seller)
        refund == Min({deal.payment_escrow, deal.payment_deposited_amount})
    IN  /\ HookPasses(d, deal.seller)
        /\ units' = [units EXCEPT ![deal.seller] = @ + asset]
        /\ money' = [money EXCEPT ![deal.buyer] = @ + refund]
        /\ trades' = [trades EXCEPT
              ![d].asset_escrow = @ - asset, ![d].payment_escrow = @ - refund,
              ![d].status = status]
        /\ UNCHANGED environment

CancelOtcDeal(d) == IsOpen(d) /\ EndDeal(d, "Cancelled")

\* Slip: a blocked party holds the deal open although nothing is due to it.
RefundableToClear(d) == PartiesClear(d)
(* O-11: nobody may trigger the refund of a blocked party's deposit.         *)
Refundable(d) ==
    /\ PaymentDeposited(d) => trades[d].buyer \notin blocked
    /\ AssetDeposited(d) => trades[d].seller \notin blocked

ExpireOtcDeal(d) ==
    /\ IsOpen(d)
    /\ now > trades[d].expires_at
    /\ Refundable(d)
    /\ EndDeal(d, "Expired")

-----------------------------------------------------------------------------
(* reclaim_rent closes the empty escrows and leaves a tombstone at the id.   *)
IsOver(t) == trades[t].status \in Statuses \ {"Open"}

ReclaimOffer(o) ==
    /\ IsOver(o) /\ trades[o].escrow = 0
    /\ trades' = [trades EXCEPT ![o] = Tombstone]
    /\ UNCHANGED <<environment, units, money>>

\* Slip: only the asset escrow is looked at.
AssetEscrowEmpty(d) == trades[d].asset_escrow = 0
EscrowsEmpty(d) == trades[d].asset_escrow = 0 /\ trades[d].payment_escrow = 0

ReclaimDeal(d) ==
    /\ IsOver(d) /\ EscrowsEmpty(d)
    /\ trades' = [trades EXCEPT ![d] = Tombstone]
    /\ UNCHANGED <<environment, units, money>>

-----------------------------------------------------------------------------
(* What happens around the trades: plain token transfers, the KYC provider,  *)
(* the blocklist authority, the pause, time.                                 *)
Transfer(from, to, n) ==
    /\ from # to /\ units[from] >= n
    /\ HookPasses(from, to)
    /\ units' = Moved(units, from, to, n)
    /\ UNCHANGED <<environment, money, trades>>

Push(from, t, n) ==
    /\ units[from] >= n
    /\ HookPasses(from, t)
    /\ units' = [units EXCEPT ![from] = @ - n]
    /\ trades' = IF t \in OfferIds THEN [trades EXCEPT ![t].escrow = @ + n]
                                   ELSE [trades EXCEPT ![t].asset_escrow = @ + n]
    /\ UNCHANGED <<environment, money>>

PushPayment(from, d, n) ==
    /\ trades[d].status \in Statuses
    /\ money[from] >= n
    /\ money' = [money EXCEPT ![from] = @ - n]
    /\ trades' = [trades EXCEPT ![d].payment_escrow = @ + n]
    /\ UNCHANGED <<environment, units>>

SetEligible(w) ==
    /\ w \notin Outsiders
    /\ eligible' = IF w \in eligible THEN eligible \ {w} ELSE eligible \cup {w}
    /\ UNCHANGED <<now, paused, blocked, units, money, trades>>

SetBlocked(w) ==
    /\ blocked' = IF w \in blocked THEN blocked \ {w} ELSE blocked \cup {w}
    /\ UNCHANGED <<now, paused, eligible, units, money, trades>>

SetPaused ==
    /\ paused' = ~paused
    /\ UNCHANGED <<now, eligible, blocked, units, money, trades>>

Tick ==
    /\ now < MaxTime /\ now' = now + 1
    /\ UNCHANGED <<paused, eligible, blocked, units, money, trades>>

-----------------------------------------------------------------------------
OfferStep(o) ==
    \/ \E w \in Wallets, a \in Amounts, p \in Prices, e \in 0..MaxTime :
         CreateOffer(o, w, a, p, e)
    \/ \E n \in Lots : DepositToOfferEscrow(o, n)
    \/ \E w \in Wallets : TakeOffer(o, w)
    \/ CancelOffer(o) \/ ExpireOffer(o) \/ ReclaimOffer(o)

DealStep(d) ==
    \/ \E b, s \in Wallets, a \in Amounts, p \in Prices, e \in 0..MaxTime :
         CreateOtcDeal(d, b, s, a, p, e)
    \/ DepositOtcAsset(d) \/ DepositOtcPayment(d)
    \/ CancelOtcDeal(d) \/ ExpireOtcDeal(d) \/ ReclaimDeal(d)

Transfers ==
    \/ \E w, v \in Wallets, n \in Lots : Transfer(w, v, n)
    \/ \E w \in Wallets, t \in Ids, n \in Lots : Push(w, t, n)
    \/ \E w \in Wallets, d \in DealIds, n \in Prices : PushPayment(w, d, n)

Surroundings ==
    \/ \E w \in Wallets : SetEligible(w) \/ SetBlocked(w)
    \/ SetPaused \/ Tick

Next ==
    \/ \E o \in OfferIds : OfferStep(o)
    \/ \E d \in DealIds : DealStep(d)
    \/ Transfers \/ Surroundings

Spec == Init /\ [][Next]_vars

(* Anyone may crank an expiry; time passes.                                  *)
Cranks ==
    /\ WF_vars(Tick)
    /\ \A o \in OfferIds : WF_vars(ExpireOffer(o))
    /\ \A d \in DealIds : WF_vars(ExpireOtcDeal(d))

-----------------------------------------------------------------------------
Offers ==
    [status : Statuses, maker : Wallets, amount : Amounts, price : Prices,
     expires_at : Nat, deposited : Nat, escrow : Nat]

Deals ==
    [status : Statuses, buyer : Wallets, seller : Wallets, amount : Amounts,
     price : Prices, expires_at : Nat, asset_deposited_amount : Nat,
     payment_deposited_amount : Nat, asset_escrow : Nat, payment_escrow : Nat]

(* Types of the accounts; no balance ever goes negative.                     *)
TypeOK ==
    /\ now \in Nat /\ paused \in BOOLEAN
    /\ eligible \subseteq Wallets /\ blocked \subseteq Wallets
    /\ units \in [Wallets -> Nat] /\ money \in [Wallets -> Nat]
    /\ DOMAIN trades = Ids
    /\ \A o \in OfferIds : trades[o] \in Offers \cup {Absent, Tombstone}
    /\ \A d \in DealIds : trades[d] \in Deals \cup {Absent, Tombstone}

Exists(t) == trades[t].status \in Statuses

(* The comments in take_offer and deposit_to_offer_escrow: the escrow always *)
(* covers the ledger, so that a fill or a refund is never short; the ledger  *)
(* never exceeds the offer and ends empty, so that no deposit of the maker's *)
(* is trapped in a closed offer.                                             *)
LedgersBacked ==
    /\ \A o \in OfferIds : Exists(o) =>
          /\ trades[o].deposited <= trades[o].escrow
          /\ trades[o].deposited <= IF IsOpen(o) THEN trades[o].amount ELSE 0
    /\ \A d \in DealIds : IsOpen(d) =>
          /\ trades[d].asset_deposited_amount <= trades[d].asset_escrow
          /\ trades[d].payment_deposited_amount <= trades[d].payment_escrow

Total(f, S) == MapThenSumSet(LAMBDA x : f[x], S)

(* What a wallet owns: what it holds and what its own ledgers say it can     *)
(* have back.                                                                *)
Deposited(t, w) ==
    IF t \in OfferIds
    THEN IF trades[t].maker = w THEN trades[t].deposited ELSE 0
    ELSE IF trades[t].seller = w THEN trades[t].asset_deposited_amount ELSE 0
Paid(d, w) == IF trades[d].buyer = w THEN trades[d].payment_deposited_amount ELSE 0

Stake(w) == units[w]
    + Total([t \in Ids |-> IF IsOpen(t) THEN Deposited(t, w) ELSE 0], Ids)
MoneyStake(w) == money[w]
    + Total([d \in DealIds |-> IF IsOpen(d) THEN Paid(d, w) ELSE 0], DealIds)

(* The header of the transfer hook and deposit_to_offer_escrow: no sequence  *)
(* of offers, deals, pushes, takes, cancels and expiries, exempt from the    *)
(* hook's receiver check as they are, leaves a wallet with more units than   *)
(* it owned unless its KYC passes at that moment.                            *)
OnlyVettedGain == [][\A w \in Wallets \ eligible : Stake(w)' <= Stake(w)]_vars

(* take_offer and settle_otc_deal: a wallet is paid only in exchange for its *)
(* own units, in one step and at the terms of the trade, and the payer has   *)
(* them.                                                                     *)
PaidForOwnUnits ==
    [][\A w \in Wallets : MoneyStake(w)' > MoneyStake(w) =>
          \E t \in Ids, v \in Wallets :
             /\ IsOpen(t) /\ trades'[t].status \in {"Filled", "Completed"}
             /\ Stake(w)' = Stake(w) - trades[t].amount
             /\ Stake(v)' = Stake(v) + trades[t].amount
             /\ MoneyStake(w)' = MoneyStake(w) + trades[t].price
             /\ MoneyStake(v)' = MoneyStake(v) - trades[t].price]_vars

AssetIn(t) ==
    IF ~Exists(t) THEN 0
    ELSE IF t \in OfferIds THEN trades[t].escrow ELSE trades[t].asset_escrow
PaymentIn(d) == IF Exists(d) THEN trades[d].payment_escrow ELSE 0

UnitsIssued == Total(StartUnits, Wallets)
MoneyIssued == Total(StartMoney, Wallets)

(* Units and money are in a wallet or in an escrow that still exists:        *)
(* reclaim_rent closes no escrow with anything in it, a donation included.   *)
NothingVanishes ==
    /\ UnitsIssued = Total(units, Wallets) + Total([t \in Ids |-> AssetIn(t)], Ids)
    /\ MoneyIssued = Total(money, Wallets) + Total([d \in DealIds |-> PaymentIn(d)], DealIds)

(* "So the permissionless `expire_otc_deal` refund always opens"             *)
(* (create_otc_deal), and "this must NEVER fail on eligibility grounds"      *)
(* (expire_offer): a trade with an expiry ends, whatever the pause, the KYC  *)
(* of its parties or a donation do, unless a party with a deposit in a deal  *)
(* is blocked.                                                               *)
DepositOfBlocked(d) ==
    \/ PaymentDeposited(d) /\ trades[d].buyer \in blocked
    \/ AssetDeposited(d) /\ trades[d].seller \in blocked

ExpiringTradesEnd ==
    /\ \A o \in OfferIds : (IsOpen(o) /\ trades[o].expires_at \in 1..(MaxTime - 1))
          ~> ~IsOpen(o)
    /\ \A d \in DealIds : (IsOpen(d) /\ trades[d].expires_at < MaxTime)
          ~> (~IsOpen(d) \/ DepositOfBlocked(d))
=============================================================================
