------------------------ MODULE SecondaryMarketProofs ------------------------
(***************************************************************************)
(* Proofs about SecondaryMarket, for any number of wallets, offers and     *)
(* deals, any terms and any amounts.                                       *)
(***************************************************************************)
EXTENDS SecondaryMarket, SumTheorems

\* What LedgersBacked says of one offer, with the type of its account.
OfferFine(x) ==
    /\ x \in Offers \cup {Absent, Tombstone}
    /\ x.status \in Statuses =>
          /\ x.deposited <= x.escrow
          /\ x.deposited <= IF x.status = "Open" THEN x.amount ELSE 0

\* The same of one deal.  A ledger of a deal is empty or whole: without that
\* a settlement could hand over more than the first deposit brought in.
DealFine(x) ==
    /\ x \in Deals \cup {Absent, Tombstone}
    /\ x.status = "Open" =>
          /\ x.asset_deposited_amount \in {0, x.amount}
          /\ x.payment_deposited_amount \in {0, x.price}
          /\ x.asset_deposited_amount <= x.asset_escrow
          /\ x.payment_deposited_amount <= x.payment_escrow

Around ==
    /\ now \in Nat /\ paused \in BOOLEAN
    /\ eligible \subseteq Wallets /\ blocked \subseteq Wallets

Balances == units \in [Wallets -> Nat] /\ money \in [Wallets -> Nat]

TradesFine ==
    /\ DOMAIN trades = Ids
    /\ \A o \in OfferIds : OfferFine(trades[o])
    /\ \A d \in DealIds : DealFine(trades[d])

MarketInv == Around /\ Balances /\ TradesFine

\* A step that leaves every trade but t as it was.
Touches(t) ==
    /\ DOMAIN trades' = Ids
    /\ \A r \in Ids \ {t} : trades'[r] = trades[r]

-----------------------------------------------------------------------------
(* The smaller of two amounts.                                               *)
LEMMA MinOfTwo ==
    ASSUME NEW x \in Nat, NEW y \in Nat
    PROVE  Min({x, y}) = IF x <= y THEN x ELSE y
  BY DEF Min

(* split_escrow_release gives back the ledger at least and the balance at    *)
(* most, when the balance covers the ledger.                                 *)
LEMMA ReleaseFits ==
    ASSUME NEW balance \in Nat, NEW ledger \in Nat, NEW w, ledger <= balance
    PROVE  /\ Release(balance, ledger, w) \in Nat
           /\ Release(balance, ledger, w) <= balance
           /\ ledger <= Release(balance, ledger, w)
           /\ Min({balance, ledger}) = ledger
           /\ Release(balance, ledger, w) > ledger => w \in eligible
  BY MinOfTwo DEF Release

(* A wallet that has n units can give them away, any wallet can be given n.  *)
LEMMA BalancesKept ==
    ASSUME NEW f \in [Wallets -> Nat], NEW w \in Wallets, NEW n \in Nat
    PROVE  /\ [f EXCEPT ![w] = @ + n] \in [Wallets -> Nat]
           /\ f[w] >= n => [f EXCEPT ![w] = @ - n] \in [Wallets -> Nat]
  OBVIOUS

(* A plain transfer keeps every balance a natural number.                    *)
LEMMA MovedKeeps ==
    ASSUME NEW f \in [Wallets -> Nat], NEW v \in Wallets, NEW w \in Wallets,
           NEW n \in Nat, f[v] >= n
    PROVE  Moved(f, v, w, n) \in [Wallets -> Nat]
  BY DEF Moved

(* An open or ended account is one with all its fields.                      *)
LEMMA Account ==
    ASSUME MarketInv
    PROVE  /\ \A o \in OfferIds : trades[o].status \in Statuses => trades[o] \in Offers
           /\ \A d \in DealIds : trades[d].status \in Statuses => trades[d] \in Deals
  BY DEF MarketInv, TradesFine, OfferFine, DealFine, Absent, Tombstone, Statuses

(* A deposit within the offer, backed by what the escrow holds.              *)
LEMMA OfferFunded ==
    ASSUME NEW x \in Offers, x.status = "Open", NEW a \in Nat, NEW b \in Nat,
           a <= b, a <= x.amount
    PROVE  OfferFine([x EXCEPT !.deposited = a, !.escrow = b])
  <1> DEFINE y == [x EXCEPT !.deposited = a, !.escrow = b]
  <1>1. /\ y \in Offers /\ y.deposited = a /\ y.escrow = b
        /\ y.amount = x.amount /\ y.amount \in Nat /\ y.status = "Open"
    BY MarketAssumption DEF Offers
  <1>2. OfferFine(y)
    <2> HIDE DEF y
    <2> QED BY <1>1 DEF OfferFine
  <1> QED BY <1>2

(* An offer that ends has an empty ledger.                                   *)
LEMMA OfferEnded ==
    ASSUME NEW x \in Offers, NEW a, a = 0, NEW b \in Nat, NEW st \in Statuses \ {"Open"}
    PROVE  OfferFine([x EXCEPT !.deposited = a, !.escrow = b, !.status = st])
  <1> DEFINE y == [x EXCEPT !.deposited = a, !.escrow = b, !.status = st]
  <1>1. y \in Offers /\ y.deposited = 0 /\ y.escrow = b /\ y.status = st
        /\ y.amount \in Nat
    BY MarketAssumption DEF Offers
  <1>2. OfferFine(y)
    <2> HIDE DEF y
    <2> QED BY <1>1 DEF OfferFine
  <1> QED BY <1>2

(* A push into an offer's escrow.                                            *)
LEMMA OfferPushed ==
    ASSUME NEW x \in Offers, OfferFine(x), NEW b \in Nat, x.escrow <= b
    PROVE  OfferFine([x EXCEPT !.escrow = b])
  <1> DEFINE y == [x EXCEPT !.escrow = b]
  <1>1. /\ y \in Offers /\ y.deposited = x.deposited /\ y.escrow = b
        /\ y.amount = x.amount /\ y.status = x.status
    BY DEF Offers
  <1>2. x.deposited \in Nat /\ x.escrow \in Nat /\ x.amount \in Nat /\ x.status \in Statuses
    BY MarketAssumption DEF Offers
  <1>3. x.deposited <= x.escrow /\ x.deposited <= IF x.status = "Open" THEN x.amount ELSE 0
    BY <1>2 DEF OfferFine
  <1>4. OfferFine(y)
    <2> HIDE DEF y
    <2> QED BY <1>1, <1>2, <1>3 DEF OfferFine
  <1> QED BY <1>4

(* An open deal whose ledgers are empty or whole, and backed.                *)
LEMMA DealFunded ==
    ASSUME NEW y \in Deals, y.status = "Open",
           y.asset_deposited_amount \in {0, y.amount},
           y.payment_deposited_amount \in {0, y.price},
           y.asset_deposited_amount <= y.asset_escrow,
           y.payment_deposited_amount <= y.payment_escrow
    PROVE  DealFine(y)
  BY DEF DealFine

(* A deal that is over keeps what is left in its escrows.                    *)
LEMMA DealOver ==
    ASSUME NEW x \in Deals, NEW ea \in Nat, NEW ep \in Nat, NEW st \in Statuses \ {"Open"}
    PROVE  DealFine([x EXCEPT !.asset_escrow = ea, !.payment_escrow = ep, !.status = st])
  <1> DEFINE y == [x EXCEPT !.asset_escrow = ea, !.payment_escrow = ep, !.status = st]
  <1>1. y \in Deals /\ y.status = st
    BY DEF Deals
  <1>2. DealFine(y)
    <2> HIDE DEF y
    <2> QED BY <1>1 DEF DealFine
  <1> QED BY <1>2

(* What an open deal's account holds.                                        *)
LEMMA OpenDeal ==
    ASSUME MarketInv, NEW d \in DealIds, IsOpen(d)
    PROVE  LET deal == trades[d]
           IN  /\ deal \in Deals /\ deal.status = "Open"
               /\ deal.buyer \in Wallets /\ deal.seller \in Wallets
               /\ deal.amount \in Nat \ {0} /\ deal.price \in Nat \ {0}
               /\ deal.asset_escrow \in Nat /\ deal.payment_escrow \in Nat
               /\ deal.asset_deposited_amount \in {0, deal.amount}
               /\ deal.payment_deposited_amount \in {0, deal.price}
               /\ deal.asset_deposited_amount <= deal.asset_escrow
               /\ deal.payment_deposited_amount <= deal.payment_escrow
  <1>1. trades[d] \in Deals /\ DealFine(trades[d])
    BY Account DEF IsOpen, Statuses, MarketInv, TradesFine
  <1> QED BY <1>1, MarketAssumption DEF DealFine, Deals, IsOpen

(* A step that touches one trade keeps what holds of the others.             *)
LEMMA OneTradeAtATime ==
    ASSUME MarketInv, NEW t \in Ids, Touches(t), Around', Balances',
           t \in OfferIds => OfferFine(trades'[t]),
           t \in DealIds => DealFine(trades'[t])
    PROVE  MarketInv'
  <1>1. ASSUME NEW o \in OfferIds PROVE OfferFine(trades'[o])
    BY DEF MarketInv, TradesFine, Touches, Ids
  <1>2. ASSUME NEW d \in DealIds PROVE DealFine(trades'[d])
    BY DEF MarketInv, TradesFine, Touches, Ids
  <1> QED BY <1>1, <1>2 DEF MarketInv, TradesFine, Touches

-----------------------------------------------------------------------------
(* create_offer and deposit_to_offer_escrow.                                 *)
LEMMA OfferGrows ==
    ASSUME MarketInv, NEW o \in OfferIds,
           \/ \E w \in Wallets, a \in Amounts, p \in Prices, e \in 0..MaxTime :
                CreateOffer(o, w, a, p, e)
           \/ \E n \in Lots : DepositToOfferEscrow(o, n)
    PROVE  MarketInv'
  <1>0. o \in Ids BY DEF Ids
  <1>1. ASSUME NEW w \in Wallets, NEW a \in Amounts, NEW p \in Prices, NEW e \in 0..MaxTime,
               CreateOffer(o, w, a, p, e)
        PROVE  MarketInv'
    <2>1. /\ trades'[o] = [status |-> "Open", maker |-> w, amount |-> a, price |-> p,
                           expires_at |-> e, deposited |-> 0, escrow |-> 0]
          /\ Touches(o)
      BY <1>0, <1>1 DEF CreateOffer, Touches, MarketInv, TradesFine
    <2>2. trades'[o] \in Offers
      BY <2>1, MarketAssumption DEF Offers, Statuses
    <2>3. OfferFine(trades'[o])
      BY <2>1, <2>2, MarketAssumption DEF OfferFine
    <2>4. Around' /\ Balances'
      BY <1>1 DEF CreateOffer, MarketInv, Around, Balances, environment
    <2> QED BY <1>0, <2>1, <2>3, <2>4, OneTradeAtATime, MarketAssumption
  <1>2. ASSUME NEW n \in Lots, DepositToOfferEscrow(o, n) PROVE MarketInv'
    <2>0. trades[o] \in Offers /\ OfferFine(trades[o]) /\ n \in Nat /\ IsOpen(o)
      BY <1>2, Account, MarketAssumption
      DEF DepositToOfferEscrow, IsOpen, Statuses, MarketInv, TradesFine
    <2> DEFINE a == trades[o].deposited + n
               b == trades[o].escrow + n
    <2>1. /\ trades'[o] = [trades[o] EXCEPT !.deposited = a, !.escrow = b]
          /\ Touches(o)
      BY <1>0, <1>2 DEF DepositToOfferEscrow, Touches, MarketInv, TradesFine
    <2>2. a \in Nat /\ b \in Nat
      BY <2>0 DEF Offers
    <2>3. a <= b /\ a <= trades[o].amount
      BY <1>2, <2>0 DEF OfferFine, DepositToOfferEscrow, WithinOffer, IsOpen, Offers, Statuses
    <2>4. OfferFine(trades'[o])
      <3> HIDE DEF a, b
      <3>1. OfferFine([trades[o] EXCEPT !.deposited = a, !.escrow = b])
        BY <2>0, <2>2, <2>3, OfferFunded DEF IsOpen
      <3> QED BY <2>1, <3>1
    <2>5. Around' /\ Balances'
      BY <1>2, <2>0, BalancesKept
      DEF DepositToOfferEscrow, MarketInv, Around, Balances, environment, Offers
    <2> QED BY <1>0, <2>1, <2>4, <2>5, OneTradeAtATime, MarketAssumption
  <1> QED BY <1>1, <1>2

(* take_offer: a funded offer hands over its whole ledger.                   *)
LEMMA TakeKeeps ==
    ASSUME MarketInv, NEW o \in OfferIds, NEW w \in Wallets, TakeOffer(o, w)
    PROVE  MarketInv'
  <1>0. o \in Ids BY DEF Ids
  <1>1. trades[o] \in Offers /\ OfferFine(trades[o]) /\ IsOpen(o) /\ trades[o].amount \in Nat
    BY Account, MarketAssumption DEF TakeOffer, IsOpen, Statuses, MarketInv, TradesFine, Offers
  <1> DEFINE a == trades[o].deposited - trades[o].amount
             b == trades[o].escrow - trades[o].amount
  <1>2. /\ trades'[o] = [trades[o] EXCEPT !.deposited = a, !.escrow = b, !.status = "Filled"]
        /\ Touches(o)
    BY <1>0 DEF TakeOffer, Touches, MarketInv, TradesFine
  <1>3. a = 0 /\ b \in Nat
    BY <1>1 DEF TakeOffer, Funded, OfferFine, IsOpen, Offers, Statuses
  <1>4. OfferFine(trades'[o])
    <2> HIDE DEF a, b
    <2>1. OfferFine([trades[o] EXCEPT !.deposited = a, !.escrow = b, !.status = "Filled"])
      BY <1>1, <1>3, OfferEnded DEF Statuses
    <2> QED BY <1>2, <2>1
  <1>5. Around' /\ Balances'
    <2>1. trades[o].price \in Nat /\ trades[o].maker \in Wallets
      BY <1>1, MarketAssumption DEF Offers
    <2> QED BY <1>1, <2>1, BalancesKept, MovedKeeps
            DEF TakeOffer, MarketInv, Around, Balances, environment
  <1> QED BY <1>0, <1>2, <1>4, <1>5, OneTradeAtATime, MarketAssumption

(* cancel_offer and expire_offer give the maker at least its ledger back.    *)
LEMMA EndOfferKeeps ==
    ASSUME MarketInv, NEW o \in OfferIds, IsOpen(o),
           NEW st \in {"Cancelled", "Expired"}, EndOffer(o, st)
    PROVE  MarketInv'
  <1>0. o \in Ids BY DEF Ids
  <1>1. trades[o] \in Offers /\ OfferFine(trades[o])
    BY Account DEF IsOpen, Statuses, MarketInv, TradesFine
  <1> DEFINE payout == Release(trades[o].escrow, trades[o].deposited, trades[o].maker)
             a == trades[o].deposited - Min({trades[o].escrow, trades[o].deposited})
             b == trades[o].escrow - payout
  <1>2. /\ trades'[o] = [trades[o] EXCEPT !.deposited = a, !.escrow = b, !.status = st]
        /\ Touches(o)
    BY <1>0 DEF EndOffer, Touches, MarketInv, TradesFine
  <1>3. /\ trades[o].escrow \in Nat /\ trades[o].deposited \in Nat
        /\ trades[o].deposited <= trades[o].escrow
    BY <1>1 DEF OfferFine, IsOpen, Offers, Statuses
  <1>4. a = 0 /\ b \in Nat /\ payout \in Nat
    <2>1. /\ payout \in Nat /\ payout <= trades[o].escrow
          /\ Min({trades[o].escrow, trades[o].deposited}) = trades[o].deposited
      BY <1>3, ReleaseFits
    <2> HIDE DEF payout
    <2> QED BY <1>3, <2>1
  <1>5. OfferFine(trades'[o])
    <2> HIDE DEF a, b
    <2>1. OfferFine([trades[o] EXCEPT !.deposited = a, !.escrow = b, !.status = st])
      BY <1>1, <1>4, OfferEnded DEF Statuses
    <2> QED BY <1>2, <2>1
  <1>6. Around' /\ Balances'
    BY <1>1, <1>4, BalancesKept
    DEF EndOffer, MarketInv, Around, Balances, environment, Offers
  <1> QED BY <1>0, <1>2, <1>5, <1>6, OneTradeAtATime, MarketAssumption
-----------------------------------------------------------------------------
(* settle_otc_deal: `funded` covers both sides of the swap.                  *)
LEMMA SettleKeeps ==
    ASSUME MarketInv, NEW d \in DealIds, NEW funded \in Deals,
           NEW f \in [Wallets -> Nat], NEW g \in [Wallets -> Nat],
           Settle(d, funded, f, g), Around',
           funded.asset_escrow - funded.amount \in Nat,
           funded.payment_escrow - funded.price \in Nat
    PROVE  MarketInv'
  <1>0. d \in Ids BY DEF Ids
  <1> DEFINE ea == funded.asset_escrow - funded.amount
             ep == funded.payment_escrow - funded.price
  <1>1. /\ trades'[d] = [funded EXCEPT !.asset_escrow = ea, !.payment_escrow = ep,
                                       !.status = "Completed"]
        /\ Touches(d)
    BY <1>0 DEF Settle, Delivered, Touches, MarketInv, TradesFine
  <1>2. DealFine(trades'[d])
    <2> HIDE DEF ea, ep
    <2>1. ea \in Nat /\ ep \in Nat
      BY DEF ea, ep
    <2>2. DealFine([funded EXCEPT !.asset_escrow = ea, !.payment_escrow = ep,
                                  !.status = "Completed"])
      BY <2>1, DealOver DEF Statuses
    <2> QED BY <1>1, <2>2
  <1>3. Balances'
    <2>1. /\ funded.buyer \in Wallets /\ funded.seller \in Wallets
          /\ funded.amount \in Nat /\ funded.price \in Nat
      BY MarketAssumption DEF Deals
    <2> QED BY <2>1, BalancesKept DEF Settle, Delivered, Balances
  <1> QED BY <1>0, <1>1, <1>2, <1>3, OneTradeAtATime, MarketAssumption

-----------------------------------------------------------------------------
(* create_otc_deal.                                                          *)
LEMMA CreateDealKeeps ==
    ASSUME MarketInv, NEW d \in DealIds, NEW b \in Wallets, NEW s \in Wallets,
           NEW a \in Amounts, NEW p \in Prices, NEW e \in 0..MaxTime,
           CreateOtcDeal(d, b, s, a, p, e)
    PROVE  MarketInv'
  <1>0. d \in Ids BY DEF Ids
  <1>1. /\ trades'[d] = [status |-> "Open", buyer |-> b, seller |-> s, amount |-> a,
                         price |-> p, expires_at |-> e,
                         asset_deposited_amount |-> 0, payment_deposited_amount |-> 0,
                         asset_escrow |-> 0, payment_escrow |-> 0]
        /\ Touches(d)
    BY <1>0 DEF CreateOtcDeal, Touches, MarketInv, TradesFine
  <1>2. trades'[d] \in Deals
    BY <1>1, MarketAssumption DEF Deals, Statuses
  <1>3. DealFine(trades'[d])
    BY <1>1, <1>2 DEF DealFine
  <1>4. Around' /\ Balances'
    BY DEF CreateOtcDeal, MarketInv, Around, Balances, environment
  <1> QED BY <1>0, <1>1, <1>3, <1>4, OneTradeAtATime, MarketAssumption

(* deposit_otc_asset: alone, or into the swap.                               *)
LEMMA AssetDepositKeeps ==
    ASSUME MarketInv, NEW d \in DealIds, DepositOtcAsset(d)
    PROVE  MarketInv'
  <1>0. d \in Ids BY DEF Ids
  <1> DEFINE deal   == trades[d]
             ea     == deal.asset_escrow + deal.amount
             funded == [deal EXCEPT !.asset_escrow = ea,
                                    !.asset_deposited_amount = deal.amount]
             left   == [units EXCEPT ![deal.seller] = @ - deal.amount]
  <1>1. IsOpen(d) /\ units[deal.seller] >= deal.amount
    BY DEF DepositOtcAsset
  <1>2. /\ deal \in Deals /\ deal.status = "Open"
        /\ deal.buyer \in Wallets /\ deal.seller \in Wallets
        /\ deal.amount \in Nat \ {0} /\ deal.price \in Nat \ {0}
        /\ deal.asset_escrow \in Nat /\ deal.payment_escrow \in Nat
        /\ deal.payment_deposited_amount \in {0, deal.price}
        /\ deal.payment_deposited_amount <= deal.payment_escrow
    BY <1>1, OpenDeal
  <1>3. /\ funded \in Deals /\ funded.status = "Open"
        /\ funded.amount = deal.amount /\ funded.price = deal.price
        /\ funded.buyer = deal.buyer /\ funded.seller = deal.seller
        /\ funded.asset_escrow = ea /\ ea \in Nat /\ deal.amount <= ea
        /\ funded.asset_deposited_amount = deal.amount
        /\ funded.payment_escrow = deal.payment_escrow
        /\ funded.payment_deposited_amount = deal.payment_deposited_amount
    <2>1. ea \in Nat /\ deal.amount <= ea
      BY <1>2
    <2> HIDE DEF ea
    <2> QED BY <1>2, <2>1 DEF Deals
  <1>4. left \in [Wallets -> Nat] /\ money \in [Wallets -> Nat] /\ Around'
    BY <1>1, <1>2, BalancesKept DEF DepositOtcAsset, MarketInv, Around, Balances, environment
  <1>5. CASE PaymentDeposited(d)
    <2>1. Settle(d, funded, left, money)
      BY <1>5 DEF DepositOtcAsset
    <2>2. deal.payment_escrow - deal.price \in Nat /\ ea - deal.amount \in Nat
      BY <1>2, <1>3, <1>5 DEF PaymentDeposited
    <2> QED BY <1>0, <1>2, <1>3, <1>4, <2>1, <2>2, SettleKeeps
  <1>6. CASE ~PaymentDeposited(d)
    <2>1. trades' = [trades EXCEPT ![d] = funded] /\ units' = left /\ money' = money
      BY <1>6 DEF DepositOtcAsset
    <2>2. trades'[d] = funded /\ Touches(d)
      BY <1>0, <2>1 DEF Touches, MarketInv, TradesFine
    <2>3. DealFine(funded)
      <3> HIDE DEF funded
      <3> QED BY <1>2, <1>3, DealFunded
    <2> QED BY <1>0, <1>4, <2>1, <2>2, <2>3, OneTradeAtATime, MarketAssumption DEF Balances
  <1> QED BY <1>5, <1>6

(* deposit_otc_payment: alone, or into the swap.                             *)
LEMMA PaymentDepositKeeps ==
    ASSUME MarketInv, NEW d \in DealIds, DepositOtcPayment(d)
    PROVE  MarketInv'
  <1>0. d \in Ids BY DEF Ids
  <1> DEFINE deal   == trades[d]
             ep     == deal.payment_escrow + deal.price
             funded == [deal EXCEPT !.payment_escrow = ep,
                                    !.payment_deposited_amount = deal.price]
             left   == [money EXCEPT ![deal.buyer] = @ - deal.price]
  <1>1. IsOpen(d) /\ money[deal.buyer] >= deal.price
    BY DEF DepositOtcPayment
  <1>2. /\ deal \in Deals /\ deal.status = "Open"
        /\ deal.buyer \in Wallets /\ deal.seller \in Wallets
        /\ deal.amount \in Nat \ {0} /\ deal.price \in Nat \ {0}
        /\ deal.asset_escrow \in Nat /\ deal.payment_escrow \in Nat
        /\ deal.asset_deposited_amount \in {0, deal.amount}
        /\ deal.asset_deposited_amount <= deal.asset_escrow
    BY <1>1, OpenDeal
  <1>3. /\ funded \in Deals /\ funded.status = "Open"
        /\ funded.amount = deal.amount /\ funded.price = deal.price
        /\ funded.buyer = deal.buyer /\ funded.seller = deal.seller
        /\ funded.payment_escrow = ep /\ ep \in Nat /\ deal.price <= ep
        /\ funded.payment_deposited_amount = deal.price
        /\ funded.asset_escrow = deal.asset_escrow
        /\ funded.asset_deposited_amount = deal.asset_deposited_amount
    <2>1. ep \in Nat /\ deal.price <= ep
      BY <1>2
    <2> HIDE DEF ep
    <2> QED BY <1>2, <2>1 DEF Deals
  <1>4. left \in [Wallets -> Nat] /\ units \in [Wallets -> Nat] /\ Around'
    BY <1>1, <1>2, BalancesKept DEF DepositOtcPayment, MarketInv, Around, Balances, environment
  <1>5. CASE AssetDeposited(d)
    <2>1. Settle(d, funded, units, left)
      BY <1>5 DEF DepositOtcPayment
    <2>2. deal.asset_escrow - deal.amount \in Nat /\ ep - deal.price \in Nat
      BY <1>2, <1>3, <1>5 DEF AssetDeposited
    <2> QED BY <1>0, <1>2, <1>3, <1>4, <2>1, <2>2, SettleKeeps
  <1>6. CASE ~AssetDeposited(d)
    <2>1. trades' = [trades EXCEPT ![d] = funded] /\ money' = left /\ units' = units
      BY <1>6 DEF DepositOtcPayment
    <2>2. trades'[d] = funded /\ Touches(d)
      BY <1>0, <2>1 DEF Touches, MarketInv, TradesFine
    <2>3. DealFine(funded)
      <3> HIDE DEF funded
      <3> QED BY <1>2, <1>3, DealFunded
    <2> QED BY <1>0, <1>4, <2>1, <2>2, <2>3, OneTradeAtATime, MarketAssumption DEF Balances
  <1> QED BY <1>5, <1>6

(* refund_otc_deposits, from cancel_otc_deal and expire_otc_deal.            *)
LEMMA EndDealKeeps ==
    ASSUME MarketInv, NEW d \in DealIds, IsOpen(d),
           NEW st \in {"Cancelled", "Expired"}, EndDeal(d, st)
    PROVE  MarketInv'
  <1>0. d \in Ids BY DEF Ids
  <1> DEFINE deal   == trades[d]
             asset  == Release(deal.asset_escrow, deal.asset_deposited_amount, deal.seller)
             refund == Min({deal.payment_escrow, deal.payment_deposited_amount})
             ea     == deal.asset_escrow - asset
             ep     == deal.payment_escrow - refund
  <1>1. /\ deal \in Deals /\ deal.buyer \in Wallets /\ deal.seller \in Wallets
        /\ deal.amount \in Nat /\ deal.price \in Nat
        /\ deal.asset_escrow \in Nat /\ deal.payment_escrow \in Nat
        /\ deal.asset_deposited_amount \in {0, deal.amount}
        /\ deal.payment_deposited_amount \in {0, deal.price}
        /\ deal.asset_deposited_amount <= deal.asset_escrow
        /\ deal.payment_deposited_amount <= deal.payment_escrow
    BY OpenDeal
  <1>2. deal.asset_deposited_amount \in Nat /\ deal.payment_deposited_amount \in Nat
    BY <1>1
  <1>3. asset \in Nat /\ asset <= deal.asset_escrow
    BY <1>1, <1>2, ReleaseFits
  <1>4. refund \in Nat /\ refund <= deal.payment_escrow
    BY <1>1, <1>2, MinOfTwo
  <1>5. ea \in Nat /\ ep \in Nat
    <2> HIDE DEF asset, refund
    <2> QED BY <1>1, <1>3, <1>4
  <1>6. /\ trades'[d] = [deal EXCEPT !.asset_escrow = ea, !.payment_escrow = ep,
                                     !.status = st]
        /\ Touches(d)
    BY <1>0 DEF EndDeal, Touches, MarketInv, TradesFine
  <1>7. DealFine(trades'[d])
    <2> HIDE DEF ea, ep
    <2>1. DealFine([deal EXCEPT !.asset_escrow = ea, !.payment_escrow = ep, !.status = st])
      BY <1>1, <1>5, DealOver DEF Statuses
    <2> QED BY <1>6, <2>1
  <1>8. Around' /\ Balances'
    <2>1. /\ units' = [units EXCEPT ![deal.seller] = @ + asset]
          /\ money' = [money EXCEPT ![deal.buyer] = @ + refund]
          /\ UNCHANGED environment
      BY DEF EndDeal
    <2> HIDE DEF asset, refund
    <2> QED BY <1>1, <1>3, <1>4, <2>1, BalancesKept
            DEF MarketInv, Around, Balances, environment
  <1> QED BY <1>0, <1>6, <1>7, <1>8, OneTradeAtATime, MarketAssumption

-----------------------------------------------------------------------------
(* reclaim_rent leaves a tombstone.                                          *)
LEMMA ReclaimKeeps ==
    ASSUME MarketInv, NEW t \in Ids,
           (t \in OfferIds /\ ReclaimOffer(t)) \/ (t \in DealIds /\ ReclaimDeal(t))
    PROVE  MarketInv'
  <1>1. trades' = [trades EXCEPT ![t] = Tombstone] /\ UNCHANGED <<environment, units, money>>
    BY DEF ReclaimOffer, ReclaimDeal
  <1>2. trades'[t] = Tombstone /\ Touches(t)
    BY <1>1 DEF Touches, MarketInv, TradesFine
  <1>3. OfferFine(Tombstone) /\ DealFine(Tombstone)
    BY DEF OfferFine, DealFine, Tombstone, Statuses
  <1>4. Around' /\ Balances'
    BY <1>1 DEF MarketInv, Around, Balances, environment
  <1> QED BY <1>2, <1>3, <1>4, OneTradeAtATime

(* Units pushed in by anybody: the hook lets them into an open trade only.   *)
LEMMA PushKeeps ==
    ASSUME MarketInv, NEW w \in Wallets, NEW t \in Ids, NEW n \in Lots, Push(w, t, n)
    PROVE  MarketInv'
  <1>0. IsOpen(t) /\ n \in Nat
    BY MarketAssumption
    DEF Push, HookPasses, IsMarked, Ids, MarketInv, Around
  <1>1. Around' /\ Balances'
    BY <1>0, BalancesKept DEF Push, MarketInv, Around, Balances, environment
  <1>2. CASE t \in OfferIds
    <2> DEFINE b == trades[t].escrow + n
    <2>1. trades[t] \in Offers /\ OfferFine(trades[t])
      BY <1>0, <1>2, Account DEF IsOpen, Statuses, MarketInv, TradesFine
    <2>2. trades'[t] = [trades[t] EXCEPT !.escrow = b] /\ Touches(t)
      BY <1>2 DEF Push, Touches, MarketInv, TradesFine
    <2>3. b \in Nat /\ trades[t].escrow <= b
      BY <1>0, <2>1 DEF Offers
    <2>4. OfferFine(trades'[t])
      <3> HIDE DEF b
      <3>1. OfferFine([trades[t] EXCEPT !.escrow = b])
        BY <2>1, <2>3, OfferPushed
      <3> QED BY <2>2, <3>1
    <2> QED BY <1>1, <1>2, <2>2, <2>4, OneTradeAtATime, MarketAssumption
  <1>3. CASE t \in DealIds
    <2> DEFINE deal == trades[t]
               ea   == deal.asset_escrow + n
               y    == [deal EXCEPT !.asset_escrow = ea]
    <2>1. /\ deal \in Deals /\ deal.status = "Open" /\ deal.asset_escrow \in Nat
          /\ deal.amount \in Nat
          /\ deal.asset_deposited_amount \in {0, deal.amount}
          /\ deal.payment_deposited_amount \in {0, deal.price}
          /\ deal.asset_deposited_amount <= deal.asset_escrow
          /\ deal.payment_deposited_amount <= deal.payment_escrow
      BY <1>0, <1>3, OpenDeal
    <2>2. trades'[t] = y /\ Touches(t)
      BY <1>3, MarketAssumption DEF Push, Touches, MarketInv, TradesFine
    <2>3. ea \in Nat /\ deal.asset_deposited_amount <= ea
      BY <1>0, <2>1
    <2>4. /\ y \in Deals /\ y.status = "Open" /\ y.asset_escrow = ea
          /\ y.amount = deal.amount /\ y.price = deal.price
          /\ y.asset_deposited_amount = deal.asset_deposited_amount
          /\ y.payment_deposited_amount = deal.payment_deposited_amount
          /\ y.payment_escrow = deal.payment_escrow
      <3> HIDE DEF ea
      <3> QED BY <2>1, <2>3 DEF Deals
    <2>5. DealFine(y)
      <3> HIDE DEF y
      <3> QED BY <2>1, <2>3, <2>4, DealFunded
    <2> QED BY <1>1, <1>3, <2>2, <2>5, OneTradeAtATime, MarketAssumption
  <1> QED BY <1>2, <1>3 DEF Ids

(* Money pushed into a payment escrow that still exists.                     *)
LEMMA PushPaymentKeeps ==
    ASSUME MarketInv, NEW w \in Wallets, NEW d \in DealIds, NEW n \in Prices,
           PushPayment(w, d, n)
    PROVE  MarketInv'
  <1>0. d \in Ids /\ n \in Nat BY MarketAssumption DEF Ids
  <1> DEFINE deal == trades[d]
             ep   == deal.payment_escrow + n
             y    == [deal EXCEPT !.payment_escrow = ep]
  <1>1. deal \in Deals /\ DealFine(deal)
    BY Account DEF PushPayment, MarketInv, TradesFine
  <1>2. /\ deal.payment_escrow \in Nat /\ deal.payment_deposited_amount \in Nat
        /\ ep \in Nat /\ deal.payment_escrow <= ep
    BY <1>0, <1>1 DEF Deals
  <1>3. trades'[d] = y /\ Touches(d)
    BY <1>0 DEF PushPayment, Touches, MarketInv, TradesFine
  <1>4. /\ y \in Deals /\ y.status = deal.status /\ y.payment_escrow = ep
        /\ y.amount = deal.amount /\ y.price = deal.price
        /\ y.asset_deposited_amount = deal.asset_deposited_amount
        /\ y.payment_deposited_amount = deal.payment_deposited_amount
        /\ y.asset_escrow = deal.asset_escrow
    <2> HIDE DEF ep
    <2> QED BY <1>1, <1>2 DEF Deals
  <1>5. DealFine(y)
    <2>1. deal.status = "Open" => deal.payment_deposited_amount <= ep
      BY <1>1, <1>2 DEF DealFine
    <2> HIDE DEF y, ep
    <2> QED BY <1>1, <1>4, <2>1 DEF DealFine
  <1>6. Around' /\ Balances'
    BY <1>0, BalancesKept DEF PushPayment, MarketInv, Around, Balances, environment
  <1> QED BY <1>0, <1>3, <1>5, <1>6, OneTradeAtATime, MarketAssumption

(* Plain transfers, the KYC provider, the blocklist, the pause and time      *)
(* touch no trade.                                                           *)
LEMMA SurroundingsKeep ==
    ASSUME MarketInv,
           \/ \E w, v \in Wallets, n \in Lots : Transfer(w, v, n)
           \/ Surroundings
    PROVE  MarketInv'
  <1>1. trades' = trades
    BY DEF Transfer, Surroundings, SetEligible, SetBlocked, SetPaused, Tick
  <1>2. Balances'
    <2>1. ASSUME NEW w \in Wallets, NEW v \in Wallets, NEW n \in Lots, Transfer(w, v, n)
          PROVE  Balances'
      BY <2>1, MovedKeeps, MarketAssumption DEF Transfer, MarketInv, Balances
    <2>2. CASE Surroundings
      BY <2>2
      DEF Surroundings, SetEligible, SetBlocked, SetPaused, Tick, MarketInv, Balances
    <2> QED BY <2>1, <2>2
  <1>3. Around'
    <2>1. CASE SetPaused
      <3>1. paused' \in BOOLEAN
        BY <2>1, Zenon DEF SetPaused
      <3> QED BY <2>1, <3>1 DEF SetPaused, MarketInv, Around
    <2>2. CASE ~SetPaused
      BY <2>2
      DEF Transfer, Surroundings, SetEligible, SetBlocked, Tick, MarketInv, Around,
          environment
    <2> QED BY <2>1, <2>2
  <1> QED BY <1>1, <1>2, <1>3 DEF MarketInv, TradesFine

(* At first there is no trade.                                               *)
LEMMA InitInv == Init => MarketInv
  <1> SUFFICES ASSUME Init PROVE MarketInv
    OBVIOUS
  <1>1. OfferFine(Absent) /\ DealFine(Absent)
    BY DEF OfferFine, DealFine, Absent, Statuses
  <1>2. TradesFine
    BY <1>1 DEF Init, TradesFine, Ids
  <1>3. Around /\ Balances
    BY MarketAssumption DEF Init, Around, Balances
  <1> QED BY <1>2, <1>3 DEF MarketInv

(* Every instruction keeps the invariant.                                    *)
LEMMA NextKeeps == MarketInv /\ [Next]_vars => MarketInv'
  <1> SUFFICES ASSUME MarketInv, [Next]_vars PROVE MarketInv'
    OBVIOUS
  <1>1. CASE UNCHANGED vars
    BY <1>1 DEF vars, MarketInv, Around, Balances, TradesFine
  <1>2. ASSUME NEW o \in OfferIds, OfferStep(o) PROVE MarketInv'
    BY <1>2, OfferGrows, TakeKeeps, EndOfferKeeps, ReclaimKeeps
    DEF OfferStep, CancelOffer, ExpireOffer, Ids
  <1>3. ASSUME NEW d \in DealIds, DealStep(d) PROVE MarketInv'
    BY <1>3, CreateDealKeeps, AssetDepositKeeps, PaymentDepositKeeps, EndDealKeeps,
       ReclaimKeeps
    DEF DealStep, CancelOtcDeal, ExpireOtcDeal, Ids
  <1>4. CASE Transfers
    BY <1>4, SurroundingsKeep, PushKeeps, PushPaymentKeeps DEF Transfers
  <1>5. CASE Surroundings
    BY <1>5, SurroundingsKeep
  <1> QED BY <1>1, <1>2, <1>3, <1>4, <1>5 DEF Next

(* Offers and OtcDeals keep their types and no balance ever goes negative,   *)
(* for any trades, terms, amounts and wallets.                               *)
THEOREM MarketInvariance == Spec => []MarketInv
  BY InitInv, NextKeeps, PTL DEF Spec

(* state.rs: the accounts of the market are what they are read as.           *)
THEOREM MarketTyped == Spec => []TypeOK
  <1>1. MarketInv => TypeOK
    BY DEF MarketInv, Around, Balances, TradesFine, OfferFine, DealFine, TypeOK
  <1> QED BY <1>1, MarketInvariance, PTL

(* take_offer, settle_otc_deal and the refunds: the escrow covers the ledger *)
(* of every trade, whoever pushes what into it, so that none is ever short.  *)
THEOREM EveryLedgerBacked == Spec => []LedgersBacked
  <1>1. MarketInv => LedgersBacked
    BY DEF MarketInv, TradesFine, OfferFine, DealFine, LedgersBacked, Exists, IsOpen
  <1> QED BY <1>1, MarketInvariance, PTL

-----------------------------------------------------------------------------
(* Sums over the trades.                                                     *)

\* What an account holds of each side, and what of it is owed to w.
HeldIn(t, x) ==
    IF x.status \notin Statuses THEN 0
    ELSE IF t \in OfferIds THEN x.escrow ELSE x.asset_escrow
MoneyIn(t, x) ==
    IF x.status \in Statuses /\ t \in DealIds THEN x.payment_escrow ELSE 0
OwedIn(t, x, w) ==
    IF x.status # "Open" THEN 0
    ELSE IF t \in OfferIds
         THEN IF x.maker = w THEN x.deposited ELSE 0
         ELSE IF x.seller = w THEN x.asset_deposited_amount ELSE 0
PaidIn(t, x, w) ==
    IF x.status = "Open" /\ t \in DealIds
    THEN IF x.buyer = w THEN x.payment_deposited_amount ELSE 0
    ELSE 0

HeldUnits == SumOf([t \in Ids |-> AssetIn(t)], Ids)
HeldMoney == SumOf([d \in DealIds |-> PaymentIn(d)], DealIds)
Owed(w)      == SumOf([t \in Ids |-> OwedIn(t, trades[t], w)], Ids)
OwedMoney(w) == SumOf([d \in DealIds |-> PaidIn(d, trades[d], w)], DealIds)

(* Total is the sum that SumTheorems is about.                               *)
LEMMA TotalIsSumOf == \A f, S : Total(f, S) = SumOf(f, S)
  BY Zenon DEF Total, SumOf

(* A stake is what is held and what is owed.                                 *)
LEMMA StakeIs ==
    ASSUME NEW w
    PROVE  Stake(w) = units[w] + Owed(w) /\ MoneyStake(w) = money[w] + OwedMoney(w)
  <1>1. ASSUME NEW t \in Ids
        PROVE  OwedIn(t, trades[t], w) = IF IsOpen(t) THEN Deposited(t, w) ELSE 0
    BY DEF OwedIn, IsOpen, Deposited
  <1>2. ASSUME NEW d \in DealIds
        PROVE  PaidIn(d, trades[d], w) = IF IsOpen(d) THEN Paid(d, w) ELSE 0
    BY DEF PaidIn, IsOpen, Paid
  <1>3. /\ [t \in Ids |-> OwedIn(t, trades[t], w)] =
              [t \in Ids |-> IF IsOpen(t) THEN Deposited(t, w) ELSE 0]
        /\ [d \in DealIds |-> PaidIn(d, trades[d], w)] =
              [d \in DealIds |-> IF IsOpen(d) THEN Paid(d, w) ELSE 0]
    BY <1>1, <1>2
  <1> QED BY <1>3, TotalIsSumOf, Zenon DEF Stake, MoneyStake, Owed, OwedMoney

(* The amounts of a trade are natural numbers.                               *)
LEMMA TermTypes ==
    ASSUME NEW t \in Ids, NEW x,
           t \in OfferIds => OfferFine(x), t \in DealIds => DealFine(x)
    PROVE  /\ HeldIn(t, x) \in Nat /\ MoneyIn(t, x) \in Nat
           /\ \A w : OwedIn(t, x, w) \in Nat /\ PaidIn(t, x, w) \in Nat
  <1>1. "Open" \in Statuses
    BY DEF Statuses
  <1>2. CASE t \in OfferIds
    <2>1. t \notin DealIds
      BY <1>2, MarketAssumption
    <2>2. x.status \in Statuses => x \in Offers
      BY <1>2 DEF OfferFine, Absent, Tombstone, Statuses
    <2>3. x.status \in Statuses => x.escrow \in Nat /\ x.deposited \in Nat
      BY <2>2 DEF Offers
    <2> QED BY <1>1, <1>2, <2>1, <2>3 DEF HeldIn, MoneyIn, OwedIn, PaidIn
  <1>3. CASE t \in DealIds
    <2>1. t \notin OfferIds
      BY <1>3, MarketAssumption
    <2>2. x.status \in Statuses => x \in Deals
      BY <1>3 DEF DealFine, Absent, Tombstone, Statuses
    <2>3. x.status \in Statuses =>
              /\ x.asset_escrow \in Nat /\ x.payment_escrow \in Nat
              /\ x.asset_deposited_amount \in Nat
              /\ x.payment_deposited_amount \in Nat
      BY <2>2 DEF Deals
    <2> QED BY <1>1, <1>3, <2>1, <2>3 DEF HeldIn, MoneyIn, OwedIn, PaidIn
  <1> QED BY <1>2, <1>3 DEF Ids

(* So is all that a wallet is owed.                                          *)
LEMMA OwedType ==
    ASSUME MarketInv, NEW w
    PROVE  Owed(w) \in Nat /\ OwedMoney(w) \in Nat
  <1> DEFINE f == [t \in Ids |-> OwedIn(t, trades[t], w)]
             p == [d \in DealIds |-> PaidIn(d, trades[d], w)]
  <1>1. IsFiniteSet(Ids) /\ IsFiniteSet(DealIds) /\ DealIds \subseteq Ids
    <2>1. DealIds \subseteq Ids
      BY DEF Ids
    <2> QED BY <2>1, MarketAssumption, FS_Subset
  <1>2. \A t \in Ids : OwedIn(t, trades[t], w) \in Nat /\ PaidIn(t, trades[t], w) \in Nat
    BY TermTypes DEF MarketInv, TradesFine
  <1>3. /\ f \in [Ids -> Nat] /\ p \in [DealIds -> Nat]
        /\ f \in [Ids -> Int] /\ p \in [DealIds -> Int]
    BY <1>1, <1>2
  <1> HIDE DEF f, p
  <1>4. SumOf(f, Ids) \in Nat /\ SumOf(p, DealIds) \in Nat
    BY <1>1, <1>3, SumType
  <1> QED BY <1>4 DEF Owed, OwedMoney, f, p

(* The sums after a step that touches one trade.                             *)
LEMMA OneTermAtATime ==
    ASSUME MarketInv, MarketInv', NEW t \in Ids, Touches(t)
    PROVE  /\ HeldUnits \in Nat
           /\ HeldUnits' = HeldUnits - HeldIn(t, trades[t]) + HeldIn(t, trades'[t])
           /\ HeldMoney \in Nat
           /\ HeldMoney' = HeldMoney - MoneyIn(t, trades[t]) + MoneyIn(t, trades'[t])
  <1> DEFINE f == [r \in Ids |-> AssetIn(r)]
             g == [r \in Ids |-> AssetIn(r)']
             p == [d \in DealIds |-> PaymentIn(d)]
             q == [d \in DealIds |-> PaymentIn(d)']
  <1>1. IsFiniteSet(Ids) /\ IsFiniteSet(DealIds)
    <2>1. DealIds \subseteq Ids
      BY DEF Ids
    <2> QED BY <2>1, MarketAssumption, FS_Subset
  <1>2. \A r \in Ids : AssetIn(r) \in Nat /\ AssetIn(r) = HeldIn(r, trades[r])
    <2>1. \A r \in Ids : HeldIn(r, trades[r]) \in Nat
      BY TermTypes DEF MarketInv, TradesFine
    <2> QED BY <2>1 DEF AssetIn, HeldIn, Exists
  <1>3. \A r \in Ids : AssetIn(r)' \in Nat /\ AssetIn(r)' = HeldIn(r, trades'[r])
    <2>1. \A r \in Ids : HeldIn(r, trades'[r]) \in Nat
      BY TermTypes DEF MarketInv, TradesFine
    <2> QED BY <2>1 DEF AssetIn, HeldIn, Exists
  <1>4. f \in [Ids -> Nat] /\ g \in [Ids -> Nat]
        /\ \A r \in Ids \ {t} : g[r] = f[r]
    BY <1>2, <1>3 DEF Touches
  <1>5. HeldUnits \in Nat
        /\ HeldUnits' = HeldUnits - HeldIn(t, trades[t]) + HeldIn(t, trades'[t])
    <2>1. f[t] = HeldIn(t, trades[t]) /\ g[t] = HeldIn(t, trades'[t])
      BY <1>2, <1>3
    <2>2. HeldUnits = SumOf(f, Ids) /\ HeldUnits' = SumOf(g, Ids)
      BY DEF HeldUnits
    <2> HIDE DEF f, g
    <2>3. SumOf(f, Ids) \in Nat /\ SumOf(g, Ids) = SumOf(f, Ids) - f[t] + g[t]
      BY <1>1, <1>4, NatSumChange
    <2> QED BY <2>1, <2>2, <2>3
  <1>6. \A d \in DealIds : PaymentIn(d) \in Nat /\ PaymentIn(d) = MoneyIn(d, trades[d])
    <2>1. \A d \in DealIds : MoneyIn(d, trades[d]) \in Nat
      BY TermTypes DEF MarketInv, TradesFine, Ids
    <2> QED BY <2>1 DEF PaymentIn, MoneyIn, Exists
  <1>7. \A d \in DealIds : PaymentIn(d)' \in Nat /\ PaymentIn(d)' = MoneyIn(d, trades'[d])
    <2>1. \A d \in DealIds : MoneyIn(d, trades'[d]) \in Nat
      BY TermTypes DEF MarketInv, TradesFine, Ids
    <2> QED BY <2>1 DEF PaymentIn, MoneyIn, Exists
  <1>8. p \in [DealIds -> Nat] /\ q \in [DealIds -> Nat]
        /\ \A d \in DealIds \ {t} : q[d] = p[d]
    BY <1>6, <1>7 DEF Touches, Ids
  <1>9. HeldMoney \in Nat
        /\ HeldMoney' = HeldMoney - MoneyIn(t, trades[t]) + MoneyIn(t, trades'[t])
    <2>1. HeldMoney = SumOf(p, DealIds) /\ HeldMoney' = SumOf(q, DealIds)
      BY DEF HeldMoney
    <2>2. CASE t \in DealIds
      <3>1. p[t] = MoneyIn(t, trades[t]) /\ q[t] = MoneyIn(t, trades'[t])
        BY <1>6, <1>7, <2>2
      <3> HIDE DEF p, q
      <3>2. SumOf(p, DealIds) \in Nat /\ SumOf(q, DealIds) = SumOf(p, DealIds) - p[t] + q[t]
        BY <1>1, <1>8, <2>2, NatSumChange
      <3> QED BY <2>1, <3>1, <3>2
    <2>3. CASE t \notin DealIds
      <3>1. p = q
        BY <1>8, <2>3
      <3>2. MoneyIn(t, trades[t]) = 0 /\ MoneyIn(t, trades'[t]) = 0
        BY <2>3 DEF MoneyIn
      <3> HIDE DEF p, q
      <3>3. p \in [DealIds -> Int] /\ p \in [DealIds -> Nat]
        BY <1>8
      <3>4. SumOf(p, DealIds) \in Nat
        BY <1>1, <3>3, SumType
      <3> QED BY <2>1, <3>1, <3>2, <3>4
    <2> QED BY <2>2, <2>3
  <1> QED BY <1>5, <1>9

(* What a wallet is owed after such a step.                                  *)
LEMMA OneDebtAtATime ==
    ASSUME MarketInv, MarketInv', NEW t \in Ids, Touches(t), NEW w \in Wallets
    PROVE  /\ OwedIn(t, trades[t], w) \in Nat /\ OwedIn(t, trades'[t], w) \in Nat
           /\ PaidIn(t, trades[t], w) \in Nat /\ PaidIn(t, trades'[t], w) \in Nat
           /\ Owed(w) \in Nat /\ OwedMoney(w) \in Nat
           /\ Owed(w)' = Owed(w) - OwedIn(t, trades[t], w) + OwedIn(t, trades'[t], w)
           /\ OwedMoney(w)' = OwedMoney(w) - PaidIn(t, trades[t], w) + PaidIn(t, trades'[t], w)
  <1> DEFINE f == [r \in Ids |-> OwedIn(r, trades[r], w)]
             g == [r \in Ids |-> OwedIn(r, trades'[r], w)]
             p == [d \in DealIds |-> PaidIn(d, trades[d], w)]
             q == [d \in DealIds |-> PaidIn(d, trades'[d], w)]
  <1>1. IsFiniteSet(Ids) /\ IsFiniteSet(DealIds) /\ DealIds \subseteq Ids
    <2>1. DealIds \subseteq Ids
      BY DEF Ids
    <2> QED BY <2>1, MarketAssumption, FS_Subset
  <1>2. \A r \in Ids : OwedIn(r, trades[r], w) \in Nat /\ PaidIn(r, trades[r], w) \in Nat
    BY TermTypes DEF MarketInv, TradesFine
  <1>3. \A r \in Ids : OwedIn(r, trades'[r], w) \in Nat /\ PaidIn(r, trades'[r], w) \in Nat
    BY TermTypes DEF MarketInv, TradesFine
  <1>4. f \in [Ids -> Nat] /\ g \in [Ids -> Nat]
        /\ \A r \in Ids \ {t} : g[r] = f[r]
    BY <1>2, <1>3 DEF Touches
  <1>5. p \in [DealIds -> Nat] /\ q \in [DealIds -> Nat]
        /\ \A d \in DealIds \ {t} : q[d] = p[d]
    BY <1>1, <1>2, <1>3 DEF Touches
  <1>6. Owed(w) \in Nat
        /\ Owed(w)' = Owed(w) - OwedIn(t, trades[t], w) + OwedIn(t, trades'[t], w)
    <2>1. f[t] = OwedIn(t, trades[t], w) /\ g[t] = OwedIn(t, trades'[t], w)
      OBVIOUS
    <2>2. Owed(w) = SumOf(f, Ids) /\ Owed(w)' = SumOf(g, Ids)
      BY DEF Owed, OwedIn
    <2> HIDE DEF f, g
    <2>3. SumOf(f, Ids) \in Nat /\ SumOf(g, Ids) = SumOf(f, Ids) - f[t] + g[t]
      BY <1>1, <1>4, NatSumChange
    <2> QED BY <2>1, <2>2, <2>3
  <1>7. OwedMoney(w) \in Nat
        /\ OwedMoney(w)' = OwedMoney(w) - PaidIn(t, trades[t], w) + PaidIn(t, trades'[t], w)
    <2>1. OwedMoney(w) = SumOf(p, DealIds) /\ OwedMoney(w)' = SumOf(q, DealIds)
      BY DEF OwedMoney, PaidIn
    <2>2. CASE t \in DealIds
      <3>1. p[t] = PaidIn(t, trades[t], w) /\ q[t] = PaidIn(t, trades'[t], w)
        BY <2>2
      <3> HIDE DEF p, q
      <3>2. SumOf(p, DealIds) \in Nat /\ SumOf(q, DealIds) = SumOf(p, DealIds) - p[t] + q[t]
        BY <1>1, <1>5, <2>2, NatSumChange
      <3> QED BY <2>1, <3>1, <3>2
    <2>3. CASE t \notin DealIds
      <3>1. p = q
        BY <1>5, <2>3
      <3>2. PaidIn(t, trades[t], w) = 0 /\ PaidIn(t, trades'[t], w) = 0
        BY <2>3 DEF PaidIn
      <3> HIDE DEF p, q
      <3>3. p \in [DealIds -> Int] /\ p \in [DealIds -> Nat]
        BY <1>5
      <3>4. SumOf(p, DealIds) \in Nat
        BY <1>1, <3>3, SumType
      <3> QED BY <2>1, <3>1, <3>2, <3>4
    <2> QED BY <2>2, <2>3
  <1> QED BY <1>2, <1>3, <1>6, <1>7

-----------------------------------------------------------------------------
(* What a step may do: the three properties, step by step.                   *)
Conserved ==
    /\ SumOf(units, Wallets)' + HeldUnits' = SumOf(units, Wallets) + HeldUnits
    /\ SumOf(money, Wallets)' + HeldMoney' = SumOf(money, Wallets) + HeldMoney

Gain == \A w \in Wallets \ eligible : Stake(w)' <= Stake(w)

Swapped(w) ==
    \E t \in Ids, v \in Wallets :
        /\ IsOpen(t) /\ trades'[t].status \in {"Filled", "Completed"}
        /\ Stake(w)' = Stake(w) - trades[t].amount
        /\ Stake(v)' = Stake(v) + trades[t].amount
        /\ MoneyStake(w)' = MoneyStake(w) + trades[t].price
        /\ MoneyStake(v)' = MoneyStake(v) - trades[t].price
PaidFor == \A w \in Wallets : MoneyStake(w)' > MoneyStake(w) => Swapped(w)

StepFine == Conserved /\ Gain /\ PaidFor

(* A stake after a step that touches one trade.                              *)
LEMMA StakeChange ==
    ASSUME MarketInv, MarketInv', NEW t \in Ids, Touches(t), NEW w \in Wallets
    PROVE  /\ Stake(w) \in Nat /\ Stake(w)' \in Int
           /\ Stake(w)' - Stake(w) = (units'[w] + OwedIn(t, trades'[t], w))
                                     - (units[w] + OwedIn(t, trades[t], w))
           /\ MoneyStake(w) \in Nat /\ MoneyStake(w)' \in Int
           /\ MoneyStake(w)' - MoneyStake(w) = (money'[w] + PaidIn(t, trades'[t], w))
                                               - (money[w] + PaidIn(t, trades[t], w))
           /\ OwedIn(t, trades[t], w) \in Nat /\ OwedIn(t, trades'[t], w) \in Nat
           /\ PaidIn(t, trades[t], w) \in Nat /\ PaidIn(t, trades'[t], w) \in Nat
           /\ units[w] \in Nat /\ units'[w] \in Nat /\ money[w] \in Nat /\ money'[w] \in Nat
  <1>1. /\ OwedIn(t, trades[t], w) \in Nat /\ OwedIn(t, trades'[t], w) \in Nat
        /\ PaidIn(t, trades[t], w) \in Nat /\ PaidIn(t, trades'[t], w) \in Nat
        /\ Owed(w) \in Nat /\ OwedMoney(w) \in Nat
        /\ Owed(w)' = Owed(w) - OwedIn(t, trades[t], w) + OwedIn(t, trades'[t], w)
        /\ OwedMoney(w)' = OwedMoney(w) - PaidIn(t, trades[t], w) + PaidIn(t, trades'[t], w)
    BY OneDebtAtATime
  <1>2. /\ Stake(w) = units[w] + Owed(w) /\ MoneyStake(w) = money[w] + OwedMoney(w)
    BY StakeIs
  <1>3. /\ Stake(w)' = units'[w] + Owed(w)' /\ MoneyStake(w)' = money'[w] + OwedMoney(w)'
    <2>1. (Stake(w) = units[w] + Owed(w) /\ MoneyStake(w) = money[w] + OwedMoney(w))'
      BY StakeIs, PTL
    <2> QED BY <2>1
  <1>4. units[w] \in Nat /\ units'[w] \in Nat /\ money[w] \in Nat /\ money'[w] \in Nat
    BY DEF MarketInv, Balances
  <1> QED BY <1>1, <1>2, <1>3, <1>4

(* Wallets differ in one entry at most.                                      *)
LEMMA WalletsChange ==
    ASSUME NEW f \in [Wallets -> Nat], NEW g \in [Wallets -> Nat], NEW i \in Wallets,
           \A w \in Wallets \ {i} : g[w] = f[w]
    PROVE  /\ SumOf(f, Wallets) \in Nat /\ f[i] \in Nat /\ g[i] \in Nat
           /\ SumOf(g, Wallets) = SumOf(f, Wallets) - f[i] + g[i]
  BY NatSumChange, MarketAssumption

(* Units go between a trade and the wallet i, money between it and the       *)
(* wallet j, and nobody is paid.                                             *)
LEMMA NobodyPaid ==
    ASSUME MarketInv, MarketInv', NEW t \in Ids, Touches(t),
           NEW i \in Wallets, NEW j \in Wallets,
           \A w \in Wallets \ {i} :
              units'[w] = units[w] /\ OwedIn(t, trades'[t], w) <= OwedIn(t, trades[t], w),
           \A w \in Wallets \ {j} :
              money'[w] = money[w] /\ PaidIn(t, trades'[t], w) <= PaidIn(t, trades[t], w),
           units'[i] - units[i] = HeldIn(t, trades[t]) - HeldIn(t, trades'[t]),
           money'[j] - money[j] = MoneyIn(t, trades[t]) - MoneyIn(t, trades'[t]),
           units'[i] - units[i] > OwedIn(t, trades[t], i) - OwedIn(t, trades'[t], i) =>
              i \in eligible,
           money'[j] - money[j] <= PaidIn(t, trades[t], j) - PaidIn(t, trades'[t], j)
    PROVE  StepFine
  <1>1. /\ HeldUnits \in Nat /\ HeldMoney \in Nat
        /\ HeldUnits' = HeldUnits - HeldIn(t, trades[t]) + HeldIn(t, trades'[t])
        /\ HeldMoney' = HeldMoney - MoneyIn(t, trades[t]) + MoneyIn(t, trades'[t])
    BY OneTermAtATime
  <1>2. /\ HeldIn(t, trades[t]) \in Nat /\ MoneyIn(t, trades[t]) \in Nat
        /\ HeldIn(t, trades'[t]) \in Nat /\ MoneyIn(t, trades'[t]) \in Nat
    BY TermTypes DEF MarketInv, TradesFine
  <1>3. /\ SumOf(units, Wallets) \in Nat /\ units[i] \in Nat /\ units'[i] \in Nat
        /\ SumOf(units', Wallets) = SumOf(units, Wallets) - units[i] + units'[i]
    <2> DEFINE f == units
               g == units'
    <2>1. f \in [Wallets -> Nat] /\ g \in [Wallets -> Nat]
          /\ \A w \in Wallets \ {i} : g[w] = f[w]
      BY DEF MarketInv, Balances
    <2> HIDE DEF f, g
    <2>2. /\ SumOf(f, Wallets) \in Nat /\ f[i] \in Nat /\ g[i] \in Nat
          /\ SumOf(g, Wallets) = SumOf(f, Wallets) - f[i] + g[i]
      BY <2>1, WalletsChange
    <2> QED BY <2>2 DEF f, g
  <1>4. /\ SumOf(money, Wallets) \in Nat /\ money[j] \in Nat /\ money'[j] \in Nat
        /\ SumOf(money', Wallets) = SumOf(money, Wallets) - money[j] + money'[j]
    <2> DEFINE f == money
               g == money'
    <2>1. f \in [Wallets -> Nat] /\ g \in [Wallets -> Nat]
          /\ \A w \in Wallets \ {j} : g[w] = f[w]
      BY DEF MarketInv, Balances
    <2> HIDE DEF f, g
    <2>2. /\ SumOf(f, Wallets) \in Nat /\ f[j] \in Nat /\ g[j] \in Nat
          /\ SumOf(g, Wallets) = SumOf(f, Wallets) - f[j] + g[j]
      BY <2>1, WalletsChange
    <2> QED BY <2>2 DEF f, g
  <1>5. Conserved
    BY <1>1, <1>2, <1>3, <1>4 DEF Conserved
  <1>6. ASSUME NEW w \in Wallets, w \notin eligible
        PROVE  Stake(w)' <= Stake(w)
    <2>1. CASE w = i
      BY <1>6, <2>1, StakeChange
    <2>2. CASE w # i
      <3>1. units'[w] = units[w] /\ OwedIn(t, trades'[t], w) <= OwedIn(t, trades[t], w)
        BY <2>2
      <3> QED BY <3>1, StakeChange
    <2> QED BY <2>1, <2>2
  <1>7. ASSUME NEW w \in Wallets
        PROVE  ~(MoneyStake(w)' > MoneyStake(w))
    <2>1. CASE w = j
      BY <2>1, StakeChange
    <2>2. CASE w # j
      <3>1. money'[w] = money[w] /\ PaidIn(t, trades'[t], w) <= PaidIn(t, trades[t], w)
        BY <2>2
      <3> QED BY <3>1, StakeChange
    <2> QED BY <2>1, <2>2
  <1> QED BY <1>5, <1>6, <1>7 DEF StepFine, Gain, PaidFor

-----------------------------------------------------------------------------
(* The amounts of an offer.                                                  *)
LEMMA OfferTerms ==
    ASSUME NEW o \in OfferIds, NEW x \in Offers
    PROVE  /\ HeldIn(o, x) = x.escrow /\ MoneyIn(o, x) = 0
           /\ \A w : /\ PaidIn(o, x, w) = 0
                     /\ OwedIn(o, x, w) =
                          IF x.status = "Open" /\ x.maker = w THEN x.deposited ELSE 0
  <1>1. o \notin DealIds /\ x.status \in Statuses
    BY MarketAssumption DEF Offers
  <1> QED BY <1>1 DEF HeldIn, MoneyIn, PaidIn, OwedIn

(* The same of a deal.                                                       *)
LEMMA DealTerms ==
    ASSUME NEW d \in DealIds, NEW x \in Deals
    PROVE  /\ HeldIn(d, x) = x.asset_escrow /\ MoneyIn(d, x) = x.payment_escrow
           /\ \A w : /\ PaidIn(d, x, w) = IF x.status = "Open" /\ x.buyer = w
                                           THEN x.payment_deposited_amount ELSE 0
                     /\ OwedIn(d, x, w) = IF x.status = "Open" /\ x.seller = w
                                           THEN x.asset_deposited_amount ELSE 0
  <1>1. d \notin OfferIds /\ x.status \in Statuses
    BY MarketAssumption DEF Deals
  <1> QED BY <1>1 DEF HeldIn, MoneyIn, PaidIn, OwedIn

(* No account, no amounts.                                                   *)
LEMMA NoTerms ==
    ASSUME NEW t, NEW x \in {Absent, Tombstone}
    PROVE  /\ HeldIn(t, x) = 0 /\ MoneyIn(t, x) = 0
           /\ \A w : PaidIn(t, x, w) = 0 /\ OwedIn(t, x, w) = 0
  BY DEF HeldIn, MoneyIn, PaidIn, OwedIn, Absent, Tombstone, Statuses

(* create_offer and create_otc_deal move nothing.                            *)
LEMMA CreateFine ==
    ASSUME MarketInv, MarketInv', NEW t \in Ids,
           \/ /\ t \in OfferIds
              /\ \E w \in Wallets, a \in Amounts, p \in Prices, e \in 0..MaxTime :
                    CreateOffer(t, w, a, p, e)
           \/ /\ t \in DealIds
              /\ \E b, s \in Wallets, a \in Amounts, p \in Prices, e \in 0..MaxTime :
                    CreateOtcDeal(t, b, s, a, p, e)
    PROVE  StepFine
  <1>1. /\ trades[t] = Absent /\ Touches(t) /\ units' = units /\ money' = money
    BY DEF CreateOffer, CreateOtcDeal, Touches, MarketInv, TradesFine
  <1>2. /\ HeldIn(t, trades[t]) = 0 /\ MoneyIn(t, trades[t]) = 0
        /\ \A w : PaidIn(t, trades[t], w) = 0 /\ OwedIn(t, trades[t], w) = 0
    BY <1>1, NoTerms
  <1> DEFINE Nothing ==
               /\ HeldIn(t, trades'[t]) = 0 /\ MoneyIn(t, trades'[t]) = 0
               /\ \A w : PaidIn(t, trades'[t], w) = 0 /\ OwedIn(t, trades'[t], w) = 0
               /\ Wallets # {}
  <1>3. Nothing
    <2>1. ASSUME t \in OfferIds, NEW w \in Wallets, NEW a \in Amounts, NEW p \in Prices,
                 NEW e \in 0..MaxTime, CreateOffer(t, w, a, p, e)
          PROVE  Nothing
      <3>1. trades'[t] = [status |-> "Open", maker |-> w, amount |-> a, price |-> p,
                          expires_at |-> e, deposited |-> 0, escrow |-> 0]
        BY <2>1 DEF CreateOffer, MarketInv, TradesFine
      <3>2. t \notin DealIds
        BY <2>1, MarketAssumption
      <3> QED BY <2>1, <3>1, <3>2 DEF HeldIn, MoneyIn, PaidIn, OwedIn, Statuses
    <2>2. ASSUME t \in DealIds, NEW b \in Wallets, NEW s \in Wallets, NEW a \in Amounts,
                 NEW p \in Prices, NEW e \in 0..MaxTime, CreateOtcDeal(t, b, s, a, p, e)
          PROVE  Nothing
      <3>1. trades'[t] =
              [status |-> "Open", buyer |-> b, seller |-> s, amount |-> a,
               price |-> p, expires_at |-> e,
               asset_deposited_amount |-> 0, payment_deposited_amount |-> 0,
               asset_escrow |-> 0, payment_escrow |-> 0]
        BY <2>2 DEF CreateOtcDeal, MarketInv, TradesFine
      <3>2. t \notin OfferIds
        BY <2>2, MarketAssumption
      <3> QED BY <2>2, <3>1, <3>2 DEF HeldIn, MoneyIn, PaidIn, OwedIn, Statuses
    <2> QED BY <2>1, <2>2
  <1>4. PICK i \in Wallets : TRUE
    BY <1>3
  <1>5. units[i] \in Nat /\ money[i] \in Nat
    BY DEF MarketInv, Balances
  <1> QED BY <1>1, <1>2, <1>3, <1>5, NobodyPaid

(* reclaim_rent closes what is empty.                                        *)
LEMMA ReclaimedFine ==
    ASSUME MarketInv, MarketInv', NEW t \in Ids,
           (t \in OfferIds /\ ReclaimOffer(t)) \/ (t \in DealIds /\ ReclaimDeal(t))
    PROVE  StepFine
  <1>1. /\ trades' = [trades EXCEPT ![t] = Tombstone] /\ units' = units /\ money' = money
        /\ trades[t].status \in Statuses /\ trades[t].status # "Open"
    BY DEF ReclaimOffer, ReclaimDeal, IsOver
  <1>2. trades'[t] = Tombstone /\ Touches(t)
    BY <1>1 DEF Touches, MarketInv, TradesFine
  <1>3. /\ HeldIn(t, trades'[t]) = 0 /\ MoneyIn(t, trades'[t]) = 0
        /\ \A w : PaidIn(t, trades'[t], w) = 0 /\ OwedIn(t, trades'[t], w) = 0
    BY <1>2, NoTerms
  <1>4. /\ HeldIn(t, trades[t]) = 0 /\ MoneyIn(t, trades[t]) = 0
        /\ \A w : PaidIn(t, trades[t], w) = 0 /\ OwedIn(t, trades[t], w) = 0
    BY <1>1, MarketAssumption
    DEF HeldIn, MoneyIn, PaidIn, OwedIn, ReclaimOffer, ReclaimDeal, EscrowsEmpty
  <1>5. PICK i \in Wallets : TRUE
    BY <1>1, Account DEF Ids, Offers, Deals
  <1>6. units[i] \in Nat /\ money[i] \in Nat
    BY DEF MarketInv, Balances
  <1> QED BY <1>1, <1>2, <1>3, <1>4, <1>6, NobodyPaid

(* deposit_to_offer_escrow.                                                  *)
LEMMA OfferDepositFine ==
    ASSUME MarketInv, MarketInv', NEW o \in OfferIds, NEW n \in Lots,
           DepositToOfferEscrow(o, n)
    PROVE  StepFine
  <1> DEFINE x == trades[o]
             y == trades'[o]
             i == x.maker
  <1>0. o \in Ids /\ n \in Nat
    BY MarketAssumption DEF Ids
  <1>1. /\ x \in Offers /\ x.status = "Open" /\ i \in Wallets
        /\ x.escrow \in Nat /\ x.deposited \in Nat
    BY Account DEF DepositToOfferEscrow, IsOpen, Statuses, Offers
  <1>2. /\ y = [x EXCEPT !.deposited = x.deposited + n, !.escrow = x.escrow + n]
        /\ Touches(o) /\ money' = money /\ units' = [units EXCEPT ![i] = @ - n]
    BY <1>0 DEF DepositToOfferEscrow, Touches, MarketInv, TradesFine
  <1>3. /\ y \in Offers /\ y.status = "Open" /\ y.maker = i
        /\ y.escrow = x.escrow + n /\ y.deposited = x.deposited + n
    <2>1. x.escrow + n \in Nat /\ x.deposited + n \in Nat
      BY <1>0, <1>1
    <2> HIDE DEF x, y
    <2> QED BY <1>1, <1>2, <2>1 DEF Offers
  <1>4. /\ units[i] \in Nat /\ units'[i] = units[i] - n /\ money[i] \in Nat
        /\ \A w \in Wallets \ {i} : units'[w] = units[w]
    BY <1>1, <1>2 DEF MarketInv, Balances
  <1>5. /\ HeldIn(o, x) = x.escrow /\ MoneyIn(o, x) = 0
        /\ \A w : /\ PaidIn(o, x, w) = 0
                  /\ OwedIn(o, x, w) = IF i = w THEN x.deposited ELSE 0
    BY <1>1, OfferTerms
  <1>6. /\ HeldIn(o, y) = x.escrow + n /\ MoneyIn(o, y) = 0
        /\ \A w : /\ PaidIn(o, y, w) = 0
                  /\ OwedIn(o, y, w) = IF i = w THEN x.deposited + n ELSE 0
    <2> HIDE DEF x, y, i
    <2> QED BY <1>3, OfferTerms
  <1>7. /\ units'[i] - units[i] = HeldIn(o, x) - HeldIn(o, y)
        /\ ~(units'[i] - units[i] > OwedIn(o, x, i) - OwedIn(o, y, i))
        /\ \A w \in Wallets \ {i} : OwedIn(o, y, w) <= OwedIn(o, x, w)
        /\ \A w \in Wallets : PaidIn(o, y, w) <= PaidIn(o, x, w)
        /\ money'[i] - money[i] = MoneyIn(o, x) - MoneyIn(o, y)
        /\ money'[i] - money[i] <= PaidIn(o, x, i) - PaidIn(o, y, i)
    <2> HIDE DEF x, y, i
    <2> QED BY <1>0, <1>1, <1>2, <1>4, <1>5, <1>6
  <1> QED BY <1>0, <1>1, <1>2, <1>4, <1>7, NobodyPaid

(* cancel_offer and expire_offer: more than the ledger only to the vetted.   *)
LEMMA OfferEndFine ==
    ASSUME MarketInv, MarketInv', NEW o \in OfferIds, IsOpen(o),
           NEW st \in {"Cancelled", "Expired"}, EndOffer(o, st)
    PROVE  StepFine
  <1> DEFINE x == trades[o]
             y == trades'[o]
             i == x.maker
             payout == Release(x.escrow, x.deposited, i)
  <1>0. o \in Ids
    BY DEF Ids
  <1>1. /\ x \in Offers /\ x.status = "Open" /\ i \in Wallets
        /\ x.escrow \in Nat /\ x.deposited \in Nat /\ x.deposited <= x.escrow
    <2>1. x \in Offers /\ x.status = "Open" /\ OfferFine(x)
      BY Account DEF IsOpen, Statuses, MarketInv, TradesFine
    <2> HIDE DEF x
    <2> QED BY <2>1 DEF Offers, OfferFine, Statuses
  <1>2. /\ payout \in Nat /\ payout <= x.escrow
        /\ Min({x.escrow, x.deposited}) = x.deposited
        /\ payout > x.deposited => i \in eligible
    BY <1>1, ReleaseFits
  <1>3. /\ y = [x EXCEPT !.deposited = x.deposited - Min({x.escrow, x.deposited}),
                         !.escrow = x.escrow - payout, !.status = st]
        /\ Touches(o) /\ money' = money /\ units' = [units EXCEPT ![i] = @ + payout]
    BY <1>0 DEF EndOffer, Touches, MarketInv, TradesFine
  <1>4. y \in Offers /\ y.status = st /\ y.escrow = x.escrow - payout
    <2>1. /\ x.escrow - payout \in Nat /\ x.deposited - Min({x.escrow, x.deposited}) \in Nat
          /\ st \in Statuses
      <3> HIDE DEF payout
      <3> QED BY <1>1, <1>2 DEF Statuses
    <2> HIDE DEF x, y, payout
    <2> QED BY <1>1, <1>3, <2>1 DEF Offers
  <1>5. /\ units[i] \in Nat /\ units'[i] = units[i] + payout /\ money[i] \in Nat
        /\ \A w \in Wallets \ {i} : units'[w] = units[w]
    <2> HIDE DEF payout
    <2> QED BY <1>1, <1>3 DEF MarketInv, Balances
  <1>6. /\ HeldIn(o, x) = x.escrow /\ MoneyIn(o, x) = 0
        /\ \A w : /\ PaidIn(o, x, w) = 0
                  /\ OwedIn(o, x, w) = IF i = w THEN x.deposited ELSE 0
    BY <1>1, OfferTerms
  <1>7. /\ HeldIn(o, y) = x.escrow - payout /\ MoneyIn(o, y) = 0
        /\ \A w : PaidIn(o, y, w) = 0 /\ OwedIn(o, y, w) = 0
    <2>1. st # "Open"
      OBVIOUS
    <2> HIDE DEF x, y, i, payout
    <2> QED BY <1>4, <2>1, OfferTerms
  <1>8. /\ units'[i] - units[i] = HeldIn(o, x) - HeldIn(o, y)
        /\ units'[i] - units[i] > OwedIn(o, x, i) - OwedIn(o, y, i) => i \in eligible
        /\ \A w \in Wallets \ {i} : OwedIn(o, y, w) <= OwedIn(o, x, w)
        /\ \A w \in Wallets : PaidIn(o, y, w) <= PaidIn(o, x, w)
        /\ money'[i] - money[i] = MoneyIn(o, x) - MoneyIn(o, y)
        /\ money'[i] - money[i] <= PaidIn(o, x, i) - PaidIn(o, y, i)
    <2> HIDE DEF x, y, i, payout
    <2> QED BY <1>1, <1>2, <1>3, <1>5, <1>6, <1>7
  <1> QED BY <1>0, <1>1, <1>3, <1>5, <1>8, NobodyPaid

(* A push: the pusher only loses.                                            *)
LEMMA PushFine ==
    ASSUME MarketInv, MarketInv', NEW i \in Wallets, NEW t \in Ids, NEW n \in Lots,
           Push(i, t, n)
    PROVE  StepFine
  <1> DEFINE x == trades[t]
             y == trades'[t]
  <1>0. IsOpen(t) /\ n \in Nat
    BY MarketAssumption DEF Push, HookPasses, IsMarked, Ids, MarketInv, Around
  <1>1. money' = money /\ units' = [units EXCEPT ![i] = @ - n] /\ Touches(t)
    BY DEF Push, Touches, MarketInv, TradesFine
  <1>2. /\ units[i] \in Nat /\ units'[i] = units[i] - n /\ money[i] \in Nat
        /\ \A w \in Wallets \ {i} : units'[w] = units[w]
    BY <1>1 DEF MarketInv, Balances
  <1>3. /\ HeldIn(t, x) \in Nat /\ HeldIn(t, y) = HeldIn(t, x) + n
        /\ MoneyIn(t, x) \in Nat /\ MoneyIn(t, y) = MoneyIn(t, x)
        /\ \A w : /\ PaidIn(t, x, w) \in Nat /\ PaidIn(t, y, w) = PaidIn(t, x, w)
                  /\ OwedIn(t, x, w) \in Nat /\ OwedIn(t, y, w) = OwedIn(t, x, w)
    <2>1. /\ HeldIn(t, x) \in Nat /\ MoneyIn(t, x) \in Nat
          /\ \A w : PaidIn(t, x, w) \in Nat /\ OwedIn(t, x, w) \in Nat
      BY TermTypes DEF MarketInv, TradesFine
    <2>2. CASE t \in OfferIds
      <3>1. x \in Offers /\ x.status = "Open" /\ x.escrow \in Nat
        BY <1>0, <2>2, Account DEF IsOpen, Statuses, Offers
      <3>2. y = [x EXCEPT !.escrow = x.escrow + n] /\ x.escrow + n \in Nat
        BY <1>0, <2>2, <3>1 DEF Push, MarketInv, TradesFine
      <3> HIDE DEF x, y
      <3>3. /\ y \in Offers /\ y.status = "Open" /\ y.maker = x.maker
            /\ y.escrow = x.escrow + n /\ y.deposited = x.deposited
        BY <3>1, <3>2 DEF Offers
      <3> QED BY <2>1, <2>2, <3>1, <3>3, OfferTerms
    <2>3. CASE t \in DealIds
      <3>1. x \in Deals /\ x.status = "Open" /\ x.asset_escrow \in Nat
        BY <1>0, <2>3, Account DEF IsOpen, Statuses, Deals
      <3>2. y = [x EXCEPT !.asset_escrow = x.asset_escrow + n] /\ x.asset_escrow + n \in Nat
        BY <1>0, <2>3, <3>1, MarketAssumption DEF Push, MarketInv, TradesFine
      <3> HIDE DEF x, y
      <3>3. /\ y \in Deals /\ y.status = "Open" /\ y.buyer = x.buyer /\ y.seller = x.seller
            /\ y.asset_escrow = x.asset_escrow + n /\ y.payment_escrow = x.payment_escrow
            /\ y.asset_deposited_amount = x.asset_deposited_amount
            /\ y.payment_deposited_amount = x.payment_deposited_amount
        BY <3>1, <3>2 DEF Deals
      <3> QED BY <2>1, <2>3, <3>1, <3>3, DealTerms
    <2> QED BY <2>2, <2>3 DEF Ids
  <1>4. /\ units'[i] - units[i] = HeldIn(t, x) - HeldIn(t, y)
        /\ ~(units'[i] - units[i] > OwedIn(t, x, i) - OwedIn(t, y, i))
        /\ \A w \in Wallets \ {i} : OwedIn(t, y, w) <= OwedIn(t, x, w)
        /\ \A w \in Wallets : PaidIn(t, y, w) <= PaidIn(t, x, w)
        /\ money'[i] - money[i] = MoneyIn(t, x) - MoneyIn(t, y)
        /\ money'[i] - money[i] <= PaidIn(t, x, i) - PaidIn(t, y, i)
    <2> HIDE DEF x, y
    <2> QED BY <1>0, <1>1, <1>2, <1>3
  <1> QED BY <1>1, <1>2, <1>4, NobodyPaid

(* A push of money: the pusher only loses.                                   *)
LEMMA PushPaymentFine ==
    ASSUME MarketInv, MarketInv', NEW i \in Wallets, NEW d \in DealIds, NEW n \in Prices,
           PushPayment(i, d, n)
    PROVE  StepFine
  <1> DEFINE x == trades[d]
             y == trades'[d]
  <1>0. d \in Ids /\ n \in Nat
    BY MarketAssumption DEF Ids
  <1>1. units' = units /\ money' = [money EXCEPT ![i] = @ - n] /\ Touches(d)
    BY DEF PushPayment, Touches, MarketInv, TradesFine
  <1>2. /\ money[i] \in Nat /\ money'[i] = money[i] - n /\ units[i] \in Nat
        /\ \A w \in Wallets \ {i} : money'[w] = money[w]
    BY <1>1 DEF MarketInv, Balances
  <1>3. /\ HeldIn(d, x) \in Nat /\ HeldIn(d, y) = HeldIn(d, x)
        /\ MoneyIn(d, x) \in Nat /\ MoneyIn(d, y) = MoneyIn(d, x) + n
        /\ \A w : /\ PaidIn(d, x, w) \in Nat /\ PaidIn(d, y, w) = PaidIn(d, x, w)
                  /\ OwedIn(d, x, w) \in Nat /\ OwedIn(d, y, w) = OwedIn(d, x, w)
    <2>1. /\ HeldIn(d, x) \in Nat /\ MoneyIn(d, x) \in Nat
          /\ \A w : PaidIn(d, x, w) \in Nat /\ OwedIn(d, x, w) \in Nat
      BY <1>0, TermTypes DEF MarketInv, TradesFine
    <2>2. x \in Deals /\ x.payment_escrow \in Nat
      BY Account DEF PushPayment, Deals
    <2>3. y = [x EXCEPT !.payment_escrow = x.payment_escrow + n] /\ x.payment_escrow + n \in Nat
      BY <1>0, <2>2 DEF PushPayment, MarketInv, TradesFine
    <2> HIDE DEF x, y
    <2>4. /\ y \in Deals /\ y.status = x.status /\ y.buyer = x.buyer /\ y.seller = x.seller
          /\ y.asset_escrow = x.asset_escrow /\ y.payment_escrow = x.payment_escrow + n
          /\ y.asset_deposited_amount = x.asset_deposited_amount
          /\ y.payment_deposited_amount = x.payment_deposited_amount
      BY <2>2, <2>3 DEF Deals
    <2> QED BY <2>1, <2>2, <2>4, DealTerms
  <1>4. /\ units'[i] - units[i] = HeldIn(d, x) - HeldIn(d, y)
        /\ ~(units'[i] - units[i] > OwedIn(d, x, i) - OwedIn(d, y, i))
        /\ \A w \in Wallets : OwedIn(d, y, w) <= OwedIn(d, x, w)
        /\ \A w \in Wallets \ {i} : PaidIn(d, y, w) <= PaidIn(d, x, w)
        /\ money'[i] - money[i] = MoneyIn(d, x) - MoneyIn(d, y)
        /\ money'[i] - money[i] <= PaidIn(d, x, i) - PaidIn(d, y, i)
    <2> HIDE DEF x, y
    <2>1. units'[i] = units[i]
      BY <1>1
    <2>2. PaidIn(d, x, i) \in Nat /\ OwedIn(d, x, i) \in Nat
      BY <1>3
    <2> QED BY <1>0, <1>2, <1>3, <2>1, <2>2
  <1> QED BY <1>0, <1>1, <1>2, <1>4, NobodyPaid

\* What is left of an open deal's ledgers.
AssetLedger(x)   == IF x.status = "Open" THEN x.asset_deposited_amount ELSE 0
PaymentLedger(x) == IF x.status = "Open" THEN x.payment_deposited_amount ELSE 0

(* Units between a deal and its seller, money between it and its buyer: out  *)
(* of it comes no more than the ledgers pay for, or the seller is vetted.    *)
Flows(x, y) ==
    /\ units'[x.seller] + y.asset_escrow = units[x.seller] + x.asset_escrow
    /\ money'[x.buyer] + y.payment_escrow = money[x.buyer] + x.payment_escrow
    /\ \A w \in Wallets \ {x.seller} : units'[w] = units[w]
    /\ \A w \in Wallets \ {x.buyer} : money'[w] = money[w]
    /\ units'[x.seller] - units[x.seller] > AssetLedger(x) - AssetLedger(y) =>
          x.seller \in eligible
    /\ money'[x.buyer] - money[x.buyer] <= PaymentLedger(x) - PaymentLedger(y)

(* Such a step is fine.                                                      *)
LEMMA DealFlow ==
    ASSUME MarketInv, MarketInv', NEW d \in DealIds, Touches(d),
           NEW x \in Deals, NEW y \in Deals, x = trades[d], y = trades'[d],
           x.status = "Open", y.seller = x.seller, y.buyer = x.buyer, Flows(x, y)
    PROVE  StepFine
  <1> DEFINE i == x.seller
             j == x.buyer
  <1>0. d \in Ids /\ i \in Wallets /\ j \in Wallets
    BY DEF Ids, Deals
  <1>1. /\ units[i] \in Nat /\ money[j] \in Nat
        /\ units'[i] \in Nat /\ money'[j] \in Nat
        /\ x.asset_escrow \in Nat /\ x.payment_escrow \in Nat
        /\ y.asset_escrow \in Nat /\ y.payment_escrow \in Nat
    BY <1>0 DEF MarketInv, Balances, Deals
  <1>2. /\ HeldIn(d, x) = x.asset_escrow /\ MoneyIn(d, x) = x.payment_escrow
        /\ \A w : /\ PaidIn(d, x, w) = IF j = w THEN PaymentLedger(x) ELSE 0
                  /\ OwedIn(d, x, w) = IF i = w THEN AssetLedger(x) ELSE 0
    BY DealTerms DEF AssetLedger, PaymentLedger
  <1>3. /\ HeldIn(d, y) = y.asset_escrow /\ MoneyIn(d, y) = y.payment_escrow
        /\ \A w : /\ PaidIn(d, y, w) = IF j = w THEN PaymentLedger(y) ELSE 0
                  /\ OwedIn(d, y, w) = IF i = w THEN AssetLedger(y) ELSE 0
    BY DealTerms DEF AssetLedger, PaymentLedger
  <1>4. /\ units'[i] - units[i] = HeldIn(d, x) - HeldIn(d, y)
        /\ units'[i] - units[i] > OwedIn(d, x, i) - OwedIn(d, y, i) => i \in eligible
        /\ \A w \in Wallets \ {i} :
              units'[w] = units[w] /\ OwedIn(d, y, w) <= OwedIn(d, x, w)
        /\ \A w \in Wallets \ {j} :
              money'[w] = money[w] /\ PaidIn(d, y, w) <= PaidIn(d, x, w)
        /\ money'[j] - money[j] = MoneyIn(d, x) - MoneyIn(d, y)
        /\ money'[j] - money[j] <= PaidIn(d, x, j) - PaidIn(d, y, j)
    <2>1. /\ OwedIn(d, x, i) = AssetLedger(x) /\ OwedIn(d, y, i) = AssetLedger(y)
          /\ PaidIn(d, x, j) = PaymentLedger(x) /\ PaidIn(d, y, j) = PaymentLedger(y)
      BY <1>2, <1>3
    <2>2. /\ \A w \in Wallets \ {i} : OwedIn(d, y, w) <= OwedIn(d, x, w)
          /\ \A w \in Wallets \ {j} : PaidIn(d, y, w) <= PaidIn(d, x, w)
      BY <1>2, <1>3
    <2>3. /\ units'[i] - units[i] = HeldIn(d, x) - HeldIn(d, y)
          /\ money'[j] - money[j] = MoneyIn(d, x) - MoneyIn(d, y)
      <3>1. /\ units'[i] + y.asset_escrow = units[i] + x.asset_escrow
            /\ money'[j] + y.payment_escrow = money[j] + x.payment_escrow
        BY DEF Flows
      <3>2. /\ HeldIn(d, x) = x.asset_escrow /\ MoneyIn(d, x) = x.payment_escrow
            /\ HeldIn(d, y) = y.asset_escrow /\ MoneyIn(d, y) = y.payment_escrow
        BY <1>2, <1>3
      <3> HIDE DEF i, j
      <3> QED BY <1>1, <3>1, <3>2
    <2> QED BY <2>1, <2>2, <2>3 DEF Flows
  <1> QED BY <1>0, <1>4, NobodyPaid

(* refund_otc_deposits: the seller gets its ledger, more only when vetted;   *)
(* the buyer gets its ledger.                                                *)
LEMMA DealEndFine ==
    ASSUME MarketInv, MarketInv', NEW d \in DealIds, IsOpen(d),
           NEW st \in {"Cancelled", "Expired"}, EndDeal(d, st)
    PROVE  StepFine
  <1> DEFINE x == trades[d]
             y == trades'[d]
             i == x.seller
             j == x.buyer
             u == Release(x.asset_escrow, x.asset_deposited_amount, i)
             m == Min({x.payment_escrow, x.payment_deposited_amount})
  <1>1. /\ x \in Deals /\ x.status = "Open" /\ i \in Wallets /\ j \in Wallets
        /\ x.asset_escrow \in Nat /\ x.payment_escrow \in Nat
        /\ x.asset_deposited_amount \in Nat /\ x.payment_deposited_amount \in Nat
        /\ x.asset_deposited_amount <= x.asset_escrow
        /\ x.payment_deposited_amount <= x.payment_escrow
    BY OpenDeal
  <1>2. /\ u \in Nat /\ u <= x.asset_escrow
        /\ u > x.asset_deposited_amount => i \in eligible
        /\ m = x.payment_deposited_amount
    BY <1>1, ReleaseFits, MinOfTwo
  <1>3. /\ y = [x EXCEPT !.asset_escrow = x.asset_escrow - u,
                         !.payment_escrow = x.payment_escrow - m, !.status = st]
        /\ Touches(d)
        /\ units' = [units EXCEPT ![i] = @ + u] /\ money' = [money EXCEPT ![j] = @ + m]
    BY DEF EndDeal, Touches, MarketInv, TradesFine, Ids
  <1>4. /\ y \in Deals /\ y.status = st /\ y.seller = i /\ y.buyer = j
        /\ y.asset_escrow = x.asset_escrow - u /\ y.payment_escrow = x.payment_escrow - m
    <2>1. /\ x.asset_escrow - u \in Nat /\ x.payment_escrow - m \in Nat /\ st \in Statuses
      <3> HIDE DEF u, m
      <3> QED BY <1>1, <1>2 DEF Statuses
    <2> HIDE DEF x, y, u, m
    <2> QED BY <1>1, <1>3, <2>1 DEF Deals
  <1>5. /\ units'[i] = units[i] + u /\ money'[j] = money[j] + m
        /\ \A w \in Wallets \ {i} : units'[w] = units[w]
        /\ \A w \in Wallets \ {j} : money'[w] = money[w]
    <2> HIDE DEF u, m
    <2> QED BY <1>1, <1>3 DEF MarketInv, Balances
  <1>6. Flows(x, y)
    <2>1. AssetLedger(y) = 0 /\ PaymentLedger(y) = 0
      <3> HIDE DEF y
      <3> QED BY <1>4 DEF AssetLedger, PaymentLedger
    <2>2. /\ AssetLedger(x) = x.asset_deposited_amount
          /\ PaymentLedger(x) = x.payment_deposited_amount
      BY <1>1 DEF AssetLedger, PaymentLedger
    <2>3. units[i] \in Nat /\ money[j] \in Nat
      BY <1>1 DEF MarketInv, Balances
    <2> HIDE DEF x, y, u, m
    <2> QED BY <1>1, <1>2, <1>4, <1>5, <2>1, <2>2, <2>3 DEF Flows
  <1> HIDE DEF u, m
  <1> QED BY <1>1, <1>3, <1>4, <1>6, DealFlow

-----------------------------------------------------------------------------
\* What the wallet w gets of n that go to v.
Share(w, v, n) == IF w = v THEN n ELSE 0

\* After h the wallet w has n more than after f and the wallet v n fewer.
HandsOver(f, h, v, w, n) ==
    \A k \in Wallets : h[k] = f[k] + Share(k, w, n) - Share(k, v, n)

(* What goes from one wallet to another is still there.                      *)
LEMMA HandedOver ==
    ASSUME NEW f \in [Wallets -> Nat], NEW h \in [Wallets -> Nat],
           NEW v \in Wallets, NEW w \in Wallets, NEW n \in Nat, HandsOver(f, h, v, w, n)
    PROVE  SumOf(h, Wallets) = SumOf(f, Wallets)
  <1>1. CASE v = w
    <2>1. \A k \in Wallets : h[k] = f[k]
      BY <1>1 DEF HandsOver, Share
    <2>2. h = f
      BY <2>1
    <2> QED BY <2>2
  <1>2. CASE v # w
    <2> DEFINE g == [f EXCEPT ![v] = h[v]]
    <2>1. /\ g \in [Wallets -> Nat] /\ g[v] = h[v] /\ g[w] = f[w]
          /\ \A k \in Wallets \ {v} : g[k] = f[k]
      BY <1>2
    <2> HIDE DEF g
    <2>2. /\ h[v] = f[v] - n /\ h[w] = f[w] + n
          /\ \A k \in Wallets \ {w} : h[k] = g[k]
      BY <1>2, <2>1 DEF HandsOver, Share
    <2>3. /\ SumOf(f, Wallets) \in Nat /\ f[v] \in Nat
          /\ SumOf(g, Wallets) = SumOf(f, Wallets) - f[v] + g[v]
      BY <2>1, WalletsChange
    <2>4. /\ SumOf(g, Wallets) \in Nat /\ f[w] \in Nat
          /\ SumOf(h, Wallets) = SumOf(g, Wallets) - g[w] + h[w]
      BY <2>1, <2>2, WalletsChange
    <2> QED BY <2>1, <2>2, <2>3, <2>4
  <1> QED BY <1>1, <1>2

\* The trade t swaps its amount of units of s for its price in money of b.
Exchanged(t, s, b) ==
    \A w \in Wallets :
       /\ units'[w] + OwedIn(t, trades'[t], w)
             = units[w] + OwedIn(t, trades[t], w)
               + Share(w, b, trades[t].amount) - Share(w, s, trades[t].amount)
       /\ money'[w] + PaidIn(t, trades'[t], w)
             = money[w] + PaidIn(t, trades[t], w)
               + Share(w, s, trades[t].price) - Share(w, b, trades[t].price)

(* In a swap the stakes of the two change by that and no other does.         *)
LEMMA SwapFine ==
    ASSUME MarketInv, MarketInv', NEW t \in Ids, Touches(t), IsOpen(t),
           trades'[t].status \in {"Filled", "Completed"},
           NEW s \in Wallets, NEW b \in Wallets, b \in eligible,
           trades[t].amount \in Nat, trades[t].price \in Nat, Exchanged(t, s, b)
    PROVE  Gain /\ PaidFor
  <1> DEFINE n == trades[t].amount
             p == trades[t].price
  <1>1. ASSUME NEW w \in Wallets
        PROVE  /\ Stake(w) \in Nat /\ Stake(w)' \in Int
               /\ MoneyStake(w) \in Nat /\ MoneyStake(w)' \in Int
               /\ Stake(w)' = Stake(w) + Share(w, b, n) - Share(w, s, n)
               /\ MoneyStake(w)' = MoneyStake(w) + Share(w, s, p) - Share(w, b, p)
    <2>1. Share(w, b, n) \in Nat /\ Share(w, s, n) \in Nat
          /\ Share(w, s, p) \in Nat /\ Share(w, b, p) \in Nat
      BY DEF Share
    <2>2. /\ units'[w] + OwedIn(t, trades'[t], w)
                = units[w] + OwedIn(t, trades[t], w) + Share(w, b, n) - Share(w, s, n)
          /\ money'[w] + PaidIn(t, trades'[t], w)
                = money[w] + PaidIn(t, trades[t], w) + Share(w, s, p) - Share(w, b, p)
      BY DEF Exchanged
    <2> HIDE DEF n, p
    <2> QED BY <2>1, <2>2, StakeChange
  <1>2. ASSUME NEW w \in Wallets, w \notin eligible
        PROVE  Stake(w)' <= Stake(w)
    BY <1>1, <1>2 DEF Share
  <1>3. ASSUME NEW w \in Wallets, MoneyStake(w)' > MoneyStake(w)
        PROVE  Swapped(w)
    <2>1. w = s /\ w # b
      BY <1>1, <1>3 DEF Share
    <2>2. /\ Stake(w)' = Stake(w) - n /\ MoneyStake(w)' = MoneyStake(w) + p
          /\ Stake(b)' = Stake(b) + n /\ MoneyStake(b)' = MoneyStake(b) - p
      BY <1>1, <2>1 DEF Share
    <2> QED BY <2>2 DEF Swapped
  <1> QED BY <1>2, <1>3 DEF Gain, PaidFor

(* take_offer: the maker's deposit for the taker's money.                    *)
LEMMA TakeFine ==
    ASSUME MarketInv, MarketInv', NEW o \in OfferIds, NEW b \in Wallets, TakeOffer(o, b)
    PROVE  StepFine
  <1> DEFINE x == trades[o]
             y == trades'[o]
             s == x.maker
             n == x.amount
             p == x.price
  <1>0. o \in Ids
    BY DEF Ids
  <1>1. /\ x \in Offers /\ x.status = "Open" /\ s \in Wallets /\ n \in Nat /\ p \in Nat
        /\ x.escrow \in Nat /\ x.deposited = n /\ x.deposited <= x.escrow
    <2>1. x \in Offers /\ x.status = "Open" /\ OfferFine(x) /\ x.deposited >= n
      BY Account DEF TakeOffer, Funded, IsOpen, Statuses, MarketInv, TradesFine
    <2> HIDE DEF x
    <2>2. /\ s \in Wallets /\ n \in Nat /\ p \in Nat /\ x.escrow \in Nat
          /\ x.deposited \in Nat
      BY <2>1, MarketAssumption DEF Offers
    <2>3. x.deposited <= x.escrow /\ x.deposited <= n
      BY <2>1 DEF OfferFine, Statuses
    <2> QED BY <2>1, <2>2, <2>3
  <1>2. /\ y = [x EXCEPT !.escrow = x.escrow - n, !.deposited = x.deposited - n,
                         !.status = "Filled"]
        /\ Touches(o) /\ money[b] >= p /\ b \in eligible
        /\ money' = Moved(money, b, s, p) /\ units' = [units EXCEPT ![b] = @ + n]
    BY <1>0 DEF TakeOffer, Touches, MarketInv, TradesFine
  <1>3. y \in Offers /\ y.status = "Filled" /\ y.escrow = x.escrow - n
    <2>1. x.escrow - n \in Nat /\ x.deposited - n \in Nat
      BY <1>1
    <2> HIDE DEF x, y
    <2> QED BY <1>1, <1>2, <2>1 DEF Offers, Statuses
  <1>4. /\ units \in [Wallets -> Nat] /\ units' \in [Wallets -> Nat]
        /\ money \in [Wallets -> Nat]
    BY DEF MarketInv, Balances
  <1>5. /\ HeldIn(o, x) = x.escrow /\ MoneyIn(o, x) = 0
        /\ \A w : PaidIn(o, x, w) = 0 /\ OwedIn(o, x, w) = Share(w, s, n)
    BY <1>1, OfferTerms DEF Share
  <1>6. /\ HeldIn(o, y) = x.escrow - n /\ MoneyIn(o, y) = 0
        /\ \A w : PaidIn(o, y, w) = 0 /\ OwedIn(o, y, w) = 0
    <2> HIDE DEF x, y, s
    <2> QED BY <1>3, OfferTerms
  <1>7. Gain /\ PaidFor
    <2>1. ASSUME NEW w \in Wallets
          PROVE  /\ units'[w] = units[w] + Share(w, b, n)
                 /\ money'[w] = money[w] + Share(w, s, p) - Share(w, b, p)
                 /\ units[w] \in Nat /\ money[w] \in Nat
                 /\ Share(w, b, n) \in Nat /\ Share(w, s, n) \in Nat
                 /\ Share(w, b, p) \in Nat /\ Share(w, s, p) \in Nat
      <3> HIDE DEF x, n, p, s
      <3> QED BY <1>1, <1>2, <1>4 DEF Moved, Share
    <2>2. ASSUME NEW w \in Wallets
          PROVE  /\ units'[w] + OwedIn(o, y, w)
                       = units[w] + OwedIn(o, x, w) + Share(w, b, n) - Share(w, s, n)
                 /\ money'[w] + PaidIn(o, y, w)
                       = money[w] + PaidIn(o, x, w) + Share(w, s, p) - Share(w, b, p)
      <3> HIDE DEF x, y, n, p, s
      <3> QED BY <1>5, <1>6, <2>1
    <2>3. y.status \in {"Filled", "Completed"} /\ IsOpen(o)
      BY <1>1, <1>3 DEF IsOpen
    <2>4. Exchanged(o, s, b)
      BY <2>2 DEF Exchanged
    <2> QED BY <1>0, <1>1, <1>2, <2>3, <2>4, SwapFine
  <1>8. Conserved
    <2>1. /\ SumOf(units, Wallets) \in Nat /\ units[b] \in Nat
          /\ SumOf(units', Wallets) = SumOf(units, Wallets) + n
      <3> DEFINE f == units
                 g == units'
      <3>1. /\ f \in [Wallets -> Nat] /\ g \in [Wallets -> Nat] /\ f[b] \in Nat
            /\ g[b] = f[b] + n /\ \A w \in Wallets \ {b} : g[w] = f[w]
        BY <1>2, <1>4
      <3> HIDE DEF f, g, x, n
      <3>2. /\ SumOf(f, Wallets) \in Nat
            /\ SumOf(g, Wallets) = SumOf(f, Wallets) - f[b] + g[b]
        BY <3>1, WalletsChange
      <3>3. SumOf(f, Wallets) \in Nat /\ SumOf(g, Wallets) = SumOf(f, Wallets) + n
        BY <1>1, <3>1, <3>2
      <3> QED BY <1>4, <3>3 DEF f, g
    <2>2. SumOf(money', Wallets) = SumOf(money, Wallets)
      <3> DEFINE f == money
                 g == money'
      <3>1. f \in [Wallets -> Nat] /\ g \in [Wallets -> Nat]
        BY <1>4 DEF MarketInv, Balances
      <3>2. HandsOver(f, g, b, s, p)
        <4> HIDE DEF x, s, p
        <4> QED BY <1>1, <1>2, <1>4 DEF Moved, HandsOver, Share
      <3> HIDE DEF f, g, x, s, p
      <3>3. SumOf(g, Wallets) = SumOf(f, Wallets)
        BY <1>1, <3>1, <3>2, HandedOver
      <3> QED BY <3>3 DEF f, g
    <2>3. /\ HeldUnits \in Nat /\ HeldMoney \in Nat
          /\ HeldUnits' = HeldUnits - HeldIn(o, x) + HeldIn(o, y)
          /\ HeldMoney' = HeldMoney - MoneyIn(o, x) + MoneyIn(o, y)
      BY <1>0, <1>2, OneTermAtATime
    <2> HIDE DEF x, y, n
    <2> QED BY <1>1, <1>5, <1>6, <2>1, <2>2, <2>3 DEF Conserved
  <1> QED BY <1>7, <1>8 DEF StepFine

-----------------------------------------------------------------------------
\* The wallet v pays n to the wallet w, out of what it has in a deal.
PaysFrom(f, h, v, w, n, ledger) ==
    \A k \in Wallets : h[k] = f[k] + Share(k, v, ledger) + Share(k, w, n) - Share(k, v, n)

(* The wallets gain what was in the deal.                                    *)
LEMMA PaidOut ==
    ASSUME NEW f \in [Wallets -> Nat], NEW h \in [Wallets -> Nat],
           NEW v \in Wallets, NEW w \in Wallets, NEW n \in Nat, NEW ledger \in {0, n},
           PaysFrom(f, h, v, w, n, ledger)
    PROVE  SumOf(f, Wallets) \in Nat /\ SumOf(h, Wallets) = SumOf(f, Wallets) + ledger
  <1>1. CASE ledger = 0
    <2>1. HandsOver(f, h, v, w, n)
      BY <1>1 DEF PaysFrom, HandsOver, Share
    <2>2. SumOf(h, Wallets) = SumOf(f, Wallets)
      BY <2>1, HandedOver
    <2>3. SumOf(f, Wallets) \in Nat
      BY SumType, MarketAssumption
    <2> QED BY <1>1, <2>2, <2>3
  <1>2. CASE ledger = n
    <2>1. \A k \in Wallets \ {w} : h[k] = f[k]
      BY <1>2 DEF PaysFrom, Share
    <2>2. h[w] = f[w] + n
      BY <1>2 DEF PaysFrom, Share
    <2>3. /\ SumOf(f, Wallets) \in Nat /\ f[w] \in Nat
          /\ SumOf(h, Wallets) = SumOf(f, Wallets) - f[w] + h[w]
      BY <2>1, WalletsChange
    <2> QED BY <1>2, <2>2, <2>3
  <1> QED BY <1>1, <1>2

\* The deal x ends as y: its parties' ledgers, full or still in their
\* wallets, change hands.
Settles(x, y) ==
    /\ PaysFrom(units, units', x.seller, x.buyer, x.amount, x.asset_deposited_amount)
    /\ PaysFrom(money, money', x.buyer, x.seller, x.price, x.payment_deposited_amount)
    /\ y.asset_escrow = x.asset_escrow - x.asset_deposited_amount
    /\ y.payment_escrow = x.payment_escrow - x.payment_deposited_amount

(* settle_otc_deal: delivery against payment, at the terms of the deal.      *)
LEMMA SettleFine ==
    ASSUME MarketInv, MarketInv', NEW d \in DealIds, Touches(d), IsOpen(d),
           NEW x \in Deals, NEW y \in Deals, x = trades[d], y = trades'[d],
           y.status = "Completed", x.buyer \in eligible, Settles(x, y)
    PROVE  StepFine
  <1> DEFINE s == x.seller
             b == x.buyer
             n == x.amount
             p == x.price
             u == x.asset_deposited_amount
             m == x.payment_deposited_amount
  <1>0. d \in Ids
    BY DEF Ids
  <1>1. /\ x.status = "Open" /\ b \in Wallets /\ s \in Wallets
        /\ n \in Nat /\ p \in Nat /\ x.asset_escrow \in Nat /\ x.payment_escrow \in Nat
        /\ u \in {0, n} /\ m \in {0, p} /\ u \in Nat /\ m \in Nat
    BY OpenDeal
  <1>2. /\ HeldIn(d, x) = x.asset_escrow /\ MoneyIn(d, x) = x.payment_escrow
        /\ \A w : PaidIn(d, x, w) = Share(w, b, m) /\ OwedIn(d, x, w) = Share(w, s, u)
    BY <1>1, DealTerms DEF Share
  <1>3. /\ HeldIn(d, y) = x.asset_escrow - u /\ MoneyIn(d, y) = x.payment_escrow - m
        /\ \A w : PaidIn(d, y, w) = 0 /\ OwedIn(d, y, w) = 0
    BY DealTerms DEF Settles
  <1>4. /\ units \in [Wallets -> Nat] /\ units' \in [Wallets -> Nat]
        /\ money \in [Wallets -> Nat] /\ money' \in [Wallets -> Nat]
    BY DEF MarketInv, Balances
  <1>5. Exchanged(d, s, b)
    <2>1. ASSUME NEW w \in Wallets
          PROVE  /\ units'[w] + OwedIn(d, y, w)
                       = units[w] + OwedIn(d, x, w) + Share(w, b, n) - Share(w, s, n)
                 /\ money'[w] + PaidIn(d, y, w)
                       = money[w] + PaidIn(d, x, w) + Share(w, s, p) - Share(w, b, p)
      <3>1. /\ units'[w] = units[w] + Share(w, s, u) + Share(w, b, n) - Share(w, s, n)
            /\ money'[w] = money[w] + Share(w, b, m) + Share(w, s, p) - Share(w, b, p)
        BY DEF Settles, PaysFrom
      <3>2. units'[w] \in Nat /\ money'[w] \in Nat
        BY <1>4
      <3> HIDE DEF s, b, n, p, u, m
      <3> QED BY <1>2, <1>3, <3>1, <3>2
    <2> QED BY <2>1 DEF Exchanged
  <1>6. Gain /\ PaidFor
    BY <1>0, <1>1, <1>5, SwapFine
  <1>7. Conserved
    <2>1. /\ SumOf(units, Wallets) \in Nat
          /\ SumOf(units', Wallets) = SumOf(units, Wallets) + u
      <3> DEFINE f == units
                 h == units'
      <3>1. /\ f \in [Wallets -> Nat] /\ h \in [Wallets -> Nat]
            /\ PaysFrom(f, h, s, b, n, u)
        BY <1>4 DEF Settles
      <3> HIDE DEF f, h, s, b, n, u
      <3>2. SumOf(f, Wallets) \in Nat /\ SumOf(h, Wallets) = SumOf(f, Wallets) + u
        BY <1>1, <3>1, PaidOut
      <3> QED BY <3>2 DEF f, h
    <2>2. /\ SumOf(money, Wallets) \in Nat
          /\ SumOf(money', Wallets) = SumOf(money, Wallets) + m
      <3> DEFINE f == money
                 h == money'
      <3>1. /\ f \in [Wallets -> Nat] /\ h \in [Wallets -> Nat]
            /\ PaysFrom(f, h, b, s, p, m)
        BY <1>4 DEF Settles
      <3> HIDE DEF f, h, s, b, p, m
      <3>2. SumOf(f, Wallets) \in Nat /\ SumOf(h, Wallets) = SumOf(f, Wallets) + m
        BY <1>1, <3>1, PaidOut
      <3> QED BY <3>2 DEF f, h
    <2>3. /\ HeldUnits \in Nat /\ HeldMoney \in Nat
          /\ HeldUnits' = HeldUnits - HeldIn(d, x) + HeldIn(d, y)
          /\ HeldMoney' = HeldMoney - MoneyIn(d, x) + MoneyIn(d, y)
      BY <1>0, OneTermAtATime
    <2> HIDE DEF u, m
    <2> QED BY <1>1, <1>2, <1>3, <2>1, <2>2, <2>3 DEF Conserved
  <1> QED BY <1>6, <1>7 DEF StepFine

(* deposit_otc_asset: alone, or into the swap.                               *)
LEMMA AssetDepositFine ==
    ASSUME MarketInv, MarketInv', NEW d \in DealIds, DepositOtcAsset(d)
    PROVE  StepFine
  <1> DEFINE x      == trades[d]
             y      == trades'[d]
             s      == x.seller
             b      == x.buyer
             n      == x.amount
             p      == x.price
             funded == [x EXCEPT !.asset_escrow = x.asset_escrow + n,
                                 !.asset_deposited_amount = n]
             left   == [units EXCEPT ![s] = @ - n]
  <1>0. IsOpen(d) /\ Touches(d) /\ x.asset_deposited_amount <= 0 /\ d \in DOMAIN trades
    <2>1. IsOpen(d) /\ ~(x.asset_deposited_amount > 0) /\ x.asset_deposited_amount \in Nat
      BY OpenDeal DEF DepositOtcAsset, AssetDeposited
    <2>2. Touches(d) /\ d \in DOMAIN trades
      BY DEF DepositOtcAsset, Settle, Touches, MarketInv, TradesFine, Ids
    <2> QED BY <2>1, <2>2
  <1>1. /\ x \in Deals /\ x.status = "Open" /\ b \in Wallets /\ s \in Wallets
        /\ n \in Nat /\ p \in Nat /\ x.asset_escrow \in Nat /\ x.payment_escrow \in Nat
        /\ x.asset_deposited_amount = 0
        /\ x.payment_deposited_amount \in {0, p} /\ x.payment_deposited_amount \in Nat
        /\ x.payment_deposited_amount <= x.payment_escrow
    BY <1>0, OpenDeal
  <1>2. units \in [Wallets -> Nat] /\ money \in [Wallets -> Nat]
    BY DEF MarketInv, Balances
  <1>3. CASE PaymentDeposited(d)
    <2>1. /\ b \in eligible /\ money' = [money EXCEPT ![s] = @ + p]
          /\ units' = [left EXCEPT ![b] = @ + n]
          /\ y = [funded EXCEPT !.asset_escrow = @ - funded.amount,
                                !.payment_escrow = @ - funded.price,
                                !.status = "Completed"]
          /\ funded.amount = n /\ funded.price = p
          /\ funded.asset_escrow = x.asset_escrow + n /\ funded.payment_escrow = x.payment_escrow
          /\ funded \in Deals
      <3>1. Settle(d, funded, left, money)
        BY <1>3 DEF DepositOtcAsset
      <3>2. /\ funded.buyer = b /\ funded.seller = s /\ funded.amount = n
            /\ funded.price = p /\ funded.asset_escrow = x.asset_escrow + n
            /\ funded.payment_escrow = x.payment_escrow /\ funded \in Deals
        <4>1. x.asset_escrow + n \in Nat
          BY <1>1
        <4> HIDE DEF x
        <4> QED BY <1>1, <4>1 DEF Deals
      <3>3. /\ funded.buyer \in eligible
            /\ money' = [money EXCEPT ![funded.seller] = @ + funded.price]
            /\ units' = [left EXCEPT ![funded.buyer] = @ + funded.amount]
            /\ y = [funded EXCEPT !.asset_escrow = funded.asset_escrow - funded.amount,
                                  !.payment_escrow = funded.payment_escrow - funded.price,
                                  !.status = "Completed"]
        <4> HIDE DEF funded, left
        <4> QED BY <1>0, <3>1 DEF Settle, Delivered
      <3> HIDE DEF funded, left, x, y, n, p, s, b
      <3>4. b \in eligible
        BY <3>2, <3>3
      <3>5. money' = [money EXCEPT ![s] = @ + p]
        BY <3>2, <3>3
      <3>6. units' = [left EXCEPT ![b] = @ + n]
        BY <3>2, <3>3
      <3> QED BY <3>2, <3>3, <3>4, <3>5, <3>6
    <2>2. x.payment_deposited_amount = p
      BY <1>1, <1>3 DEF PaymentDeposited
    <2>3. /\ y \in Deals /\ y.status = "Completed" /\ y.asset_escrow = x.asset_escrow
          /\ y.payment_escrow = x.payment_escrow - p
      <3> DEFINE ea == funded.asset_escrow - funded.amount
                 ep == funded.payment_escrow - funded.price
      <3>1. y = [funded EXCEPT !.asset_escrow = ea, !.payment_escrow = ep,
                              !.status = "Completed"]
        BY <2>1
      <3>2. /\ ea = x.asset_escrow /\ ea \in Nat
            /\ ep = x.payment_escrow - p /\ ep \in Nat
        <4> HIDE DEF x, n, p, funded
        <4> QED BY <1>1, <2>1, <2>2
      <3> HIDE DEF x, y, n, p, funded, ea, ep
      <3> QED BY <2>1, <3>1, <3>2 DEF Deals, Statuses
    <2>4. PaysFrom(units, units', s, b, n, 0)
      <3> HIDE DEF x, s, b, n
      <3> QED BY <1>1, <1>2, <2>1 DEF PaysFrom, Share
    <2>5. PaysFrom(money, money', b, s, p, p)
      <3> HIDE DEF x, s, b, p
      <3> QED BY <1>1, <1>2, <2>1 DEF PaysFrom, Share
    <2>6. Settles(x, y)
      <3> HIDE DEF y
      <3> QED BY <1>1, <2>2, <2>3, <2>4, <2>5 DEF Settles
    <2> QED BY <1>0, <1>1, <2>1, <2>3, <2>6, SettleFine
  <1>4. CASE ~PaymentDeposited(d)
    <2>1. units' = left /\ money' = money /\ y = funded
      BY <1>0, <1>4 DEF DepositOtcAsset
    <2>2. /\ y \in Deals /\ y.status = "Open" /\ y.seller = s /\ y.buyer = b
          /\ y.asset_escrow = x.asset_escrow + n /\ y.payment_escrow = x.payment_escrow
          /\ y.asset_deposited_amount = n
          /\ y.payment_deposited_amount = x.payment_deposited_amount
      <3>1. x.asset_escrow + n \in Nat
        BY <1>1
      <3> HIDE DEF x, y, n
      <3> QED BY <1>1, <2>1, <3>1 DEF Deals
    <2>3. /\ units[s] \in Nat /\ money[b] \in Nat /\ units'[s] = units[s] - n
          /\ \A w \in Wallets \ {s} : units'[w] = units[w]
      BY <1>1, <1>2, <2>1
    <2>4. Flows(x, y)
      <3> HIDE DEF x, y, n
      <3> QED BY <1>1, <2>1, <2>2, <2>3 DEF Flows, AssetLedger, PaymentLedger
    <2> QED BY <1>0, <1>1, <2>2, <2>4, DealFlow
  <1> QED BY <1>3, <1>4

(* deposit_otc_payment: alone, or into the swap.                             *)
LEMMA PaymentDepositFine ==
    ASSUME MarketInv, MarketInv', NEW d \in DealIds, DepositOtcPayment(d)
    PROVE  StepFine
  <1> DEFINE x      == trades[d]
             y      == trades'[d]
             s      == x.seller
             b      == x.buyer
             n      == x.amount
             p      == x.price
             funded == [x EXCEPT !.payment_escrow = x.payment_escrow + p,
                                 !.payment_deposited_amount = p]
             left   == [money EXCEPT ![b] = @ - p]
  <1>0. IsOpen(d) /\ Touches(d) /\ x.payment_deposited_amount <= 0 /\ d \in DOMAIN trades
    <2>1. /\ IsOpen(d) /\ ~(x.payment_deposited_amount > 0)
          /\ x.payment_deposited_amount \in Nat
      BY OpenDeal DEF DepositOtcPayment, PaymentDeposited
    <2>2. Touches(d) /\ d \in DOMAIN trades
      BY DEF DepositOtcPayment, Settle, Touches, MarketInv, TradesFine, Ids
    <2> QED BY <2>1, <2>2
  <1>1. /\ x \in Deals /\ x.status = "Open" /\ b \in Wallets /\ s \in Wallets
        /\ n \in Nat /\ p \in Nat /\ x.asset_escrow \in Nat /\ x.payment_escrow \in Nat
        /\ x.payment_deposited_amount = 0
        /\ x.asset_deposited_amount \in {0, n} /\ x.asset_deposited_amount \in Nat
        /\ x.asset_deposited_amount <= x.asset_escrow
    BY <1>0, OpenDeal
  <1>2. units \in [Wallets -> Nat] /\ money \in [Wallets -> Nat]
    BY DEF MarketInv, Balances
  <1>3. CASE AssetDeposited(d)
    <2>1. /\ b \in eligible /\ money' = [left EXCEPT ![s] = @ + p]
          /\ units' = [units EXCEPT ![b] = @ + n]
          /\ y = [funded EXCEPT !.asset_escrow = @ - funded.amount,
                                !.payment_escrow = @ - funded.price,
                                !.status = "Completed"]
          /\ funded.amount = n /\ funded.price = p
          /\ funded.asset_escrow = x.asset_escrow /\ funded.payment_escrow = x.payment_escrow + p
          /\ funded \in Deals
      <3>1. Settle(d, funded, units, left)
        BY <1>3 DEF DepositOtcPayment
      <3>2. /\ funded.buyer = b /\ funded.seller = s /\ funded.amount = n
            /\ funded.price = p /\ funded.asset_escrow = x.asset_escrow
            /\ funded.payment_escrow = x.payment_escrow + p /\ funded \in Deals
        <4>1. x.payment_escrow + p \in Nat
          BY <1>1
        <4> HIDE DEF x
        <4> QED BY <1>1, <4>1 DEF Deals
      <3>3. /\ funded.buyer \in eligible
            /\ money' = [left EXCEPT ![funded.seller] = @ + funded.price]
            /\ units' = [units EXCEPT ![funded.buyer] = @ + funded.amount]
            /\ y = [funded EXCEPT !.asset_escrow = funded.asset_escrow - funded.amount,
                                  !.payment_escrow = funded.payment_escrow - funded.price,
                                  !.status = "Completed"]
        <4> HIDE DEF funded, left
        <4> QED BY <1>0, <3>1 DEF Settle, Delivered
      <3> HIDE DEF funded, left, x, y, n, p, s, b
      <3>4. b \in eligible
        BY <3>2, <3>3
      <3>5. money' = [left EXCEPT ![s] = @ + p]
        BY <3>2, <3>3
      <3>6. units' = [units EXCEPT ![b] = @ + n]
        BY <3>2, <3>3
      <3> QED BY <3>2, <3>3, <3>4, <3>5, <3>6
    <2>2. x.asset_deposited_amount = n
      BY <1>1, <1>3 DEF AssetDeposited
    <2>3. /\ y \in Deals /\ y.status = "Completed" /\ y.asset_escrow = x.asset_escrow - n
          /\ y.payment_escrow = x.payment_escrow
      <3> DEFINE ea == funded.asset_escrow - funded.amount
                 ep == funded.payment_escrow - funded.price
      <3>1. y = [funded EXCEPT !.asset_escrow = ea, !.payment_escrow = ep,
                              !.status = "Completed"]
        BY <2>1
      <3>2. /\ ea = x.asset_escrow - n /\ ea \in Nat
            /\ ep = x.payment_escrow /\ ep \in Nat
        <4> HIDE DEF x, n, p, funded
        <4> QED BY <1>1, <2>1, <2>2
      <3> HIDE DEF x, y, n, p, funded, ea, ep
      <3> QED BY <2>1, <3>1, <3>2 DEF Deals, Statuses
    <2>4. PaysFrom(units, units', s, b, n, n)
      <3> HIDE DEF x, s, b, n
      <3> QED BY <1>1, <1>2, <2>1 DEF PaysFrom, Share
    <2>5. PaysFrom(money, money', b, s, p, 0)
      <3> HIDE DEF x, s, b, p
      <3> QED BY <1>1, <1>2, <2>1 DEF PaysFrom, Share
    <2>6. Settles(x, y)
      <3> HIDE DEF y
      <3> QED BY <1>1, <2>2, <2>3, <2>4, <2>5 DEF Settles
    <2> QED BY <1>0, <1>1, <2>1, <2>3, <2>6, SettleFine
  <1>4. CASE ~AssetDeposited(d)
    <2>1. money' = left /\ units' = units /\ y = funded
      BY <1>0, <1>4 DEF DepositOtcPayment
    <2>2. /\ y \in Deals /\ y.status = "Open" /\ y.seller = s /\ y.buyer = b
          /\ y.asset_escrow = x.asset_escrow /\ y.payment_escrow = x.payment_escrow + p
          /\ y.payment_deposited_amount = p
          /\ y.asset_deposited_amount = x.asset_deposited_amount
      <3>1. x.payment_escrow + p \in Nat
        BY <1>1
      <3> HIDE DEF x, y, p
      <3> QED BY <1>1, <2>1, <3>1 DEF Deals
    <2>3. /\ units[s] \in Nat /\ money[b] \in Nat /\ money'[b] = money[b] - p
          /\ \A w \in Wallets \ {b} : money'[w] = money[w]
      BY <1>1, <1>2, <2>1
    <2>4. Flows(x, y)
      <3> HIDE DEF x, y, p
      <3> QED BY <1>1, <2>1, <2>2, <2>3 DEF Flows, AssetLedger, PaymentLedger
    <2> QED BY <1>0, <1>1, <2>2, <2>4, DealFlow
  <1> QED BY <1>3, <1>4

-----------------------------------------------------------------------------
(* Steps that touch no trade: transfers go to the vetted.                    *)
LEMMA AroundFine ==
    ASSUME MarketInv, MarketInv',
           \/ \E w, v \in Wallets, n \in Lots : Transfer(w, v, n)
           \/ Surroundings \/ UNCHANGED vars
    PROVE  StepFine
  <1>1. trades' = trades /\ money' = money
    BY DEF Transfer, Surroundings, SetEligible, SetBlocked, SetPaused, Tick, vars
  <1>2. HeldUnits' = HeldUnits /\ HeldMoney' = HeldMoney
    BY <1>1 DEF HeldUnits, HeldMoney, AssetIn, PaymentIn, Exists
  <1>3. ASSUME NEW w \in Wallets
        PROVE  /\ Stake(w)' - Stake(w) = units'[w] - units[w]
               /\ MoneyStake(w)' = MoneyStake(w)
               /\ Stake(w) \in Int /\ Stake(w)' \in Int /\ MoneyStake(w) \in Int
    <2>1. /\ Stake(w) = units[w] + Owed(w) /\ MoneyStake(w) = money[w] + OwedMoney(w)
      BY StakeIs
    <2>2. /\ Stake(w)' = units'[w] + Owed(w)' /\ MoneyStake(w)' = money'[w] + OwedMoney(w)'
      <3>1. (Stake(w) = units[w] + Owed(w) /\ MoneyStake(w) = money[w] + OwedMoney(w))'
        BY StakeIs, PTL
      <3> QED BY <3>1
    <2>3. Owed(w)' = Owed(w) /\ OwedMoney(w)' = OwedMoney(w)
      BY <1>1 DEF Owed, OwedMoney, OwedIn, PaidIn
    <2>4. Owed(w) \in Nat /\ OwedMoney(w) \in Nat
      BY OwedType
    <2>5. units[w] \in Nat /\ units'[w] \in Nat /\ money[w] \in Nat /\ money'[w] \in Nat
      BY DEF MarketInv, Balances
    <2> QED BY <1>1, <2>1, <2>2, <2>3, <2>4, <2>5
  <1>4. PaidFor
    BY <1>3 DEF PaidFor
  <1>5. CASE units' = units
    <2>1. Conserved
      BY <1>1, <1>2, <1>5 DEF Conserved
    <2>2. ASSUME NEW w \in Wallets PROVE Stake(w)' <= Stake(w)
      <3>1. units'[w] = units[w] /\ units[w] \in Nat
        BY <1>5 DEF MarketInv, Balances
      <3> QED BY <1>3, <3>1
    <2> QED BY <1>4, <2>1, <2>2 DEF StepFine, Gain
  <1>6. ASSUME NEW v \in Wallets, NEW k \in Wallets, NEW n \in Lots, Transfer(v, k, n)
        PROVE  StepFine
    <2>1. /\ v # k /\ units[v] >= n /\ units' = Moved(units, v, k, n) /\ k \in eligible
          /\ n \in Nat
      BY <1>6, MarketAssumption DEF Transfer, HookPasses, IsMarked
    <2>2. units \in [Wallets -> Nat] /\ units' \in [Wallets -> Nat]
      BY DEF MarketInv, Balances
    <2>3. HandsOver(units, units', v, k, n)
      BY <2>1, <2>2 DEF HandsOver, Share, Moved
    <2>4. SumOf(units', Wallets) = SumOf(units, Wallets)
      <3> DEFINE f == units
                 h == units'
      <3>1. f \in [Wallets -> Nat] /\ h \in [Wallets -> Nat] /\ HandsOver(f, h, v, k, n)
        BY <2>2, <2>3
      <3> HIDE DEF f, h
      <3>2. SumOf(h, Wallets) = SumOf(f, Wallets)
        BY <2>1, <3>1, HandedOver
      <3> QED BY <3>2 DEF f, h
    <2>5. Conserved
      BY <1>1, <1>2, <2>4 DEF Conserved
    <2>6. ASSUME NEW w \in Wallets, w \notin eligible PROVE Stake(w)' <= Stake(w)
      <3>1. units'[w] <= units[w] /\ units[w] \in Nat /\ units'[w] \in Nat
        BY <2>1, <2>2, <2>3, <2>6 DEF HandsOver, Share
      <3> QED BY <1>3, <3>1
    <2> QED BY <1>4, <2>5, <2>6 DEF StepFine, Gain
  <1>7. CASE Surroundings \/ UNCHANGED vars
    <2>1. units' = units
      BY <1>7 DEF Surroundings, SetEligible, SetBlocked, SetPaused, Tick, vars
    <2> QED BY <1>5, <2>1
  <1> QED BY <1>6, <1>7

(* Every instruction conserves units and money, gives more units to the      *)
(* vetted only, and pays for units only.                                     *)
LEMMA NextFine ==
    ASSUME MarketInv, MarketInv', [Next]_vars
    PROVE  StepFine
  <1>1. ASSUME NEW o \in OfferIds, OfferStep(o) PROVE StepFine
    BY <1>1, CreateFine, OfferDepositFine, TakeFine, OfferEndFine, ReclaimedFine
    DEF OfferStep, CancelOffer, ExpireOffer, Ids
  <1>2. ASSUME NEW d \in DealIds, DealStep(d) PROVE StepFine
    BY <1>2, CreateFine, AssetDepositFine, PaymentDepositFine, DealEndFine, ReclaimedFine
    DEF DealStep, CancelOtcDeal, ExpireOtcDeal, Ids
  <1>3. CASE Transfers
    BY <1>3, AroundFine, PushFine, PushPaymentFine DEF Transfers
  <1>4. CASE Surroundings \/ UNCHANGED vars
    BY <1>4, AroundFine
  <1> QED BY <1>1, <1>2, <1>3, <1>4 DEF Next

-----------------------------------------------------------------------------
(* At first everything issued is in the wallets.                             *)
LEMMA InitConserves ==
    ASSUME Init
    PROVE  NothingVanishes
  <1>1. \A t \in Ids : AssetIn(t) = 0
    BY DEF Init, AssetIn, Exists, Absent, Statuses
  <1>2. \A d \in DealIds : PaymentIn(d) = 0
    BY DEF Init, PaymentIn, Exists, Absent, Statuses, Ids
  <1>3. IsFiniteSet(Ids) /\ IsFiniteSet(DealIds)
    <2>1. DealIds \subseteq Ids
      BY DEF Ids
    <2> QED BY <2>1, MarketAssumption, FS_Subset
  <1>4. SumOf([t \in Ids |-> AssetIn(t)], Ids) = 0
    <2> DEFINE f == [t \in Ids |-> AssetIn(t)]
    <2>1. f \in [Ids -> Int] /\ \A t \in Ids : f[t] = 0
      BY <1>1
    <2> HIDE DEF f
    <2>2. SumOf(f, Ids) = 0
      BY <1>3, <2>1, ZeroSum
    <2> QED BY <2>2 DEF f
  <1>5. SumOf([d \in DealIds |-> PaymentIn(d)], DealIds) = 0
    <2> DEFINE f == [d \in DealIds |-> PaymentIn(d)]
    <2>1. f \in [DealIds -> Int] /\ \A d \in DealIds : f[d] = 0
      BY <1>2
    <2> HIDE DEF f
    <2>2. SumOf(f, DealIds) = 0
      BY <1>3, <2>1, ZeroSum
    <2> QED BY <2>2 DEF f
  <1>6. SumOf(units, Wallets) = SumOf(StartUnits, Wallets)
        /\ SumOf(money, Wallets) = SumOf(StartMoney, Wallets)
    BY DEF Init
  <1>7. SumOf(units, Wallets) \in Int /\ SumOf(money, Wallets) \in Int
    BY InitInv, SumType, MarketAssumption DEF MarketInv, Balances
  <1> QED BY <1>4, <1>5, <1>6, <1>7, TotalIsSumOf
          DEF NothingVanishes, UnitsIssued, MoneyIssued

(* reclaim_rent and every instruction: units and money are in a wallet or in *)
(* an escrow that still exists, for any wallets, trades, terms and pushes.   *)
THEOREM NothingLost == Spec => []NothingVanishes
  <1>1. MarketInv /\ MarketInv' /\ NothingVanishes /\ [Next]_vars => NothingVanishes'
    <2> SUFFICES ASSUME MarketInv, MarketInv', NothingVanishes, [Next]_vars
                 PROVE  NothingVanishes'
      OBVIOUS
    <2>1. Conserved
      BY NextFine DEF StepFine
    <2>2. /\ UnitsIssued = SumOf(units, Wallets) + HeldUnits
          /\ MoneyIssued = SumOf(money, Wallets) + HeldMoney
      BY TotalIsSumOf DEF NothingVanishes, HeldUnits, HeldMoney
    <2>3. /\ UnitsIssued = SumOf(units, Wallets)' + HeldUnits'
          /\ MoneyIssued = SumOf(money, Wallets)' + HeldMoney'
      BY <2>1, <2>2 DEF Conserved
    <2> QED BY <2>3, TotalIsSumOf DEF NothingVanishes, HeldUnits, HeldMoney, UnitsIssued, MoneyIssued
  <1> QED BY <1>1, InitConserves, MarketInvariance, PTL DEF Spec

(* The hook's header and deposit_to_offer_escrow: nobody comes to own more   *)
(* units unless its KYC passes at that moment.                               *)
THEOREM VettedGain == Spec => OnlyVettedGain
  <1>1. MarketInv /\ MarketInv' /\ [Next]_vars =>
            [\A w \in Wallets \ eligible : Stake(w)' <= Stake(w)]_vars
    BY NextFine DEF StepFine, Gain
  <1> QED BY <1>1, MarketInvariance, PTL DEF Spec, OnlyVettedGain

(* take_offer and settle_otc_deal: a wallet is paid only in exchange for its *)
(* own units, in one step, at the terms of the trade.                        *)
THEOREM UnitsPaidFor == Spec => PaidForOwnUnits
  <1>1. MarketInv /\ MarketInv' /\ [Next]_vars =>
            [\A w \in Wallets : MoneyStake(w)' > MoneyStake(w) =>
                \E t \in Ids, v \in Wallets :
                   /\ IsOpen(t) /\ trades'[t].status \in {"Filled", "Completed"}
                   /\ Stake(w)' = Stake(w) - trades[t].amount
                   /\ Stake(v)' = Stake(v) + trades[t].amount
                   /\ MoneyStake(w)' = MoneyStake(w) + trades[t].price
                   /\ MoneyStake(v)' = MoneyStake(v) - trades[t].price]_vars
    BY NextFine DEF StepFine, PaidFor, Swapped
  <1> QED BY <1>1, MarketInvariance, PTL DEF Spec, PaidForOwnUnits
=============================================================================
