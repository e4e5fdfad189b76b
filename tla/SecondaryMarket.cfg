\* A treasury, a trader and an outsider; an offer and a deal at the same time.
SPECIFICATION TradingSpec
CONSTANTS
    treasury = treasury
    trader = trader
    outsider = outsider
    o1 = o1
    d1 = d1
    TreasuryUnits = 3
    Wallets = {treasury, trader, outsider}
    OfferIds = {o1}
    DealIds = {d1}
    Outsiders = {outsider}
    StartUnits <- MCStartUnits
    StartMoney <- MCStartMoney
    Amounts = {2}
    Lots = {1}
    Prices = {1}
    OTC_DEAL_MAX_TTL_SECS = 1
    MaxTime = 2
INVARIANTS
    LedgersBacked
    NothingVanishes
PROPERTIES
    OnlyVettedGain
    PaidForOwnUnits
    ExpiringTradesEnd
CHECK_DEADLOCK FALSE
