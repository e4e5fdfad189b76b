-------------------------- MODULE MCSecondaryMarket --------------------------
(***************************************************************************)
(* A small instance of SecondaryMarket for TLC: an issuer's treasury that  *)
(* holds the units, a trader with money and an outsider no provider        *)
(* approves; one offer and one deal open at the same time.                 *)
(***************************************************************************)
EXTENDS SecondaryMarket

CONSTANTS TreasuryUnits, treasury, trader, outsider, o1, d1

MCStartUnits == [w \in Wallets |-> IF w = treasury THEN TreasuryUnits ELSE 0]
MCStartMoney == [w \in Wallets |-> IF w = treasury THEN 0 ELSE 1]

(* Two trades at once, or one trade with pauses and blocks: a pause or a     *)
(* block only ever refuses an instruction, so that what they let through     *)
(* while two trades interact happens without them too.                       *)
Calm == ~paused /\ blocked = {}
Alone(t) == \A u \in Ids \ {t} : trades[u] = Absent
Room(t) == Calm \/ Alone(t)
OneTrade == \E t \in Ids : Alone(t)

TradingNext ==
    \/ \E o \in OfferIds : Room(o) /\ OfferStep(o)
    \/ \E d \in DealIds : Room(d) /\ DealStep(d)
    \/ Transfers \/ Tick
    \/ \E w \in Wallets : Calm /\ SetEligible(w)
    \/ \E w \in Wallets \ Outsiders :
         OneTrade /\ ~paused /\ blocked \subseteq {w} /\ SetBlocked(w)
    \/ OneTrade /\ blocked = {} /\ SetPaused

TradingSpec == Init /\ [][TradingNext]_vars /\ Cranks
=============================================================================
