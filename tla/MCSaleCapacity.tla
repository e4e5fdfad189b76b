--------------------------- MODULE MCSaleCapacity ---------------------------
(***************************************************************************)
(* Model checking SaleCapacity.  Two ids and two mints, m2 without a rate  *)
(* until somebody adds one, in two scenarios that share their first steps: *)
(*   - Raced: id 1 with up to three reservations and landed approvals, in  *)
(*     any order, while a reservation of id 2 competes for the cap;        *)
(*   - Unasked: one approval of each id and no reservation, id 2 in m2.    *)
(* A reservation of id 1 is small, one of id 2 too large for both; an      *)
(* approval nobody asked for is large, as may be the sale it opens, and    *)
(* does not lapse.  A sale sells all or nothing.                           *)
(***************************************************************************)
EXTENDS SaleCapacity

CONSTANTS m1, m2, small, large

MCStartRates == [m \in Mints |-> IF m = m1 THEN 3 ELSE 0]

Approvals == {chain[s].approval : s \in SaleIds} \ {None}
Sales == {chain[s].sale : s \in SaleIds} \ {None}
Asked == IF At("admin", "reserve") THEN {doing["admin"].terms} ELSE {}

Sized ==
    /\ \A t \in Asked : t.gross = IF doing["admin"].sid = 1 THEN small ELSE large
    /\ \A t \in Approvals : t.for = 0 => t.gross = large /\ ~t.lapsed
    /\ \A sale \in Sales : sale.sold \in {0, sale.gross}

Raced ==
    /\ landed[2] = 0 /\ rates = StartRates
    /\ Len(rows) + landed[1] <= 3
    /\ \A i \in RowsOf(2) : txs[i].st = "none"
    /\ \A t \in Approvals \cup Sales \cup Asked : t.mint = m1

Unasked ==
    /\ \A i \in DOMAIN rows : rows[i].for = 0
    /\ doing["admin"] = Idle
    /\ landed[1] <= 1 /\ landed[2] <= 1 /\ chain[1].sale = None
    /\ chain[1].approval # None => chain[1].approval.mint = m1
    /\ \A a \in {chain[2].approval, chain[2].sale} \ {None} : a.mint = m2

Scenario == Sized' /\ (Raced' \/ Unasked')
=============================================================================
