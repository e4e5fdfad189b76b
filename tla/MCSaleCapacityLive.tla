------------------------- MODULE MCSaleCapacityLive -------------------------
(***************************************************************************)
(* Liveness of SaleCapacity, without constraint or view: one id, one       *)
(* reservation, one approval that lands, a mint whose rate somebody may    *)
(* add late.                                                               *)
(***************************************************************************)
EXTENDS SaleCapacity

CONSTANTS m1

MCStartRates == [m \in Mints |-> 0]
=============================================================================
