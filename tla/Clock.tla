-------------------------------- MODULE Clock --------------------------------
(***************************************************************************)
(* The Clock sysvar as a sale and a vesting series read it: one chain, one *)
(* clock, declared once so that one module can extend both.                *)
(***************************************************************************)
EXTENDS Integers

CONSTANT MaxTime    \* bound: the clock stops here

VARIABLE now

ClockTicks == now < MaxTime /\ now' = now + 1
=============================================================================
