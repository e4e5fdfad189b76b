---------------------------- MODULE PayoutPromise ----------------------------
(***************************************************************************)
(* What a Startup raise promises about its principal, whatever the         *)
(* schedule, the votes and the brakes do.  The pot is paid to the founder  *)
(* while the raise is streaming.  If it is ever returned, it is returned   *)
(* for good: the share of every investor is fixed at that moment, all the  *)
(* shares together fit in what is left, and each investor is paid that     *)
(* share once.  No investor is paid before, the founder never after.       *)
(***************************************************************************)
EXTENDS Integers, FiniteSetsExt

CONSTANTS Investors, Raises

VARIABLES mode,       \* "none", "streaming", "returning" or "done"
          pot,        \* principal of the raise
          toFounder,  \* principal paid to the founder
          share,      \* what the return owes each investor
          refunded,   \* the investors whose share has been paid
          returned    \* principal paid to investors, all together

promiseVars == <<mode, pot, toFounder, share, refunded, returned>>

NoShare == [i \in Investors |-> 0]
Left == pot - toFounder

Init ==
    /\ mode = "none" /\ pot = 0 /\ toFounder = 0
    /\ share = NoShare /\ refunded = {} /\ returned = 0

Raise(amount) ==
    /\ mode = "none" /\ amount > 0
    /\ mode' = "streaming" /\ pot' = amount
    /\ UNCHANGED <<toFounder, share, refunded, returned>>

PayFounder(amount) ==
    /\ mode = "streaming"
    /\ amount \in 1..Left
    /\ toFounder' = toFounder + amount
    /\ mode' = IF amount = Left THEN "done" ELSE "streaming"
    /\ UNCHANGED <<pot, share, refunded, returned>>

Return ==
    /\ mode = "streaming" /\ Left > 0
    /\ mode' = "returning"
    /\ share' \in [Investors -> 0..Left]
    /\ MapThenSumSet(LAMBDA i : share'[i], Investors) <= Left
    /\ UNCHANGED <<pot, toFounder, refunded, returned>>

Refund(i) ==
    /\ mode = "returning"
    /\ i \notin refunded /\ share[i] > 0
    /\ refunded' = refunded \cup {i}
    /\ returned' = returned + share[i]
    /\ UNCHANGED <<mode, pot, toFounder, share>>

Next ==
    \/ \E amount \in Raises : Raise(amount)
    \/ \E amount \in 1..Left : PayFounder(amount)
    \/ Return
    \/ \E i \in Investors : Refund(i)

Spec == Init /\ [][Next]_promiseVars
=============================================================================
