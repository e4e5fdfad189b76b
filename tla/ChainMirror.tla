----------------------------- MODULE ChainMirror -----------------------------
(***************************************************************************)
(* What the indexer's typed tables promise their readers: every account is *)
(* shown as the chain had it at some slot, and that slot never goes back.  *)
(* Nothing is promised about how far behind it is.                         *)
(***************************************************************************)
EXTENDS Naturals, Sequences

CONSTANT Accounts

VARIABLES
    chain,  \* the program's successful transactions, one in each slot
    at,     \* the slot at which an account is shown
    row     \* its contents there: the slot of its last write, 0 when closed

\* A transaction writes an account (which opens one that is closed) or closes it.
Transactions == [account : Accounts, kind : {"write", "close"}]

\* The contents of account a after slot s: the last write, if no close follows.
Current(a, s) ==
    {n \in 1..s : /\ chain[n] = [account |-> a, kind |-> "write"]
                  /\ \A k \in (n + 1)..s : chain[k].account # a}
RowAt(a, s) == IF Current(a, s) = {} THEN 0 ELSE CHOOSE n \in Current(a, s) : TRUE

Init == chain = <<>> /\ at = [a \in Accounts |-> 0] /\ row = [a \in Accounts |-> 0]

Grow == \E t \in Transactions : chain' = Append(chain, t) /\ UNCHANGED <<at, row>>

Show ==
    /\ at' \in [Accounts -> 0..Len(chain)]
    /\ \A a \in Accounts : at'[a] >= at[a]
    /\ row' = [a \in Accounts |-> RowAt(a, at'[a])]
    /\ UNCHANGED chain

Spec == Init /\ [][Grow \/ Show]_<<chain, at, row>>
=============================================================================
