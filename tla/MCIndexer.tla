------------------------------ MODULE MCIndexer ------------------------------
(***************************************************************************)
(* A small instance of Indexer for TLC: two accounts, two job workers, a   *)
(* reconcile and the heartbeat.                                            *)
(***************************************************************************)
EXTENDS Indexer, TLC

CONSTANTS a1, a2, w1, w2

Symmetry == Permutations(Accounts) \cup Permutations(Workers)

Busy == {w \in Workers : worker[w] # Idle}
AtOnce == Cardinality(Busy) + Cardinality({h \in {scan, beat} : h # Idle})

(* Two handlers at once; only the first event may come without its slot.     *)
Pairs == AtOnce <= 2 /\ \A n \in Slots \ {1} : jobs[n] # Unseen => jobs[n].slotted

(* A third transaction only closes or opens the one account again, without   *)
(* the heartbeat, failed calls or abandoned leases, and one event is lost.   *)
Third ==
    /\ \A n \in DOMAIN chain : chain[n].account = chain[1].account
    /\ beat = Idle /\ watermark = None /\ sync.status # "degraded"
    /\ Cardinality(Busy) <= 1 /\ \E n \in Slots : jobs[n] = Unseen
    /\ \A n \in Slots : jobs[n].status = "pending" =>
          jobs[n].slotted /\ jobs[n].lease \in Busy \cup {None}

(* Every reconcile reads the tip: no two of them overlap in the wrong order. *)
ReconcilesAtTip == scan = Idle /\ scan' # Idle => scan'.slot = Len(chain)

Scenario == Pairs' /\ (Len(chain') > 2 => Third')
=============================================================================
