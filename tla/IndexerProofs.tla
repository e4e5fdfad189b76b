---------------------------- MODULE IndexerProofs ----------------------------
(***************************************************************************)
(* Proofs for any number of accounts, workers and transactions: the mirror *)
(* implements ChainMirror, what counts as decoded has been mirrored, and   *)
(* nothing that was vouched for is missing from the mirror.                *)
(*                                                                         *)
(* Every step is one of three kinds: it leaves chain and mirror alone, it  *)
(* appends a transaction, or it moves rows forward to pasts of the chain.  *)
(***************************************************************************)
EXTENDS Indexer, SumTheorems, TLAPS

Row == [slot : Nat, row : Nat]

\* Rows are the accounts at slots the chain has reached.
RowsOfPast ==
    /\ chain \in Seq(Mirrored!Transactions)
    /\ mirror \in [Accounts -> Row]
    /\ \A a \in Accounts :
          mirror[a].slot <= Len(chain) /\ mirror[a].row = RowAt(a, mirror[a].slot)

\* What workers and the reconcile hold was read at such slots too.
ReadsOfPast ==
    /\ worker \in [Workers -> Doing \cup {Idle}]
    /\ \A w \in Workers : worker[w].step = "read" => worker[w].slot \in 0..Len(chain)
    /\ scan # Idle => scan.slot \in 0..Len(chain)

PastInv == RowsOfPast /\ ReadsOfPast

\* Rows move forward.
Forward ==
    /\ chain' = chain
    /\ mirror' \in [Accounts -> Row]
    /\ \A a \in Accounts :
          /\ mirror[a].slot <= mirror'[a].slot /\ mirror'[a].slot <= Len(chain)
          /\ mirror'[a].row = RowAt(a, mirror'[a].slot)

Grows == \E t \in Mirrored!Transactions : chain' = Append(chain, t) /\ mirror' = mirror

-----------------------------------------------------------------------------
(* A row is a slot of the chain, or 0.                                       *)
LEMMA RowIsSlot ==
    ASSUME NEW a, NEW s \in Nat
    PROVE  RowAt(a, s) \in Nat
  <1>1. Mirrored!Current(a, s) \subseteq Nat
    BY DEF Mirrored!Current
  <1>2. RowAt(a, s) = IF Mirrored!Current(a, s) = {} THEN 0
                      ELSE CHOOSE n \in Mirrored!Current(a, s) : TRUE
    BY DEF RowAt, Mirrored!RowAt
  <1> QED BY <1>1, <1>2

(* A row of the past does not change when the chain grows.                   *)
LEMMA RowIsStable ==
    ASSUME chain \in Seq(Mirrored!Transactions), NEW t, chain' = Append(chain, t),
           NEW a, NEW s \in 0..Len(chain)
    PROVE  RowAt(a, s)' = RowAt(a, s)
  <1>1. \A n \in 1..s : chain'[n] = chain[n]
    BY SMT
  <1>2. Mirrored!Current(a, s)' = Mirrored!Current(a, s)
    BY <1>1, SMT DEF Mirrored!Current
  <1>3. RowAt(a, s) = IF Mirrored!Current(a, s) = {} THEN 0
                      ELSE CHOOSE n \in Mirrored!Current(a, s) : TRUE
    BY DEF RowAt, Mirrored!RowAt
  <1>4. RowAt(a, s)' = IF Mirrored!Current(a, s)' = {} THEN 0
                       ELSE CHOOSE n \in Mirrored!Current(a, s)' : TRUE
    BY DEF RowAt, Mirrored!RowAt
  <1> QED BY <1>2, <1>3, <1>4

(* apply_indexer_snapshot moves a row forward, to the read slot at least.    *)
LEMMA AppliedIsForward ==
    ASSUME RowsOfPast, NEW a \in Accounts, NEW s \in 0..Len(chain)
    PROVE  /\ Applied(a, s) \in Row
           /\ mirror[a].slot <= Applied(a, s).slot /\ s <= Applied(a, s).slot
           /\ Applied(a, s).slot <= Len(chain)
           /\ Applied(a, s).row = RowAt(a, Applied(a, s).slot)
  <1>1. RowAt(a, s) \in Nat
    BY RowIsSlot
  <1>2. mirror[a] \in Row /\ mirror[a].slot <= Len(chain)
        /\ mirror[a].row = RowAt(a, mirror[a].slot)
    BY DEF RowsOfPast
  <1>3. CASE Stale(a, s)
    BY <1>2, <1>3 DEF Applied, Stale, Row
  <1>4. CASE ~Stale(a, s)
    <2>1. Applied(a, s) = [slot |-> s, row |-> RowAt(a, s)]
      BY <1>4 DEF Applied
    <2> QED BY <1>1, <1>2, <1>4, <2>1 DEF Stale, Row
  <1> QED BY <1>3, <1>4

(* So does a write of any set of accounts at one slot.                       *)
LEMMA WritesAreForward ==
    ASSUME RowsOfPast, NEW S, NEW s \in 0..Len(chain), chain' = chain,
           mirror' = [a \in Accounts |-> IF a \in S THEN Applied(a, s) ELSE mirror[a]]
    PROVE  Forward
  <1>1. ASSUME NEW a \in Accounts
        PROVE  /\ mirror'[a] \in Row
               /\ mirror[a].slot <= mirror'[a].slot /\ mirror'[a].slot <= Len(chain)
               /\ mirror'[a].row = RowAt(a, mirror'[a].slot)
    <2>1. CASE a \in S
      BY <2>1, AppliedIsForward
    <2>2. CASE a \notin S
      <3>1. mirror'[a] = mirror[a] /\ mirror[a] \in Row
        BY <2>2 DEF RowsOfPast
      <3> QED BY <3>1 DEF RowsOfPast, Row
    <2> QED BY <2>1, <2>2
  <1> QED BY <1>1 DEF Forward

(* Every step is of one of the three kinds.                                  *)
LEMMA StepKinds ==
    ASSUME PastInv, [Next]_vars
    PROVE  UNCHANGED <<chain, mirror>> \/ Grows \/ Forward
  <1>1. ASSUME NEW t \in Mirrored!Transactions, Transact(t)
        PROVE  Grows
    BY <1>1 DEF Transact, Grows
  <1>2. ASSUME NEW w \in Workers, ApplyAccount(w)
        PROVE  Forward
    <2> DEFINE a == chain[worker[w].job].account
               s == worker[w].slot
    <2>1. s \in 0..Len(chain) /\ chain' = chain
      BY <1>2 DEF ApplyAccount, PastInv, ReadsOfPast
    <2>2. mirror' = [b \in Accounts |-> IF b \in {a} THEN Applied(b, s) ELSE mirror[b]]
      BY <1>2 DEF ApplyAccount, PastInv, RowsOfPast
    <2> QED BY <2>1, <2>2, WritesAreForward DEF PastInv
  <1>3. ASSUME ApplyRows \/ CloseGone
        PROVE  Forward
    <2>1. scan.slot \in 0..Len(chain) /\ chain' = chain
      BY <1>3 DEF ApplyRows, CloseGone, PastInv, ReadsOfPast, Idle
    <2> QED BY <1>3, <2>1, WritesAreForward DEF ApplyRows, CloseGone, PastInv
  <1>4. ASSUME NEW w \in Workers, WorkerStep(w), ~ApplyAccount(w)
        PROVE  UNCHANGED <<chain, mirror>>
    BY <1>4 DEF WorkerStep, ClaimJob, ReadAccount, FinishJob, FailJob, DropJob
  <1>5. ASSUME ReconcileStep, ~ApplyRows, ~CloseGone
        PROVE  UNCHANGED <<chain, mirror>>
    BY <1>5 DEF ReconcileStep, ScanProgram, FinishReconcile, AbortReconcile
  <1>6. ASSUME HeartbeatStep PROVE UNCHANGED <<chain, mirror>>
    BY <1>6 DEF HeartbeatStep, Plan, ReadSample, Confirm, Decline
  <1>7. ASSUME Outside, \A t \in Mirrored!Transactions : ~Transact(t)
        PROVE  UNCHANGED <<chain, mirror>>
    BY <1>7 DEF Outside, Deliver, LeaseLapses
  <1>8. UNCHANGED vars => UNCHANGED <<chain, mirror>>
    BY DEF vars
  <1> QED BY <1>1, <1>2, <1>3, <1>4, <1>5, <1>6, <1>7, <1>8 DEF Next

-----------------------------------------------------------------------------
(* At first every row is empty and nothing has been read.                    *)
LEMMA PastInit == Init => PastInv
  <1> SUFFICES ASSUME Init PROVE PastInv
    OBVIOUS
  <1>1. chain = <<>> /\ Len(chain) = 0 /\ chain \in Seq(Mirrored!Transactions)
    BY DEF Init
  <1>2. \A a \in Accounts : RowAt(a, 0) = 0
    <2>1. \A a \in Accounts : Mirrored!Current(a, 0) = {}
      BY DEF Mirrored!Current
    <2> QED BY <2>1 DEF RowAt, Mirrored!RowAt
  <1>3. RowsOfPast
    BY <1>1, <1>2 DEF Init, RowsOfPast, Row
  <1>4. ReadsOfPast
    BY DEF Init, ReadsOfPast, Idle
  <1> QED BY <1>3, <1>4 DEF PastInv

(* Rows that move forward or see the chain grow are still of the past.       *)
LEMMA RowsStayPast ==
    ASSUME RowsOfPast, UNCHANGED <<chain, mirror>> \/ Grows \/ Forward
    PROVE  RowsOfPast'
  <1>1. CASE UNCHANGED <<chain, mirror>>
    <2>1. \A a, s : RowAt(a, s)' = RowAt(a, s)
      BY <1>1 DEF RowAt, Mirrored!RowAt, Mirrored!Current
    <2> QED BY <1>1, <2>1 DEF RowsOfPast
  <1>2. CASE Grows
    <2>1. PICK t \in Mirrored!Transactions : chain' = Append(chain, t) /\ mirror' = mirror
      BY <1>2 DEF Grows
    <2>2. chain \in Seq(Mirrored!Transactions) /\ chain' \in Seq(Mirrored!Transactions)'
          /\ Len(chain') = Len(chain) + 1
      BY <2>1 DEF RowsOfPast, Mirrored!Transactions
    <2>3. ASSUME NEW a \in Accounts
          PROVE  (mirror[a].slot <= Len(chain))' /\ (mirror[a].row = RowAt(a, mirror[a].slot))'
      <3>1. mirror'[a] = mirror[a] /\ mirror[a].slot \in 0..Len(chain)
        BY <2>1 DEF RowsOfPast, Row
      <3>2. RowAt(a, mirror[a].slot)' = RowAt(a, mirror[a].slot)
        BY <2>1, <2>2, <3>1, RowIsStable
      <3> QED BY <2>2, <3>1, <3>2 DEF RowsOfPast
    <2> QED BY <2>1, <2>2, <2>3 DEF RowsOfPast
  <1>3. CASE Forward
    <2>1. \A a, s : RowAt(a, s)' = RowAt(a, s)
      BY <1>3 DEF Forward, RowAt, Mirrored!RowAt, Mirrored!Current
    <2> QED BY <1>3, <2>1 DEF Forward, RowsOfPast, Mirrored!Transactions
  <1> QED BY <1>1, <1>2, <1>3

(* Whatever kind of step it is, the chain never gets shorter.                *)
LEMMA ChainGrows ==
    ASSUME RowsOfPast, UNCHANGED <<chain, mirror>> \/ Grows \/ Forward
    PROVE  Len(chain) \in Nat /\ Len(chain') \in Nat /\ Len(chain) <= Len(chain')
  BY DEF RowsOfPast, Grows, Forward

(* What a handler read stays a slot of the chain, which bounds each read.    *)
LEMMA ReadsStayPast ==
    ASSUME PastInv, [Next]_vars, Len(chain) \in Nat, Len(chain') \in Nat,
           Len(chain) <= Len(chain'), MaxSlot \in Nat, Len(chain) <= MaxSlot
    PROVE  ReadsOfPast'
  <1> USE DEF PastInv, ReadsOfPast, Idle
  <1>1. UNCHANGED <<worker, scan>> => ReadsOfPast'
    OBVIOUS
  <1>2. ASSUME NEW w \in Workers, WorkerStep(w)
        PROVE  ReadsOfPast'
    <2> USE DEF Doing
    <2>1. scan' = scan
      BY <1>2 DEF WorkerStep, ClaimJob, ReadAccount, ApplyAccount, FinishJob, FailJob, DropJob
    <2>2. ASSUME NEW n \in Slots, ClaimJob(w, n)
          PROVE  ReadsOfPast'
      BY <2>1, <2>2 DEF ClaimJob
    <2>3. ASSUME NEW s \in 0..MaxSlot, ReadAccount(w, s)
          PROVE  ReadsOfPast'
      BY <2>1, <2>3 DEF ReadAccount
    <2>4. ASSUME ApplyAccount(w)
          PROVE  ReadsOfPast'
      BY <2>1, <2>4 DEF ApplyAccount
    <2>5. ASSUME FinishJob(w) \/ FailJob(w) \/ DropJob(w)
          PROVE  ReadsOfPast'
      BY <2>1, <2>5 DEF FinishJob, FailJob, DropJob
    <2> QED BY <1>2, <2>2, <2>3, <2>4, <2>5 DEF WorkerStep
  <1>3. ASSUME NEW s \in 0..MaxSlot, ScanProgram(s)
        PROVE  ReadsOfPast'
    BY <1>3 DEF ScanProgram, queue
  <1>4. ASSUME ApplyRows \/ CloseGone \/ FinishReconcile \/ AbortReconcile
        PROVE  ReadsOfPast'
    BY <1>4 DEF ApplyRows, CloseGone, FinishReconcile, AbortReconcile, queue
  <1>5. ASSUME HeartbeatStep \/ Outside \/ UNCHANGED vars
        PROVE  UNCHANGED <<worker, scan>>
    BY <1>5 DEF HeartbeatStep, Plan, ReadSample, Confirm, Decline, Outside, Transact, Deliver,
                LeaseLapses, vars, queue
  <1> QED BY <1>1, <1>2, <1>3, <1>4, <1>5 DEF Next, ReconcileStep

\* The chain of a run is no longer than its bound.
Bounded == Len(chain) <= MaxSlot

(* The inductive invariant holds of every run.                               *)
LEMMA PastIsInvariant == Spec => [](PastInv /\ Bounded)
  <1>1. Init => PastInv /\ Bounded
    BY PastInit, IndexerAssumption DEF Init, Bounded
  <1>2. PastInv /\ Bounded /\ [Next]_vars => (PastInv /\ Bounded)'
    <2> SUFFICES ASSUME PastInv, Bounded, [Next]_vars PROVE (PastInv /\ Bounded)'
      OBVIOUS
    <2>1. UNCHANGED <<chain, mirror>> \/ Grows \/ Forward
      BY StepKinds
    <2>2. RowsOfPast'
      BY <2>1, RowsStayPast DEF PastInv
    <2>3. Len(chain) \in Nat /\ Len(chain') \in Nat /\ Len(chain) <= Len(chain')
      BY <2>1, ChainGrows DEF PastInv
    <2>4. ReadsOfPast'
      BY <2>3, ReadsStayPast, IndexerAssumption DEF Bounded
    <2>5. Bounded'
      <3>1. CASE chain' = chain
        BY <3>1 DEF Bounded
      <3>2. ASSUME NEW t \in Mirrored!Transactions, Transact(t)
            PROVE  Bounded'
        BY <3>2, IndexerAssumption DEF Transact, Bounded, PastInv, RowsOfPast
      <3>3. chain' = chain \/ \E t \in Mirrored!Transactions : Transact(t)
        BY DEF Next, Outside, Deliver, LeaseLapses, WorkerStep, ClaimJob, ReadAccount,
               ApplyAccount, FinishJob, FailJob, DropJob, ReconcileStep, ScanProgram, ApplyRows,
               CloseGone, FinishReconcile, AbortReconcile, HeartbeatStep, Plan, ReadSample,
               Confirm, Decline, vars
      <3> QED BY <3>1, <3>2, <3>3
    <2> QED BY <2>2, <2>4, <2>5 DEF PastInv
  <1> QED BY <1>1, <1>2, PTL DEF Spec

(* MirrorsChain, for every instance: whatever workers, reconciles and their  *)
(* failures do, every account is shown as it was at some slot, and that slot *)
(* never goes back.                                                          *)
THEOREM MirrorImplementsChain == Spec => MirrorsChain
  <1>1. Init => Mirrored!Init
    BY DEF Init, Mirrored!Init
  <1>2. PastInv /\ [Next]_vars =>
            [Mirrored!Grow \/ Mirrored!Show]_<<chain, [a \in Accounts |-> mirror[a].slot],
                                               [a \in Accounts |-> mirror[a].row]>>
    <2> SUFFICES ASSUME PastInv, [Next]_vars
                 PROVE  [Mirrored!Grow \/ Mirrored!Show]_<<chain,
                            [a \in Accounts |-> mirror[a].slot], [a \in Accounts |-> mirror[a].row]>>
      OBVIOUS
    <2>1. CASE UNCHANGED <<chain, mirror>>
      BY <2>1
    <2>2. CASE Grows
      BY <2>2 DEF Grows, Mirrored!Grow
    <2>3. CASE Forward
      <3>1. [a \in Accounts |-> mirror[a].slot]' \in [Accounts -> 0..Len(chain)]
        BY <2>3 DEF Forward, Row
      <3>2. \A a \in Accounts : [b \in Accounts |-> mirror[b].slot]'[a] >= mirror[a].slot
        BY <2>3 DEF Forward, Row, PastInv, RowsOfPast
      <3>3. [a \in Accounts |-> mirror[a].row]' =
                [a \in Accounts |-> RowAt(a, [b \in Accounts |-> mirror[b].slot]'[a])]
        BY <2>3 DEF Forward
      <3>4. chain' = chain
        BY <2>3 DEF Forward
      <3> QED BY <3>1, <3>2, <3>3, <3>4 DEF Mirrored!Show, RowAt
    <2> QED BY <2>1, <2>2, <2>3, StepKinds
  <1> QED BY <1>1, <1>2, PastIsInvariant, PTL DEF Spec, MirrorsChain, Mirrored!Spec

-----------------------------------------------------------------------------
(* What a worker holds: a job of a delivered event; once it has read, a slot *)
(* at or after the event's, when that came with its slot; once it has        *)
(* applied, a mirror that is there.                                          *)
Delivered(n) == n \in Slots /\ jobs[n] # Unseen /\ n <= Len(chain)

WorkerInv(w) ==
    /\ worker[w] # Idle => Delivered(worker[w].job)
    /\ worker[w].step = "read" => MinContextSlot(worker[w].job) <= worker[w].slot
    /\ worker[w].step = "applied" =>
          MinContextSlot(worker[w].job) <= mirror[chain[worker[w].job].account].slot

DecodedInv ==
    /\ jobs \in [Slots -> Jobs \cup {Unseen}]
    /\ \A n \in Slots : jobs[n] # Unseen => n <= Len(chain)
    /\ \A w \in Workers : WorkerInv(w)
    /\ DecodedIsMirrored

\* What no step takes back.
Monotone ==
    /\ Len(chain) <= Len(chain')
    /\ \A n \in 1..Len(chain) : chain'[n] = chain[n] /\ chain[n].account \in Accounts
    /\ \A a \in Accounts : mirror[a].slot <= mirror'[a].slot
    /\ \A a \in Accounts : mirror[a].slot \in Nat /\ mirror'[a].slot \in Nat
    /\ \A n \in Slots : jobs[n] # Unseen =>
          jobs'[n] # Unseen /\ jobs'[n].slotted = jobs[n].slotted

(* No step shortens the chain or takes a row back.                           *)
LEMMA StepsAreMonotone ==
    ASSUME PastInv, DecodedInv, [Next]_vars
    PROVE  Monotone
  <1>1. UNCHANGED <<chain, mirror>> \/ Grows \/ Forward
    BY StepKinds
  <1>2. Len(chain) <= Len(chain')
        /\ \A n \in 1..Len(chain) : chain'[n] = chain[n] /\ chain[n].account \in Accounts
    <2>1. chain \in Seq(Mirrored!Transactions)
      BY DEF PastInv, RowsOfPast
    <2>2. \A n \in 1..Len(chain) : chain[n].account \in Accounts
      <3>1. \A n \in 1..Len(chain) : chain[n] \in Mirrored!Transactions
        BY <2>1
      <3> QED BY <3>1 DEF Mirrored!Transactions
    <2>3. CASE chain' = chain
      BY <2>1, <2>2, <2>3
    <2>4. CASE Grows
      BY <2>1, <2>2, <2>4 DEF Grows
    <2> QED BY <1>1, <2>3, <2>4 DEF Forward
  <1>3. \A a \in Accounts : mirror[a].slot <= mirror'[a].slot
                            /\ mirror[a].slot \in Nat /\ mirror'[a].slot \in Nat
    BY <1>1 DEF PastInv, RowsOfPast, Grows, Forward, Row
  <1>4. ASSUME NEW n \in Slots, jobs[n] # Unseen
        PROVE  jobs'[n] # Unseen /\ jobs'[n].slotted = jobs[n].slotted
    <2> USE <1>4 DEF DecodedInv, Jobs, Unseen
    <2>1. jobs' = jobs => jobs'[n] # Unseen /\ jobs'[n].slotted = jobs[n].slotted
      OBVIOUS
    <2>2. ASSUME NEW m \in Slots, NEW slotted \in BOOLEAN, Deliver(m, slotted)
          PROVE  jobs'[n] # Unseen /\ jobs'[n].slotted = jobs[n].slotted
      BY <2>2 DEF Deliver
    <2>3. ASSUME NEW m \in Slots, LeaseLapses(m)
          PROVE  jobs'[n] # Unseen /\ jobs'[n].slotted = jobs[n].slotted
      BY <2>3 DEF LeaseLapses
    <2>4. ASSUME NEW w \in Workers, NEW m \in Slots, ClaimJob(w, m)
          PROVE  jobs'[n] # Unseen /\ jobs'[n].slotted = jobs[n].slotted
      BY <2>4 DEF ClaimJob
    <2>5. ASSUME NEW w \in Workers, FinishJob(w) \/ FailJob(w)
          PROVE  jobs'[n] # Unseen /\ jobs'[n].slotted = jobs[n].slotted
      BY <2>5 DEF FinishJob, FailJob
    <2>6. \/ jobs' = jobs
          \/ \E m \in Slots, slotted \in BOOLEAN : Deliver(m, slotted)
          \/ \E m \in Slots : LeaseLapses(m)
          \/ \E w \in Workers, m \in Slots : ClaimJob(w, m)
          \/ \E w \in Workers : FinishJob(w) \/ FailJob(w)
      BY DEF Next, Outside, Transact, WorkerStep, ReadAccount, ApplyAccount, DropJob,
             ReconcileStep, ScanProgram, ApplyRows, CloseGone, FinishReconcile, AbortReconcile,
             HeartbeatStep, Plan, ReadSample, Confirm, Decline, vars, queue
    <2> QED BY <2>1, <2>2, <2>3, <2>4, <2>5, <2>6
  <1> QED BY <1>2, <1>3, <1>4 DEF Monotone

(* A worker that does nothing keeps what it holds.                           *)
LEMMA HeldStaysHeld ==
    ASSUME PastInv, DecodedInv, Monotone, NEW w \in Workers, worker'[w] = worker[w],
           MaxSlot \in Nat
    PROVE  WorkerInv(w)'
  <1>1. CASE worker[w] = Idle
    BY <1>1 DEF WorkerInv, Idle
  <1>2. CASE worker[w] # Idle
    <2> DEFINE n == worker[w].job
    <2>1. n \in Slots /\ jobs[n] # Unseen /\ n <= Len(chain) /\ Len(chain) \in Nat /\ Len(chain') \in Nat
      BY <1>2 DEF DecodedInv, WorkerInv, Delivered, PastInv, RowsOfPast, Monotone
    <2>2. n \in 1..Len(chain)
      BY <2>1 DEF Slots
    <2>3. Delivered(n)' /\ MinContextSlot(n)' = MinContextSlot(n)
          /\ chain'[n].account = chain[n].account
      BY <2>1, <2>2 DEF Monotone, Delivered, MinContextSlot, Slots
    <2>4. mirror[chain[n].account].slot <= mirror'[chain'[n].account].slot
          /\ mirror[chain[n].account].slot \in Nat /\ mirror'[chain'[n].account].slot \in Nat
          /\ MinContextSlot(n) \in Nat
      BY <2>1, <2>2 DEF Monotone, MinContextSlot, Slots
    <2>5. WorkerInv(w)
      BY DEF DecodedInv
    <2> QED BY <2>3, <2>4, <2>5 DEF WorkerInv
  <1> QED BY <1>1, <1>2

(* The worker that acts: it claims a delivered event, reads at its slot or   *)
(* later, and leaves the mirror there.                                       *)
LEMMA ActorHolds ==
    ASSUME PastInv, DecodedInv, Monotone, MaxSlot \in Nat, NEW w \in Workers, WorkerStep(w)
    PROVE  WorkerInv(w)'
  <1>0. worker \in [Workers -> Doing \cup {Idle}] /\ WorkerInv(w)
    BY DEF PastInv, ReadsOfPast, DecodedInv
  <1>1. ASSUME NEW n \in Slots, ClaimJob(w, n)
        PROVE  WorkerInv(w)'
    <2>1. jobs[n] # Unseen /\ n <= Len(chain)
      BY <1>1 DEF ClaimJob, Claimable, Unseen, DecodedInv
    <2>2. Delivered(n)'
      BY <1>1, <2>1 DEF Monotone, Delivered, ClaimJob
    <2> QED BY <1>0, <1>1, <2>2 DEF ClaimJob, WorkerInv, Idle
  <1>2. ASSUME NEW s \in 0..MaxSlot, ReadAccount(w, s)
        PROVE  WorkerInv(w)'
    <2>1. worker'[w] = [step |-> "read", job |-> worker[w].job, slot |-> s]
          /\ jobs' = jobs /\ chain' = chain
      BY <1>0, <1>2 DEF ReadAccount
    <2>2. Delivered(worker[w].job) /\ MinContextSlot(worker[w].job) <= s
      BY <1>0, <1>2 DEF ReadAccount, WorkerInv, Idle
    <2> QED BY <2>1, <2>2 DEF WorkerInv, Delivered, MinContextSlot, Idle
  <1>3. ASSUME ApplyAccount(w)
        PROVE  WorkerInv(w)'
    <2> DEFINE n == worker[w].job
               a == chain[n].account
               s == worker[w].slot
    <2>1. worker'[w] = [step |-> "applied", job |-> n] /\ jobs' = jobs /\ chain' = chain
          /\ mirror' = [mirror EXCEPT ![a] = Applied(a, s)]
      BY <1>0, <1>3 DEF ApplyAccount
    <2>2. Delivered(n) /\ MinContextSlot(n) <= s /\ s \in 0..Len(chain)
      BY <1>0, <1>3 DEF ApplyAccount, WorkerInv, Idle, PastInv, ReadsOfPast
    <2>3. a \in Accounts
      BY <2>2 DEF Delivered, Slots, Monotone
    <2>4. s <= Applied(a, s).slot /\ Applied(a, s) \in Row
      BY <2>2, <2>3, AppliedIsForward DEF PastInv
    <2>5. mirror'[a] = Applied(a, s)
      BY <2>1, <2>3 DEF PastInv, RowsOfPast
    <2>6. MinContextSlot(n) \in Nat /\ MinContextSlot(n) <= mirror'[a].slot
      BY <2>2, <2>4, <2>5 DEF MinContextSlot, Delivered, Slots, Row
    <2> QED BY <2>1, <2>2, <2>6 DEF WorkerInv, Delivered, MinContextSlot, Idle
  <1>4. ASSUME FinishJob(w) \/ FailJob(w) \/ DropJob(w)
        PROVE  WorkerInv(w)'
    BY <1>0, <1>4 DEF FinishJob, FailJob, DropJob, WorkerInv, Idle
  <1> QED BY <1>1, <1>2, <1>3, <1>4 DEF WorkerStep

(* The queue: jobs keep their type, and only FinishJob completes one.        *)
LEMMA QueueStep ==
    ASSUME PastInv, DecodedInv, [Next]_vars
    PROVE  /\ jobs' \in [Slots -> Jobs \cup {Unseen}]
           /\ \A n \in Slots : jobs'[n] # Unseen => jobs[n] # Unseen \/ n <= Len(chain)
           /\ \A n \in Slots : jobs'[n].status = "complete" =>
                 \/ jobs[n].status = "complete"
                 \/ \E w \in Workers : worker[w].step = "applied" /\ worker[w].job = n
  <1> DEFINE G == /\ jobs' \in [Slots -> Jobs \cup {Unseen}]
                  /\ \A n \in Slots : jobs'[n] # Unseen => jobs[n] # Unseen \/ n <= Len(chain)
                  /\ \A n \in Slots : jobs'[n].status = "complete" =>
                        \/ jobs[n].status = "complete"
                        \/ \E w \in Workers : worker[w].step = "applied" /\ worker[w].job = n
  <1>0. jobs \in [Slots -> Jobs \cup {Unseen}]
    BY DEF DecodedInv
  <1> USE <1>0 DEF Jobs, Unseen
  <1>1. jobs' = jobs => G
    OBVIOUS
  <1>2. ASSUME NEW m \in Slots, NEW slotted \in BOOLEAN, Deliver(m, slotted)
        PROVE  G
    BY <1>2 DEF Deliver
  <1>3. ASSUME NEW m \in Slots, LeaseLapses(m)
        PROVE  G
    BY <1>3 DEF LeaseLapses
  <1>4. ASSUME NEW w \in Workers, NEW m \in Slots, ClaimJob(w, m)
        PROVE  G
    BY <1>4 DEF ClaimJob, Claimable
  <1>5. ASSUME NEW w \in Workers, FinishJob(w)
        PROVE  G
    BY <1>5 DEF FinishJob, Leased
  <1>6. ASSUME NEW w \in Workers, FailJob(w)
        PROVE  G
    BY <1>6 DEF FailJob, Leased
  <1>7. \/ jobs' = jobs
        \/ \E m \in Slots, slotted \in BOOLEAN : Deliver(m, slotted)
        \/ \E m \in Slots : LeaseLapses(m)
        \/ \E w \in Workers, m \in Slots : ClaimJob(w, m)
        \/ \E w \in Workers : FinishJob(w) \/ FailJob(w)
    BY DEF Next, Outside, Transact, WorkerStep, ReadAccount, ApplyAccount, DropJob,
           ReconcileStep, ScanProgram, ApplyRows, CloseGone, FinishReconcile, AbortReconcile,
           HeartbeatStep, Plan, ReadSample, Confirm, Decline, vars, queue
  <1> QED BY <1>1, <1>2, <1>3, <1>4, <1>5, <1>6, <1>7

(* What jobs and workers hold is true of every run.                          *)
LEMMA DecodedIsInvariant == Spec => []DecodedInv
  <1>1. Init => DecodedInv
    BY DEF Init, DecodedInv, WorkerInv, DecodedIsMirrored, Decoded, Idle, Unseen, Jobs
  <1>2. (PastInv /\ Bounded) /\ DecodedInv /\ [Next]_vars => DecodedInv'
    <2> SUFFICES ASSUME PastInv, DecodedInv, [Next]_vars PROVE DecodedInv'
      OBVIOUS
    <2>1. Monotone
      BY StepsAreMonotone
    <2>2. jobs' \in [Slots -> Jobs \cup {Unseen}]
      BY QueueStep
    <2>3. \A n \in Slots : jobs'[n] # Unseen => n <= Len(chain')
      <3>1. Len(chain) \in Nat /\ Len(chain') \in Nat /\ Len(chain) <= Len(chain')
        BY <2>1, StepKinds, ChainGrows DEF PastInv
      <3> QED BY <3>1, QueueStep DEF DecodedInv, Slots
    <2>4. ASSUME NEW w \in Workers
          PROVE  WorkerInv(w)'
      <3>1. CASE WorkerStep(w)
        BY <2>1, <3>1, ActorHolds, IndexerAssumption
      <3>2. CASE ~WorkerStep(w)
        <4>1. worker'[w] = worker[w]
          <5>1. ASSUME NEW v \in Workers, WorkerStep(v), v # w
                PROVE  worker'[w] = worker[w]
            BY <5>1 DEF WorkerStep, ClaimJob, ReadAccount, ApplyAccount, FinishJob, FailJob,
                        DropJob, PastInv, ReadsOfPast
          <5>2. worker' = worker \/ \E v \in Workers : WorkerStep(v)
            BY DEF Next, Outside, Transact, Deliver, LeaseLapses, ReconcileStep, ScanProgram,
                   ApplyRows, CloseGone, FinishReconcile, AbortReconcile, HeartbeatStep, Plan,
                   ReadSample, Confirm, Decline, vars, queue
          <5> QED BY <3>2, <5>1, <5>2
        <4> QED BY <2>1, <4>1, HeldStaysHeld, IndexerAssumption
      <3> QED BY <3>1, <3>2
    <2>5. ASSUME NEW n \in Slots, Decoded(n)'
          PROVE  mirror'[chain'[n].account].slot >= n
      <3>1. jobs[n] # Unseen /\ jobs[n].slotted
            /\ (\/ jobs[n].status = "complete"
                \/ \E w \in Workers : worker[w].step = "applied" /\ worker[w].job = n)
        <4>1. jobs'[n].status = "complete" /\ jobs'[n].slotted
          BY <2>5 DEF Decoded
        <4>2. \/ jobs[n].status = "complete"
              \/ \E w \in Workers : worker[w].step = "applied" /\ worker[w].job = n
          BY <4>1, QueueStep
        <4>3. jobs[n] # Unseen
          BY <4>2 DEF Unseen, DecodedInv, WorkerInv, Delivered, Idle
        <4> QED BY <2>1, <4>1, <4>2, <4>3 DEF Monotone
      <3>2. n \in 1..Len(chain)
        BY <3>1 DEF DecodedInv, Slots
      <3>3. mirror[chain[n].account].slot >= n
        BY <3>1, <3>2 DEF DecodedInv, DecodedIsMirrored, Decoded, WorkerInv, MinContextSlot
      <3> QED BY <2>1, <3>2, <3>3 DEF Monotone, Slots
    <2> QED BY <2>2, <2>3, <2>4, <2>5 DEF DecodedInv, DecodedIsMirrored
  <1> QED BY <1>1, <1>2, PastIsInvariant, PTL DEF Spec

(* DecodedIsMirrored, for every instance: an event that counts as decoded    *)
(* has been mirrored, also when its job changed hands under a lapsed lease.  *)
THEOREM DecodedSafe == Spec => []DecodedIsMirrored
  <1>1. DecodedInv => DecodedIsMirrored
    BY DEF DecodedInv
  <1> QED BY <1>1, DecodedIsInvariant, PTL

-----------------------------------------------------------------------------
(* What the reconcile and the heartbeat vouch for is in the mirror.          *)
(* NothingMissing speaks of contents.  What the handlers keep is about       *)
(* slots: the mirror has passed every transaction on a living account.       *)

\* Every transaction up to s is in the mirror, as far as its account lives.
Passed(s) ==
    /\ s \in 0..Len(chain)
    /\ \A a \in LivingSince(s), n \in 1..s : chain[n].account = a => mirror[a].slot >= n

\* The slots somebody vouches for; a reconcile, once it has written its rows.
Vouched ==
    /\ \A s \in {sync.last_slot, watermark} \ {None} : Passed(s)
    /\ Passed(proven)
    /\ scan.step \in {"rows", "closed"} => Passed(scan.slot)

\* The heartbeat samples a slot of the chain.
SamplesPast == beat.step = "sampled" => beat.slot \in 0..Len(chain)

\* A finished reconcile leaves the slot it read.
SyncTyped == sync \in [status : {"warming", "ready", "degraded"}, last_slot : Nat \cup {None}]

HeartInv == Vouched /\ SamplesPast /\ SyncTyped

-----------------------------------------------------------------------------
(* An account on which nothing happens after slot j keeps its contents.      *)
LEMMA QuietKeepsRow ==
    ASSUME chain \in Seq(Mirrored!Transactions), NEW a \in Accounts,
           NEW j \in Nat, NEW s \in Nat, j <= s, s <= Len(chain),
           \A n \in (j + 1)..s : chain[n].account # a
    PROVE  RowAt(a, s) = RowAt(a, j)
  <1>1. Mirrored!Current(a, s) = Mirrored!Current(a, j)
    <2>1. ASSUME NEW n \in Mirrored!Current(a, s)
          PROVE  n \in Mirrored!Current(a, j)
      <3>1. n \in 1..s /\ chain[n] = [account |-> a, kind |-> "write"]
            /\ \A k \in (n + 1)..s : chain[k].account # a
        BY DEF Mirrored!Current
      <3>2. chain[n].account = a
        BY <3>1
      <3>3. n \in 1..j
        BY <3>1, <3>2
      <3> QED BY <3>1, <3>3 DEF Mirrored!Current
    <2>2. ASSUME NEW n \in Mirrored!Current(a, j)
          PROVE  n \in Mirrored!Current(a, s)
      <3>1. n \in 1..j /\ chain[n] = [account |-> a, kind |-> "write"]
            /\ \A k \in (n + 1)..j : chain[k].account # a
        BY DEF Mirrored!Current
      <3>2. \A k \in (n + 1)..s : chain[k].account # a
        BY <3>1
      <3> QED BY <3>1, <3>2 DEF Mirrored!Current
    <2> QED BY <2>1, <2>2
  <1>2. \A r : RowAt(a, r) = IF Mirrored!Current(a, r) = {} THEN 0
                             ELSE CHOOSE n \in Mirrored!Current(a, r) : TRUE
    BY DEF RowAt, Mirrored!RowAt
  <1> QED BY <1>1, <1>2

(* What has passed stays passed: rows only move forward, and a longer chain  *)
(* has no more accounts that lived since s.                                  *)
LEMMA PassedStays ==
    ASSUME PastInv, UNCHANGED <<chain, mirror>> \/ Grows \/ Forward, NEW s, Passed(s)
    PROVE  Passed(s)'
  <1>0. chain \in Seq(Mirrored!Transactions) /\ Len(chain) \in Nat
        /\ Len(chain') \in Nat /\ Len(chain) <= Len(chain') /\ s \in 0..Len(chain)
    BY ChainGrows DEF PastInv, RowsOfPast, Passed
  <1>1. \A n \in 1..s : chain'[n] = chain[n]
    BY <1>0 DEF Grows, Forward
  <1>2. \A a \in Accounts : \A k \in s..Len(chain) : RowAt(a, k)' = RowAt(a, k)
    <2>1. CASE chain' = chain
      BY <2>1 DEF RowAt, Mirrored!RowAt, Mirrored!Current
    <2>2. CASE Grows
      <3>1. PICK t \in Mirrored!Transactions : chain' = Append(chain, t)
        BY <2>2 DEF Grows
      <3>2. ASSUME NEW a \in Accounts, NEW k \in s..Len(chain)
            PROVE  RowAt(a, k)' = RowAt(a, k)
        <4>1. k \in 0..Len(chain)
          BY <1>0
        <4> QED BY <1>0, <3>1, <4>1, RowIsStable
      <3> QED BY <3>2
    <2> QED BY <2>1, <2>2 DEF Forward
  <1>3. LivingSince(s)' \subseteq LivingSince(s)
    <2>1. ASSUME NEW a \in LivingSince(s)'
          PROVE  a \in LivingSince(s)
      <3>1. a \in Accounts /\ \A k \in s..Len(chain') : RowAt(a, k)' # 0
        BY DEF LivingSince
      <3>2. \A k \in s..Len(chain) : RowAt(a, k)' # 0
        BY <1>0, <3>1
      <3> QED BY <1>2, <3>1, <3>2 DEF LivingSince
    <2> QED BY <2>1
  <1>4. \A a \in Accounts : mirror[a].slot \in Nat /\ mirror'[a].slot \in Nat
                            /\ mirror[a].slot <= mirror'[a].slot
    BY DEF PastInv, RowsOfPast, Grows, Forward, Row
  <1>5. ASSUME NEW a \in LivingSince(s)', NEW n \in 1..s, chain'[n].account = a
        PROVE  mirror'[a].slot >= n
    <2>1. a \in LivingSince(s) /\ a \in Accounts /\ chain[n].account = a
      BY <1>1, <1>3, <1>5 DEF LivingSince
    <2>2. mirror[a].slot >= n
      BY <2>1 DEF Passed
    <2> QED BY <1>0, <1>4, <2>1, <2>2
  <1> QED BY <1>0, <1>5 DEF Passed

(* The heartbeat's evidence: above a floor that has passed every event is    *)
(* decoded.  An account that was closed after the floor and lives again has  *)
(* been written since.                                                       *)
LEMMA EvidencePasses ==
    ASSUME PastInv, Bounded, DecodedInv, NEW f, f # None => Passed(f), NEW s \in 0..Len(chain),
           \A n \in 1..s : Above(n, f) => Decoded(n)
    PROVE  Passed(s)
  <1>0. chain \in Seq(Mirrored!Transactions) /\ Len(chain) \in Nat
    BY DEF PastInv, RowsOfPast
  <1>1. ASSUME NEW a \in LivingSince(s), NEW n \in 1..s, chain[n].account = a
        PROVE  mirror[a].slot >= n
    <2>0. a \in Accounts /\ mirror[a].slot \in Nat
      BY DEF LivingSince, PastInv, RowsOfPast, Row
    <2>1. ASSUME NEW m \in 1..s, chain[m].account = a, f = None \/ m > f
          PROVE  mirror[a].slot >= m
      <3>1. Decoded(m)
        BY <2>1, IndexerAssumption DEF Above
      <3>2. m \in Slots
        BY <1>0, IndexerAssumption DEF Slots, Bounded
      <3> QED BY <2>1, <3>1, <3>2 DEF DecodedInv, DecodedIsMirrored
    <2>2. CASE f = None \/ n > f
      BY <1>1, <2>1, <2>2
    <2>3. CASE f # None /\ ~(n > f) /\ a \in LivingSince(f)
      BY <1>1, <2>3 DEF Passed
    <2>4. CASE f # None /\ ~(n > f) /\ a \notin LivingSince(f)
      <3>1. f \in 0..Len(chain)
        BY <2>4 DEF Passed
      <3>2. PICK k \in f..Len(chain) : RowAt(a, k) = 0
        BY <2>0, <2>4 DEF LivingSince
      <3>3. k \in Nat /\ k < s /\ RowAt(a, s) # 0
        BY <1>0, <3>1, <3>2 DEF LivingSince
      <3>4. PICK m \in (k + 1)..s : chain[m].account = a
        BY <1>0, <2>0, <3>2, <3>3, QuietKeepsRow
      <3>5. m \in 1..s /\ m > f
        BY <3>1, <3>2, <3>3
      <3>6. mirror[a].slot >= m
        BY <2>1, <3>4, <3>5
      <3> QED BY <2>0, <2>4, <3>1, <3>5, <3>6
    <2> QED BY <2>2, <2>3, <2>4
  <1> QED BY <1>1 DEF Passed

-----------------------------------------------------------------------------
(* A reconcile writes what lives at its slot.                                *)
LEMMA RowsPass ==
    ASSUME PastInv, ApplyRows
    PROVE  Passed(scan.slot)'
  <1> DEFINE s == scan.slot
  <1>0. s \in 0..Len(chain) /\ Len(chain) \in Nat /\ scan'.slot = s /\ chain' = chain
    BY DEF PastInv, RowsOfPast, ReadsOfPast, ApplyRows, Idle
  <1>1. \A a, k : RowAt(a, k)' = RowAt(a, k)
    BY <1>0 DEF RowAt, Mirrored!RowAt, Mirrored!Current
  <1>2. ASSUME NEW a \in LivingSince(s)', NEW n \in 1..s
        PROVE  mirror'[a].slot >= n
    <2>1. a \in Accounts /\ s \in s..Len(chain)
      BY <1>0 DEF LivingSince
    <2>2. a \in LiveAt(s)
      BY <1>0, <1>1, <2>1 DEF LivingSince, LiveAt
    <2>3. mirror'[a] = Applied(a, s)
      BY <2>1, <2>2 DEF ApplyRows
    <2>4. Applied(a, s).slot \in Nat /\ s <= Applied(a, s).slot
      BY <1>0, <2>1, AppliedIsForward DEF PastInv, Row
    <2> QED BY <1>0, <2>3, <2>4
  <1>3. LivingSince(scan.slot)' = LivingSince(s)'
    BY <1>0 DEF LivingSince
  <1> QED BY <1>0, <1>2, <1>3 DEF Passed

(* A pass of the floor, which no reconcile and no earlier heartbeat breaks.  *)
LEMMA FloorPassed == Vouched => (Floor # None => Passed(Floor))
  BY DEF Vouched, Floor, Above

(* confirm_indexer_quiet moves the watermark and checked_at over what has    *)
(* passed only.                                                              *)
LEMMA ConfirmPasses ==
    ASSUME PastInv, DecodedInv, HeartInv, Bounded,
           NEW top \in 0..Len(chain), NEW low \in 0..top, Confirm(low, top)
    PROVE  /\ watermark' = watermark \/ Passed(watermark')
           /\ proven' = proven \/ Passed(proven')
  <1>0. Len(chain) \in Nat /\ MaxSlot \in Nat /\ Slots = 1..MaxSlot
        /\ beat.slot \in 0..Len(chain) /\ beat.slot <= top
    BY IndexerAssumption
       DEF PastInv, RowsOfPast, Bounded, Confirm, Listed, HeartInv, SamplesPast, Slots
  <1>1. Floor # None => Passed(Floor)
    BY FloorPassed DEF HeartInv
  <1>2. ASSUME watermark' # watermark
        PROVE  Passed(watermark')
    <2> DEFINE S == {n \in Unjudged(top) : n <= beat.slot /\ \A k \in Unjudged(n) : Decoded(k)}
    <2>1. watermark' = Advanced(top) /\ Advanced(top) # None
      BY <1>2 DEF Confirm, Above
    <2>2. S # {} /\ watermark' = Max(S)
      BY <2>1 DEF Advanced, Highest
    <2>3. S \subseteq 0..MaxSlot
      BY <1>0 DEF Unjudged
    <2>4. watermark' \in S
      BY <1>0, <2>2, <2>3, HasGreatest
    <2>5. watermark' \in 0..Len(chain)
      BY <1>0, <2>4 DEF Unjudged
    <2>6. \A n \in 1..watermark' : Above(n, Floor) => Decoded(n)
      BY <1>0, <2>4, <2>5 DEF Unjudged
    <2> QED BY <1>1, <2>5, <2>6, EvidencePasses
  <1>3. ASSUME proven' # proven
        PROVE  Passed(proven')
    <2>1. InSync(low, top) /\ proven' = Max({proven, beat.slot})
      BY <1>3 DEF Confirm
    <2>2. proven \in 0..Len(chain)
      BY DEF HeartInv, Vouched, Passed
    <2>3. {proven, beat.slot} \subseteq 0..Len(chain)
      BY <1>0, <2>2
    <2>4. proven' \in {proven, beat.slot}
      BY <1>0, <2>1, <2>3, HasGreatest
    <2>5. proven' = beat.slot
      BY <1>3, <2>4
    <2>6. ASSUME NEW n \in 1..beat.slot, Above(n, Floor)
          PROVE  Decoded(n)
      <3>1. n \in Slots /\ n <= top
        BY <1>0 DEF Bounded
      <3> QED BY <2>1, <2>6, <3>1 DEF InSync, Unjudged
    <2> QED BY <1>0, <1>1, <2>5, <2>6, EvidencePasses
  <1> QED BY <1>2, <1>3

-----------------------------------------------------------------------------
(* At first nothing is vouched for but slot 0.                               *)
LEMMA HeartInit == Init => HeartInv
  <1> SUFFICES ASSUME Init PROVE HeartInv
    OBVIOUS
  <1>1. chain = <<>> /\ Len(chain) = 0 /\ proven = 0
    BY DEF Init
  <1>2. Passed(proven)
    BY <1>1 DEF Passed
  <1> QED BY <1>2 DEF Init, HeartInv, Vouched, SamplesPast, SyncTyped, Idle

(* Every step keeps what is vouched for.                                     *)
LEMMA HeartNext ==
    ASSUME PastInv, Bounded, DecodedInv, HeartInv, [Next]_vars
    PROVE  HeartInv'
  <1>0. UNCHANGED <<chain, mirror>> \/ Grows \/ Forward
    BY StepKinds
  <1>1. ASSUME NEW s, Passed(s)
        PROVE  Passed(s)'
    BY <1>0, <1>1, PassedStays DEF HeartInv
  <1>2. Len(chain) \in Nat /\ Len(chain') \in Nat /\ Len(chain) <= Len(chain')
    BY <1>0, ChainGrows DEF PastInv
  <1>3. ASSUME SyncTyped', sync'.last_slot = sync.last_slot \/ Passed(sync'.last_slot),
               watermark' = watermark \/ Passed(watermark'),
               proven' = proven \/ Passed(proven'),
               \/ scan'.step \notin {"rows", "closed"}
               \/ scan.step \in {"rows", "closed"} /\ scan'.slot = scan.slot
               \/ Passed(scan.slot)'
        PROVE  Vouched'
    <2>1. ASSUME NEW s \in {sync'.last_slot, watermark'} \ {None}
          PROVE  Passed(s)'
      <3>1. Passed(s)
        BY <1>3 DEF HeartInv, Vouched
      <3> QED BY <1>1, <3>1
    <2>2. ASSUME NEW s, s = proven'
          PROVE  Passed(s)'
      <3>1. Passed(s)
        BY <1>3, <2>2 DEF HeartInv, Vouched
      <3> QED BY <1>1, <3>1
    <2>3. ASSUME scan'.step \in {"rows", "closed"}
          PROVE  Passed(scan.slot)'
      <3>1. ASSUME NEW s, s = scan.slot, scan'.slot = scan.slot, scan.step \in {"rows", "closed"}
            PROVE  Passed(s)'
        <4>1. Passed(s)
          BY <3>1 DEF HeartInv, Vouched
        <4> QED BY <1>1, <4>1
      <3> QED BY <1>3, <2>3, <3>1 DEF Passed, LivingSince
    <2>4. Passed(proven)'
      BY <2>2 DEF Passed, LivingSince
    <2> QED BY <2>1, <2>3, <2>4 DEF Vouched
  <1>4. UNCHANGED beat => SamplesPast'
    BY <1>2 DEF HeartInv, SamplesPast
  <1>5. ASSUME NEW w \in Workers, WorkerStep(w)
        PROVE  HeartInv'
    <2>1. UNCHANGED <<watermark, proven, scan, beat>>
      BY <1>5 DEF WorkerStep, ClaimJob, ReadAccount, ApplyAccount, FinishJob, FailJob, DropJob,
                  heart
    <2>2. \/ sync' = sync
          \/ \E st \in {"ready", "degraded"} : sync' = [sync EXCEPT !.status = st]
      BY <1>5 DEF WorkerStep, ClaimJob, ReadAccount, ApplyAccount, FinishJob, FailJob, DropJob
    <2>3. SyncTyped' /\ sync'.last_slot = sync.last_slot
      BY <2>2 DEF HeartInv, SyncTyped
    <2> QED BY <1>3, <1>4, <2>1, <2>3 DEF HeartInv
  <1>6. ASSUME ReconcileStep
        PROVE  HeartInv'
    <2>1. UNCHANGED <<watermark, proven, beat>>
      BY <1>6 DEF ReconcileStep, ScanProgram, ApplyRows, CloseGone, FinishReconcile,
                  AbortReconcile, heart
    <2>2. ASSUME NEW s \in 0..MaxSlot, ScanProgram(s)
          PROVE  HeartInv'
      BY <1>3, <1>4, <2>1, <2>2 DEF ScanProgram, HeartInv, SyncTyped
    <2>3. CASE ApplyRows
      BY <1>3, <1>4, <2>1, <2>3, RowsPass DEF ApplyRows, HeartInv, SyncTyped
    <2>4. CASE CloseGone
      BY <1>3, <1>4, <2>1, <2>4 DEF CloseGone, HeartInv, SyncTyped
    <2>5. CASE FinishReconcile
      <3>1. scan.step = "closed" /\ scan' = Idle
            /\ sync' = [status |-> "ready", last_slot |-> scan.slot]
        BY <2>5 DEF FinishReconcile
      <3>2. Passed(scan.slot) /\ scan.slot \in Nat
        BY <3>1 DEF HeartInv, Vouched, Passed
      <3> QED BY <1>3, <1>4, <2>1, <3>1, <3>2 DEF HeartInv, SyncTyped, Idle
    <2>6. CASE AbortReconcile
      BY <1>3, <1>4, <2>1, <2>6 DEF AbortReconcile, HeartInv, SyncTyped, Idle
    <2> QED BY <1>6, <2>2, <2>3, <2>4, <2>5, <2>6 DEF ReconcileStep
  <1>7. ASSUME HeartbeatStep
        PROVE  HeartInv'
    <2>1. UNCHANGED <<sync, scan>> /\ SyncTyped'
      BY <1>7 DEF HeartbeatStep, Plan, ReadSample, Confirm, Decline, HeartInv, SyncTyped
    <2>2. SamplesPast'
      BY <1>2, <1>7 DEF HeartbeatStep, Plan, ReadSample, Confirm, Decline, SamplesPast, Idle
    <2>3. (watermark' = watermark \/ Passed(watermark'))
          /\ (proven' = proven \/ Passed(proven'))
      <3>1. ASSUME NEW top \in 0..Len(chain), NEW low \in 0..top, Confirm(low, top)
            PROVE  (watermark' = watermark \/ Passed(watermark'))
                   /\ (proven' = proven \/ Passed(proven'))
        BY <3>1, ConfirmPasses
      <3> QED BY <1>7, <3>1 DEF HeartbeatStep, Plan, ReadSample, Decline
    <2> QED BY <1>3, <2>1, <2>2, <2>3 DEF HeartInv
  <1>8. CASE Outside \/ UNCHANGED vars
    <2>1. UNCHANGED <<sync, scan, heart>>
      BY <1>8 DEF Outside, Transact, Deliver, LeaseLapses, vars
    <2> QED BY <1>3, <1>4, <2>1 DEF heart, HeartInv, SyncTyped
  <1> QED BY <1>5, <1>6, <1>7, <1>8 DEF Next

(* What has passed is shown, if it still lives: the mirror's slot itself or, *)
(* behind s, slot s, between which and the mirror's nothing happened.        *)
LEMMA PassedIsShown ==
    ASSUME PastInv, NEW s, Passed(s), NEW a \in LivingSince(s)
    PROVE  ShownSince(a, s)
  <1>0. chain \in Seq(Mirrored!Transactions) /\ Len(chain) \in Nat /\ s \in 0..Len(chain)
        /\ a \in Accounts /\ mirror[a].slot \in 0..Len(chain)
        /\ mirror[a].row = RowAt(a, mirror[a].slot)
    BY DEF PastInv, RowsOfPast, Row, Passed, LivingSince
  <1>1. CASE mirror[a].slot >= s
    BY <1>0, <1>1 DEF ShownSince
  <1>2. CASE ~(mirror[a].slot >= s)
    <2>1. \A n \in (mirror[a].slot + 1)..s : chain[n].account # a
      BY <1>0, <1>2 DEF Passed
    <2>2. RowAt(a, s) = RowAt(a, mirror[a].slot)
      BY <1>0, <1>2, <2>1, QuietKeepsRow
    <2> QED BY <1>0, <2>2 DEF ShownSince
  <1> QED BY <1>1, <1>2

(* NothingMissing, for every instance: all that lives and is older than what *)
(* a reconcile, the watermark or checked_at vouches for is in the tables.    *)
THEOREM NothingIsMissing == Spec => []NothingMissing
  <1>1. PastInv /\ Bounded /\ DecodedInv /\ HeartInv /\ [Next]_vars => HeartInv'
    BY HeartNext
  <1>2. PastInv /\ HeartInv => NothingMissing
    <2> SUFFICES ASSUME PastInv, HeartInv,
                        NEW s \in {sync.last_slot, watermark, proven} \ {None},
                        NEW a \in LivingSince(s)
                 PROVE  ShownSince(a, s)
      BY DEF NothingMissing
    <2>1. Passed(s)
      BY DEF HeartInv, Vouched
    <2> QED BY <2>1, PassedIsShown
  <1> QED BY <1>1, <1>2, HeartInit, PastIsInvariant, DecodedIsInvariant, PTL DEF Spec
=============================================================================
