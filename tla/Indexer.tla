------------------------------- MODULE Indexer -------------------------------
(***************************************************************************)
(* The indexer of the front's server: a mirror of the program's accounts   *)
(* (front/lib/server/indexer-sync.ts, the webhook, migrations 0047, 0079)  *)
(* and the heartbeat that vouches for it while the program is quiet        *)
(* (front/lib/server/indexer-heartbeat.ts, migration 0075).                *)
(*                                                                         *)
(* A handler reads the chain from a node that may lag, and writes what it  *)
(* read in a later step; job workers, a full reconcile and the heartbeat   *)
(* overlap freely, and each may be cut off between two steps.  Each SQL    *)
(* function is one step, under its row or advisory locks.                  *)
(*                                                                         *)
(* A slot holds one transaction of the program, which touches one account; *)
(* slot 0 stands for what came before.                                     *)
(* Time is left out: a lease lapses, a worker is late, a heartbeat is due  *)
(* or declined for the tip's rate or a clock at any moment.                *)
(***************************************************************************)
EXTENDS Integers, Sequences, FiniteSetsExt

CONSTANTS
    Accounts,
    Workers,        \* runs of reconcileIndexerJobs
    SampleSize,     \* accounts a heartbeat compares with the chain
    MaxSlot,        \* bound: transactions
    None

ASSUME IndexerAssumption ==
    SampleSize \in Nat /\ MaxSlot \in Nat /\ None \notin Nat /\ None \notin Workers

VARIABLES
    chain,      \* successful transactions of the program, by slot
    jobs,       \* indexer_events with their indexer_jobs, by slot
    worker,     \* what each worker is doing
    mirror,     \* indexer_account_versions and the typed row, per account
    sync,       \* indexer_sync_state
    scan,       \* the full reconcile
    watermark,  \* indexer_heartbeat_watermarks.slot
    beat,       \* the heartbeat's latest plan and what it has read for it
    proven      \* the finalized slot behind checked_at, as last confirmed

queue == <<jobs, worker>>
heart == <<watermark, beat, proven>>
vars == <<chain, queue, mirror, sync, scan, heart>>

\* What ChainMirror calls `at` and `row`.
Mirrored == INSTANCE ChainMirror WITH
    at <- [a \in Accounts |-> mirror[a].slot], row <- [a \in Accounts |-> mirror[a].row]
RowAt(a, s) == Mirrored!RowAt(a, s)

Slots == 1..MaxSlot
Unseen == [status |-> "unseen"]
Idle == [step |-> "idle"]

Init ==
    /\ chain = <<>>
    /\ jobs = [n \in Slots |-> Unseen]
    /\ worker = [w \in Workers |-> Idle]
    /\ mirror = [a \in Accounts |-> [slot |-> 0, row |-> 0]]
    /\ sync = [status |-> "warming", last_slot |-> None]
    /\ scan = Idle
    /\ watermark = None /\ beat = Idle /\ proven = 0

-----------------------------------------------------------------------------
(* The chain.                                                                *)
Transact(t) ==
    /\ Len(chain) < MaxSlot
    /\ ~(t.kind = "close" /\ RowAt(t.account, Len(chain)) = 0)
    /\ chain' = Append(chain, t)
    /\ UNCHANGED <<queue, mirror, sync, scan, heart>>

(* handleIndexerWebhook: the provider delivers an event late, with or        *)
(* without its slot, or never; a second delivery changes nothing.            *)
Deliver(n, slotted) ==
    /\ n <= Len(chain) /\ jobs[n] = Unseen
    /\ jobs' = [jobs EXCEPT ![n] = [status |-> "pending", slotted |-> slotted, lease |-> None]]
    /\ UNCHANGED <<chain, worker, mirror, sync, scan, heart>>

-----------------------------------------------------------------------------
(* apply_indexer_snapshot: one account as it was at slot s.                  *)
IsOpen(a) == mirror[a].row # 0
Open == {a \in Accounts : IsOpen(a)}

\* Slip: a tombstone is taken for an account nobody knows.
StaleButForTombstones(a, s) == IsOpen(a) /\ mirror[a].slot > s
Stale(a, s) ==
    \/ mirror[a].slot > s
    \/ ~IsOpen(a) /\ mirror[a].slot = s /\ RowAt(a, s) # 0

Applied(a, s) == IF Stale(a, s) THEN mirror[a] ELSE [slot |-> s, row |-> RowAt(a, s)]

-----------------------------------------------------------------------------
(* reconcileIndexerJobs and refreshIndexedAddresses.                         *)
Leased(n, w) == jobs[n].status = "pending" /\ jobs[n].lease = w

Claimable(n) == jobs[n].status = "pending" /\ jobs[n].lease = None

ClaimJob(w, n) ==
    /\ worker[w] = Idle /\ Claimable(n)
    /\ jobs' = [jobs EXCEPT ![n].lease = w]
    /\ worker' = [worker EXCEPT ![w] = [step |-> "claimed", job |-> n]]
    /\ UNCHANGED <<chain, mirror, sync, scan, heart>>

LeaseLapses(n) ==
    /\ jobs[n].status = "pending" /\ jobs[n].lease # None
    /\ jobs' = [jobs EXCEPT ![n].lease = None]
    /\ UNCHANGED <<chain, worker, mirror, sync, scan, heart>>

\* Slip: the node may be behind the event.
FromAnySlot(n) == 0
MinContextSlot(n) == IF jobs[n].slotted THEN n ELSE 0

ReadAccount(w, s) ==
    /\ worker[w].step = "claimed"
    /\ MinContextSlot(worker[w].job) <= s /\ s <= Len(chain)
    /\ worker' = [worker EXCEPT ![w] = [step |-> "read", job |-> @.job, slot |-> s]]
    /\ UNCHANGED <<chain, jobs, mirror, sync, scan, heart>>

ApplyAccount(w) ==
    LET a == chain[worker[w].job].account IN
    /\ worker[w].step = "read"
    /\ mirror' = [mirror EXCEPT ![a] = Applied(a, worker[w].slot)]
    /\ worker' = [worker EXCEPT ![w] = [step |-> "applied", job |-> @.job]]
    /\ UNCHANGED <<chain, jobs, sync, scan, heart>>

OthersDone(n) == \A k \in Slots \ {n} : jobs[k].status # "pending"

(* finish_indexer_job, only under its own lease: otherwise it answers false  *)
(* and nothing changes but the worker.                                       *)
FinishJob(w) ==
    LET n == worker[w].job IN
    /\ worker[w].step = "applied"
    /\ worker' = [worker EXCEPT ![w] = Idle]
    /\ \/ /\ Leased(n, w)
          /\ jobs' = [jobs EXCEPT ![n].status = "complete", ![n].lease = None]
          /\ sync' = IF sync.last_slot # None /\ OthersDone(n)
                     THEN [sync EXCEPT !.status = "ready"] ELSE sync
       \/ ~Leased(n, w) /\ UNCHANGED <<jobs, sync>>
    /\ UNCHANGED <<chain, mirror, scan, heart>>

(* A failed call: the job goes back, and so does the advertised state.       *)
FailJob(w) ==
    LET n == worker[w].job IN
    /\ worker[w] # Idle
    /\ worker' = [worker EXCEPT ![w] = Idle]
    /\ \/ /\ Leased(n, w)
          /\ jobs' = [jobs EXCEPT ![n].lease = None]
          /\ sync' = [sync EXCEPT !.status = "degraded"]
       \/ ~Leased(n, w) /\ UNCHANGED <<jobs, sync>>
    /\ UNCHANGED <<chain, mirror, scan, heart>>

(* Deadline, cancellation or crash: nothing is written, the lease stays.     *)
DropJob(w) ==
    /\ worker[w] # Idle
    /\ worker' = [worker EXCEPT ![w] = Idle]
    /\ UNCHANGED <<chain, jobs, mirror, sync, scan, heart>>

-----------------------------------------------------------------------------
(* reconcileCompleteSnapshot: all accounts at one finalized slot, written    *)
(* first, then what the tables show and the snapshot does not is closed.     *)
ScanProgram(s) ==
    /\ scan = Idle /\ s <= Len(chain)
    /\ scan' = [step |-> "scanned", slot |-> s]
    /\ UNCHANGED <<chain, queue, mirror, sync, heart>>

LiveAt(s) == {a \in Accounts : RowAt(a, s) # 0}

ApplyRows ==
    /\ scan.step = "scanned"
    /\ scan' = [step |-> "rows", slot |-> scan.slot,
                gone |-> Open \ LiveAt(scan.slot)]
    /\ mirror' = [a \in Accounts |->
          IF a \in LiveAt(scan.slot) THEN Applied(a, scan.slot) ELSE mirror[a]]
    /\ UNCHANGED <<chain, queue, sync, heart>>

CloseGone ==
    /\ scan.step = "rows"
    /\ scan' = [step |-> "closed", slot |-> scan.slot]
    /\ mirror' = [a \in Accounts |->
          IF a \in scan.gone THEN Applied(a, scan.slot) ELSE mirror[a]]
    /\ UNCHANGED <<chain, queue, sync, heart>>

FinishReconcile ==
    /\ scan.step = "closed" /\ scan' = Idle
    /\ sync' = [status |-> "ready", last_slot |-> scan.slot]
    /\ UNCHANGED <<chain, queue, mirror, heart>>

\* The second write fails too when the database is what failed.
AbortReconcile ==
    /\ scan # Idle /\ scan' = Idle
    /\ sync' \in {sync, [sync EXCEPT !.status = "degraded"]}
    /\ UNCHANGED <<chain, queue, mirror, heart>>

-----------------------------------------------------------------------------
(* The heartbeat.  Slots are compared with the floor: what the watermark or  *)
(* the last reconcile already accounts for.                                  *)
Above(s, t) == s # None /\ (t = None \/ s > t)
Floor == IF Above(sync.last_slot, watermark) THEN sync.last_slot ELSE watermark

(* indexer_heartbeat_plan; a new plan supersedes one under way.              *)
Plan(sample) ==
    /\ sample \in kSubset(Min({SampleSize, Cardinality(Open)}), Open)
    /\ beat' = [step |-> "planned", sample |-> sample, floor |-> Floor]
    /\ UNCHANGED <<chain, queue, mirror, sync, scan, watermark, proven>>

(* readSample: the planned accounts at one finalized slot.                   *)
ReadSample(s) ==
    /\ beat.step = "planned"
    /\ s <= Len(chain) /\ ~Above(beat.floor, s)
    /\ beat' = [step |-> "sampled", sample |-> beat.sample, slot |-> s]
    /\ UNCHANGED <<chain, queue, mirror, sync, scan, watermark, proven>>

(* listProgram answers with the signatures of low..top, asked after the      *)
(* sample and so not older than it.  It is evidence when it reaches the      *)
(* floor (P5).                                                               *)
Listed(low, top) == beat.slot <= top /\ low <= top
ReachesFloor(low) == Floor # None /\ low <= Floor

Highest(S) == IF S = {} THEN None ELSE Max(S)

(* P6: an event with its slot whose accounts have been written.              *)
Decoded(n) == jobs[n].status = "complete" /\ jobs[n].slotted
Unjudged(top) == {n \in Slots : n <= top /\ Above(n, Floor)}

\* Slip: the watermark steps over a signature nobody delivered.
AdvancedOverGaps(top) == Highest({n \in Unjudged(top) : n <= beat.slot /\ Decoded(n)})
Advanced(top) ==
    Highest({n \in Unjudged(top) : n <= beat.slot /\ \A k \in Unjudged(n) : Decoded(k)})

(* S1: a sampled row equals the chain unless it is newer, or closed by now.  *)
SampleMatches ==
    \A a \in beat.sample :
        IsOpen(a) /\ mirror[a].slot <= beat.slot => mirror[a].row = RowAt(a, beat.slot)

InSync(low, top) ==
    /\ sync.status = "ready" /\ sync.last_slot # None
    /\ \A n \in Slots : jobs[n].status # "pending"
    /\ ReachesFloor(low) /\ \A n \in Unjudged(top) : Decoded(n)
    /\ SampleMatches

(* confirm_indexer_quiet.  It may decline for the time or an open incident;  *)
(* the watermark moves all the same, also under a sample that differs.       *)
Confirm(low, top) ==
    /\ beat.step = "sampled" /\ Listed(low, top)
    /\ beat' = Idle
    /\ watermark' = IF ReachesFloor(low) /\ Above(Advanced(top), watermark)
                    THEN Advanced(top) ELSE watermark
    /\ \/ UNCHANGED proven
       \/ InSync(low, top) /\ proven' = Max({proven, beat.slot})
    /\ UNCHANGED <<chain, queue, mirror, sync, scan>>

(* No evidence, or none in time: only the plan is spent.                     *)
Decline ==
    /\ beat # Idle /\ beat' = Idle
    /\ UNCHANGED <<chain, queue, mirror, sync, scan, watermark, proven>>

-----------------------------------------------------------------------------
WorkerStep(w) ==
    \/ \E n \in Slots : ClaimJob(w, n)
    \/ \E s \in 0..MaxSlot : ReadAccount(w, s)
    \/ ApplyAccount(w) \/ FinishJob(w) \/ FailJob(w) \/ DropJob(w)

ReconcileStep ==
    \/ \E s \in 0..MaxSlot : ScanProgram(s)
    \/ ApplyRows \/ CloseGone \/ FinishReconcile \/ AbortReconcile

HeartbeatStep ==
    \/ \E sample \in SUBSET Accounts : Plan(sample)
    \/ \E s \in 0..MaxSlot : ReadSample(s)
    \/ \E top \in 0..Len(chain) : \E low \in 0..top : Confirm(low, top)
    \/ Decline

Outside ==
    \/ \E t \in Mirrored!Transactions : Transact(t)
    \/ \E n \in Slots, slotted \in BOOLEAN : Deliver(n, slotted)
    \/ \E n \in Slots : LeaseLapses(n)

Next ==
    \/ Outside
    \/ \E w \in Workers : WorkerStep(w)
    \/ ReconcileStep \/ HeartbeatStep

Spec == Init /\ [][Next]_vars

-----------------------------------------------------------------------------
(* Types of the tables and of what the handlers hold.                        *)
Jobs == [status : {"pending", "complete"}, slotted : BOOLEAN, lease : Workers \cup {None}]

Doing == [step : {"claimed", "applied"}, job : Slots]
            \cup [step : {"read"}, job : Slots, slot : 0..MaxSlot]

TypeOK ==
    /\ chain \in Seq(Mirrored!Transactions) /\ Len(chain) <= MaxSlot
    /\ jobs \in [Slots -> Jobs \cup {Unseen}]
    /\ worker \in [Workers -> Doing \cup {Idle}]
    /\ mirror \in [Accounts -> [slot : 0..MaxSlot, row : 0..MaxSlot]]
    /\ sync \in [status : {"warming", "ready", "degraded"}, last_slot : 0..MaxSlot \cup {None}]
    /\ scan # Idle => scan.slot \in 0..MaxSlot
    /\ watermark \in Slots \cup {None} /\ proven \in 0..MaxSlot

(* apply_indexer_snapshot, "a tombstone keeps an older in-flight snapshot    *)
(* from resurrecting a closed account": however reads and writes of workers  *)
(* and reconciles interleave, a row is the account as it was at one slot,    *)
(* and that slot never goes back.                                            *)
MirrorsChain == Mirrored!Spec

(* The queue's acknowledgement: when an event counts as decoded, the mirror  *)
(* has been read at or after it, whoever finished the job and under whatever *)
(* lease; a close that was decoded is therefore never undone.                *)
DecodedIsMirrored ==
    \A n \in Slots : Decoded(n) => mirror[chain[n].account].slot >= n

\* Account a is shown as it was at slot s or later.
ShownSince(a, s) == \E k \in s..Len(chain) : mirror[a].row = RowAt(a, k)

LivingSince(s) == {a \in Accounts : \A k \in s..Len(chain) : RowAt(a, k) # 0}

(* Migration 0075 of the watermark and the bump: every transaction up to a   *)
(* slot the heartbeat or a reconcile vouches for is in the mirror, as far as *)
(* the account still lives, although deliveries are lost, nodes lag and      *)
(* later reconciles go back to an older slot.                                *)
NothingMissing ==
    \A s \in {sync.last_slot, watermark, proven} \ {None} :
        \A a \in LivingSince(s) : ShownSince(a, s)

(* The claim of 0075 as it is written, for closed accounts too: checked_at   *)
(* moves only when the mirror is in sync with the slot it moves to.          *)
ProvenIsMirrored ==
    [][proven' # proven => (\A a \in Accounts : ShownSince(a, proven))']_vars
=============================================================================
