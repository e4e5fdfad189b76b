---------------------------- MODULE SaleCapacity ----------------------------
(***************************************************************************)
(* The server's EUR ledger of one issuer's raises (front/lib/server/       *)
(* sale-capacity.ts and spv-issuance-jobs.ts, the sale-approvals routes,   *)
(* migrations 0066, 0073 and 0080).                                        *)
(*                                                                         *)
(* The program knows nothing of the cap: an Admin reserves the amount with *)
(* the server, sends approve_sale, and the server follows the chain.  It   *)
(* reads the chain in one step and writes the ledger in a later one, and   *)
(* two of its handlers run side by side: the retry worker (one at a time,  *)
(* under its lease) and a route an Admin calls.  Either may be cut off     *)
(* between two steps.  Each SQL function is one step, under row locks.     *)
(*                                                                         *)
(* Time is left out: a row is of any age, an approval lapses at any time.  *)
(***************************************************************************)
EXTENDS Integers, Sequences, FiniteSetsExt

CONSTANTS
    SaleIds,             \* of one share class: an id gives both PDAs
    Mints, Grosses,      \* payment mints; sizes of a sale, in base units
    UNITS_PER_TOKEN,     \* 10 ^ decimals of a mint, over the cents of a EUR
    StartRates,          \* EUR per token of each mint, 0 while it has none
    NewRates,            \* rates the fx jobs or an Admin may add
    Cap,                 \* the subject's cap
    None,
    MaxReservations,     \* bound: reservations of one id
    MaxLandings          \* bound: approvals of one id that land

(* The terms of an approval.  `for` stands for prices, expiry, hash and      *)
(* approver: those of the i-th reservation, or 0 where there is none.        *)
Terms(g, m, i) == [gross |-> g, mint |-> m, for |-> i]

Agents == {"worker", "admin"}
Live == {"reserved", "consumed"}

(* The two accounts of a sale id.                                            *)
Approval == [gross : Nat, mint : Mints, for : Nat, lapsed : BOOLEAN]
Sale == [gross : Nat, mint : Mints, for : Nat, sold : Nat, closed : BOOLEAN]

ASSUME SaleCapacityAssumption ==
    /\ Grosses \subseteq Nat \ {0} /\ NewRates \subseteq Nat \ {0}
    /\ UNITS_PER_TOKEN \in Nat \ {0} /\ StartRates \in [Mints -> Nat]
    /\ Cap \in Nat /\ MaxReservations \in Nat /\ MaxLandings \in Nat
    /\ None \notin Approval /\ None \notin Sale

VARIABLES
    chain,      \* per sale id: its approval and its sale, at confirmed
    final,      \* the same, at finalized: as the chain once was
    landed,     \* approvals of an id that landed so far
    txs,        \* per reservation: the approve_sale its Admin sent for it
    rates,      \* fx_effective_rate of each mint
    rows,       \* sale_capacity_reservations, oldest first
    holds,      \* sale_capacity_holds: what could not be counted
    doing       \* what each handler has read and does next

network == <<chain, final, landed, txs>>
vars == <<network, rates, rows, holds, doing>>
store == <<rows, holds, txs>>
outside == <<chain, final, landed, rates>>
server == <<rates, rows, holds, doing>>

Idle == [step |-> "idle"]
Unused == [approval |-> None, sale |-> None]

Init ==
    /\ chain = [s \in SaleIds |-> Unused] /\ final = chain
    /\ landed = [s \in SaleIds |-> 0]
    /\ txs = <<>> /\ rates = StartRates
    /\ rows = <<>> /\ holds = {}
    /\ doing = [a \in Agents |-> Idle]

-----------------------------------------------------------------------------
(* The chain, as the server sees it.                                         *)

\* Slip: the two accounts come from nodes at different slots.
OneSlotOfTwoNodes(s) == [approval |-> chain[s].approval, sale |-> final[s].sale]

(* Both accounts of one id in one getMultipleAccounts: one slot.             *)
OneSlot(s) == chain[s]

Approve(s, t) ==
    /\ chain[s] = Unused
    /\ landed[s] < MaxLandings
    /\ landed' = [landed EXCEPT ![s] = @ + 1]
    /\ chain' = [chain EXCEPT ![s].approval =
                    [gross |-> t.gross, mint |-> t.mint, for |-> t.for,
                     lapsed |-> FALSE]]

(* Straight on the program, without a reservation.                           *)
ApproveDirectly(s, g, m) ==
    Approve(s, Terms(g, m, 0)) /\ UNCHANGED <<final, txs, server>>

(* The Admin's approve_sale for its reservation: built and sent after it,    *)
(* perhaps late; it lands, fails because the id is taken, or never lands.    *)
SendTx(i) ==
    /\ txs[i].st = "none"
    /\ txs' = [txs EXCEPT ![i].st = "sent"]
    /\ UNCHANGED <<chain, final, landed, server>>

LandTx(i) ==
    /\ txs[i].st = "sent"
    /\ \/ /\ Approve(txs[i].sid, txs[i])
          /\ txs' = [txs EXCEPT ![i].st = "landed"]
       \/ /\ chain[txs[i].sid] # Unused
          /\ txs' = [txs EXCEPT ![i].st = "failed"]
          /\ UNCHANGED <<chain, landed>>
    /\ UNCHANGED <<final, server>>

(* The finalized chain is past the height its blockhash was valid to.        *)
OutliveTx(i) ==
    /\ txs[i].st \in {"sent", "landed"}
    /\ txs' = [txs EXCEPT ![i].st = "past"]
    /\ final' = chain
    /\ UNCHANGED <<chain, landed, server>>

Finalize ==
    /\ final # chain /\ final' = chain
    /\ UNCHANGED <<chain, landed, txs, server>>

LapseApproval(s) ==
    /\ chain[s].approval # None /\ ~chain[s].approval.lapsed
    /\ chain' = [chain EXCEPT ![s].approval.lapsed = TRUE]
    /\ UNCHANGED <<final, landed, txs, server>>

RevokeApproval(s) ==
    /\ chain[s].approval # None
    /\ chain' = [chain EXCEPT ![s].approval = None]
    /\ UNCHANGED <<final, landed, txs, server>>

OpenSale(s, g) ==
    /\ chain[s].approval # None /\ ~chain[s].approval.lapsed
    /\ g <= chain[s].approval.gross
    /\ chain' = [chain EXCEPT ![s] =
                    [approval |-> None,
                     sale |-> [gross |-> g, mint |-> @.approval.mint, for |-> 0,
                               sold |-> 0, closed |-> FALSE]]]
    /\ UNCHANGED <<final, landed, txs, server>>

Buy(s, g) ==
    /\ chain[s].sale # None /\ ~chain[s].sale.closed
    /\ chain[s].sale.sold + g <= chain[s].sale.gross
    /\ chain' = [chain EXCEPT ![s].sale.sold = @ + g]
    /\ UNCHANGED <<final, landed, txs, server>>

CloseSale(s) ==
    /\ chain[s].sale # None /\ ~chain[s].sale.closed
    /\ chain' = [chain EXCEPT ![s].sale.closed = TRUE]
    /\ UNCHANGED <<final, landed, txs, server>>

-----------------------------------------------------------------------------
(* The ledger's SQL functions.                                               *)

(* In cents, rounded up.                                                     *)
Eur(units, rate) == (units * rate + UNITS_PER_TOKEN - 1) \div UNITS_PER_TOKEN

Larger(x, y) == IF x > y THEN x ELSE y
Smaller(x, y) == IF x > y THEN y ELSE x

Counts(r) == r.st \in Live \cup {"booked"}

Counted(r) ==
    CASE r.st \in Live     -> r.eur
      [] r.st = "booked"   -> r.booked
      [] OTHER             -> 0

Total(amounts) == MapThenSumSet(LAMBDA i : amounts[i], DOMAIN amounts)

\* Slip: a reservation takes room only once its approval landed.
UsedOnceConfirmed ==
    Total([i \in DOMAIN rows |-> IF rows[i].conf THEN Counted(rows[i]) ELSE 0])

Used == Total([i \in DOMAIN rows |-> Counted(rows[i])])

RowsOf(s) == {i \in DOMAIN rows : rows[i].sid = s}

\* Slip: a booked row does not keep its id.
TakenWhileLive(s) == \E i \in RowsOf(s) : rows[i].st \in Live

(* The unique indexes on (network, sale_pda) and the live sale id.           *)
Taken(s) == \E i \in RowsOf(s) : Counts(rows[i])

MayReserve(s, t) ==
    /\ ~Taken(s)
    /\ rates[t.mint] > 0
    /\ Used + Eur(t.gross, rates[t.mint]) <= Cap
    /\ holds = {}

NewRow(s, t, direct) ==
    [sid |-> s, st |-> "reserved",
     gross |-> t.gross, mint |-> t.mint, for |-> t.for,
     rate |-> rates[t.mint], eur |-> Eur(t.gross, rates[t.mint]), booked |-> 0,
     conf |-> direct, adopted |-> direct]

Insert(s, t, direct) ==
    /\ rows' = Append(rows, NewRow(s, t, direct))
    /\ txs' = Append(txs, [sid |-> s, st |-> IF direct THEN "past" ELSE "none",
                           gross |-> t.gross, mint |-> t.mint, for |-> t.for])

Confirmed(r) == IF r.st \in Live THEN [r EXCEPT !.conf = TRUE] ELSE r

\* Slip: only the size that was asked for counts.
GrewNever(r, sale) == FALSE

(* A sale larger than its reservation is counted at its own size.            *)
Grew(r, sale) == r.st = "reserved" /\ sale.gross > r.gross

ConsumedAt(r, sale) ==
    IF Grew(r, sale)
    THEN [r EXCEPT !.st = "consumed", !.conf = TRUE, !.adopted = TRUE,
                   !.gross = sale.gross,
                   !.eur = Larger(@, Eur(sale.gross, r.rate))]
    ELSE [r EXCEPT !.st = "consumed", !.conf = TRUE,
                   !.eur = Smaller(@, Eur(sale.gross, r.rate))]

Consumed(r, sale) == IF r.st = "reserved" THEN ConsumedAt(r, sale) ELSE r

Booked(r, sale) ==
    CASE r.st # "consumed" -> r
      [] r.st = "consumed" /\ sale.sold = 0 -> [r EXCEPT !.st = "unsold"]
      [] OTHER -> [r EXCEPT !.st = "booked", !.booked = Eur(sale.sold, r.rate)]

Released(r) == IF r.st = "reserved" THEN [r EXCEPT !.st = "released"] ELSE r

(* adopt_sale_approval: the newest row of the approval, a live one first.    *)
AdoptedRow(s) ==
    IF \E i \in RowsOf(s) : rows[i].st \in Live
    THEN Max({i \in RowsOf(s) : rows[i].st \in Live})
    ELSE IF RowsOf(s) = {} THEN 0 ELSE Max(RowsOf(s))

SameTerms(r, t) == r.gross = t.gross /\ r.mint = t.mint /\ r.for = t.for

(* Nothing to adopt: counted already, or reserved at these very terms.       *)
NeedsNoAdoption(i, t) ==
    /\ i # 0
    /\ \/ rows[i].st \in {"consumed", "booked"}
       \/ rows[i].st = "reserved" /\ SameTerms(rows[i], t)

AdoptionRate(i, t) ==
    IF i # 0 /\ rows[i].mint = t.mint THEN rows[i].rate ELSE rates[t.mint]

AdoptedAt(r, t, rate) ==
    [r EXCEPT !.st = "reserved", !.conf = TRUE, !.adopted = TRUE,
              !.gross = t.gross, !.mint = t.mint, !.for = t.for, !.rate = rate,
              !.eur = Larger(@, Eur(t.gross, rate))]

-----------------------------------------------------------------------------
(* Handlers.  A job is what a handler has read so far and its next step:     *)
(* `row` is the row it works on, `read` that row as it last saw it, `terms`  *)
(* the approval and `sale` the sale it saw, after `landings` landings.       *)

Job(kind, step, s, i) ==
    [kind |-> kind, step |-> step, sid |-> s, row |-> i,
     read |-> IF i = 0 THEN None ELSE rows[i],
     terms |-> None, sale |-> None, landings |-> 0]

At(a, step) == doing[a] # Idle /\ doing[a].step = step
Turn(a, kind, step) == At(a, step) /\ doing[a].kind = kind
Begin(a, job) == doing[a] = Idle /\ doing' = [doing EXCEPT ![a] = job]
Continue(a, job) == doing' = [doing EXCEPT ![a] = job]
Then(a, step) == doing' = [doing EXCEPT ![a].step = step]
End(a) == doing' = [doing EXCEPT ![a] = Idle]

(* A look at both accounts of its id.                                        *)
Saw(job, step) ==
    [job EXCEPT !.step = step, !.terms = OneSlot(job.sid).approval,
                !.landings = landed[job.sid]]

\* Slip: a row that was let go still covers its sale.
CoversReleased(r) == TRUE

(* saleCoverage: the rows that count a sale.                                 *)
Covers(r) == r.st \in Live \cup {"booked", "unsold"}
Covering(s) == {i \in RowsOf(s) : Covers(rows[i])}

(* ---- The routes an Admin calls.                                           *)

(* reserve: no account of this id yet; then the row, if there is room.       *)
StartReserve(s, g, m) ==
    /\ Cardinality(RowsOf(s)) < MaxReservations
    /\ OneSlot(s) = Unused
    /\ Begin("admin", [Job("reserve", "reserve", s, 0) EXCEPT !.terms = Terms(g, m, 0)])
    /\ UNCHANGED <<outside, store>>

Reserve ==
    /\ At("admin", "reserve")
    /\ LET s == doing["admin"].sid
           t == [doing["admin"].terms EXCEPT !.for = Len(rows) + 1]
       IN  IF MayReserve(s, t)
           THEN Insert(s, t, FALSE)
           ELSE UNCHANGED <<rows, txs>>
    /\ End("admin") /\ UNCHANGED <<outside, holds>>

(* confirm: the approval is on the chain, at these terms or at others.       *)
StartConfirm(i) ==
    /\ Begin("admin", Job("confirm", "look", rows[i].sid, i))
    /\ UNCHANGED <<outside, store>>

ConfirmLook ==
    /\ Turn("admin", "confirm", "look")
    /\ LET job == doing["admin"]
           approval == chain[job.sid].approval
       IN  \/ approval = None /\ End("admin")
           \/ /\ approval # None /\ SameTerms(job.read, approval)
              /\ Then("admin", "confirm")
           \/ /\ approval # None /\ ~SameTerms(job.read, approval)
              /\ Continue("admin", Saw(job, "adopt"))
    /\ UNCHANGED <<outside, store>>

(* release: nothing on the chain, and nothing that may still land.           *)
StartRelease(i) ==
    /\ rows[i].st = "reserved"
    /\ Begin("admin", Job("release", "look", rows[i].sid, i))
    /\ UNCHANGED <<outside, store>>

ReleaseLook ==
    /\ Turn("admin", "release", "look")
    /\ LET job == doing["admin"]
       IN  \/ OneSlot(job.sid) # Unused /\ End("admin")
           \/ /\ OneSlot(job.sid) = Unused
              /\ Continue("admin", Saw(job, IF job.read.conf THEN "release" ELSE "prove"))
    /\ UNCHANGED <<outside, store>>

(* A failed signature proves it at once, an outlived blockhash after another *)
(* look, at finalized.                                                       *)
ReleaseProve ==
    /\ Turn("admin", "release", "prove")
    /\ LET tx == txs[doing["admin"].row].st
       IN  \/ tx = "failed" /\ Then("admin", "release")
           \/ tx = "past" /\ Then("admin", "finalized")
           \/ tx # "failed" /\ End("admin")
    /\ UNCHANGED <<outside, store>>

ReleaseFinalized ==
    /\ Turn("admin", "release", "finalized")
    /\ LET job == doing["admin"]
       IN  \/ final[job.sid] # Unused /\ End("admin")
           \/ final[job.sid] = Unused /\ Then("admin", "release")
    /\ UNCHANGED <<outside, store>>

(* ---- The retry worker: one live row.                                      *)

StartReconcile(i) ==
    /\ rows[i].st \in Live
    /\ Begin("worker", Job("reconcile", "look", rows[i].sid, i))
    /\ UNCHANGED <<outside, store>>

(* An approval as reserved is confirmed once, and let go once it lapsed.     *)
ApprovalSeen(job, approval) ==
    \/ ~SameTerms(job.read, approval) /\ Continue("worker", Saw(job, "adopt"))
    \/ /\ SameTerms(job.read, approval) /\ ~job.read.conf
       /\ Continue("worker", Saw(job, "confirm"))
    \/ /\ SameTerms(job.read, approval) /\ job.read.conf /\ approval.lapsed
       /\ Continue("worker", Saw(job, "release"))
    \/ /\ SameTerms(job.read, approval) /\ job.read.conf /\ ~approval.lapsed
       /\ End("worker")

ReconcileLook ==
    /\ Turn("worker", "reconcile", "look")
    /\ LET job == doing["worker"]
           saw == OneSlot(job.sid)
       IN  \/ job.read.st = "consumed" /\ Then("worker", "finalized")
           \/ /\ job.read.st = "reserved" /\ saw.approval # None
              /\ ApprovalSeen(job, saw.approval)
           \/ /\ job.read.st = "reserved" /\ saw.approval = None /\ saw.sale # None
              /\ Then("worker", "finalized")
           \/ /\ job.read.st = "reserved" /\ saw = Unused
              /\ Continue("worker", Saw(job, "release"))
    /\ UNCHANGED <<outside, store>>

(* ---- The retry worker: what the chain has and the ledger lacks.           *)

(* listLiveApprovals, then the live rows of those approvals.                 *)
StartApprovalScan(s) ==
    /\ chain[s].approval # None
    /\ Begin("worker", [Job("approvals", "orphan", s, 0) EXCEPT
                            !.terms = chain[s].approval])
    /\ UNCHANGED <<outside, store>>

ApprovalScan ==
    /\ Turn("worker", "approvals", "orphan")
    /\ LET live == \E i \in RowsOf(doing["worker"].sid) : rows[i].st \in Live
       IN  \/ live /\ End("worker")
           \/ ~live /\ Then("worker", "adopt")
    /\ UNCHANGED <<outside, store>>

(* The mirror knows the sale and no row covers it.                           *)
StartSaleScan(s) ==
    /\ chain[s].sale # None /\ Covering(s) = {}
    /\ Begin("worker", Job("sales", "finalized", s, 0))
    /\ UNCHANGED <<outside, store>>

(* The mirror shows the sale closed, so its sale_close job is due.           *)
StartCloseJob(s) ==
    /\ chain[s].sale # None /\ chain[s].sale.closed
    /\ Begin("worker", Job("close", "finalized", s, 0))
    /\ UNCHANGED <<outside, store>>

(* fetchSale at finalized, for each of these.                                *)
SaleLook ==
    /\ At("worker", "finalized")
    /\ LET job == doing["worker"]
           sale == final[job.sid].sale
           use(step) == Continue("worker", [job EXCEPT !.step = step, !.sale = sale])
       IN  \/ sale = None /\ End("worker")
           \/ sale # None /\ job.kind = "reconcile" /\ use("consume")
           \/ sale # None /\ job.kind = "sales" /\ use("adopt")
           \/ sale # None /\ job.kind = "close" /\ ~sale.closed /\ End("worker")
           \/ sale # None /\ job.kind = "close" /\ sale.closed /\ use("cover")
    /\ UNCHANGED <<outside, store>>

CloseCover ==
    /\ Turn("worker", "close", "cover")
    /\ LET job == doing["worker"]
           counted == Covering(job.sid)
           use(i, step) == Continue("worker",
               [job EXCEPT !.step = step, !.row = i, !.read = rows[i]])
       IN  \/ counted = {} /\ Then("worker", "adopt")
           \/ \E i \in counted : rows[i].st \in Live /\ use(i, "consume")
           \/ \E i \in counted : rows[i].st \notin Live /\ use(i, "clear")
    /\ UNCHANGED <<outside, store>>

-----------------------------------------------------------------------------
(* What a handler writes, one SQL function at a time.                        *)

(* The terms an adoption is asked to count.                                  *)
Seen(job) == IF job.sale # None THEN job.sale ELSE job.terms

SetRow(i, r) == rows' = [rows EXCEPT ![i] = r]

(* The row as the function returned it.                                      *)
Holding(job, step, i, r) == [job EXCEPT !.step = step, !.row = i, !.read = r]

Adopt(a) ==
    /\ At(a, "adopt")
    /\ LET job == doing[a]
           t == Seen(job)
           i == AdoptedRow(job.sid)
           rate == AdoptionRate(i, t)
           new == AdoptedAt(rows[i], t, rate)
           proceed(j, r) == IF job.kind \in {"confirm", "reconcile"} THEN End(a)
                            ELSE Continue(a, Holding(job, "clear", j, r))
       IN  \/ /\ NeedsNoAdoption(i, t)
              /\ proceed(i, rows[i]) /\ UNCHANGED store
           \/ /\ ~NeedsNoAdoption(i, t) /\ rate = 0
              /\ IF job.kind \in {"confirm", "reconcile"} THEN End(a) ELSE Then(a, "hold")
              /\ UNCHANGED store
           \/ /\ i # 0 /\ ~NeedsNoAdoption(i, t) /\ rate > 0
              /\ SetRow(i, new) /\ proceed(i, new) /\ UNCHANGED <<holds, txs>>
           \/ /\ i = 0 /\ rate > 0 /\ Insert(job.sid, t, TRUE)
              /\ proceed(Len(rows) + 1, NewRow(job.sid, t, TRUE)) /\ UNCHANGED holds
    /\ UNCHANGED outside

(* holdForMissingFx: no new reservation while a fact cannot be counted.      *)
Hold ==
    /\ At("worker", "hold")
    /\ LET job == doing["worker"]
       IN  holds' = holds \cup
               {<<IF job.kind = "approvals" THEN "approval" ELSE "sale", job.sid>>}
    /\ End("worker")
    /\ UNCHANGED <<outside, rows, txs>>

(* The holds an adoption or a booking settles.                               *)
\* Slip: one counted sale ends every hold of the subject.
SettledOfSubject(job) == holds

Settled(job) ==
    IF job.kind = "approvals" THEN {<<"approval", job.sid>>}
    ELSE {<<"approval", job.sid>>, <<"sale", job.sid>>}

Clear ==
    /\ At("worker", "clear")
    /\ LET job == doing["worker"]
       IN  /\ holds' = holds \ Settled(job)
           /\ IF job.kind = "approvals" \/ job.read.st \in {"booked", "unsold"}
              THEN End("worker") ELSE Then("worker", "consume")
    /\ UNCHANGED <<outside, rows, txs>>

Confirm(a) ==
    /\ At(a, "confirm")
    /\ LET job == doing[a]
       IN  /\ SetRow(job.row, Confirmed(rows[job.row]))
           /\ IF /\ job.kind = "reconcile" /\ job.terms.lapsed
                 /\ rows[job.row].st \in Live
              THEN Then(a, "release") ELSE End(a)
    /\ UNCHANGED <<outside, holds, txs>>

Release(a) ==
    /\ At(a, "release")
    /\ SetRow(doing[a].row, Released(rows[doing[a].row]))
    /\ End(a)
    /\ UNCHANGED <<outside, holds, txs>>

(* applySale: a reserved row is consumed, a consumed one of a closed sale is *)
(* booked.  Each refuses a row that has left those states.                   *)
Consume ==
    /\ At("worker", "consume")
    /\ LET job == doing["worker"]
           r == rows[job.row]
           new == Consumed(r, job.sale)
       IN  \/ job.read.st # "reserved" /\ Then("worker", "book") /\ UNCHANGED store
           \/ /\ job.read.st = "reserved" /\ r.st \notin Live \cup {"booked"}
              /\ End("worker") /\ UNCHANGED store
           \/ /\ job.read.st = "reserved" /\ r.st \in Live \cup {"booked"}
              /\ SetRow(job.row, new)
              /\ Continue("worker", Holding(job, "book", job.row, new))
              /\ UNCHANGED <<holds, txs>>
    /\ UNCHANGED outside

Book ==
    /\ At("worker", "book")
    /\ LET job == doing["worker"]
           new == Booked(rows[job.row], job.sale)
           refused == rows[job.row].st \in {"reserved", "released"}
                      \/ job.sale.sold > rows[job.row].gross
       IN  \/ /\ job.read.st # "consumed" \/ ~job.sale.closed \/ refused
              /\ End("worker") /\ UNCHANGED rows
           \/ /\ job.read.st = "consumed" /\ job.sale.closed /\ ~refused
              /\ SetRow(job.row, new)
              /\ IF job.kind = "close"
                 THEN Continue("worker", Holding(job, "clear", job.row, new))
                 ELSE End("worker")
    /\ UNCHANGED <<outside, holds, txs>>

-----------------------------------------------------------------------------
(* A handler is cut off: the process dies, a deadline passes, an RPC fails.  *)
Abort(a) ==
    /\ doing[a] # Idle /\ End(a)
    /\ UNCHANGED <<network, rates, rows, holds>>

SetRate(m, rate) ==
    /\ rate > rates[m] /\ rates' = [rates EXCEPT ![m] = rate]
    /\ UNCHANGED <<network, rows, holds, doing>>

ChainStep ==
    \/ \E s \in SaleIds :
        \/ \E g \in Grosses, m \in Mints : ApproveDirectly(s, g, m)
        \/ LapseApproval(s) \/ RevokeApproval(s) \/ CloseSale(s)
        \/ \E g \in Grosses : OpenSale(s, g) \/ Buy(s, g)
    \/ \E i \in DOMAIN txs : SendTx(i) \/ LandTx(i) \/ OutliveTx(i)
    \/ Finalize

AdminStep ==
    \/ \E s \in SaleIds, g \in Grosses, m \in Mints : StartReserve(s, g, m)
    \/ \E i \in DOMAIN rows : StartConfirm(i) \/ StartRelease(i)
    \/ Reserve \/ ConfirmLook \/ ReleaseLook \/ ReleaseProve \/ ReleaseFinalized
    \/ Adopt("admin") \/ Confirm("admin") \/ Release("admin")

WorkerProceeds ==
    \/ ReconcileLook \/ ApprovalScan \/ SaleLook \/ CloseCover
    \/ Adopt("worker") \/ Hold \/ Clear
    \/ Confirm("worker") \/ Release("worker") \/ Consume \/ Book

WorkerStarts ==
    \/ \E i \in DOMAIN rows : StartReconcile(i)
    \/ \E s \in SaleIds : StartApprovalScan(s) \/ StartSaleScan(s) \/ StartCloseJob(s)

Next ==
    \/ ChainStep \/ AdminStep \/ WorkerProceeds \/ WorkerStarts
    \/ \E m \in Mints, rate \in NewRates : SetRate(m, rate)
    \/ \E a \in Agents : Abort(a)

Spec == Init /\ [][Next]_vars

(* The worker runs every minute and gets to the due close jobs and to the    *)
(* sales no row covers, the chain finalizes, and a handler is not cut off    *)
(* for ever.  Nobody has to add a rate, open, buy or close.                  *)
Worker ==
    /\ WF_vars(Finalize) /\ WF_vars(WorkerProceeds)
    /\ <>[][~\E a \in Agents : Abort(a)]_vars
    /\ \A s \in SaleIds : SF_vars(StartSaleScan(s)) /\ SF_vars(StartCloseJob(s))

WorkedSpec == Spec /\ Worker

-----------------------------------------------------------------------------
(* No sale id takes capacity twice, however its reservations, releases and   *)
(* adoptions interleave: what the unique indexes are for.                    *)
CountedOnce ==
    \A i, j \in DOMAIN rows :
        i # j /\ rows[i].sid = rows[j].sid => ~(Counts(rows[i]) /\ Counts(rows[j]))

(* A row that follows a sale follows one the chain has: it counts at least   *)
(* the sale's size, and books what the closed sale sold, at the locked rate. *)
FollowsItsSale ==
    \A i \in DOMAIN rows :
        LET r == rows[i]
            sale == chain[r.sid].sale
        IN  /\ r.st = "consumed" =>
                 sale # None /\ sale.gross <= r.gross /\ Eur(sale.gross, r.rate) <= r.eur
            /\ r.st = "booked" =>
                 sale # None /\ sale.closed /\ r.booked = Eur(sale.sold, r.rate)
            /\ r.st = "unsold" => sale # None /\ sale.closed /\ sale.sold = 0

(* What the cap was asked about never exceeds it: the subject is over its    *)
(* cap only through rows that follow what the chain did without asking.      *)
CapExceededOnlyByAdoption ==
    Total([i \in DOMAIN rows |-> IF rows[i].adopted THEN 0 ELSE Counted(rows[i])]) <= Cap

(* Capacity is freed only when the id has neither a usable approval nor a    *)
(* sale, unless an approval landed since the handler looked (the orphan      *)
(* scans find that one).  A release the route had to prove is final: the     *)
(* approval it was for is not there and cannot land any more.                *)
ReleaseIsJustified ==
    [][\A i \in DOMAIN rows, a \in Agents :
        (rows[i].st = "reserved" /\ rows'[i].st = "released"
            /\ At(a, "release") /\ doing'[a] = Idle)
        => LET job == doing[a]
               now == chain[rows[i].sid]
           IN  /\ \/ now.sale = None /\ (now.approval = None \/ now.approval.lapsed)
                  \/ landed[rows[i].sid] > job.landings
               /\ (job.kind = "release" /\ ~job.read.conf) =>
                    /\ txs[i].st \in {"failed", "past"}
                    /\ now.approval = None \/ now.approval.for # i]_vars

(* A subject held for a sale nobody could count takes reservations again     *)
(* only once a row follows that sale: a row that does still, or the one the  *)
(* worker counted it in, let go since by a release that had looked earlier.  *)
(* In that case the chain has the sale, so that the next scan finds it.      *)
LetGoMeanwhile(i, job) == rows[i].st = "released" /\ i = job.row /\ Covers(job.read)
HoldsEndCounted ==
    [][\A s \in SaleIds :
        (<<"sale", s>> \in holds \ holds') =>
            \E i \in RowsOf(s) :
                \/ Covers(rows[i])
                \/ LetGoMeanwhile(i, doing["worker"]) /\ chain[s].sale # None]_vars

(* Once its mint has a rate every sale takes capacity for good, and a closed *)
(* one is booked or found unsold: whoever approved it, and whatever was      *)
(* released, cut off or forgotten.                                           *)
Settles(s) == \E i \in RowsOf(s) : rows[i].st \in {"booked", "unsold"}
Countable(s) == chain[s].sale # None /\ rates[chain[s].sale.mint] > 0
SalesGetBooked ==
    \A s \in SaleIds :
        /\ Countable(s) ~> [](Taken(s) \/ Settles(s))
        /\ (Countable(s) /\ chain[s].sale.closed) ~> Settles(s)
=============================================================================
