------------------------- MODULE SaleCapacityProofs -------------------------
(***************************************************************************)
(* Proofs for any sale ids, terms, rates and bounds, in two parts.         *)
(*                                                                         *)
(* No id takes capacity twice.  CountedOnce is not inductive: an adoption  *)
(* may bring back a row that was released.  What makes it safe is that     *)
(* only the newest row of an id ever counts, and that every adoption takes *)
(* that one or a row that counts already.  No handler's memory matters.    *)
(*                                                                         *)
(* Everything else depends on that memory.  LedgerInv says, step by step,  *)
(* what is still true of what a handler has read: a sale it saw is one the *)
(* chain has, as it once was (Behind); the row in its hands is of its id;  *)
(* a release was preceded by a look that found nothing in the way          *)
(* (FreeSince).  No step of anybody takes that away (Forward).  Each step  *)
(* is of one of a few kinds (a row rewritten or inserted, an account of    *)
(* the chain, a handler's memory alone), whose lemmas give the invariant   *)
(* and what is to be shown of the step; each action has a lemma that says  *)
(* which kind it is.                                                       *)
(***************************************************************************)
EXTENDS SaleCapacity, SumTheorems

HasState(r) == {"sid", "st"} \subseteq DOMAIN r

Newest(i) == \A j \in DOMAIN rows : rows[j].sid = rows[i].sid => j <= i

RowsInv ==
    /\ Len(rows) \in Nat /\ rows = [i \in 1..Len(rows) |-> rows[i]]
    /\ \A i \in DOMAIN rows : HasState(rows[i])
    /\ \A i \in DOMAIN rows : Counts(rows[i]) => Newest(i)

\* How a step may change the rows.
Rewrites(i, r) ==
    /\ rows' = [rows EXCEPT ![i] = r]
    /\ i \in DOMAIN rows =>
          /\ HasState(r) /\ r.sid = rows[i].sid
          /\ Counts(r) => Counts(rows[i]) \/ Newest(i)

Inserts(r) ==
    /\ rows' = Append(rows, r) /\ HasState(r)
    /\ \A j \in DOMAIN rows : rows[j].sid = r.sid => ~Counts(rows[j])

RowsStep == rows' = rows \/ (\E i, r : Rewrites(i, r)) \/ (\E r : Inserts(r))

-----------------------------------------------------------------------------
(* A bounded set of positions has a largest one.                             *)
LEMMA MaxExists ==
    ASSUME NEW n \in Nat, NEW S \in SUBSET (1..n), S # {}
    PROVE  Max(S) \in S /\ \A x \in S : x <= Max(S)
  <1> DEFINE T == {n - x : x \in S}
  <1>1. T \subseteq Nat /\ T # {}
    <2>1. \A x \in S : n - x \in Nat
      OBVIOUS
    <2>2. T \subseteq Nat
      BY <2>1
    <2>3. T # {}
      BY Zenon
    <2> QED BY <2>2, <2>3
  <1>2. PICK m \in T : \A y \in T : ~(<<y, m>> \in OpToRel(<, Nat))
    BY <1>1, WFMin, NatLessThanWellFounded, Zenon
  <1>3. \A y \in T : ~(y < m)
    BY <1>1, <1>2, Zenon DEF OpToRel
  <1>4. PICK x \in S : m = n - x
    BY <1>2
  <1>5. \A y \in S : x >= y
    <2>1. \A y \in S : n - y \in T
      OBVIOUS
    <2> QED BY <2>1, <1>3, <1>4
  <1> QED BY <1>4, <1>5 DEF Max

(* adopt_sale_approval picks a live row of the id, or its newest one.        *)
LEMMA AdoptedRowIsNewest ==
    ASSUME RowsInv, NEW s, AdoptedRow(s) # 0
    PROVE  /\ AdoptedRow(s) \in DOMAIN rows /\ rows[AdoptedRow(s)].sid = s
           /\ Counts(rows[AdoptedRow(s)]) \/ Newest(AdoptedRow(s))
  <1> DEFINE L == {i \in RowsOf(s) : rows[i].st \in Live}
  <1>1. Len(rows) \in Nat /\ DOMAIN rows = 1..Len(rows)
    BY DEF RowsInv
  <1>2. RowsOf(s) \in SUBSET (1..Len(rows)) /\ L \in SUBSET (1..Len(rows))
    BY <1>1 DEF RowsOf
  <1>3. CASE L # {}
    <2>1. AdoptedRow(s) = Max(L)
      BY <1>3 DEF AdoptedRow
    <2>2. Max(L) \in L
      BY <1>1, <1>2, <1>3, MaxExists
    <2> QED BY <1>1, <1>2, <2>1, <2>2 DEF Counts, RowsOf
  <1>4. CASE L = {}
    <2>1. AdoptedRow(s) = Max(RowsOf(s)) /\ RowsOf(s) # {}
      BY <1>4 DEF AdoptedRow
    <2>2. Max(RowsOf(s)) \in RowsOf(s) /\ \A j \in RowsOf(s) : j <= Max(RowsOf(s))
      BY <1>1, <1>2, <2>1, MaxExists
    <2> QED BY <1>1, <1>2, <2>1, <2>2 DEF Newest, RowsOf
  <1> QED BY <1>3, <1>4

(* Where nothing was found to adopt the id has no row.                       *)
LEMMA NothingToAdopt ==
    ASSUME RowsInv, NEW s, AdoptedRow(s) = 0
    PROVE  RowsOf(s) = {}
  <1>1. Len(rows) \in Nat /\ DOMAIN rows = 1..Len(rows)
    BY DEF RowsInv
  <1>2. \A S \in SUBSET (1..Len(rows)) : S # {} => Max(S) # 0
    <2>1. ASSUME NEW S \in SUBSET (1..Len(rows)), S # {} PROVE Max(S) # 0
      <3>1. Max(S) \in S
        BY <1>1, <2>1, MaxExists
      <3> QED BY <1>1, <3>1
    <2> QED BY <2>1
  <1> QED BY <1>1, <1>2 DEF AdoptedRow, RowsOf

-----------------------------------------------------------------------------
(* A row that is inserted is reserved, under the id it was asked for.        *)
LEMMA NewRowHasState ==
    ASSUME NEW s, NEW t, NEW direct
    PROVE  HasState(NewRow(s, t, direct)) /\ NewRow(s, t, direct).sid = s
  BY DEF NewRow, HasState

(* The functions that update a row keep its id, and none brings it back.     *)
LEMMA UpdatesKeep ==
    ASSUME NEW r, HasState(r), NEW sale
    PROVE  \A new \in {Confirmed(r), Consumed(r, sale), Booked(r, sale), Released(r)} :
              HasState(new) /\ new.sid = r.sid /\ (Counts(new) => Counts(r))
  <1>1. HasState(Confirmed(r)) /\ Confirmed(r).sid = r.sid /\ Confirmed(r).st = r.st
    BY DEF Confirmed, HasState
  <1>2. HasState(Consumed(r, sale)) /\ Consumed(r, sale).sid = r.sid
        /\ (Consumed(r, sale).st = r.st \/ r.st = "reserved")
    BY DEF Consumed, ConsumedAt, HasState
  <1>3. HasState(Booked(r, sale)) /\ Booked(r, sale).sid = r.sid
        /\ (Booked(r, sale).st = r.st \/ r.st = "consumed")
    BY DEF Booked, HasState
  <1>4. HasState(Released(r)) /\ Released(r).sid = r.sid
        /\ (Released(r).st = r.st \/ r.st = "reserved")
    BY DEF Released, HasState
  <1> QED BY <1>1, <1>2, <1>3, <1>4 DEF Counts, Live

(* Adoption leaves a row its id and makes it reserved.                       *)
LEMMA AdoptedKeeps ==
    ASSUME NEW r, HasState(r), NEW t, NEW rate
    PROVE  HasState(AdoptedAt(r, t, rate)) /\ AdoptedAt(r, t, rate).sid = r.sid
  BY DEF AdoptedAt, HasState

(* An update of one row that keeps its id and revives nothing is a Rewrite.  *)
LEMMA UpdateIsRewrite ==
    ASSUME RowsInv, NEW i, NEW r, rows' = [rows EXCEPT ![i] = r],
           i \in DOMAIN rows => HasState(r) /\ r.sid = rows[i].sid
                                /\ (Counts(r) => Counts(rows[i]) \/ Newest(i))
    PROVE  RowsStep
  BY DEF RowsStep, Rewrites

(* Adoption rewrites the newest row of an id, or inserts its first one.      *)
LEMMA AdoptIsRowsStep ==
    ASSUME RowsInv, NEW a \in Agents, Adopt(a)
    PROVE  RowsStep
  <1> DEFINE job == doing[a]
             t == Seen(job)
             i == AdoptedRow(job.sid)
             rate == AdoptionRate(i, t)
             new == AdoptedAt(rows[i], t, rate)
  <1>1. \/ rows' = rows
        \/ i # 0 /\ rows' = [rows EXCEPT ![i] = new]
        \/ i = 0 /\ rows' = Append(rows, NewRow(job.sid, t, TRUE))
    BY DEF Adopt, store, SetRow, Insert
  <1>2. CASE i # 0 /\ rows' = [rows EXCEPT ![i] = new]
    <2>1. i \in DOMAIN rows /\ (Counts(rows[i]) \/ Newest(i))
      BY <1>2, AdoptedRowIsNewest
    <2>2. HasState(rows[i])
      BY <2>1 DEF RowsInv
    <2>3. HasState(new) /\ new.sid = rows[i].sid
      BY <2>2, AdoptedKeeps
    <2> HIDE DEF i, new
    <2> QED BY <1>2, <2>1, <2>3, UpdateIsRewrite
  <1>3. CASE i = 0 /\ rows' = Append(rows, NewRow(job.sid, t, TRUE))
    <2>1. RowsOf(job.sid) = {}
      BY <1>3, NothingToAdopt
    <2>2. Inserts(NewRow(job.sid, t, TRUE))
      BY <1>3, <2>1, NewRowHasState DEF Inserts, RowsOf
    <2> QED BY <2>2 DEF RowsStep
  <1> QED BY <1>1, <1>2, <1>3 DEF RowsStep

(* The reserve route inserts a row only for an id nobody counts.             *)
LEMMA ReserveIsRowsStep ==
    ASSUME RowsInv, Reserve
    PROVE  RowsStep
  <1>1. \/ rows' = rows
        \/ \E s, t : MayReserve(s, t) /\ Insert(s, t, FALSE)
    BY Zenon DEF Reserve
  <1>2. ASSUME NEW s, NEW t, MayReserve(s, t), Insert(s, t, FALSE)
        PROVE  RowsStep
    <2>1. \A j \in DOMAIN rows : rows[j].sid = s => ~Counts(rows[j])
      BY <1>2 DEF MayReserve, Taken, RowsOf
    <2>2. Inserts(NewRow(s, t, FALSE))
      BY <1>2, <2>1, NewRowHasState DEF Inserts, Insert
    <2> QED BY <2>2 DEF RowsStep
  <1> QED BY <1>1, <1>2 DEF RowsStep

(* Confirm, release, consume and book rewrite one row.                       *)
LEMMA WriteIsRowsStep ==
    ASSUME RowsInv, NEW a \in Agents, Confirm(a) \/ Release(a) \/ Consume \/ Book
    PROVE  RowsStep
  <1>1. PICK i, sale :
            \/ rows' = rows
            \/ \E new \in {Confirmed(rows[i]), Consumed(rows[i], sale), Booked(rows[i], sale),
                           Released(rows[i])} : rows' = [rows EXCEPT ![i] = new]
    BY DEF Confirm, Release, Consume, Book, store, SetRow
  <1>2. i \in DOMAIN rows => HasState(rows[i])
    BY DEF RowsInv
  <1> QED BY <1>1, <1>2, UpdatesKeep, UpdateIsRewrite DEF RowsStep

(* Every step of the specification is one of the three kinds.                *)
LEMMA NextIsRowsStep ==
    ASSUME RowsInv, [Next]_vars
    PROVE  RowsStep
  <1>1. ChainStep \/ WorkerStarts => rows' = rows
    BY DEF ChainStep, ApproveDirectly, Approve, LapseApproval, RevokeApproval, CloseSale, OpenSale,
           Buy, SendTx, LandTx, OutliveTx, Finalize, WorkerStarts, StartReconcile,
           StartApprovalScan, StartSaleScan, StartCloseJob, server, store
  <1>2. AdminStep => RowsStep
    <2>1. (\E s \in SaleIds, g \in Grosses, m \in Mints : StartReserve(s, g, m))
          \/ (\E i \in DOMAIN rows : StartConfirm(i) \/ StartRelease(i))
          \/ ConfirmLook \/ ReleaseLook \/ ReleaseProve \/ ReleaseFinalized => rows' = rows
      BY DEF StartReserve, StartConfirm, StartRelease, ConfirmLook, ReleaseLook, ReleaseProve,
             ReleaseFinalized, store
    <2> QED BY <2>1, ReserveIsRowsStep, AdoptIsRowsStep, WriteIsRowsStep
            DEF AdminStep, RowsStep, Agents
  <1>3. WorkerProceeds => RowsStep
    <2>1. ReconcileLook \/ ApprovalScan \/ SaleLook \/ CloseCover \/ Hold \/ Clear => rows' = rows
      BY DEF ReconcileLook, ApprovalScan, SaleLook, CloseCover, Hold, Clear, store
    <2> QED BY <2>1, AdoptIsRowsStep, WriteIsRowsStep DEF WorkerProceeds, RowsStep, Agents
  <1>4. (\E m \in Mints, rate \in NewRates : SetRate(m, rate)) \/ (\E a \in Agents : Abort(a))
        \/ UNCHANGED vars => rows' = rows
    BY DEF SetRate, Abort, vars
  <1> QED BY <1>1, <1>2, <1>3, <1>4 DEF Next, RowsStep

-----------------------------------------------------------------------------
(* The invariant of the rows is inductive.                                   *)
LEMMA RowsInvInductive ==
    ASSUME RowsInv, RowsStep
    PROVE  RowsInv'
  <1> USE DEF RowsInv
  <1>0. DOMAIN rows = 1..Len(rows)
    OBVIOUS
  <1>1. CASE rows' = rows
    BY <1>1 DEF Newest, Counts
  <1>2. ASSUME NEW i, NEW r, Rewrites(i, r)
        PROVE  RowsInv'
    <2>1. CASE i \notin DOMAIN rows
      <3>1. rows' = rows
        BY <1>2, <2>1 DEF Rewrites
      <3> QED BY <3>1, <1>1
    <2>2. CASE i \in DOMAIN rows
      <3>1. rows' = [j \in 1..Len(rows) |-> IF j = i THEN r ELSE rows[j]]
        BY <1>0, <1>2, <2>2 DEF Rewrites
      <3>2. Len(rows') = Len(rows) /\ DOMAIN rows' = DOMAIN rows
        BY <1>0, <3>1
      <3>3. \A j \in DOMAIN rows : HasState(rows'[j]) /\ rows'[j].sid = rows[j].sid
        BY <1>0, <1>2, <2>2, <3>1 DEF Rewrites
      <3>4. \A j \in DOMAIN rows : Counts(rows'[j]) => Newest(j)
        BY <1>0, <1>2, <2>2, <3>1 DEF Rewrites
      <3>5. \A j \in DOMAIN rows : Counts(rows'[j]) => Newest(j)'
        BY <3>2, <3>3, <3>4 DEF Newest
      <3> QED BY <1>0, <3>1, <3>2, <3>3, <3>5 DEF Counts
    <2> QED BY <2>1, <2>2
  <1>3. ASSUME NEW r, Inserts(r)
        PROVE  RowsInv'
    <2> DEFINE n == Len(rows)
    <2>1. rows \in Seq({rows[i] : i \in 1..n})
      BY <1>0
    <2>2. Len(rows') = n + 1 /\ DOMAIN rows' = 1..(n + 1) /\ rows'[n + 1] = r
          /\ \A i \in 1..n : rows'[i] = rows[i]
      BY <1>3, <2>1 DEF Inserts
    <2>3. rows' = [i \in 1..(n + 1) |-> rows'[i]]
      <3>1. rows' \in Seq({rows[i] : i \in 1..n} \cup {r})
        BY <1>3, <2>1 DEF Inserts
      <3> QED BY <2>2, <3>1
    <2>4. ASSUME NEW i \in DOMAIN rows', Counts(rows'[i])
          PROVE  Newest(i)'
      BY <1>0, <1>3, <2>2, <2>4 DEF Newest, Inserts, Counts
    <2>5. \A i \in DOMAIN rows' : HasState(rows'[i])
      BY <1>0, <1>3, <2>2 DEF Inserts
    <2> QED BY <2>2, <2>3, <2>4, <2>5 DEF Counts
  <1> QED BY <1>1, <1>2, <1>3 DEF RowsStep

(* CountedOnce, for every instance: however reservations, releases and       *)
(* adoptions interleave, two rows of one sale id never count together.       *)
THEOREM CountedOnceSafe == Spec => []CountedOnce
  <1>1. Init => RowsInv
    BY DEF Init, RowsInv
  <1>2. RowsInv /\ [Next]_vars => RowsInv'
    BY NextIsRowsStep, RowsInvInductive
  <1>3. RowsInv => CountedOnce
    BY DEF RowsInv, CountedOnce, Newest
  <1> QED BY <1>1, <1>2, <1>3, PTL DEF Spec

-----------------------------------------------------------------------------
(* The rest: what the handlers have read, and what the ledger makes of it.   *)

(* What an account, a transaction, a row and a job look like.                *)
Account == [approval : Approval \cup {None}, sale : Sale \cup {None}]
Request == [gross : Nat, mint : Mints, for : Nat]
Tx == [sid : SaleIds, st : {"none", "sent", "landed", "failed", "past"},
       gross : Nat, mint : Mints, for : Nat]
Row == [sid : SaleIds, st : Live \cup {"booked", "unsold", "released"},
        gross : Nat, mint : Mints, for : Nat, rate : Nat, eur : Nat, booked : Nat,
        conf : BOOLEAN, adopted : BOOLEAN]
Kinds == [worker |-> {"reconcile", "approvals", "sales", "close"},
          admin |-> {"reserve", "confirm", "release"}]
Steps == {"reserve", "look", "prove", "finalized", "cover", "orphan", "adopt", "hold",
          "clear", "confirm", "release", "consume", "book"}
Jobs == [kind : Kinds.worker \cup Kinds.admin, step : Steps, sid : SaleIds, row : Nat,
         read : Row \cup {None}, terms : Approval \cup Request \cup {None},
         sale : Sale \cup {None}, landings : Nat]

\* The sale `old` is what the chain's `new` once was.
Behind(old, new) ==
    old # None =>
       /\ new # None /\ old.gross = new.gross /\ old.sold <= new.sold
       /\ old.closed => new.closed /\ old.sold = new.sold

\* Nothing of the id can take capacity; no approval is the i-th reservation's.
Free(s) ==
    /\ chain[s].sale = None
    /\ chain[s].approval = None \/ chain[s].approval.lapsed
NotFor(s, i) == chain[s].approval = None \/ chain[s].approval.for # i

(* The chain: a sale takes the place of its approval, sells no more than its *)
(* size, and is final as it once was.                                        *)
ChainFine ==
    /\ chain \in [SaleIds -> Account] /\ final \in [SaleIds -> Account]
    /\ landed \in [SaleIds -> Nat] /\ rates \in [Mints -> Nat]
    /\ \A s \in SaleIds :
          /\ chain[s].approval # None => chain[s].sale = None
          /\ chain[s].sale # None => chain[s].sale.sold <= chain[s].sale.gross
          /\ Behind(final[s].sale, chain[s].sale)

(* Every row has its transaction, and an approval for a reservation is there *)
(* only after that one landed.                                               *)
ApprovalSent(s) ==
    LET i == chain[s].approval.for
    IN  i # 0 =>
          /\ i \in DOMAIN txs /\ txs[i].st \in {"landed", "past"}
          /\ txs[i].st = "past" => final[s].approval # None

TxsFine ==
    /\ txs = [i \in 1..Len(rows) |-> txs[i]]
    /\ \A i \in DOMAIN txs :
          txs[i] \in Tx /\ (txs[i].st \in {"none", "sent"} => txs[i].for = i)
    /\ \A s \in SaleIds : chain[s].approval # None => ApprovalSent(s)

(* A row against its sale.                                                   *)
Follows(r, sale) ==
    /\ r.st = "consumed" =>
         sale # None /\ sale.gross <= r.gross /\ Eur(sale.gross, r.rate) <= r.eur
    /\ r.st = "booked" =>
         sale # None /\ sale.closed /\ r.booked = Eur(sale.sold, r.rate)
    /\ r.st = "unsold" => sale # None /\ sale.closed /\ sale.sold = 0

RowFine(r, sale) ==
    /\ r \in Row /\ Follows(r, sale)
    /\ r.st = "reserved" => Eur(r.gross, r.rate) <= r.eur

RowsFine == \A i \in DOMAIN rows : RowFine(rows[i], chain[rows[i].sid].sale)

(* What a job has in its hands: a sale the chain has, a row of its id, terms *)
(* to adopt, and before a release a look that found nothing in the way.      *)
HasRow(j) == j.row \in DOMAIN rows /\ rows[j.row].sid = j.sid
FreeSince(j) == Free(j.sid) \/ landed[j.sid] > j.landings

Proved(j) ==
    /\ j.kind = "release" /\ j.step \in {"prove", "finalized", "release"} => FreeSince(j)
    /\ j.kind = "release" /\ j.step = "finalized" => txs[j.row].st = "past"
    /\ j.kind = "release" /\ j.step = "release" /\ ~j.read.conf =>
          txs[j.row].st \in {"failed", "past"} /\ NotFor(j.sid, j.row)

JobFine(a, j) ==
    /\ j \in Jobs /\ j.kind \in Kinds[a]
    /\ Behind(j.sale, chain[j.sid].sale) /\ j.landings <= landed[j.sid]
    /\ j.kind \in {"confirm", "release", "reconcile"} => HasRow(j) /\ j.read \in Row
    /\ j.kind = "release" => j.step \in {"look", "prove", "finalized", "release"}
    /\ j.kind = "reserve" => j.step = "reserve"
    /\ j.step = "reserve" => j.terms \in Request
    /\ j.step = "confirm" => j.kind \in {"confirm", "reconcile"}
    /\ j.step \in {"hold", "clear"} => j.kind \in {"approvals", "sales", "close"}
    /\ j.kind = "approvals" => j.terms # None
    /\ j.step \in {"consume", "book"} => HasRow(j) /\ j.read \in Row /\ j.sale # None
    /\ j.step = "adopt" => j.sale # None \/ j.terms # None
    /\ j.kind \in {"sales", "close"} /\ j.step # "finalized" => j.sale # None
    /\ j.step = "clear" => HasRow(j) /\ j.read \in Row /\ Covers(j.read)
    /\ j.step = "release" => j.kind \in {"release", "reconcile"} /\ FreeSince(j)
    /\ j.kind = "reconcile" /\ j.step = "confirm" /\ j.terms.lapsed => FreeSince(j)
    /\ Proved(j)

JobsFine ==
    /\ doing = [a \in Agents |-> doing[a]]
    /\ \A a \in Agents : doing[a] # Idle => JobFine(a, doing[a])

LedgerInv == RowsInv /\ ChainFine /\ TxsFine /\ RowsFine /\ JobsFine

-----------------------------------------------------------------------------
(* Amounts in EUR are natural numbers, and a larger sale is no cheaper.      *)
LEMMA EurMonotone ==
    ASSUME NEW x \in Nat, NEW y \in Nat, NEW rate \in Nat
    PROVE  /\ Eur(x, rate) \in Nat /\ Eur(y, rate) \in Nat
           /\ x <= y => Eur(x, rate) <= Eur(y, rate)
  <1> DEFINE k == UNITS_PER_TOKEN
             a == x * rate + k - 1
             b == y * rate + k - 1
  <1>1. k \in Nat /\ k > 0
    BY SaleCapacityAssumption
  <1>2. x * rate \in Nat /\ y * rate \in Nat /\ (x <= y => x * rate <= y * rate)
    <2>1. x <= y => \E d \in Nat : y = x + d
      <3>1. x <= y => y - x \in Nat /\ y = x + (y - x)
        OBVIOUS
      <3> QED BY <3>1
    <2>2. \A d \in Nat : (x + d) * rate = x * rate + d * rate /\ d * rate \in Nat
      OBVIOUS
    <2>3. x * rate \in Nat /\ y * rate \in Nat
      OBVIOUS
    <2> QED BY <2>1, <2>2, <2>3
  <1>3. a \in Nat /\ b \in Nat /\ (x <= y => a <= b)
    BY <1>1, <1>2
  <1>4. Eur(x, rate) = a \div k /\ Eur(y, rate) = b \div k
    BY DEF Eur
  <1> HIDE DEF k, a, b
  <1>5. \A n \in Nat : n \div k \in Nat /\ k * (n \div k) <= n /\ n < k * ((n \div k) + 1)
    BY <1>1
  <1> DEFINE p == a \div k
             q == b \div k
  <1>6. p \in Nat /\ q \in Nat /\ k * p <= a /\ b < k * (q + 1)
    BY <1>3, <1>5
  <1> HIDE DEF p, q
  <1>7. ASSUME x <= y
        PROVE  p <= q
    <2> SUFFICES ASSUME q + 1 <= p PROVE FALSE
      BY <1>6
    <2>1. PICK d \in Nat : p = (q + 1) + d
      <3>1. p - (q + 1) \in Nat /\ p = (q + 1) + (p - (q + 1))
        BY <1>6
      <3> QED BY <3>1
    <2>2. k * p = k * (q + 1) + k * d /\ k * d \in Nat /\ k * (q + 1) \in Nat
      BY <1>1, <1>6, <2>1
    <2> QED BY <1>1, <1>3, <1>6, <1>7, <2>2
  <1> QED BY <1>4, <1>6, <1>7 DEF p, q

(* A sale behind one that is behind a third is behind it.                    *)
LEMMA BehindIsTransitive ==
    ASSUME NEW x, NEW y \in Sale \cup {None}, NEW z \in Sale \cup {None},
           x \in Sale \cup {None}, Behind(x, y), Behind(y, z)
    PROVE  Behind(x, z)
  BY DEF Behind, Sale

LEMMA BehindIsReflexive ==
    ASSUME NEW x \in Sale \cup {None}
    PROVE  Behind(x, x)
  BY DEF Behind, Sale

(* A row that follows a sale goes on following it.                           *)
LEMMA RowStaysFine ==
    ASSUME NEW r, NEW old \in Sale \cup {None}, NEW new \in Sale \cup {None},
           RowFine(r, old), Behind(old, new)
    PROVE  RowFine(r, new)
  BY DEF RowFine, Follows, Behind, Sale

\* What a row that was asked for takes of the cap.
Asking(r) == IF r.adopted THEN 0 ELSE Counted(r)

(* What rows take is never negative, and a row in EUR is bounded by its size.*)
LEMMA AskingIsAmount ==
    ASSUME NEW r \in Row
    PROVE  Asking(r) \in Nat /\ Counted(r) \in Nat /\ Asking(r) <= Counted(r)
  BY DEF Asking, Counted, Row

(* Each update of a row leaves it fine, and asking for no more than before.  *)
LEMMA ConfirmedFine ==
    ASSUME NEW r, NEW sale, RowFine(r, sale)
    PROVE  LET new == Confirmed(r)
           IN  /\ RowFine(new, sale) /\ new.sid = r.sid /\ Asking(new) <= Asking(r)
               /\ new.st = r.st
  <1> DEFINE new == Confirmed(r)
  <1>1. r \in Row
    BY DEF RowFine
  <1>2. new \in Row /\ new.sid = r.sid /\ new.st = r.st /\ new.gross = r.gross
        /\ new.rate = r.rate /\ new.eur = r.eur /\ new.booked = r.booked
        /\ new.adopted = r.adopted
    BY <1>1 DEF Confirmed, Row
  <1> HIDE DEF new
  <1>3. RowFine(new, sale)
    BY <1>2 DEF RowFine, Follows
  <1>4. Asking(new) = Asking(r)
    BY <1>2 DEF Asking, Counted
  <1> QED BY <1>1, <1>2, <1>3, <1>4, AskingIsAmount DEF new

LEMMA ReleasedFine ==
    ASSUME NEW r, NEW sale, RowFine(r, sale)
    PROVE  LET new == Released(r)
           IN  RowFine(new, sale) /\ new.sid = r.sid /\ Asking(new) <= Asking(r)
  <1> DEFINE new == Released(r)
  <1>1. r \in Row
    BY DEF RowFine
  <1>2. CASE r.st = "reserved"
    <2>1. new \in Row /\ new.sid = r.sid /\ new.st = "released"
      BY <1>1, <1>2 DEF Released, Row
    <2> HIDE DEF new
    <2>2. RowFine(new, sale)
      BY <2>1 DEF RowFine, Follows
    <2>3. Asking(new) = 0
      BY <2>1 DEF Asking, Counted, Live
    <2> QED BY <1>1, <2>1, <2>2, <2>3, AskingIsAmount DEF new
  <1>3. CASE r.st # "reserved"
    BY <1>1, <1>3, AskingIsAmount DEF Released
  <1> QED BY <1>2, <1>3

LEMMA ConsumedFine ==
    ASSUME NEW r, NEW sale \in Sale, NEW seen \in Sale,
           RowFine(r, sale), Behind(seen, sale)
    PROVE  LET new == Consumed(r, seen)
           IN  /\ RowFine(new, sale) /\ new.sid = r.sid /\ Asking(new) <= Asking(r)
               /\ r.st = "reserved" => new.st = "consumed"
               /\ r.st # "reserved" => new = r
  <1> DEFINE new == Consumed(r, seen)
             size == Eur(seen.gross, r.rate)
             was == Eur(r.gross, r.rate)
  <1>1. r \in Row
    BY DEF RowFine
  <1>2. CASE r.st # "reserved"
    BY <1>1, <1>2, AskingIsAmount DEF Consumed
  <1>3. CASE r.st = "reserved"
    <2>1. seen.gross = sale.gross /\ seen.gross \in Nat /\ r.gross \in Nat /\ r.rate \in Nat
          /\ r.eur \in Nat /\ sale # None
      BY <1>1, SaleCapacityAssumption DEF Behind, Sale, Row
    <2>2. size \in Nat /\ was \in Nat /\ (seen.gross <= r.gross => size <= was)
      BY <2>1, EurMonotone
    <2>3. was <= r.eur
      BY <1>3 DEF RowFine
    <2> HIDE DEF size, was
    <2>4. CASE seen.gross > r.gross
      <3> DEFINE bill == Larger(r.eur, size)
      <3>1. bill \in Nat /\ size <= bill
        BY <2>1, <2>2 DEF Larger
      <3>2. new = [r EXCEPT !.st = "consumed", !.conf = TRUE, !.adopted = TRUE,
                            !.gross = seen.gross, !.eur = bill]
        BY <1>1, <1>3, <2>4 DEF Consumed, ConsumedAt, Grew, size, Row
      <3> HIDE DEF bill, new
      <3>3. new \in Row /\ new.sid = r.sid /\ new.st = "consumed" /\ new.gross = seen.gross
            /\ new.rate = r.rate /\ new.eur = bill /\ new.adopted
        BY <1>1, <2>1, <3>1, <3>2 DEF Row, Live
      <3>4. RowFine(new, sale)
        BY <2>1, <3>1, <3>3 DEF RowFine, Follows, size
      <3>5. Asking(new) = 0
        BY <3>3 DEF Asking
      <3> QED BY <1>1, <1>3, <3>3, <3>4, <3>5, AskingIsAmount DEF new
    <2>5. CASE ~(seen.gross > r.gross)
      <3> DEFINE bill == Smaller(r.eur, size)
      <3>1. bill = size /\ bill \in Nat /\ bill <= r.eur
        BY <2>1, <2>2, <2>3, <2>5 DEF Smaller
      <3>2. new = [r EXCEPT !.st = "consumed", !.conf = TRUE, !.eur = bill]
        BY <1>1, <1>3, <2>5 DEF Consumed, ConsumedAt, Grew, size, Row
      <3> HIDE DEF bill, new
      <3>3. new \in Row /\ new.sid = r.sid /\ new.st = "consumed" /\ new.gross = r.gross
            /\ new.rate = r.rate /\ new.eur = bill /\ new.adopted = r.adopted
        BY <1>1, <3>1, <3>2 DEF Row, Live
      <3>4. RowFine(new, sale)
        BY <2>1, <2>5, <3>1, <3>3 DEF RowFine, Follows, size
      <3>5. Asking(new) <= Asking(r)
        BY <1>1, <1>3, <3>1, <3>3 DEF Asking, Counted, Live, Row
      <3> QED BY <1>3, <3>3, <3>4, <3>5 DEF new
    <2> QED BY <2>4, <2>5
  <1> QED BY <1>2, <1>3

LEMMA BookedFine ==
    ASSUME NEW r, NEW sale \in Sale, NEW seen \in Sale, RowFine(r, sale),
           Behind(seen, sale), seen.closed, sale.sold <= sale.gross
    PROVE  LET new == Booked(r, seen)
           IN  /\ RowFine(new, sale) /\ new.sid = r.sid /\ Asking(new) <= Asking(r)
               /\ r.st = "consumed" => new.st \in {"booked", "unsold"}
               /\ r.st # "consumed" => new = r
  <1> DEFINE new == Booked(r, seen)
             bill == Eur(seen.sold, r.rate)
  <1>1. r \in Row /\ sale # None
    BY SaleCapacityAssumption DEF RowFine
  <1>2. CASE r.st # "consumed"
    BY <1>1, <1>2, AskingIsAmount DEF Booked
  <1>3. CASE r.st = "consumed"
    <2>1. sale.closed /\ seen.sold = sale.sold /\ seen.sold \in Nat /\ sale.gross \in Nat
          /\ r.rate \in Nat /\ r.eur \in Nat /\ seen.sold <= sale.gross
      BY <1>1, SaleCapacityAssumption DEF Behind, Sale, Row
    <2>2. bill \in Nat /\ bill <= Eur(sale.gross, r.rate) /\ Eur(sale.gross, r.rate) \in Nat
      BY <2>1, EurMonotone
    <2>3. Eur(sale.gross, r.rate) <= r.eur
      BY <1>3 DEF RowFine, Follows
    <2>4. bill <= r.eur
      BY <2>1, <2>2, <2>3
    <2>5. CASE seen.sold = 0
      <3>1. new = [r EXCEPT !.st = "unsold"]
        BY <1>3, <2>5 DEF Booked
      <3> HIDE DEF new
      <3>2. new \in Row /\ new.sid = r.sid /\ new.st = "unsold"
        BY <1>1, <3>1 DEF Row
      <3>3. RowFine(new, sale)
        BY <1>1, <2>1, <2>5, <3>2 DEF RowFine, Follows
      <3>4. Asking(new) = 0
        BY <3>2 DEF Asking, Counted, Live
      <3> QED BY <1>1, <1>3, <3>2, <3>3, <3>4, AskingIsAmount DEF new
    <2>6. CASE seen.sold # 0
      <3>1. new = [r EXCEPT !.st = "booked", !.booked = bill]
        BY <1>3, <2>6 DEF Booked
      <3> HIDE DEF new, bill
      <3>2. new \in Row /\ new.sid = r.sid /\ new.st = "booked" /\ new.booked = bill
            /\ new.rate = r.rate /\ new.adopted = r.adopted
        BY <1>1, <2>2, <3>1 DEF Row
      <3>3. RowFine(new, sale)
        BY <1>1, <2>1, <3>2 DEF RowFine, Follows, bill
      <3>4. Asking(new) <= Asking(r)
        BY <1>1, <1>3, <2>2, <2>4, <3>2 DEF Asking, Counted, Live, Row
      <3> QED BY <1>3, <3>2, <3>3, <3>4 DEF new
    <2> QED BY <2>5, <2>6
  <1> QED BY <1>2, <1>3

LEMMA AdoptedFine ==
    ASSUME NEW r, NEW sale, NEW t, NEW rate \in Nat, RowFine(r, sale),
           t.gross \in Nat, t.mint \in Mints, t.for \in Nat
    PROVE  LET new == AdoptedAt(r, t, rate)
           IN  /\ RowFine(new, sale) /\ new.sid = r.sid /\ Asking(new) <= Asking(r)
               /\ new.st = "reserved"
  <1> DEFINE new == AdoptedAt(r, t, rate)
             size == Eur(t.gross, rate)
             bill == Larger(r.eur, size)
  <1>1. r \in Row /\ r.eur \in Nat
    BY DEF RowFine, Row
  <1>2. size \in Nat
    BY EurMonotone
  <1> HIDE DEF size
  <1>3. bill \in Nat /\ size <= bill
    BY <1>1, <1>2 DEF Larger
  <1>4. new = [r EXCEPT !.st = "reserved", !.conf = TRUE, !.adopted = TRUE,
                        !.gross = t.gross, !.mint = t.mint, !.for = t.for,
                        !.rate = rate, !.eur = bill]
    BY <1>1 DEF AdoptedAt, size, Row
  <1> HIDE DEF new, bill
  <1>5. new \in Row /\ new.sid = r.sid /\ new.st = "reserved" /\ new.gross = t.gross
        /\ new.rate = rate /\ new.eur = bill /\ new.adopted
    BY <1>1, <1>3, <1>4 DEF Row, Live
  <1>6. RowFine(new, sale)
    BY <1>3, <1>5 DEF RowFine, Follows, size
  <1>7. Asking(new) = 0
    BY <1>5 DEF Asking
  <1> QED BY <1>1, <1>5, <1>6, <1>7, AskingIsAmount DEF new

(* A new row, at the rate of its mint.                                       *)
LEMMA NewRowFine ==
    ASSUME NEW s \in SaleIds, NEW t, NEW direct \in BOOLEAN, NEW sale,
           rates \in [Mints -> Nat], t.gross \in Nat, t.mint \in Mints, t.for \in Nat
    PROVE  LET new == NewRow(s, t, direct)
           IN  /\ RowFine(new, sale) /\ new.sid = s /\ new.st = "reserved"
               /\ Asking(new) = IF direct THEN 0 ELSE Eur(t.gross, rates[t.mint])
  <1> DEFINE new == NewRow(s, t, direct)
             size == Eur(t.gross, rates[t.mint])
  <1>1. rates[t.mint] \in Nat /\ size \in Nat
    BY EurMonotone
  <1>2. new.sid = s /\ new.st = "reserved" /\ new.gross = t.gross /\ new.rate = rates[t.mint]
        /\ new.eur = size /\ new.adopted = direct
    BY DEF NewRow
  <1>3. new \in Row
    <2> HIDE DEF size
    <2> QED BY <1>1 DEF NewRow, Row, Live, size
  <1> HIDE DEF new
  <1>4. RowFine(new, sale)
    BY <1>1, <1>2, <1>3 DEF RowFine, Follows
  <1>5. Asking(new) = IF direct THEN 0 ELSE size
    BY <1>2 DEF Asking, Counted, Live
  <1> QED BY <1>2, <1>4, <1>5 DEF new

-----------------------------------------------------------------------------
(* What every step keeps of what a handler has looked at.                    *)
Forward ==
    /\ \A s \in SaleIds :
          /\ Behind(chain[s].sale, chain'[s].sale)
          /\ landed[s] <= landed'[s]
          /\ Free(s) => Free(s)' \/ landed[s] < landed'[s]
    /\ \A i \in DOMAIN rows : i \in DOMAIN rows' /\ rows'[i].sid = rows[i].sid
    /\ \A i \in DOMAIN txs :
          txs[i].st \in {"failed", "past"} =>
             /\ txs'[i].st = txs[i].st
             /\ \A s \in SaleIds : NotFor(s, i) => NotFor(s, i)'

\* What is to be shown of a step besides the invariant.
CapKept == CapExceededOnlyByAdoption => CapExceededOnlyByAdoption'

LetGo(i, a) ==
    /\ rows[i].st = "reserved" /\ rows'[i].st = "released"
    /\ At(a, "release") /\ doing'[a] = Idle

Justified(i, a) ==
    LET job == doing[a]
        now == chain[rows[i].sid]
    IN  /\ \/ now.sale = None /\ (now.approval = None \/ now.approval.lapsed)
           \/ landed[rows[i].sid] > job.landings
        /\ (job.kind = "release" /\ ~job.read.conf) =>
             /\ txs[i].st \in {"failed", "past"}
             /\ now.approval = None \/ now.approval.for # i

ReleasesJustified == \A i \in DOMAIN rows, a \in Agents : LetGo(i, a) => Justified(i, a)

HoldsCounted ==
    \A s \in SaleIds :
        (<<"sale", s>> \in holds \ holds') =>
            \E i \in RowsOf(s) :
                \/ Covers(rows[i])
                \/ LetGoMeanwhile(i, doing["worker"]) /\ chain[s].sale # None

StepFine == LedgerInv' /\ CapKept /\ ReleasesJustified /\ HoldsCounted

(* A sequence is a function of its positions.                                *)
LEMMA SequenceIsFunction ==
    ASSUME NEW T, NEW q \in Seq(T)
    PROVE  q = [k \in 1..Len(q) |-> q[k]]
  OBVIOUS

(* The rows and their transactions are sequences of one length.              *)
LEMMA TwoSequences ==
    ASSUME RowsInv, TxsFine
    PROVE  /\ Len(rows) \in Nat /\ DOMAIN rows = 1..Len(rows) /\ DOMAIN txs = DOMAIN rows
           /\ Len(txs) = Len(rows)
  <1>1. Len(rows) \in Nat /\ DOMAIN rows = 1..Len(rows)
    BY DEF RowsInv
  <1>2. txs = [i \in 1..Len(rows) |-> txs[i]]
    BY DEF TxsFine
  <1>3. DOMAIN txs = 1..Len(rows) /\ Len(txs) = Len(rows)
    BY <1>1, <1>2
  <1> QED BY <1>1, <1>3

(* A job that is left alone stays fine.                                      *)
LEMMA JobKept ==
    ASSUME LedgerInv, ChainFine', Forward, NEW a, NEW j, JobFine(a, j)
    PROVE  JobFine(a, j)'
  <1>1. j \in Jobs /\ j.sid \in SaleIds /\ j.sale \in Sale \cup {None} /\ j.landings \in Nat
    BY DEF JobFine, Jobs
  <1>2. chain[j.sid].sale \in Sale \cup {None} /\ chain'[j.sid].sale \in Sale \cup {None}
        /\ landed[j.sid] \in Nat /\ landed'[j.sid] \in Nat
    BY <1>1 DEF LedgerInv, ChainFine, Account
  <1>3. Behind(j.sale, chain'[j.sid].sale)
    BY <1>1, <1>2, BehindIsTransitive DEF JobFine, Forward
  <1>4. j.landings <= landed'[j.sid]
    BY <1>1, <1>2 DEF JobFine, Forward
  <1>5. HasRow(j) => HasRow(j)'
    BY DEF HasRow, Forward
  <1>6. FreeSince(j) => FreeSince(j)'
    <2>1. ASSUME Free(j.sid)
          PROVE  FreeSince(j)'
      <3>1. Free(j.sid)' \/ landed[j.sid] < landed'[j.sid]
        BY <1>1, <2>1 DEF Forward
      <3>2. j.landings <= landed[j.sid]
        BY DEF JobFine
      <3> QED BY <1>1, <1>2, <3>1, <3>2 DEF FreeSince
    <2>2. ASSUME landed[j.sid] > j.landings
          PROVE  FreeSince(j)'
      <3>1. landed[j.sid] <= landed'[j.sid]
        BY <1>1 DEF Forward
      <3> QED BY <1>1, <1>2, <2>2, <3>1 DEF FreeSince
    <2> QED BY <2>1, <2>2 DEF FreeSince
  <1>7. Proved(j)'
    <2>1. j.kind = "release" => j.row \in DOMAIN txs
      BY TwoSequences DEF JobFine, LedgerInv, HasRow
    <2>2. j.kind = "release" /\ txs[j.row].st \in {"failed", "past"} =>
             /\ txs'[j.row].st = txs[j.row].st
             /\ NotFor(j.sid, j.row) => NotFor(j.sid, j.row)'
      BY <1>1, <2>1 DEF Forward
    <2> QED BY <1>6, <2>2 DEF Proved, JobFine
  <1> QED BY <1>3, <1>4, <1>5, <1>6, <1>7 DEF JobFine

(* The jobs after a step of one handler, or of none.                         *)
LEMMA JobsKept ==
    ASSUME LedgerInv, ChainFine', Forward, doing' = doing
    PROVE  JobsFine'
  <1>1. \A a \in Agents : doing[a] # Idle => JobFine(a, doing[a])
    BY DEF LedgerInv, JobsFine
  <1>2. \A a, j : JobFine(a, j) => JobFine(a, j)'
    BY JobKept
  <1>3. \A a \in Agents : (doing[a] # Idle => JobFine(a, doing[a]))'
    BY <1>1, <1>2
  <1>4. doing' = [a \in Agents |-> doing'[a]]
    BY DEF LedgerInv, JobsFine
  <1> QED BY <1>3, <1>4 DEF JobsFine

LEMMA JobSet ==
    ASSUME LedgerInv, ChainFine', Forward, NEW a \in Agents, NEW j,
           doing' = [doing EXCEPT ![a] = j], j = Idle \/ JobFine(a, j)'
    PROVE  JobsFine'
  <1>1. doing = [b \in Agents |-> doing[b]]
    BY DEF LedgerInv, JobsFine
  <1>2. doing' = [b \in Agents |-> doing'[b]] /\ doing'[a] = j
        /\ \A b \in Agents \ {a} : doing'[b] = doing[b]
    BY <1>1
  <1>3. ASSUME NEW b \in Agents
        PROVE  (doing[b] # Idle => JobFine(b, doing[b]))'
    <2>1. CASE b = a
      BY <1>2, <2>1
    <2>2. CASE b # a
      <3>1. PICK k : k = doing[b]
        OBVIOUS
      <3>2. k # Idle => JobFine(b, k)
        BY <3>1 DEF LedgerInv, JobsFine
      <3>3. k # Idle => JobFine(b, k)'
        BY <3>2, JobKept
      <3> QED BY <1>2, <2>2, <3>1, <3>3
    <2> QED BY <2>1, <2>2
  <1> QED BY <1>2, <1>3 DEF JobsFine

-----------------------------------------------------------------------------
(* The sum the cap was asked about.                                          *)
Asks == [i \in DOMAIN rows |-> Asking(rows[i])]

LEMMA CapIsOfAsks == CapExceededOnlyByAdoption <=> SumOf(Asks, DOMAIN rows) <= Cap
  <1>1. Asks = [i \in DOMAIN rows |-> IF rows[i].adopted THEN 0 ELSE Counted(rows[i])]
    BY DEF Asks, Asking
  <1>2. DOMAIN Asks = DOMAIN rows
    BY DEF Asks
  <1>3. CapExceededOnlyByAdoption <=> Total(Asks) <= Cap
    BY <1>1, Zenon DEF CapExceededOnlyByAdoption
  <1>4. Total(Asks) = SumOf(Asks, DOMAIN Asks)
    BY Zenon DEF Total, SumOf
  <1> QED BY <1>2, <1>3, <1>4

(* What is asked is a sum of amounts over finitely many rows, at most what   *)
(* is used.                                                                  *)
LEMMA AsksFine ==
    ASSUME RowsInv, RowsFine
    PROVE  /\ IsFiniteSet(DOMAIN rows) /\ Asks \in [DOMAIN rows -> Int]
           /\ SumOf(Asks, DOMAIN rows) \in Int
           /\ Used \in Int /\ SumOf(Asks, DOMAIN rows) <= Used
  <1> DEFINE u == [i \in DOMAIN rows |-> Counted(rows[i])]
  <1>1. DOMAIN rows = 1..Len(rows) /\ Len(rows) \in Nat
    BY DEF RowsInv
  <1>2. IsFiniteSet(DOMAIN rows)
    BY <1>1, FS_Interval
  <1>3. \A i \in DOMAIN rows : Asking(rows[i]) \in Nat /\ Counted(rows[i]) \in Nat
                               /\ Asking(rows[i]) <= Counted(rows[i])
    BY AskingIsAmount DEF RowsFine, RowFine
  <1>4. Asks \in [DOMAIN rows -> Int] /\ u \in [DOMAIN rows -> Int]
        /\ \A i \in DOMAIN rows : Asks[i] <= u[i]
    BY <1>3 DEF Asks
  <1>5. Used = SumOf(u, DOMAIN rows)
    <2>1. DOMAIN u = DOMAIN rows
      OBVIOUS
    <2>2. Used = Total(u)
      BY DEF Used
    <2> HIDE DEF u
    <2>3. Total(u) = SumOf(u, DOMAIN u)
      BY Zenon DEF Total, SumOf
    <2> QED BY <2>1, <2>2, <2>3
  <1> HIDE DEF u
  <1> QED BY <1>2, <1>4, <1>5, SumType, SumMonotone

(* Rows that ask for no more than before keep to the cap.                    *)
LEMMA CapOfFewer ==
    ASSUME RowsInv, RowsFine, RowsInv', RowsFine', DOMAIN rows' = DOMAIN rows,
           \A i \in DOMAIN rows : Asking(rows'[i]) <= Asking(rows[i])
    PROVE  CapKept
  <1> DEFINE f == Asks
             g == Asks'
  <1>1. /\ IsFiniteSet(DOMAIN rows) /\ f \in [DOMAIN rows -> Int]
        /\ SumOf(f, DOMAIN rows) \in Int
    BY AsksFine
  <1>2. g \in [DOMAIN rows -> Int] /\ SumOf(g, DOMAIN rows) \in Int
    <2>1. (Asks \in [DOMAIN rows -> Int] /\ SumOf(Asks, DOMAIN rows) \in Int)'
      BY AsksFine, PTL
    <2> QED BY <2>1
  <1>3. \A i \in DOMAIN rows : g[i] <= f[i]
    BY DEF Asks
  <1>4. (CapExceededOnlyByAdoption <=> SumOf(f, DOMAIN rows) <= Cap)
        /\ (CapExceededOnlyByAdoption' <=> SumOf(g, DOMAIN rows) <= Cap)
    <2>1. (CapExceededOnlyByAdoption <=> SumOf(Asks, DOMAIN rows) <= Cap)'
      BY CapIsOfAsks, PTL
    <2> QED BY <2>1, CapIsOfAsks
  <1> HIDE DEF f, g
  <1>5. SumOf(g, DOMAIN rows) <= SumOf(f, DOMAIN rows)
    BY <1>1, <1>2, <1>3, SumMonotone
  <1> QED BY <1>1, <1>2, <1>4, <1>5, SaleCapacityAssumption DEF CapKept

(* So does a row that was adopted, or that the cap has room for.             *)
LEMMA CapOfOneMore ==
    ASSUME RowsInv, RowsFine, RowsInv', RowsFine', NEW r, rows' = Append(rows, r),
           Asking(r) = 0 \/ Used + Asking(r) <= Cap, Asking(r) \in Nat
    PROVE  CapKept
  <1> DEFINE f == Asks
             g == Asks'
             n == Len(rows)
  <1>1. n \in Nat /\ DOMAIN rows = 1..n /\ f \in [1..n -> Int] /\ SumOf(f, 1..n) \in Int
        /\ Used \in Int /\ SumOf(f, 1..n) <= Used
    BY AsksFine DEF RowsInv
  <1>2. rows \in Seq({rows[i] : i \in 1..n})
    BY <1>1 DEF RowsInv
  <1>3. DOMAIN rows' = 1..(n + 1) /\ rows'[n + 1] = r /\ \A i \in 1..n : rows'[i] = rows[i]
    BY <1>1, <1>2
  <1>4. g \in [1..(n + 1) -> Int]
    <2>1. (Asks \in [DOMAIN rows -> Int])'
      BY AsksFine, PTL
    <2> QED BY <1>3, <2>1
  <1>5. g[n + 1] = Asking(r) /\ \A i \in 1..n : g[i] = f[i]
    BY <1>1, <1>3 DEF Asks
  <1>6. (CapExceededOnlyByAdoption <=> SumOf(f, 1..n) <= Cap)
        /\ (CapExceededOnlyByAdoption' <=> SumOf(g, 1..(n + 1)) <= Cap)
    <2>1. (CapExceededOnlyByAdoption <=> SumOf(Asks, DOMAIN rows) <= Cap)'
      BY CapIsOfAsks, PTL
    <2> QED BY <1>1, <1>3, <2>1, CapIsOfAsks
  <1> HIDE DEF f, g, n
  <1>7. SumOf(g, 1..(n + 1)) = SumOf(f, 1..n) + g[n + 1]
    BY <1>1, <1>4, <1>5, SumOfOneMore
  <1> QED BY <1>1, <1>5, <1>6, <1>7, SaleCapacityAssumption DEF CapKept

-----------------------------------------------------------------------------
(* The kinds of step.  One that leaves the rows alone.                       *)
LEMMA HoldsStep ==
    ASSUME LedgerInv, NEW a \in Agents, NEW j, UNCHANGED outside, rows' = rows, txs' = txs,
           doing' = [doing EXCEPT ![a] = j], j = Idle \/ JobFine(a, j), HoldsCounted
    PROVE  StepFine
  <1>1. chain' = chain /\ final' = final /\ landed' = landed /\ txs' = txs /\ rates' = rates
        /\ rows' = rows
    BY DEF outside
  <1>2. RowsInv' /\ ChainFine' /\ TxsFine' /\ RowsFine'
    <2>1. RowsInv /\ ChainFine /\ TxsFine /\ RowsFine
      BY DEF LedgerInv
    <2>2. RowsInv'
      BY <1>1, <2>1 DEF RowsInv, Newest, Counts
    <2>3. ChainFine'
      BY <1>1, <2>1 DEF ChainFine
    <2>4. TxsFine'
      BY <1>1, <2>1 DEF TxsFine, ApprovalSent
    <2>5. RowsFine'
      BY <1>1, <2>1 DEF RowsFine
    <2> QED BY <2>2, <2>3, <2>4, <2>5
  <1>3. Forward
    <2>1. \A s \in SaleIds : chain[s].sale \in Sale \cup {None} /\ landed[s] \in Nat
      BY DEF LedgerInv, ChainFine, Account
    <2>2. \A s \in SaleIds : Behind(chain[s].sale, chain'[s].sale)
      BY <1>1, <2>1, BehindIsReflexive
    <2> QED BY <1>1, <2>1, <2>2 DEF Forward, Free, NotFor
  <1>4. j = Idle \/ JobFine(a, j)'
    BY <1>2, <1>3, JobKept
  <1>5. JobsFine'
    BY <1>2, <1>3, <1>4, JobSet
  <1>6. CapKept
    BY <1>1 DEF CapKept, CapExceededOnlyByAdoption
  <1> QED BY <1>1, <1>2, <1>5, <1>6 DEF StepFine, LedgerInv, ReleasesJustified, LetGo

(* One that only a handler's job shows.                                      *)
LEMMA ReadStep ==
    ASSUME LedgerInv, NEW a \in Agents, NEW j, UNCHANGED outside, UNCHANGED store,
           doing' = [doing EXCEPT ![a] = j], j = Idle \/ JobFine(a, j)
    PROVE  StepFine
  <1>1. rows' = rows /\ txs' = txs /\ holds' = holds
    BY DEF store
  <1>2. HoldsCounted
    BY <1>1 DEF HoldsCounted
  <1> QED BY <1>1, <1>2, HoldsStep

(* One that rewrites a row.                                                  *)
LEMMA WriteStep ==
    ASSUME LedgerInv, RowsInv', NEW a \in Agents, NEW j, NEW i \in DOMAIN rows, NEW r,
           rows' = [rows EXCEPT ![i] = r], UNCHANGED outside, txs' = txs, holds' = holds,
           RowFine(r, chain[rows[i].sid].sale), r.sid = rows[i].sid,
           Asking(r) <= Asking(rows[i]),
           rows[i].st = "reserved" /\ r.st = "released" /\ At(a, "release") => Justified(i, a),
           doing' = [doing EXCEPT ![a] = j], j = Idle \/ JobFine(a, j)
    PROVE  StepFine
  <1> DEFINE n == Len(rows)
  <1>1. chain' = chain /\ final' = final /\ landed' = landed /\ rates' = rates
    BY DEF outside
  <1>2. n \in Nat /\ rows = [k \in 1..n |-> rows[k]] /\ DOMAIN rows = 1..n
    BY DEF LedgerInv, RowsInv
  <1>3. /\ rows' = [k \in 1..n |-> IF k = i THEN r ELSE rows[k]]
        /\ DOMAIN rows' = 1..n /\ Len(rows') = n
        /\ rows'[i] = r /\ \A k \in 1..n \ {i} : rows'[k] = rows[k]
    <2> HIDE DEF n
    <2>1. rows' = [k \in 1..n |-> IF k = i THEN r ELSE rows[k]]
      BY <1>2
    <2>2. DOMAIN rows' = 1..n /\ Len(rows') = n
      BY <1>2, <2>1
    <2>3. rows'[i] = r /\ \A k \in 1..n \ {i} : rows'[k] = rows[k]
      BY <1>2, <2>1
    <2> QED BY <2>1, <2>2, <2>3
  <1> HIDE DEF n
  <1>4. \A k \in DOMAIN rows : rows'[k].sid = rows[k].sid
    BY <1>2, <1>3
  <1>5. ChainFine' /\ TxsFine'
    BY <1>1, <1>2, <1>3 DEF LedgerInv, ChainFine, TxsFine, ApprovalSent, n
  <1>6. RowsFine'
    <2>1. ASSUME NEW k \in DOMAIN rows'
          PROVE  RowFine(rows'[k], chain'[rows'[k].sid].sale)
      <3>1. CASE k = i
        BY <1>1, <1>3, <3>1
      <3>2. CASE k # i
        BY <1>1, <1>2, <1>3, <3>2 DEF LedgerInv, RowsFine
      <3> QED BY <3>1, <3>2
    <2> QED BY <2>1 DEF RowsFine
  <1>7. Forward
    <2>1. \A s \in SaleIds : chain[s].sale \in Sale \cup {None} /\ landed[s] \in Nat
      BY DEF LedgerInv, ChainFine, Account
    <2>2. \A s \in SaleIds : Behind(chain[s].sale, chain'[s].sale)
      BY <1>1, <2>1, BehindIsReflexive
    <2> QED BY <1>1, <1>2, <1>3, <1>4, <2>1, <2>2 DEF Forward, Free, NotFor
  <1>8. JobsFine'
    <2>1. j = Idle \/ JobFine(a, j)'
      BY <1>5, <1>7, JobKept
    <2> QED BY <1>5, <1>7, <2>1, JobSet
  <1>9. CapKept
    <2>1. RowsInv /\ RowsFine
      BY DEF LedgerInv
    <2>2. \A k \in DOMAIN rows : Asking(rows'[k]) <= Asking(rows[k])
      <3>1. \A k \in DOMAIN rows : Asking(rows[k]) \in Nat
        BY <2>1, AskingIsAmount DEF RowsFine, RowFine
      <3> QED BY <1>2, <1>3, <3>1
    <2> QED BY <1>2, <1>3, <1>6, <2>1, <2>2, CapOfFewer
  <1>10. ReleasesJustified
    <2>1. ASSUME NEW k \in DOMAIN rows, NEW b \in Agents, LetGo(k, b)
          PROVE  Justified(k, b)
      <3>1. rows'[k].st = "released" /\ rows[k].st = "reserved" /\ At(b, "release")
            /\ doing'[b] = Idle
        BY <2>1 DEF LetGo
      <3>2. k = i
        BY <1>2, <1>3, <3>1
      <3>3. b = a
        <4>1. doing[b] # Idle
          BY <3>1 DEF At
        <4> QED BY <3>1, <4>1 DEF LedgerInv, JobsFine
      <3> QED BY <1>3, <3>1, <3>2, <3>3
    <2> QED BY <2>1 DEF ReleasesJustified
  <1> QED BY <1>5, <1>6, <1>8, <1>9, <1>10 DEF StepFine, LedgerInv, HoldsCounted

(* One that inserts a row, with its transaction.                             *)
LEMMA InsertStep ==
    ASSUME LedgerInv, RowsInv', NEW a \in Agents, NEW j, NEW r, NEW tx,
           rows' = Append(rows, r), txs' = Append(txs, tx), UNCHANGED outside, holds' = holds,
           RowFine(r, chain[r.sid].sale), Asking(r) = 0 \/ Used + Asking(r) <= Cap,
           tx \in Tx, tx.st \in {"none", "sent"} => tx.for = Len(rows) + 1,
           doing' = [doing EXCEPT ![a] = j], j = Idle \/ JobFine(a, j)'
    PROVE  StepFine
  <1> DEFINE n == Len(rows)
  <1>1. chain' = chain /\ final' = final /\ landed' = landed /\ rates' = rates
    BY DEF outside
  <1>2. n \in Nat /\ DOMAIN rows = 1..n /\ DOMAIN txs = 1..n /\ Len(txs) = n
        /\ rows \in Seq({rows[k] : k \in 1..n}) /\ txs \in Seq({txs[k] : k \in 1..n})
    <2>1. RowsInv /\ TxsFine
      BY DEF LedgerInv
    <2>2. n \in Nat /\ DOMAIN rows = 1..n /\ DOMAIN txs = 1..n /\ Len(txs) = n
      BY <2>1, TwoSequences
    <2>3. rows = [k \in 1..n |-> rows[k]] /\ txs = [k \in 1..n |-> txs[k]]
      BY <2>1 DEF RowsInv, TxsFine
    <2> HIDE DEF n
    <2>4. rows \in Seq({rows[k] : k \in 1..n})
      BY <2>2, <2>3
    <2>5. txs \in Seq({txs[k] : k \in 1..n})
      BY <2>2, <2>3
    <2> QED BY <2>2, <2>4, <2>5
  <1> HIDE DEF n
  <1>3. /\ DOMAIN rows' = 1..(n + 1) /\ Len(rows') = n + 1
        /\ rows'[n + 1] = r /\ \A k \in 1..n : rows'[k] = rows[k]
    BY <1>2 DEF n
  <1>4. /\ DOMAIN txs' = 1..(n + 1)
        /\ txs'[n + 1] = tx /\ \A k \in 1..n : txs'[k] = txs[k]
        /\ txs' = [k \in 1..(n + 1) |-> txs'[k]]
    <2>1. /\ DOMAIN txs' = 1..(n + 1) /\ Len(txs') = n + 1
          /\ txs'[n + 1] = tx /\ \A k \in 1..n : txs'[k] = txs[k]
      BY <1>2
    <2>2. txs' \in Seq({txs[k] : k \in 1..n} \cup {tx})
      BY <1>2
    <2>3. txs' = [k \in 1..Len(txs') |-> txs'[k]]
      BY <2>2, SequenceIsFunction
    <2> QED BY <1>2, <2>1, <2>3
  <1>5. ChainFine'
    BY <1>1 DEF LedgerInv, ChainFine
  <1>6. TxsFine'
    <2>1. \A k \in DOMAIN txs' :
             txs'[k] \in Tx /\ (txs'[k].st \in {"none", "sent"} => txs'[k].for = k)
      BY <1>2, <1>4 DEF LedgerInv, TxsFine, n
    <2>2. \A s \in SaleIds : chain[s].approval # None => ApprovalSent(s)
      BY DEF LedgerInv, TxsFine
    <2>3. ASSUME NEW s \in SaleIds, chain'[s].approval # None
          PROVE  ApprovalSent(s)'
      <3>1. chain[s].approval # None /\ chain'[s] = chain[s] /\ final'[s] = final[s]
        BY <1>1, <2>3
      <3>2. ApprovalSent(s)
        BY <2>2, <3>1
      <3>3. \A k \in DOMAIN txs : k \in DOMAIN txs' /\ txs'[k] = txs[k]
        BY <1>2, <1>4
      <3> QED BY <3>1, <3>2, <3>3 DEF ApprovalSent
    <2> QED BY <1>3, <1>4, <2>1, <2>3 DEF TxsFine
  <1>7. RowsFine'
    <2>1. ASSUME NEW k \in DOMAIN rows'
          PROVE  RowFine(rows'[k], chain'[rows'[k].sid].sale)
      <3>1. CASE k = n + 1
        BY <1>1, <1>3, <3>1
      <3>2. CASE k # n + 1
        <4>1. k \in 1..n
          BY <1>2, <1>3, <3>2
        <4> QED BY <1>1, <1>2, <1>3, <4>1 DEF LedgerInv, RowsFine
      <3> QED BY <3>1, <3>2
    <2> QED BY <2>1 DEF RowsFine
  <1>8. Forward
    <2>1. \A s \in SaleIds : chain[s].sale \in Sale \cup {None} /\ landed[s] \in Nat
      BY DEF LedgerInv, ChainFine, Account
    <2>2. \A s \in SaleIds : Behind(chain[s].sale, chain'[s].sale)
      BY <1>1, <2>1, BehindIsReflexive
    <2> QED BY <1>1, <1>2, <1>3, <1>4, <2>1, <2>2 DEF Forward, Free, NotFor
  <1>9. JobsFine'
    BY <1>5, <1>8, JobSet
  <1>10. CapKept
    <2>1. RowsInv /\ RowsFine
      BY DEF LedgerInv
    <2>2. Asking(r) \in Nat
      BY AskingIsAmount DEF RowFine
    <2> QED BY <1>7, <2>1, <2>2, CapOfOneMore
  <1>11. \A k \in DOMAIN rows : rows'[k] = rows[k]
    BY <1>2, <1>3
  <1> QED BY <1>5, <1>6, <1>7, <1>9, <1>10, <1>11
          DEF StepFine, LedgerInv, ReleasesJustified, LetGo, HoldsCounted

(* One of the chain or of an Admin's transaction.                            *)
LEMMA NetworkStep ==
    ASSUME LedgerInv, ChainFine', TxsFine', Forward, rows' = rows, holds' = holds, doing' = doing
    PROVE  StepFine
  <1>1. JobsFine'
    BY JobsKept
  <1>2. RowsInv'
    BY DEF LedgerInv, RowsInv, Newest, Counts
  <1>3. RowsFine'
    <2>1. ASSUME NEW k \in DOMAIN rows
          PROVE  RowFine(rows[k], chain'[rows[k].sid].sale)
      <3>1. RowFine(rows[k], chain[rows[k].sid].sale) /\ rows[k].sid \in SaleIds
        BY DEF LedgerInv, RowsFine, RowFine, Row
      <3>2. /\ chain[rows[k].sid].sale \in Sale \cup {None}
            /\ chain'[rows[k].sid].sale \in Sale \cup {None}
        BY <3>1 DEF LedgerInv, ChainFine, Account
      <3>3. Behind(chain[rows[k].sid].sale, chain'[rows[k].sid].sale)
        BY <3>1 DEF Forward
      <3> QED BY <3>1, <3>2, <3>3, RowStaysFine
    <2> QED BY <2>1 DEF RowsFine
  <1>4. CapKept
    BY DEF CapKept, CapExceededOnlyByAdoption
  <1> QED BY <1>1, <1>2, <1>3, <1>4
          DEF StepFine, LedgerInv, ReleasesJustified, LetGo, HoldsCounted

-----------------------------------------------------------------------------
(* The chain.  One account of an id changes.                                 *)
LEMMA AccountStep ==
    ASSUME LedgerInv, TxsFine', NEW s \in SaleIds, NEW c \in Account,
           chain' = [chain EXCEPT ![s] = c], final' = final, rates' = rates,
           rows' = rows, holds' = holds, doing' = doing,
           c.approval # None => c.sale = None,
           c.sale # None => c.sale.sold <= c.sale.gross,
           Behind(chain[s].sale, c.sale),
           landed' \in [SaleIds -> Nat], \A u \in SaleIds : landed[u] <= landed'[u],
           Free(s) => \/ c.sale = None /\ (c.approval = None \/ c.approval.lapsed)
                      \/ landed[s] < landed'[s],
           \A i \in DOMAIN txs : txs[i].st \in {"failed", "past"} =>
              /\ txs'[i].st = txs[i].st
              /\ NotFor(s, i) => c.approval = None \/ c.approval.for # i
    PROVE  StepFine
  <1>1. /\ chain \in [SaleIds -> Account] /\ chain' \in [SaleIds -> Account]
        /\ chain'[s] = c /\ \A u \in SaleIds \ {s} : chain'[u] = chain[u]
    BY DEF LedgerInv, ChainFine
  <1>2. \A u \in SaleIds : chain[u].sale \in Sale \cup {None}
                           /\ chain'[u].sale \in Sale \cup {None}
                           /\ final[u].sale \in Sale \cup {None}
    BY <1>1 DEF LedgerInv, ChainFine, Account
  <1>3. \A u \in SaleIds : Behind(chain[u].sale, chain'[u].sale)
    BY <1>1, <1>2, BehindIsReflexive
  <1>4. ChainFine'
    <2>1. \A u \in SaleIds : Behind(final[u].sale, chain'[u].sale)
      BY <1>2, <1>3, BehindIsTransitive DEF LedgerInv, ChainFine
    <2>2. \A u \in SaleIds :
             /\ chain'[u].approval # None => chain'[u].sale = None
             /\ chain'[u].sale # None => chain'[u].sale.sold <= chain'[u].sale.gross
      BY <1>1 DEF LedgerInv, ChainFine
    <2> QED BY <1>1, <2>1, <2>2 DEF LedgerInv, ChainFine
  <1>5. \A u \in SaleIds : Free(u) => Free(u)' \/ landed[u] < landed'[u]
    BY <1>1 DEF Free
  <1>6. \A i \in DOMAIN txs : txs[i].st \in {"failed", "past"} =>
           /\ txs'[i].st = txs[i].st
           /\ \A u \in SaleIds : NotFor(u, i) => NotFor(u, i)'
    BY <1>1 DEF NotFor
  <1>7. Forward
    BY <1>3, <1>5, <1>6 DEF Forward
  <1> QED BY <1>4, <1>7, NetworkStep

(* No approval appears that an Admin sent.                                   *)
LEMMA AccountOnly ==
    ASSUME LedgerInv, NEW s \in SaleIds, NEW c \in Account,
           chain' = [chain EXCEPT ![s] = c], final' = final, rates' = rates, txs' = txs,
           rows' = rows, holds' = holds, doing' = doing,
           c.approval # None => c.sale = None,
           c.sale # None => c.sale.sold <= c.sale.gross,
           Behind(chain[s].sale, c.sale),
           landed' \in [SaleIds -> Nat], \A u \in SaleIds : landed[u] <= landed'[u],
           Free(s) => \/ c.sale = None /\ (c.approval = None \/ c.approval.lapsed)
                      \/ landed[s] < landed'[s],
           c.approval # None =>
              \/ c.approval.for = 0
              \/ chain[s].approval # None /\ c.approval.for = chain[s].approval.for
    PROVE  StepFine
  <1>1. RowsInv /\ TxsFine
    BY DEF LedgerInv
  <1>2. chain'[s] = c /\ \A u \in SaleIds \ {s} : chain'[u] = chain[u]
    BY DEF LedgerInv, ChainFine
  <1>3. TxsFine'
    <2>1. ASSUME NEW u \in SaleIds, chain'[u].approval # None
          PROVE  ApprovalSent(u)'
      <3>1. CASE u # s
        BY <1>1, <1>2, <2>1, <3>1 DEF TxsFine, ApprovalSent
      <3>2. CASE u = s
        BY <1>1, <1>2, <2>1, <3>2 DEF TxsFine, ApprovalSent
      <3> QED BY <3>1, <3>2
    <2> QED BY <1>1, <2>1 DEF TxsFine
  <1>4. \A i \in DOMAIN txs : i # 0
    BY <1>1, TwoSequences
  <1>5. \A i \in DOMAIN txs : txs[i].st \in {"failed", "past"} =>
           /\ txs'[i].st = txs[i].st
           /\ NotFor(s, i) => c.approval = None \/ c.approval.for # i
    BY <1>4 DEF NotFor
  <1> QED BY <1>3, <1>5, AccountStep

(* What an account looks like.                                               *)
LEMMA AccountIs ==
    ASSUME LedgerInv, NEW s \in SaleIds
    PROVE  /\ chain[s] = [approval |-> chain[s].approval, sale |-> chain[s].sale]
           /\ chain[s].approval \in Approval \cup {None}
           /\ chain[s].sale \in Sale \cup {None}
           /\ chain[s].approval # None => chain[s].sale = None
           /\ chain[s].sale # None => chain[s].sale.sold <= chain[s].sale.gross
           /\ landed \in [SaleIds -> Nat] /\ landed[s] \in Nat
  BY DEF LedgerInv, ChainFine, Account

LEMMA AccountUpdates ==
    \A y \in Account : \A v :
       /\ [y EXCEPT !.approval = v] = [approval |-> v, sale |-> y.sale]
       /\ [y EXCEPT !.sale = v] = [approval |-> y.approval, sale |-> v]
  BY DEF Account

(* An approval that lands.                                                   *)
LEMMA ApproveIs ==
    ASSUME LedgerInv, NEW s \in SaleIds, NEW t, t.gross \in Nat, t.mint \in Mints,
           t.for \in Nat, Approve(s, t)
    PROVE  \E c \in Account :
              /\ chain' = [chain EXCEPT ![s] = c]
              /\ c.approval # None /\ c.sale = None /\ c.approval.for = t.for
              /\ chain[s].sale = None /\ chain[s].approval = None
              /\ landed' \in [SaleIds -> Nat] /\ landed[s] < landed'[s]
              /\ \A u \in SaleIds : landed[u] <= landed'[u]
  <1> DEFINE p == [gross |-> t.gross, mint |-> t.mint, for |-> t.for, lapsed |-> FALSE]
             c == [approval |-> p, sale |-> None]
  <1>1. chain[s] = [approval |-> None, sale |-> None]
    BY DEF Approve, Unused
  <1>2. p \in Approval /\ c \in Account /\ p # None /\ c.approval = p /\ c.sale = None
        /\ p.for = t.for
    <2>1. p \in Approval /\ p.for = t.for
      BY DEF Approval
    <2>2. p # None
      BY <2>1, SaleCapacityAssumption
    <2> HIDE DEF p
    <2> QED BY <2>1, <2>2 DEF Account
  <1>3. chain' = [chain EXCEPT ![s] = c]
    <2>1. chain' = [chain EXCEPT ![s] = [chain[s] EXCEPT !.approval = p]]
      BY DEF Approve
    <2> HIDE DEF p
    <2>2. [chain[s] EXCEPT !.approval = p] = c
      BY <1>1
    <2> QED BY <2>1, <2>2
  <1>4. landed' = [landed EXCEPT ![s] = landed[s] + 1] /\ landed \in [SaleIds -> Nat]
    BY AccountIs DEF Approve
  <1>5. landed' \in [SaleIds -> Nat] /\ landed[s] < landed'[s]
        /\ \A u \in SaleIds : landed[u] <= landed'[u]
    BY <1>4
  <1>6. c.approval # None /\ c.approval.for = t.for /\ chain[s].sale = None
        /\ chain[s].approval = None
    BY <1>1, <1>2
  <1> HIDE DEF p, c
  <1> QED BY <1>2, <1>3, <1>5, <1>6

LEMMA ApproveDirectlyFine ==
    ASSUME LedgerInv, NEW s \in SaleIds, NEW g \in Grosses, NEW m \in Mints,
           ApproveDirectly(s, g, m)
    PROVE  StepFine
  <1>1. g \in Nat
    BY SaleCapacityAssumption
  <1> DEFINE t == Terms(g, m, 0)
  <1>2. t.gross \in Nat /\ t.mint \in Mints /\ t.for = 0 /\ t.for \in Nat /\ Approve(s, t)
    BY <1>1 DEF ApproveDirectly, Terms
  <1>3. final' = final /\ txs' = txs /\ rates' = rates /\ rows' = rows /\ holds' = holds
        /\ doing' = doing
    BY DEF ApproveDirectly, server
  <1> HIDE DEF t
  <1>4. PICK c \in Account :
              /\ chain' = [chain EXCEPT ![s] = c]
              /\ c.approval # None /\ c.sale = None /\ c.approval.for = t.for
              /\ chain[s].sale = None /\ chain[s].approval = None
              /\ landed' \in [SaleIds -> Nat] /\ landed[s] < landed'[s]
              /\ \A u \in SaleIds : landed[u] <= landed'[u]
    BY <1>2, ApproveIs
  <1>5. Behind(chain[s].sale, c.sale)
    BY <1>4 DEF Behind
  <1> QED BY <1>2, <1>3, <1>4, <1>5, AccountOnly

LEMMA LapseFine ==
    ASSUME LedgerInv, NEW s \in SaleIds, LapseApproval(s)
    PROVE  StepFine
  <1> DEFINE p == [chain[s].approval EXCEPT !.lapsed = TRUE]
             c == [approval |-> p, sale |-> chain[s].sale]
  <1>1. chain[s].approval # None /\ chain[s].approval \in Approval
        /\ chain[s].sale = None
    BY AccountIs DEF LapseApproval
  <1>2. p \in Approval /\ c \in Account /\ c.approval = p /\ c.sale = None /\ p.lapsed
        /\ p.for = chain[s].approval.for /\ p # None
    BY <1>1, SaleCapacityAssumption DEF Approval, Account
  <1>3. chain' = [chain EXCEPT ![s] = c]
    <2>1. chain' = [chain EXCEPT ![s] = [chain[s] EXCEPT !.approval = p]]
      BY DEF LapseApproval
    <2> HIDE DEF p
    <2>2. [chain[s] EXCEPT !.approval = p] = c
      BY AccountIs, AccountUpdates DEF LedgerInv, ChainFine
    <2> QED BY <2>1, <2>2
  <1>4. final' = final /\ landed' = landed /\ txs' = txs /\ rates' = rates /\ rows' = rows
        /\ holds' = holds /\ doing' = doing
    BY DEF LapseApproval, server
  <1> HIDE DEF p, c
  <1>5. Behind(chain[s].sale, c.sale)
    BY <1>1 DEF Behind
  <1>6. landed' \in [SaleIds -> Nat] /\ \A u \in SaleIds : landed[u] <= landed'[u]
    BY <1>4 DEF LedgerInv, ChainFine
  <1> QED BY <1>1, <1>2, <1>3, <1>4, <1>5, <1>6, AccountOnly

LEMMA RevokeFine ==
    ASSUME LedgerInv, NEW s \in SaleIds, RevokeApproval(s)
    PROVE  StepFine
  <1> DEFINE c == [approval |-> None, sale |-> chain[s].sale]
  <1>1. chain[s].approval # None /\ chain[s].sale = None
    BY AccountIs DEF RevokeApproval
  <1>2. c \in Account /\ c.approval = None /\ c.sale = None
    BY <1>1 DEF Account
  <1>3. chain' = [chain EXCEPT ![s] = c]
    <2>1. chain' = [chain EXCEPT ![s] = [chain[s] EXCEPT !.approval = None]]
      BY DEF RevokeApproval
    <2>2. [chain[s] EXCEPT !.approval = None] = c
      BY AccountIs, AccountUpdates DEF LedgerInv, ChainFine
    <2> QED BY <2>1, <2>2
  <1>4. final' = final /\ landed' = landed /\ txs' = txs /\ rates' = rates /\ rows' = rows
        /\ holds' = holds /\ doing' = doing
    BY DEF RevokeApproval, server
  <1> HIDE DEF c
  <1>5. Behind(chain[s].sale, c.sale)
    BY <1>1 DEF Behind
  <1>6. landed' \in [SaleIds -> Nat] /\ \A u \in SaleIds : landed[u] <= landed'[u]
    BY <1>4 DEF LedgerInv, ChainFine
  <1> QED BY <1>2, <1>3, <1>4, <1>5, <1>6, AccountOnly

LEMMA OpenSaleFine ==
    ASSUME LedgerInv, NEW s \in SaleIds, NEW g \in Grosses, OpenSale(s, g)
    PROVE  StepFine
  <1> DEFINE x == [gross |-> g, mint |-> chain[s].approval.mint, for |-> 0, sold |-> 0,
                   closed |-> FALSE]
             c == [approval |-> None, sale |-> x]
  <1>1. chain[s].approval # None /\ chain[s].approval \in Approval /\ chain[s].sale = None
        /\ ~Free(s)
    BY AccountIs DEF OpenSale, Free
  <1>2. x \in Sale /\ c \in Account /\ c.approval = None /\ c.sale = x /\ x.sold <= x.gross
    BY <1>1, SaleCapacityAssumption DEF Approval, Account, Sale
  <1>3. chain' = [chain EXCEPT ![s] = c]
    BY DEF OpenSale
  <1>4. final' = final /\ landed' = landed /\ txs' = txs /\ rates' = rates /\ rows' = rows
        /\ holds' = holds /\ doing' = doing
    BY DEF OpenSale, server
  <1> HIDE DEF c, x
  <1>5. Behind(chain[s].sale, c.sale)
    BY <1>1 DEF Behind
  <1>6. landed' \in [SaleIds -> Nat] /\ \A u \in SaleIds : landed[u] <= landed'[u]
    BY <1>4 DEF LedgerInv, ChainFine
  <1> QED BY <1>1, <1>2, <1>3, <1>4, <1>5, <1>6, AccountOnly

LEMMA BuyFine ==
    ASSUME LedgerInv, NEW s \in SaleIds, NEW g \in Grosses, Buy(s, g)
    PROVE  StepFine
  <1> DEFINE more == chain[s].sale.sold + g
             x == [chain[s].sale EXCEPT !.sold = more]
             c == [approval |-> chain[s].approval, sale |-> x]
  <1>1. chain[s].sale # None /\ chain[s].sale \in Sale /\ chain[s].approval = None
        /\ ~Free(s) /\ ~chain[s].sale.closed
    BY AccountIs DEF Buy, Free
  <1>2. more \in Nat /\ chain[s].sale.sold <= more /\ more <= chain[s].sale.gross
    <2>1. g \in Nat /\ chain[s].sale.sold \in Nat
      BY <1>1, SaleCapacityAssumption DEF Sale
    <2> QED BY <2>1 DEF Buy
  <1>3. chain' = [chain EXCEPT ![s] = c]
    <2>1. chain' = [chain EXCEPT ![s] = [chain[s] EXCEPT !.sale = x]]
      BY DEF Buy
    <2> HIDE DEF x
    <2>2. [chain[s] EXCEPT !.sale = x] = c
      BY AccountIs, AccountUpdates DEF LedgerInv, ChainFine
    <2> QED BY <2>1, <2>2
  <1> HIDE DEF more
  <1>4. x \in Sale /\ c \in Account /\ c.approval = None /\ c.sale = x /\ x.sold = more
        /\ x.gross = chain[s].sale.gross /\ x # None
    BY <1>1, <1>2, SaleCapacityAssumption DEF Account, Sale
  <1>5. final' = final /\ landed' = landed /\ txs' = txs /\ rates' = rates /\ rows' = rows
        /\ holds' = holds /\ doing' = doing
    BY DEF Buy, server
  <1> HIDE DEF c, x
  <1>6. Behind(chain[s].sale, c.sale)
    BY <1>1, <1>2, <1>4 DEF Behind
  <1>7. landed' \in [SaleIds -> Nat] /\ \A u \in SaleIds : landed[u] <= landed'[u]
    BY <1>5 DEF LedgerInv, ChainFine
  <1> QED BY <1>1, <1>2, <1>3, <1>4, <1>5, <1>6, <1>7, AccountOnly

LEMMA CloseSaleFine ==
    ASSUME LedgerInv, NEW s \in SaleIds, CloseSale(s)
    PROVE  StepFine
  <1> DEFINE x == [chain[s].sale EXCEPT !.closed = TRUE]
             c == [approval |-> chain[s].approval, sale |-> x]
  <1>1. chain[s].sale # None /\ chain[s].sale \in Sale /\ chain[s].approval = None
        /\ ~Free(s) /\ ~chain[s].sale.closed /\ chain[s].sale.sold <= chain[s].sale.gross
    BY AccountIs DEF CloseSale, Free
  <1>2. chain' = [chain EXCEPT ![s] = c]
    <2>1. chain' = [chain EXCEPT ![s] = [chain[s] EXCEPT !.sale = x]]
      BY DEF CloseSale
    <2> HIDE DEF x
    <2>2. [chain[s] EXCEPT !.sale = x] = c
      BY AccountIs, AccountUpdates DEF LedgerInv, ChainFine
    <2> QED BY <2>1, <2>2
  <1>3. x \in Sale /\ c \in Account /\ c.approval = None /\ c.sale = x
        /\ x.sold = chain[s].sale.sold /\ x.gross = chain[s].sale.gross /\ x # None
    BY <1>1, SaleCapacityAssumption DEF Account, Sale
  <1>4. final' = final /\ landed' = landed /\ txs' = txs /\ rates' = rates /\ rows' = rows
        /\ holds' = holds /\ doing' = doing
    BY DEF CloseSale, server
  <1> HIDE DEF c, x
  <1>5. Behind(chain[s].sale, c.sale)
    BY <1>1, <1>3 DEF Behind, Sale
  <1>6. landed' \in [SaleIds -> Nat] /\ \A u \in SaleIds : landed[u] <= landed'[u]
    BY <1>4 DEF LedgerInv, ChainFine
  <1> QED BY <1>1, <1>2, <1>3, <1>4, <1>5, <1>6, AccountOnly

(* Steps that leave the accounts at confirmed alone.                         *)
LEMMA FrameStep ==
    ASSUME LedgerInv, TxsFine', chain' = chain, landed' = landed, rows' = rows,
           holds' = holds, doing' = doing, final' = final \/ final' = chain,
           rates' \in [Mints -> Nat],
           \A i \in DOMAIN txs : txs[i].st \in {"failed", "past"} => txs'[i].st = txs[i].st
    PROVE  StepFine
  <1>1. \A s \in SaleIds : chain[s].sale \in Sale \cup {None} /\ landed[s] \in Nat
    BY DEF LedgerInv, ChainFine, Account
  <1>2. \A s \in SaleIds : Behind(chain[s].sale, chain[s].sale)
    BY <1>1, BehindIsReflexive
  <1>3. ChainFine'
    BY <1>2 DEF LedgerInv, ChainFine
  <1>4. Forward
    BY <1>1, <1>2 DEF Forward, Free, NotFor
  <1> QED BY <1>3, <1>4, NetworkStep

(* A transaction of an Admin gets another state.                             *)
LEMMA TxUpdate ==
    ASSUME LedgerInv, NEW i \in DOMAIN txs, rows' = rows,
           NEW x \in {"none", "sent", "landed", "failed", "past"},
           txs' = [txs EXCEPT ![i].st = x]
    PROVE  /\ txs' = [k \in 1..Len(rows') |-> txs'[k]] /\ DOMAIN txs' = DOMAIN txs
           /\ txs'[i].st = x /\ \A k \in DOMAIN txs \ {i} : txs'[k] = txs[k]
           /\ \A k \in DOMAIN txs : txs'[k] \in Tx /\ txs'[k].for = txs[k].for
  <1>1. txs[i] \in Tx /\ \A k \in DOMAIN txs : txs[k] \in Tx
    BY DEF LedgerInv, TxsFine
  <1>2. txs = [k \in 1..Len(rows) |-> txs[k]]
    BY DEF LedgerInv, TxsFine
  <1> DEFINE y == [txs[i] EXCEPT !.st = x]
  <1>3. y \in Tx /\ y.st = x /\ y.for = txs[i].for
    BY <1>1 DEF Tx
  <1>4. txs' = [txs EXCEPT ![i] = y]
    OBVIOUS
  <1> HIDE DEF y
  <1>5. txs'[i] = y /\ DOMAIN txs' = DOMAIN txs /\ \A k \in DOMAIN txs \ {i} : txs'[k] = txs[k]
    BY <1>4
  <1>6. txs' = [k \in 1..Len(rows) |-> IF k = i THEN y ELSE txs[k]]
    BY <1>2, <1>4
  <1>7. txs' = [k \in 1..Len(rows') |-> txs'[k]]
    BY <1>6
  <1> QED BY <1>1, <1>3, <1>5, <1>7

LEMMA SendTxFine ==
    ASSUME LedgerInv, NEW i \in DOMAIN txs, SendTx(i)
    PROVE  StepFine
  <1>1. /\ txs[i].st = "none" /\ txs' = [txs EXCEPT ![i].st = "sent"]
        /\ chain' = chain /\ final' = final /\ landed' = landed /\ rates' = rates
        /\ rows' = rows /\ holds' = holds /\ doing' = doing
    BY DEF SendTx, server
  <1>2. /\ txs' = [k \in 1..Len(rows') |-> txs'[k]] /\ DOMAIN txs' = DOMAIN txs
        /\ txs'[i].st = "sent" /\ \A k \in DOMAIN txs \ {i} : txs'[k] = txs[k]
        /\ \A k \in DOMAIN txs : txs'[k] \in Tx /\ txs'[k].for = txs[k].for
    BY <1>1, TxUpdate
  <1>3. TxsFine'
    BY <1>1, <1>2 DEF LedgerInv, TxsFine, ApprovalSent
  <1>4. \A k \in DOMAIN txs : txs[k].st \in {"failed", "past"} => txs'[k].st = txs[k].st
    BY <1>1, <1>2
  <1>5. rates' \in [Mints -> Nat]
    BY <1>1 DEF LedgerInv, ChainFine
  <1> QED BY <1>1, <1>3, <1>4, <1>5, FrameStep

LEMMA LandTxFine ==
    ASSUME LedgerInv, NEW i \in DOMAIN txs, LandTx(i)
    PROVE  StepFine
  <1> DEFINE s == txs[i].sid
  <1>1. /\ txs[i].st = "sent" /\ final' = final /\ rates' = rates
        /\ rows' = rows /\ holds' = holds /\ doing' = doing
    BY DEF LandTx, server
  <1>2. txs[i] \in Tx /\ txs[i].for = i /\ s \in SaleIds
    BY <1>1 DEF LedgerInv, TxsFine, Tx
  <1>3. ASSUME Approve(s, txs[i]), txs' = [txs EXCEPT ![i].st = "landed"]
        PROVE  StepFine
    <2>1. PICK c \in Account :
              /\ chain' = [chain EXCEPT ![s] = c]
              /\ c.approval # None /\ c.sale = None /\ c.approval.for = txs[i].for
              /\ chain[s].sale = None /\ chain[s].approval = None
              /\ landed' \in [SaleIds -> Nat] /\ landed[s] < landed'[s]
              /\ \A u \in SaleIds : landed[u] <= landed'[u]
      <3>1. txs[i].gross \in Nat /\ txs[i].mint \in Mints /\ txs[i].for \in Nat
        BY <1>2 DEF Tx
      <3> QED BY <1>2, <1>3, <3>1, ApproveIs
    <2>2. /\ txs' = [k \in 1..Len(rows') |-> txs'[k]] /\ DOMAIN txs' = DOMAIN txs
          /\ txs'[i].st = "landed" /\ \A k \in DOMAIN txs \ {i} : txs'[k] = txs[k]
          /\ \A k \in DOMAIN txs : txs'[k] \in Tx /\ txs'[k].for = txs[k].for
      BY <1>1, <1>3, TxUpdate
    <2>3. chain'[s] = c /\ \A u \in SaleIds \ {s} : chain'[u] = chain[u]
      BY <1>2, <2>1 DEF LedgerInv, ChainFine
    <2>4. ASSUME NEW u \in SaleIds, chain'[u].approval # None
          PROVE  ApprovalSent(u)'
      <3>1. CASE u = s
        BY <1>2, <2>1, <2>2, <2>3, <3>1 DEF ApprovalSent
      <3>2. CASE u # s
        <4>1. ApprovalSent(u) /\ chain'[u] = chain[u]
          BY <2>3, <2>4, <3>2 DEF LedgerInv, TxsFine
        <4> QED BY <1>1, <2>2, <4>1 DEF ApprovalSent
      <3> QED BY <3>1, <3>2
    <2>5. TxsFine'
      BY <2>2, <2>4 DEF LedgerInv, TxsFine
    <2>6. \A k \in DOMAIN txs : txs[k].st \in {"failed", "past"} =>
             /\ txs'[k].st = txs[k].st
             /\ NotFor(s, k) => c.approval = None \/ c.approval.for # k
      BY <1>1, <1>2, <2>1, <2>2
    <2>7. Behind(chain[s].sale, c.sale)
      BY <2>1 DEF Behind
    <2> QED BY <1>1, <1>2, <2>1, <2>5, <2>6, <2>7, AccountStep
  <1>4. ASSUME txs' = [txs EXCEPT ![i].st = "failed"], chain' = chain, landed' = landed
        PROVE  StepFine
    <2>1. /\ txs' = [k \in 1..Len(rows') |-> txs'[k]] /\ DOMAIN txs' = DOMAIN txs
          /\ txs'[i].st = "failed" /\ \A k \in DOMAIN txs \ {i} : txs'[k] = txs[k]
          /\ \A k \in DOMAIN txs : txs'[k] \in Tx /\ txs'[k].for = txs[k].for
      BY <1>1, <1>4, TxUpdate
    <2>2. TxsFine'
      BY <1>1, <1>4, <2>1 DEF LedgerInv, TxsFine, ApprovalSent
    <2>3. \A k \in DOMAIN txs : txs[k].st \in {"failed", "past"} => txs'[k].st = txs[k].st
      BY <1>1, <2>1
    <2>4. rates' \in [Mints -> Nat]
      BY <1>1 DEF LedgerInv, ChainFine
    <2> QED BY <1>1, <1>4, <2>2, <2>3, <2>4, FrameStep
  <1> QED BY <1>3, <1>4 DEF LandTx

LEMMA OutliveTxFine ==
    ASSUME LedgerInv, NEW i \in DOMAIN txs, OutliveTx(i)
    PROVE  StepFine
  <1>1. /\ txs[i].st \in {"sent", "landed"} /\ txs' = [txs EXCEPT ![i].st = "past"]
        /\ chain' = chain /\ final' = chain /\ landed' = landed /\ rates' = rates
        /\ rows' = rows /\ holds' = holds /\ doing' = doing
    BY DEF OutliveTx, server
  <1>2. /\ txs' = [k \in 1..Len(rows') |-> txs'[k]] /\ DOMAIN txs' = DOMAIN txs
        /\ txs'[i].st = "past" /\ \A k \in DOMAIN txs \ {i} : txs'[k] = txs[k]
        /\ \A k \in DOMAIN txs : txs'[k] \in Tx /\ txs'[k].for = txs[k].for
    BY <1>1, TxUpdate
  <1>3. TxsFine'
    BY <1>1, <1>2 DEF LedgerInv, TxsFine, ApprovalSent
  <1>4. \A k \in DOMAIN txs : txs[k].st \in {"failed", "past"} => txs'[k].st = txs[k].st
    BY <1>1, <1>2
  <1>5. rates' \in [Mints -> Nat]
    BY <1>1 DEF LedgerInv, ChainFine
  <1> QED BY <1>1, <1>3, <1>4, <1>5, FrameStep

LEMMA FinalizeFine ==
    ASSUME LedgerInv, Finalize
    PROVE  StepFine
  <1>1. /\ chain' = chain /\ final' = chain /\ landed' = landed /\ rates' = rates
        /\ rows' = rows /\ holds' = holds /\ doing' = doing /\ txs' = txs
    BY DEF Finalize, server
  <1>2. TxsFine'
    BY <1>1 DEF LedgerInv, TxsFine, ApprovalSent
  <1>3. rates' \in [Mints -> Nat]
    BY <1>1 DEF LedgerInv, ChainFine
  <1> QED BY <1>1, <1>2, <1>3, FrameStep

LEMMA SetRateFine ==
    ASSUME LedgerInv, NEW m \in Mints, NEW rate \in NewRates, SetRate(m, rate)
    PROVE  StepFine
  <1>1. /\ chain' = chain /\ final' = final /\ landed' = landed
        /\ rates' = [rates EXCEPT ![m] = rate]
        /\ rows' = rows /\ holds' = holds /\ doing' = doing /\ txs' = txs
    BY DEF SetRate, network
  <1>2. TxsFine'
    BY <1>1 DEF LedgerInv, TxsFine, ApprovalSent
  <1>3. rates' \in [Mints -> Nat]
    BY <1>1, SaleCapacityAssumption DEF LedgerInv, ChainFine
  <1> QED BY <1>1, <1>2, <1>3, FrameStep

LEMMA StutterFine ==
    ASSUME LedgerInv, UNCHANGED vars
    PROVE  StepFine
  <1>1. /\ chain' = chain /\ final' = final /\ landed' = landed /\ rates' = rates
        /\ rows' = rows /\ holds' = holds /\ doing' = doing /\ txs' = txs
    BY DEF vars, network
  <1>2. TxsFine' /\ rates' \in [Mints -> Nat]
    BY <1>1 DEF LedgerInv, TxsFine, ApprovalSent, ChainFine
  <1> QED BY <1>1, <1>2, FrameStep

LEMMA AbortFine ==
    ASSUME LedgerInv, NEW a \in Agents, Abort(a)
    PROVE  StepFine
  <1>1. UNCHANGED outside /\ UNCHANGED store /\ doing' = [doing EXCEPT ![a] = Idle]
    BY DEF Abort, End, network, outside, store
  <1> QED BY <1>1, ReadStep

LEMMA ChainStepFine ==
    ASSUME LedgerInv, ChainStep
    PROVE  StepFine
  BY ApproveDirectlyFine, LapseFine, RevokeFine, CloseSaleFine, OpenSaleFine, BuyFine, SendTxFine,
     LandTxFine, OutliveTxFine, FinalizeFine DEF ChainStep

-----------------------------------------------------------------------------
(* The handlers.  A job in its hands is fine.                                *)
LEMMA JobAt ==
    ASSUME LedgerInv, NEW a \in Agents, NEW step, At(a, step)
    PROVE  doing[a] # Idle /\ doing[a].step = step /\ JobFine(a, doing[a])
           /\ doing[a] \in Jobs /\ doing[a].sid \in SaleIds
  BY DEF At, LedgerInv, JobsFine, JobFine, Jobs

(* What the updates of a job leave alone.                                    *)
LEMMA JobTo ==
    ASSUME NEW j \in Jobs, NEW x \in Steps
    PROVE  LET k == [j EXCEPT !.step = x]
           IN  /\ k \in Jobs /\ k.step = x /\ k.kind = j.kind /\ k.sid = j.sid /\ k.row = j.row
               /\ k.read = j.read /\ k.terms = j.terms /\ k.sale = j.sale
               /\ k.landings = j.landings
  BY DEF Jobs

LEMMA JobSaw ==
    ASSUME LedgerInv, NEW j \in Jobs, NEW x \in Steps
    PROVE  LET k == Saw(j, x)
           IN  /\ k \in Jobs /\ k.step = x /\ k.kind = j.kind /\ k.sid = j.sid /\ k.row = j.row
               /\ k.read = j.read /\ k.terms = chain[j.sid].approval /\ k.sale = j.sale
               /\ k.landings = landed[j.sid]
  <1> DEFINE t == chain[j.sid].approval
             l == landed[j.sid]
             k == [j EXCEPT !.step = x, !.terms = t, !.landings = l]
  <1>1. t \in Approval \cup Request \cup {None} /\ l \in Nat
    BY AccountIs DEF Jobs
  <1>2. Saw(j, x) = k
    BY DEF Saw, OneSlot
  <1> HIDE DEF t, l
  <1>3. /\ k \in Jobs /\ k.step = x /\ k.kind = j.kind /\ k.sid = j.sid /\ k.row = j.row
        /\ k.read = j.read /\ k.terms = t /\ k.sale = j.sale /\ k.landings = l
    BY <1>1 DEF Jobs
  <1> QED BY <1>2, <1>3 DEF t, l

LEMMA JobHolding ==
    ASSUME NEW j \in Jobs, NEW x \in Steps, NEW i \in Nat, NEW r \in Row
    PROVE  LET k == Holding(j, x, i, r)
           IN  /\ k \in Jobs /\ k.step = x /\ k.kind = j.kind /\ k.sid = j.sid /\ k.row = i
               /\ k.read = r /\ k.terms = j.terms /\ k.sale = j.sale
               /\ k.landings = j.landings
  BY DEF Jobs, Holding

(* A job as it begins, with the row it works on or without one.              *)
LEMMA JobBegins ==
    ASSUME LedgerInv, NEW kind \in Kinds.worker \cup Kinds.admin, NEW step \in Steps,
           NEW s \in SaleIds, NEW i, i = 0 \/ i \in DOMAIN rows
    PROVE  LET k == Job(kind, step, s, i)
           IN  /\ k \in Jobs /\ k.step = step /\ k.kind = kind /\ k.sid = s /\ k.row = i
               /\ i # 0 => k.read = rows[i] /\ k.read \in Row
               /\ k.terms = None /\ k.sale = None /\ k.landings = 0
               /\ Behind(k.sale, chain[s].sale) /\ k.landings <= landed[s]
  <1> DEFINE read == IF i = 0 THEN None ELSE rows[i]
  <1>1. i \in Nat /\ read \in Row \cup {None} /\ (i # 0 => read = rows[i] /\ read \in Row)
    BY TwoSequences DEF LedgerInv, RowsFine, RowFine
  <1>2. Job(kind, step, s, i) = [kind |-> kind, step |-> step, sid |-> s, row |-> i,
                                 read |-> read, terms |-> None, sale |-> None, landings |-> 0]
    BY DEF Job
  <1> HIDE DEF read
  <1>3. landed[s] \in Nat
    BY DEF LedgerInv, ChainFine
  <1> QED BY <1>1, <1>2, <1>3 DEF Jobs, Behind

LEMMA StartReserveFine ==
    ASSUME LedgerInv, NEW s \in SaleIds, NEW g \in Grosses, NEW m \in Mints,
           StartReserve(s, g, m)
    PROVE  StepFine
  <1> DEFINE b == Job("reserve", "reserve", s, 0)
             t == Terms(g, m, 0)
             j == [b EXCEPT !.terms = t]
  <1>1. /\ b \in Jobs /\ b.step = "reserve" /\ b.kind = "reserve" /\ b.sid = s
        /\ b.sale = None /\ b.landings = 0
        /\ Behind(b.sale, chain[s].sale) /\ b.landings <= landed[s]
    <2>1. "reserve" \in Kinds.worker \cup Kinds.admin /\ "reserve" \in Steps
      BY DEF Kinds, Steps
    <2> QED BY <2>1, JobBegins
  <1>2. t \in Request
    BY SaleCapacityAssumption DEF Terms, Request
  <1>3. doing' = [doing EXCEPT !["admin"] = j] /\ UNCHANGED outside /\ UNCHANGED store
    BY DEF StartReserve, Begin
  <1> HIDE DEF b, t
  <1>4. /\ j \in Jobs /\ j.step = "reserve" /\ j.kind = "reserve" /\ j.sid = s
        /\ j.sale = b.sale /\ j.landings = b.landings /\ j.terms = t
    BY <1>1, <1>2 DEF Jobs
  <1> HIDE DEF j
  <1>5. JobFine("admin", j)
    BY <1>1, <1>2, <1>4 DEF JobFine, Proved, Kinds
  <1> QED BY <1>3, <1>5, ReadStep DEF Agents

(* The three that begin with a row.                                          *)
LEMMA StartWithRowFine ==
    ASSUME LedgerInv, NEW a \in Agents, NEW kind \in Kinds[a], NEW i \in DOMAIN rows,
           kind \in {"confirm", "release", "reconcile"},
           Begin(a, Job(kind, "look", rows[i].sid, i)), UNCHANGED outside, UNCHANGED store
    PROVE  StepFine
  <1> DEFINE j == Job(kind, "look", rows[i].sid, i)
  <1>1. kind \in Kinds.worker \cup Kinds.admin /\ "look" \in Steps
    BY DEF Kinds, Agents, Steps
  <1>2. rows[i].sid \in SaleIds /\ i # 0
    BY TwoSequences DEF LedgerInv, RowsFine, RowFine, Row
  <1>3. /\ j \in Jobs /\ j.step = "look" /\ j.kind = kind /\ j.sid = rows[i].sid /\ j.row = i
        /\ j.read \in Row /\ j.sale = None
        /\ Behind(j.sale, chain[rows[i].sid].sale) /\ j.landings <= landed[rows[i].sid]
    BY <1>1, <1>2, JobBegins
  <1>4. doing' = [doing EXCEPT ![a] = j]
    BY DEF Begin
  <1> HIDE DEF j
  <1>5. JobFine(a, j)
    BY <1>3 DEF JobFine, Proved, HasRow
  <1> QED BY <1>4, <1>5, ReadStep

LEMMA StartsFine ==
    ASSUME LedgerInv, NEW i \in DOMAIN rows,
           StartConfirm(i) \/ StartRelease(i) \/ StartReconcile(i)
    PROVE  StepFine
  <1>1. "confirm" \in Kinds["admin"] /\ "release" \in Kinds["admin"]
        /\ "reconcile" \in Kinds["worker"] /\ "admin" \in Agents /\ "worker" \in Agents
    BY DEF Kinds, Agents
  <1>2. CASE StartConfirm(i)
    BY <1>1, <1>2, StartWithRowFine DEF StartConfirm
  <1>3. CASE StartRelease(i)
    BY <1>1, <1>3, StartWithRowFine DEF StartRelease
  <1>4. CASE StartReconcile(i)
    BY <1>1, <1>4, StartWithRowFine DEF StartReconcile
  <1> QED BY <1>2, <1>3, <1>4

(* The scans and the close job begin without one.                            *)
LEMMA StartScansFine ==
    ASSUME LedgerInv, NEW s \in SaleIds,
           StartApprovalScan(s) \/ StartSaleScan(s) \/ StartCloseJob(s)
    PROVE  StepFine
  <1>1. UNCHANGED outside /\ UNCHANGED store /\ "worker" \in Agents
    BY DEF StartApprovalScan, StartSaleScan, StartCloseJob, Agents
  <1>2. ASSUME NEW kind \in {"sales", "close"}, Begin("worker", Job(kind, "finalized", s, 0))
        PROVE  StepFine
    <2> DEFINE j == Job(kind, "finalized", s, 0)
    <2>1. /\ j \in Jobs /\ j.step = "finalized" /\ j.kind = kind /\ j.sid = s
          /\ j.sale = None /\ Behind(j.sale, chain[s].sale) /\ j.landings <= landed[s]
      BY <1>2, JobBegins DEF Kinds, Steps
    <2>2. doing' = [doing EXCEPT !["worker"] = j]
      BY <1>2 DEF Begin
    <2> HIDE DEF j
    <2>3. JobFine("worker", j)
      BY <2>1 DEF JobFine, Proved, Kinds
    <2> QED BY <1>1, <2>2, <2>3, ReadStep
  <1>3. CASE StartApprovalScan(s)
    <2> DEFINE b == Job("approvals", "orphan", s, 0)
               t == chain[s].approval
               j == [b EXCEPT !.terms = t]
    <2>1. /\ b \in Jobs /\ b.step = "orphan" /\ b.kind = "approvals" /\ b.sid = s
          /\ b.sale = None /\ Behind(b.sale, chain[s].sale) /\ b.landings <= landed[s]
      BY JobBegins DEF Kinds, Steps
    <2>2. t \in Approval /\ t # None
      BY <1>3, AccountIs DEF StartApprovalScan
    <2>3. doing' = [doing EXCEPT !["worker"] = j]
      BY <1>3 DEF StartApprovalScan, Begin
    <2> HIDE DEF b, t
    <2>4. /\ j \in Jobs /\ j.step = "orphan" /\ j.kind = "approvals" /\ j.sid = s
          /\ j.sale = b.sale /\ j.landings = b.landings /\ j.terms = t
      BY <2>1, <2>2 DEF Jobs
    <2> HIDE DEF j
    <2>5. JobFine("worker", j)
      BY <2>1, <2>2, <2>4 DEF JobFine, Proved, Kinds
    <2> QED BY <1>1, <2>3, <2>5, ReadStep
  <1> QED BY <1>2, <1>3 DEF StartSaleScan, StartCloseJob

(* A handler that ends, or goes to another step with what it has.            *)
LEMMA EndFine ==
    ASSUME LedgerInv, NEW a \in Agents, End(a), UNCHANGED outside, UNCHANGED store
    PROVE  StepFine
  BY ReadStep DEF End

LEMMA ThenFine ==
    ASSUME LedgerInv, NEW a \in Agents, NEW x \in Steps, Then(a, x), UNCHANGED outside,
           UNCHANGED store, JobFine(a, [doing[a] EXCEPT !.step = x])
    PROVE  StepFine
  BY ReadStep DEF Then

LEMMA ConfirmLookFine ==
    ASSUME LedgerInv, ConfirmLook
    PROVE  StepFine
  <1> DEFINE job == doing["admin"]
  <1>1. "admin" \in Agents /\ UNCHANGED outside /\ UNCHANGED store
    BY DEF ConfirmLook, Agents
  <1>2. JobFine("admin", job) /\ job \in Jobs /\ job.sid \in SaleIds /\ job.step = "look"
        /\ job.kind = "confirm"
    BY <1>1, JobAt DEF ConfirmLook, Turn
  <1>3. CASE End("admin")
    BY <1>1, <1>3, EndFine
  <1>4. CASE Then("admin", "confirm")
    <2> DEFINE k == [job EXCEPT !.step = "confirm"]
    <2>1. "confirm" \in Steps
      BY DEF Steps
    <2>2. /\ k \in Jobs /\ k.step = "confirm" /\ k.kind = job.kind /\ k.sid = job.sid
          /\ k.row = job.row /\ k.read = job.read /\ k.terms = job.terms /\ k.sale = job.sale
          /\ k.landings = job.landings
      BY <1>2, <2>1, JobTo
    <2> HIDE DEF k
    <2>3. JobFine("admin", k)
      BY <1>2, <2>2 DEF JobFine, HasRow, FreeSince, Proved
    <2> QED BY <1>1, <1>4, <2>1, <2>3, ThenFine DEF k
  <1>5. CASE chain[job.sid].approval # None /\ Continue("admin", Saw(job, "adopt"))
    <2> DEFINE k == Saw(job, "adopt")
    <2>1. /\ k \in Jobs /\ k.step = "adopt" /\ k.kind = job.kind /\ k.sid = job.sid
          /\ k.row = job.row /\ k.read = job.read /\ k.terms = chain[job.sid].approval
          /\ k.sale = job.sale /\ k.landings = landed[job.sid]
      BY <1>2, JobSaw DEF Steps
    <2>2. doing' = [doing EXCEPT !["admin"] = k]
      BY <1>5 DEF Continue
    <2> HIDE DEF k
    <2>3. landed[job.sid] \in Nat
      BY <1>2 DEF LedgerInv, ChainFine
    <2>4. JobFine("admin", k)
      BY <1>2, <1>5, <2>1, <2>3 DEF JobFine, HasRow, FreeSince, Proved
    <2> QED BY <1>1, <2>2, <2>4, ReadStep
  <1> QED BY <1>3, <1>4, <1>5 DEF ConfirmLook

LEMMA ReleaseLookFine ==
    ASSUME LedgerInv, ReleaseLook
    PROVE  StepFine
  <1> DEFINE job == doing["admin"]
             x == IF job.read.conf THEN "release" ELSE "prove"
  <1>1. "admin" \in Agents /\ UNCHANGED outside /\ UNCHANGED store
    BY DEF ReleaseLook, Agents
  <1>2. JobFine("admin", job) /\ job \in Jobs /\ job.sid \in SaleIds /\ job.step = "look"
        /\ job.kind = "release"
    BY <1>1, JobAt DEF ReleaseLook, Turn
  <1>3. CASE End("admin")
    BY <1>1, <1>3, EndFine
  <1>4. CASE OneSlot(job.sid) = Unused /\ Continue("admin", Saw(job, x))
    <2> DEFINE k == Saw(job, x)
    <2>1. /\ k \in Jobs /\ k.step = x /\ k.kind = job.kind /\ k.sid = job.sid
          /\ k.row = job.row /\ k.read = job.read /\ k.terms = chain[job.sid].approval
          /\ k.sale = job.sale /\ k.landings = landed[job.sid]
      BY <1>2, JobSaw DEF Steps
    <2>2. doing' = [doing EXCEPT !["admin"] = k]
      BY <1>4 DEF Continue
    <2>3. Free(job.sid) /\ chain[job.sid].approval = None
      BY <1>4 DEF OneSlot, Unused, Free
    <2>4. landed[job.sid] \in Nat
      BY <1>2 DEF LedgerInv, ChainFine
    <2>5. x \in {"release", "prove"} /\ (x = "release" => job.read.conf)
      OBVIOUS
    <2> HIDE DEF k, x
    <2>6. JobFine("admin", k)
      BY <1>2, <2>1, <2>3, <2>4, <2>5 DEF JobFine, HasRow, FreeSince, Proved
    <2> QED BY <1>1, <2>2, <2>6, ReadStep
  <1> QED BY <1>3, <1>4 DEF ReleaseLook

LEMMA ReleaseProveFine ==
    ASSUME LedgerInv, ReleaseProve
    PROVE  StepFine
  <1> DEFINE job == doing["admin"]
             i == job.row
  <1>1. "admin" \in Agents /\ UNCHANGED outside /\ UNCHANGED store
    BY DEF ReleaseProve, Agents
  <1>2. JobFine("admin", job) /\ job \in Jobs /\ job.sid \in SaleIds /\ job.step = "prove"
        /\ job.kind = "release"
    BY <1>1, JobAt DEF ReleaseProve, Turn
  <1>3. CASE End("admin")
    BY <1>1, <1>3, EndFine
  <1>4. ASSUME NEW x \in {"release", "finalized"}, Then("admin", x),
               txs[i].st = IF x = "release" THEN "failed" ELSE "past"
        PROVE  StepFine
    <2> DEFINE k == [job EXCEPT !.step = x]
    <2>1. x \in Steps
      BY DEF Steps
    <2>2. /\ k \in Jobs /\ k.step = x /\ k.kind = job.kind /\ k.sid = job.sid
          /\ k.row = job.row /\ k.read = job.read /\ k.terms = job.terms /\ k.sale = job.sale
          /\ k.landings = job.landings
      BY <1>2, <2>1, JobTo
    <2>3. x = "release" => NotFor(job.sid, i)
      <3>1. i # 0
        BY <1>2, TwoSequences DEF JobFine, HasRow, LedgerInv
      <3>2. chain[job.sid].approval # None => ApprovalSent(job.sid)
        BY <1>2 DEF LedgerInv, TxsFine
      <3> QED BY <1>4, <3>1, <3>2 DEF ApprovalSent, NotFor
    <2> HIDE DEF k
    <2>4. JobFine("admin", k)
      BY <1>2, <1>4, <2>2, <2>3 DEF JobFine, HasRow, FreeSince, Proved
    <2> QED BY <1>1, <1>4, <2>1, <2>4, ThenFine DEF k
  <1> QED BY <1>3, <1>4 DEF ReleaseProve

LEMMA ReleaseFinalizedFine ==
    ASSUME LedgerInv, ReleaseFinalized
    PROVE  StepFine
  <1> DEFINE job == doing["admin"]
             i == job.row
  <1>1. "admin" \in Agents /\ UNCHANGED outside /\ UNCHANGED store
    BY DEF ReleaseFinalized, Agents
  <1>2. JobFine("admin", job) /\ job \in Jobs /\ job.sid \in SaleIds /\ job.step = "finalized"
        /\ job.kind = "release"
    BY <1>1, JobAt DEF ReleaseFinalized, Turn
  <1>3. CASE End("admin")
    BY <1>1, <1>3, EndFine
  <1>4. CASE final[job.sid] = Unused /\ Then("admin", "release")
    <2> DEFINE k == [job EXCEPT !.step = "release"]
    <2>1. "release" \in Steps
      BY DEF Steps
    <2>2. /\ k \in Jobs /\ k.step = "release" /\ k.kind = job.kind /\ k.sid = job.sid
          /\ k.row = job.row /\ k.read = job.read /\ k.terms = job.terms /\ k.sale = job.sale
          /\ k.landings = job.landings
      BY <1>2, <2>1, JobTo
    <2>3. txs[i].st = "past"
      BY <1>2 DEF JobFine, Proved
    <2>4. NotFor(job.sid, i)
      <3>1. i # 0
        BY <1>2, TwoSequences DEF JobFine, HasRow, LedgerInv
      <3>2. chain[job.sid].approval # None => ApprovalSent(job.sid)
        BY <1>2 DEF LedgerInv, TxsFine
      <3>3. final[job.sid].approval = None
        BY <1>4 DEF Unused
      <3> QED BY <2>3, <3>1, <3>2, <3>3 DEF ApprovalSent, NotFor
    <2> HIDE DEF k
    <2>5. JobFine("admin", k)
      BY <1>2, <2>2, <2>3, <2>4 DEF JobFine, HasRow, FreeSince, Proved
    <2> QED BY <1>1, <1>4, <2>1, <2>5, ThenFine DEF k
  <1> QED BY <1>3, <1>4 DEF ReleaseFinalized

(* The worker's look at a row of its own.                                    *)
LEMMA ReconcileLookFine ==
    ASSUME LedgerInv, ReconcileLook
    PROVE  StepFine
  <1> DEFINE job == doing["worker"]
             now == chain[job.sid]
  <1>1. "worker" \in Agents /\ UNCHANGED outside /\ UNCHANGED store
    BY DEF ReconcileLook, Agents
  <1>2. JobFine("worker", job) /\ job \in Jobs /\ job.sid \in SaleIds /\ job.step = "look"
        /\ job.kind = "reconcile"
    BY <1>1, JobAt DEF ReconcileLook, Turn
  <1>3. landed[job.sid] \in Nat
    BY <1>2 DEF LedgerInv, ChainFine
  <1>4. CASE End("worker")
    BY <1>1, <1>4, EndFine
  <1>5. CASE Then("worker", "finalized")
    <2> DEFINE k == [job EXCEPT !.step = "finalized"]
    <2>1. "finalized" \in Steps
      BY DEF Steps
    <2>2. /\ k \in Jobs /\ k.step = "finalized" /\ k.kind = job.kind /\ k.sid = job.sid
          /\ k.row = job.row /\ k.read = job.read /\ k.terms = job.terms /\ k.sale = job.sale
          /\ k.landings = job.landings
      BY <1>2, <2>1, JobTo
    <2> HIDE DEF k
    <2>3. JobFine("worker", k)
      BY <1>2, <2>2 DEF JobFine, HasRow, FreeSince, Proved
    <2> QED BY <1>1, <1>5, <2>1, <2>3, ThenFine DEF k
  <1>6. ASSUME NEW x \in {"adopt", "confirm", "release"}, Continue("worker", Saw(job, x)),
               x \in {"adopt", "confirm"} => now.approval # None,
               x = "release" => now = Unused \/ (now.approval # None /\ now.approval.lapsed)
        PROVE  StepFine
    <2> DEFINE k == Saw(job, x)
    <2>1. /\ k \in Jobs /\ k.step = x /\ k.kind = job.kind /\ k.sid = job.sid
          /\ k.row = job.row /\ k.read = job.read /\ k.terms = now.approval
          /\ k.sale = job.sale /\ k.landings = landed[job.sid]
      BY <1>2, JobSaw DEF Steps
    <2>2. doing' = [doing EXCEPT !["worker"] = k]
      BY <1>6 DEF Continue
    <2>3. now.approval # None => now.sale = None
      BY <1>2 DEF LedgerInv, ChainFine
    <2>4. x = "release" => Free(job.sid)
      BY <1>6, <2>3 DEF Free, Unused
    <2>5. x = "confirm" /\ now.approval.lapsed => Free(job.sid)
      BY <1>6, <2>3 DEF Free
    <2> HIDE DEF k, now
    <2>6. JobFine("worker", k)
      BY <1>2, <1>3, <1>6, <2>1, <2>4, <2>5 DEF JobFine, HasRow, FreeSince, Proved
    <2> QED BY <1>1, <2>2, <2>6, ReadStep
  <1>7. ASSUME now.approval # None, ApprovalSeen(job, now.approval)
        PROVE  StepFine
    BY <1>4, <1>6, <1>7 DEF ApprovalSeen
  <1> QED BY <1>4, <1>5, <1>6, <1>7 DEF ReconcileLook, OneSlot

LEMMA ApprovalScanFine ==
    ASSUME LedgerInv, ApprovalScan
    PROVE  StepFine
  <1> DEFINE job == doing["worker"]
             k == [job EXCEPT !.step = "adopt"]
  <1>1. "worker" \in Agents /\ UNCHANGED outside /\ UNCHANGED store
    BY DEF ApprovalScan, Agents
  <1>2. JobFine("worker", job) /\ job \in Jobs /\ job.sid \in SaleIds /\ job.step = "orphan"
        /\ job.kind = "approvals"
    BY <1>1, JobAt DEF ApprovalScan, Turn
  <1>3. "adopt" \in Steps
    BY DEF Steps
  <1>4. /\ k \in Jobs /\ k.step = "adopt" /\ k.kind = job.kind /\ k.sid = job.sid
        /\ k.row = job.row /\ k.read = job.read /\ k.terms = job.terms /\ k.sale = job.sale
        /\ k.landings = job.landings
    BY <1>2, <1>3, JobTo
  <1> HIDE DEF k
  <1>5. JobFine("worker", k)
    BY <1>2, <1>4 DEF JobFine, HasRow, FreeSince, Proved
  <1>6. CASE Then("worker", "adopt")
    BY <1>1, <1>3, <1>5, <1>6, ThenFine DEF k
  <1>7. CASE End("worker")
    BY <1>1, <1>7, EndFine
  <1> QED BY <1>6, <1>7 DEF ApprovalScan

(* The sale at finalized is behind the chain's.                              *)
LEMMA SaleLookFine ==
    ASSUME LedgerInv, SaleLook
    PROVE  StepFine
  <1> DEFINE job == doing["worker"]
             sale == final[job.sid].sale
  <1>1. "worker" \in Agents /\ UNCHANGED outside /\ UNCHANGED store
    BY DEF SaleLook, Agents
  <1>2. JobFine("worker", job) /\ job \in Jobs /\ job.sid \in SaleIds /\ job.step = "finalized"
    BY <1>1, JobAt DEF SaleLook
  <1>3. sale \in Sale \cup {None} /\ Behind(sale, chain[job.sid].sale)
    BY <1>2 DEF LedgerInv, ChainFine, Account
  <1>4. CASE End("worker")
    BY <1>1, <1>4, EndFine
  <1>5. ASSUME NEW x \in {"consume", "adopt", "cover"}, sale # None,
               x = "consume" => job.kind = "reconcile",
               x \in {"adopt", "cover"} => job.kind \in {"sales", "close"},
               Continue("worker", [job EXCEPT !.step = x, !.sale = sale])
        PROVE  StepFine
    <2> DEFINE k == [job EXCEPT !.step = x, !.sale = sale]
    <2>1. doing' = [doing EXCEPT !["worker"] = k]
      BY <1>5 DEF Continue
    <2> HIDE DEF sale
    <2>2. x \in Steps /\ sale \in Sale
      BY <1>3, <1>5 DEF Steps
    <2>3. /\ k \in Jobs /\ k.step = x /\ k.kind = job.kind /\ k.sid = job.sid
          /\ k.row = job.row /\ k.read = job.read /\ k.terms = job.terms /\ k.sale = sale
          /\ k.landings = job.landings
      BY <1>2, <2>2 DEF Jobs
    <2> HIDE DEF k
    <2>4. JobFine("worker", k)
      BY <1>2, <1>3, <1>5, <2>3 DEF JobFine, HasRow, FreeSince, Proved
    <2> QED BY <1>1, <2>1, <2>4, ReadStep
  <1> QED BY <1>4, <1>5 DEF SaleLook

LEMMA CloseCoverFine ==
    ASSUME LedgerInv, CloseCover
    PROVE  StepFine
  <1> DEFINE job == doing["worker"]
  <1>1. "worker" \in Agents /\ UNCHANGED outside /\ UNCHANGED store
    BY DEF CloseCover, Agents
  <1>2. JobFine("worker", job) /\ job \in Jobs /\ job.sid \in SaleIds /\ job.step = "cover"
        /\ job.kind = "close"
    BY <1>1, JobAt DEF CloseCover, Turn
  <1>3. CASE Then("worker", "adopt")
    <2> DEFINE k == [job EXCEPT !.step = "adopt"]
    <2>1. "adopt" \in Steps
      BY DEF Steps
    <2>2. /\ k \in Jobs /\ k.step = "adopt" /\ k.kind = job.kind /\ k.sid = job.sid
          /\ k.row = job.row /\ k.read = job.read /\ k.terms = job.terms /\ k.sale = job.sale
          /\ k.landings = job.landings
      BY <1>2, <2>1, JobTo
    <2> HIDE DEF k
    <2>3. JobFine("worker", k)
      BY <1>2, <2>2 DEF JobFine, HasRow, FreeSince, Proved
    <2> QED BY <1>1, <1>3, <2>1, <2>3, ThenFine DEF k
  <1>4. ASSUME NEW x \in {"consume", "clear"}, NEW i \in Covering(job.sid),
               Continue("worker", [job EXCEPT !.step = x, !.row = i, !.read = rows[i]])
        PROVE  StepFine
    <2> DEFINE r == rows[i]
               k == Holding(job, x, i, r)
    <2>1. doing' = [doing EXCEPT !["worker"] = k]
      BY <1>4 DEF Continue, Holding
    <2>2. i \in DOMAIN rows /\ rows[i].sid = job.sid /\ r \in Row /\ Covers(r) /\ i \in Nat
      BY TwoSequences DEF Covering, RowsOf, LedgerInv, RowsFine, RowFine
    <2> HIDE DEF r
    <2>3. x \in Steps
      BY DEF Steps
    <2>4. /\ k \in Jobs /\ k.step = x /\ k.kind = job.kind /\ k.sid = job.sid
          /\ k.row = i /\ k.read = r /\ k.terms = job.terms /\ k.sale = job.sale
          /\ k.landings = job.landings
      BY <1>2, <2>2, <2>3, JobHolding
    <2> HIDE DEF k
    <2>5. JobFine("worker", k)
      BY <1>2, <2>2, <2>4 DEF JobFine, HasRow, FreeSince, Proved
    <2> QED BY <1>1, <2>1, <2>5, ReadStep
  <1> QED BY <1>3, <1>4 DEF CloseCover

-----------------------------------------------------------------------------
(* What the handlers write.  The reserve route asks the cap for room.        *)
LEMMA ReserveFine ==
    ASSUME LedgerInv, RowsInv', Reserve
    PROVE  StepFine
  <1> DEFINE job == doing["admin"]
             s == job.sid
             n == Len(rows) + 1
             t == [job.terms EXCEPT !.for = n]
             r == NewRow(s, t, FALSE)
             tx == [sid |-> s, st |-> "none", gross |-> t.gross, mint |-> t.mint, for |-> t.for]
  <1>1. "admin" \in Agents /\ UNCHANGED outside /\ holds' = holds /\ End("admin")
        /\ At("admin", "reserve")
    BY DEF Reserve, Agents
  <1>2. JobFine("admin", job) /\ s \in SaleIds /\ job.terms \in Request
    BY <1>1, JobAt DEF JobFine
  <1>3. CASE UNCHANGED <<rows, txs>>
    <2>1. UNCHANGED store
      BY <1>1, <1>3 DEF store
    <2> QED BY <1>1, <2>1, EndFine
  <1>4. CASE MayReserve(s, t) /\ Insert(s, t, FALSE)
    <2>1. n \in Nat /\ Len(rows) + 1 = n
      BY TwoSequences DEF LedgerInv
    <2> HIDE DEF n
    <2>2. t.gross \in Nat /\ t.mint \in Mints /\ t.for = n
      BY <1>2, <2>1 DEF Request
    <2>3. rows' = Append(rows, r) /\ txs' = Append(txs, tx)
      BY <1>4 DEF Insert
    <2>4. Used + Eur(t.gross, rates[t.mint]) <= Cap
      BY <1>4 DEF MayReserve
    <2> HIDE DEF t
    <2>5. tx \in Tx /\ tx.for = Len(rows) + 1
      BY <1>2, <2>1, <2>2 DEF Tx
    <2>6. rates \in [Mints -> Nat]
      BY DEF LedgerInv, ChainFine
    <2>7. RowFine(r, chain[s].sale) /\ r.sid = s /\ Asking(r) = Eur(t.gross, rates[t.mint])
      BY <1>2, <2>1, <2>2, <2>6, NewRowFine
    <2>8. doing' = [doing EXCEPT !["admin"] = Idle]
      BY <1>1 DEF End
    <2> HIDE DEF r, tx
    <2> QED BY <1>1, <2>3, <2>4, <2>5, <2>7, <2>8, InsertStep
  <1> QED BY <1>3, <1>4 DEF Reserve

(* A hold begins, and ends once the row in hand was seen to cover its sale.  *)
LEMMA HoldFine ==
    ASSUME LedgerInv, Hold
    PROVE  StepFine
  <1>1. "worker" \in Agents /\ UNCHANGED outside /\ rows' = rows /\ txs' = txs
        /\ doing' = [doing EXCEPT !["worker"] = Idle]
    BY DEF Hold, Agents, End
  <1>2. holds \subseteq holds'
    BY DEF Hold
  <1>3. HoldsCounted
    BY <1>2 DEF HoldsCounted
  <1> QED BY <1>1, <1>3, HoldsStep

LEMMA ClearFine ==
    ASSUME LedgerInv, Clear
    PROVE  StepFine
  <1> DEFINE job == doing["worker"]
             i == job.row
             k == [job EXCEPT !.step = "consume"]
  <1>1. "worker" \in Agents /\ UNCHANGED outside /\ rows' = rows /\ txs' = txs
        /\ At("worker", "clear")
    BY DEF Clear, Agents
  <1>2. JobFine("worker", job) /\ job \in Jobs /\ job.sid \in SaleIds /\ job.step = "clear"
    BY <1>1, JobAt
  <1>3. /\ HasRow(job) /\ job.read \in Row /\ Covers(job.read)
        /\ job.kind \in {"approvals", "sales", "close"}
        /\ job.kind # "approvals" => job.sale # None
        /\ Behind(job.sale, chain[job.sid].sale)
    BY <1>2 DEF JobFine
  <1>4. HoldsCounted
    <2>1. ASSUME NEW s \in SaleIds, <<"sale", s>> \in holds \ holds'
          PROVE  \E x \in RowsOf(s) :
                    \/ Covers(rows[x])
                    \/ LetGoMeanwhile(x, job) /\ chain[s].sale # None
      <3>1. <<"sale", s>> \in Settled(job)
        BY <2>1 DEF Clear
      <3>2. job.kind # "approvals" /\ s = job.sid
        BY <3>1 DEF Settled
      <3>3. i \in RowsOf(s)
        BY <1>3, <3>2 DEF HasRow, RowsOf
      <3>4. rows[i] \in Row
        BY <3>3 DEF RowsOf, LedgerInv, RowsFine, RowFine
      <3>5. Covers(rows[i]) \/ rows[i].st = "released"
        BY <3>4 DEF Covers, Row
      <3>6. chain[s].sale # None
        BY <1>3, <3>2 DEF Behind
      <3> QED BY <1>3, <3>3, <3>5, <3>6 DEF LetGoMeanwhile
    <2> QED BY <2>1 DEF HoldsCounted
  <1>5. CASE End("worker")
    BY <1>1, <1>4, <1>5, HoldsStep DEF End
  <1>6. CASE job.kind # "approvals" /\ Then("worker", "consume")
    <2>1. "consume" \in Steps
      BY DEF Steps
    <2>2. /\ k \in Jobs /\ k.step = "consume" /\ k.kind = job.kind /\ k.sid = job.sid
          /\ k.row = job.row /\ k.read = job.read /\ k.terms = job.terms /\ k.sale = job.sale
          /\ k.landings = job.landings
      BY <1>2, <2>1, JobTo
    <2>3. doing' = [doing EXCEPT !["worker"] = k]
      BY <1>6 DEF Then
    <2> HIDE DEF k
    <2>4. JobFine("worker", k)
      BY <1>2, <1>3, <1>6, <2>2 DEF JobFine, HasRow, FreeSince, Proved
    <2> QED BY <1>1, <1>4, <2>3, <2>4, HoldsStep
  <1> QED BY <1>5, <1>6 DEF Clear

(* An approval that was seen is confirmed.                                   *)
LEMMA ConfirmFine ==
    ASSUME LedgerInv, RowsInv', NEW a \in Agents, Confirm(a)
    PROVE  StepFine
  <1> DEFINE job == doing[a]
             i == job.row
             r == Confirmed(rows[i])
             sale == chain[rows[i].sid].sale
             k == [job EXCEPT !.step = "release"]
  <1>1. UNCHANGED outside /\ txs' = txs /\ holds' = holds /\ At(a, "confirm")
        /\ rows' = [rows EXCEPT ![i] = r]
    BY DEF Confirm, SetRow
  <1>2. JobFine(a, job) /\ job \in Jobs /\ job.sid \in SaleIds /\ job.step = "confirm"
    BY <1>1, JobAt
  <1>3. HasRow(job) /\ job.kind \in {"confirm", "reconcile"} /\ i \in DOMAIN rows
    BY <1>2 DEF JobFine, HasRow
  <1>4. RowFine(rows[i], sale)
    BY <1>3 DEF LedgerInv, RowsFine
  <1>5. RowFine(r, sale) /\ r.sid = rows[i].sid /\ Asking(r) <= Asking(rows[i])
    BY <1>4, ConfirmedFine
  <1>6. ~At(a, "release")
    BY <1>1 DEF At
  <1>7. CASE End(a)
    <2>1. doing' = [doing EXCEPT ![a] = Idle]
      BY <1>7 DEF End
    <2> HIDE DEF r, i
    <2> QED BY <1>1, <1>3, <1>5, <1>6, <2>1, WriteStep
  <1>8. CASE job.kind = "reconcile" /\ job.terms.lapsed /\ Then(a, "release")
    <2>1. "release" \in Steps
      BY DEF Steps
    <2>2. /\ k \in Jobs /\ k.step = "release" /\ k.kind = job.kind /\ k.sid = job.sid
          /\ k.row = job.row /\ k.read = job.read /\ k.terms = job.terms /\ k.sale = job.sale
          /\ k.landings = job.landings
      BY <1>2, <2>1, JobTo
    <2>3. doing' = [doing EXCEPT ![a] = k]
      BY <1>8 DEF Then
    <2> HIDE DEF k
    <2>4. JobFine(a, k)
      BY <1>2, <1>3, <1>8, <2>2 DEF JobFine, HasRow, FreeSince, Proved
    <2> HIDE DEF r, i
    <2> QED BY <1>1, <1>3, <1>5, <1>6, <2>3, <2>4, WriteStep
  <1> QED BY <1>7, <1>8 DEF Confirm

(* A row is let go, as its handler's look allows.                            *)
LEMMA ReleaseFine ==
    ASSUME LedgerInv, RowsInv', NEW a \in Agents, Release(a)
    PROVE  StepFine
  <1> DEFINE job == doing[a]
             i == job.row
             r == Released(rows[i])
             sale == chain[rows[i].sid].sale
  <1>1. UNCHANGED outside /\ txs' = txs /\ holds' = holds /\ At(a, "release")
        /\ rows' = [rows EXCEPT ![i] = r] /\ doing' = [doing EXCEPT ![a] = Idle]
    BY DEF Release, SetRow, End
  <1>2. JobFine(a, job) /\ job \in Jobs /\ job.sid \in SaleIds /\ job.step = "release"
    BY <1>1, JobAt
  <1>3. HasRow(job) /\ FreeSince(job) /\ Proved(job)
    BY <1>2 DEF JobFine
  <1>4. i \in DOMAIN rows /\ rows[i].sid = job.sid
    BY <1>3 DEF HasRow
  <1>5. RowFine(rows[i], sale)
    BY <1>4 DEF LedgerInv, RowsFine
  <1>6. RowFine(r, sale) /\ r.sid = rows[i].sid /\ Asking(r) <= Asking(rows[i])
    BY <1>5, ReleasedFine
  <1>7. Justified(i, a)
    BY <1>2, <1>3, <1>4 DEF Justified, FreeSince, Free, Proved, NotFor
  <1> HIDE DEF r, i
  <1> QED BY <1>1, <1>4, <1>6, <1>7, WriteStep

(* The worker follows a sale the chain has: consumes its row, and books it.  *)
LEMMA ConsumeFine ==
    ASSUME LedgerInv, RowsInv', Consume
    PROVE  StepFine
  <1> DEFINE job == doing["worker"]
             i == job.row
             r == Consumed(rows[i], job.sale)
             sale == chain[job.sid].sale
  <1>1. "worker" \in Agents /\ UNCHANGED outside /\ At("worker", "consume")
    BY DEF Consume, Agents
  <1>2. JobFine("worker", job) /\ job \in Jobs /\ job.sid \in SaleIds /\ job.step = "consume"
    BY <1>1, JobAt
  <1>3. HasRow(job) /\ job.read \in Row /\ job.sale \in Sale /\ Behind(job.sale, sale)
    BY <1>2 DEF JobFine, Jobs
  <1>4. i \in DOMAIN rows /\ rows[i].sid = job.sid /\ i \in Nat
    BY <1>3, TwoSequences DEF HasRow, LedgerInv
  <1>5. sale \in Sale
    BY <1>2, <1>3 DEF Behind, LedgerInv, ChainFine, Account
  <1>6. CASE Then("worker", "book") /\ UNCHANGED store
    <2> DEFINE k == [job EXCEPT !.step = "book"]
    <2>1. "book" \in Steps
      BY DEF Steps
    <2>2. /\ k \in Jobs /\ k.step = "book" /\ k.kind = job.kind /\ k.sid = job.sid
          /\ k.row = job.row /\ k.read = job.read /\ k.terms = job.terms /\ k.sale = job.sale
          /\ k.landings = job.landings
      BY <1>2, <2>1, JobTo
    <2> HIDE DEF k
    <2>3. JobFine("worker", k)
      BY <1>2, <2>2 DEF JobFine, HasRow, FreeSince, Proved
    <2> QED BY <1>1, <1>6, <2>1, <2>3, ThenFine DEF k
  <1>7. CASE End("worker") /\ UNCHANGED store
    BY <1>1, <1>7, EndFine
  <1>8. CASE SetRow(i, r) /\ Continue("worker", Holding(job, "book", i, r))
             /\ UNCHANGED <<holds, txs>>
    <2> DEFINE k == Holding(job, "book", i, r)
    <2>1. rows' = [rows EXCEPT ![i] = r] /\ doing' = [doing EXCEPT !["worker"] = k]
      BY <1>8 DEF SetRow, Continue
    <2>2. RowFine(rows[i], sale)
      BY <1>4 DEF LedgerInv, RowsFine
    <2>3. RowFine(r, sale) /\ r.sid = rows[i].sid /\ Asking(r) <= Asking(rows[i])
      BY <1>3, <1>5, <2>2, ConsumedFine
    <2> HIDE DEF r
    <2>4. r \in Row
      BY <2>3 DEF RowFine
    <2> HIDE DEF i
    <2>5. "book" \in Steps
      BY DEF Steps
    <2>6. /\ k \in Jobs /\ k.step = "book" /\ k.kind = job.kind /\ k.sid = job.sid
          /\ k.row = i /\ k.read = r /\ k.terms = job.terms /\ k.sale = job.sale
          /\ k.landings = job.landings
      BY <1>2, <1>4, <2>4, <2>5, JobHolding
    <2> HIDE DEF k
    <2>7. JobFine("worker", k)
      BY <1>2, <1>3, <1>4, <2>4, <2>6 DEF JobFine, HasRow, FreeSince, Proved
    <2>8. ~At("worker", "release")
      BY <1>1 DEF At
    <2> QED BY <1>1, <1>4, <1>8, <2>1, <2>3, <2>7, <2>8, WriteStep
  <1> QED BY <1>6, <1>7, <1>8 DEF Consume

LEMMA BookFine ==
    ASSUME LedgerInv, RowsInv', Book
    PROVE  StepFine
  <1> DEFINE job == doing["worker"]
             i == job.row
             r == Booked(rows[i], job.sale)
             sale == chain[job.sid].sale
  <1>1. "worker" \in Agents /\ UNCHANGED outside /\ At("worker", "book") /\ txs' = txs
        /\ holds' = holds
    BY DEF Book, Agents
  <1>2. JobFine("worker", job) /\ job \in Jobs /\ job.sid \in SaleIds /\ job.step = "book"
    BY <1>1, JobAt
  <1>3. HasRow(job) /\ job.read \in Row /\ job.sale \in Sale /\ Behind(job.sale, sale)
    BY <1>2 DEF JobFine, Jobs
  <1>4. i \in DOMAIN rows /\ rows[i].sid = job.sid /\ i \in Nat
    BY <1>3, TwoSequences DEF HasRow, LedgerInv
  <1>5. sale \in Sale /\ sale.sold <= sale.gross
    <2>1. job.sale # None
      BY <1>3, SaleCapacityAssumption
    <2>2. sale # None
      BY <1>3, <2>1 DEF Behind
    <2> QED BY <1>2, <2>2 DEF LedgerInv, ChainFine, Account
  <1>6. CASE End("worker") /\ rows' = rows
    <2>1. UNCHANGED store
      BY <1>1, <1>6 DEF store
    <2> QED BY <1>1, <1>6, <2>1, EndFine
  <1>7. ASSUME job.sale.closed, rows[i].st \notin {"reserved", "released"}, SetRow(i, r),
               \/ End("worker")
               \/ job.kind = "close" /\ Continue("worker", Holding(job, "clear", i, r))
        PROVE  StepFine
    <2> DEFINE k == Holding(job, "clear", i, r)
    <2>1. rows' = [rows EXCEPT ![i] = r]
      BY <1>7 DEF SetRow
    <2>2. RowFine(rows[i], sale)
      BY <1>4 DEF LedgerInv, RowsFine
    <2>3. /\ RowFine(r, sale) /\ r.sid = rows[i].sid /\ Asking(r) <= Asking(rows[i])
          /\ rows[i].st = "consumed" => r.st \in {"booked", "unsold"}
          /\ rows[i].st # "consumed" => r = rows[i]
      BY <1>3, <1>5, <1>7, <2>2, BookedFine
    <2> HIDE DEF r
    <2>4. r \in Row /\ rows[i] \in Row
      BY <2>2, <2>3 DEF RowFine
    <2>5. Covers(r)
      BY <1>7, <2>3, <2>4 DEF Covers, Row, Live
    <2>6. ~At("worker", "release")
      BY <1>1 DEF At
    <2>7. CASE End("worker")
      <3>1. doing' = [doing EXCEPT !["worker"] = Idle]
        BY <2>7 DEF End
      <3> HIDE DEF i
      <3> QED BY <1>1, <1>4, <2>1, <2>3, <2>6, <3>1, WriteStep
    <2>8. CASE job.kind = "close" /\ Continue("worker", k)
      <3>1. doing' = [doing EXCEPT !["worker"] = k]
        BY <2>8 DEF Continue
      <3> HIDE DEF i
      <3>2. "clear" \in Steps
        BY DEF Steps
      <3>3. /\ k \in Jobs /\ k.step = "clear" /\ k.kind = job.kind /\ k.sid = job.sid
            /\ k.row = i /\ k.read = r /\ k.terms = job.terms /\ k.sale = job.sale
            /\ k.landings = job.landings
        BY <1>2, <1>4, <2>4, <3>2, JobHolding
      <3> HIDE DEF k
      <3>4. JobFine("worker", k)
        BY <1>2, <1>3, <1>4, <2>4, <2>5, <2>8, <3>3 DEF JobFine, HasRow, FreeSince, Proved
      <3> QED BY <1>1, <1>4, <2>1, <2>3, <2>6, <3>1, <3>4, WriteStep
    <2> QED BY <1>7, <2>7, <2>8
  <1>8. \/ End("worker") /\ rows' = rows
        \/ /\ job.sale.closed /\ rows[i].st \notin {"reserved", "released"} /\ SetRow(i, r)
           /\ \/ End("worker")
              \/ job.kind = "close" /\ Continue("worker", Holding(job, "clear", i, r))
    BY DEF Book
  <1> QED BY <1>6, <1>7, <1>8

(* A row that was adopted is in its handler's hands, with the hold to clear. *)
LEMMA AdoptedJob ==
    ASSUME NEW a \in Agents, NEW j, JobFine(a, j), j.step = "adopt",
           j.kind \notin {"confirm", "reconcile"}, NEW i \in Nat, NEW r \in Row, Covers(r),
           NEW k, k = Holding(j, "clear", i, r)
    PROVE  /\ HasRow(k) => JobFine(a, k)
           /\ chain' = chain /\ landed' = landed /\ HasRow(k)' => JobFine(a, k)'
  <1>1. j \in Jobs /\ "clear" \in Steps
    BY DEF JobFine, Steps
  <1>2. /\ k \in Jobs /\ k.step = "clear" /\ k.kind = j.kind /\ k.sid = j.sid /\ k.row = i
        /\ k.read = r /\ k.terms = j.terms /\ k.sale = j.sale /\ k.landings = j.landings
    BY <1>1, JobHolding
  <1>3. k.kind \in {"approvals", "sales", "close"}
    BY <1>2 DEF JobFine, Kinds, Agents
  <1>4. HasRow(k) => JobFine(a, k)
    BY <1>2, <1>3 DEF JobFine, Proved
  <1>5. chain' = chain /\ landed' = landed /\ HasRow(k)' => JobFine(a, k)'
    BY <1>2, <1>3 DEF JobFine, Proved
  <1> QED BY <1>4, <1>5

(* What an adoption is asked to count, and at which rate.                    *)
LEMMA AdoptionIs ==
    ASSUME LedgerInv, NEW a \in Agents, At(a, "adopt")
    PROVE  LET t == Seen(doing[a])
               i == AdoptedRow(doing[a].sid)
           IN  /\ t.gross \in Nat /\ t.mint \in Mints /\ t.for \in Nat
               /\ AdoptionRate(i, t) \in Nat
               /\ i # 0 => i \in DOMAIN rows /\ i \in Nat /\ rows[i].sid = doing[a].sid
                           /\ rows[i] \in Row
               /\ i = 0 => AdoptionRate(i, t) = rates[t.mint]
  <1> DEFINE job == doing[a]
             t == Seen(job)
             i == AdoptedRow(job.sid)
  <1>1. JobFine(a, job) /\ job \in Jobs /\ job.step = "adopt"
    BY JobAt
  <1>2. t \in Approval \cup Sale \cup Request
    BY <1>1 DEF Seen, JobFine, Jobs
  <1>3. t.gross \in Nat /\ t.mint \in Mints /\ t.for \in Nat
    BY <1>2 DEF Approval, Sale, Request
  <1>4. i # 0 => i \in DOMAIN rows /\ rows[i].sid = job.sid
    BY AdoptedRowIsNewest DEF LedgerInv
  <1> HIDE DEF i, t
  <1>5. i # 0 => i \in Nat /\ rows[i] \in Row
    BY <1>4, TwoSequences DEF LedgerInv, RowsFine, RowFine
  <1>6. rates[t.mint] \in Nat
    BY <1>3 DEF LedgerInv, ChainFine
  <1>7. AdoptionRate(i, t) \in Nat /\ (i = 0 => AdoptionRate(i, t) = rates[t.mint])
    BY <1>5, <1>6 DEF AdoptionRate, Row
  <1> QED BY <1>3, <1>4, <1>5, <1>7 DEF i, t

(* An approval or a sale nobody asked about is counted, in the newest row of *)
(* its id, in a row of its own, or already.                                  *)
LEMMA AdoptFine ==
    ASSUME LedgerInv, RowsInv', NEW a \in Agents, Adopt(a)
    PROVE  StepFine
  <1> DEFINE job == doing[a]
             t == Seen(job)
             i == AdoptedRow(job.sid)
             rate == AdoptionRate(i, t)
             new == AdoptedAt(rows[i], t, rate)
             brief == job.kind \in {"confirm", "reconcile"}
             proceed(x, r) == IF brief THEN End(a) ELSE Continue(a, Holding(job, "clear", x, r))
  <1>1. UNCHANGED outside /\ At(a, "adopt")
    BY DEF Adopt
  <1>2. JobFine(a, job) /\ job \in Jobs /\ job.sid \in SaleIds /\ job.step = "adopt"
    BY <1>1, JobAt
  <1>3. /\ t.gross \in Nat /\ t.mint \in Mints /\ t.for \in Nat /\ rate \in Nat
        /\ i # 0 => i \in DOMAIN rows /\ i \in Nat /\ rows[i].sid = job.sid /\ rows[i] \in Row
        /\ i = 0 => rate = rates[t.mint]
    BY <1>1, AdoptionIs
  <1>4. ~At(a, "release")
    BY <1>1 DEF At
  <1>5. \/ NeedsNoAdoption(i, t) /\ proceed(i, rows[i]) /\ UNCHANGED store
        \/ (IF brief THEN End(a) ELSE Then(a, "hold")) /\ UNCHANGED store
        \/ i # 0 /\ SetRow(i, new) /\ proceed(i, new) /\ UNCHANGED <<holds, txs>>
        \/ /\ i = 0 /\ Insert(job.sid, t, TRUE)
           /\ proceed(Len(rows) + 1, NewRow(job.sid, t, TRUE)) /\ UNCHANGED holds
    BY Zenon DEF Adopt
  <1>6. CASE End(a) /\ UNCHANGED store
    BY <1>1, <1>6, EndFine
  <1>7. CASE ~brief /\ Then(a, "hold") /\ UNCHANGED store
    <2> DEFINE k == [job EXCEPT !.step = "hold"]
    <2>1. "hold" \in Steps
      BY DEF Steps
    <2>2. /\ k \in Jobs /\ k.step = "hold" /\ k.kind = job.kind /\ k.sid = job.sid
          /\ k.row = job.row /\ k.read = job.read /\ k.terms = job.terms /\ k.sale = job.sale
          /\ k.landings = job.landings
      BY <1>2, <2>1, JobTo
    <2> HIDE DEF k
    <2>3. job.kind \in {"approvals", "sales", "close"}
      BY <1>2, <1>7 DEF JobFine, Kinds, Agents
    <2>4. JobFine(a, k)
      BY <1>2, <2>2, <2>3 DEF JobFine, HasRow, FreeSince, Proved
    <2> QED BY <1>1, <1>7, <2>1, <2>4, ThenFine DEF k
  <1>8. CASE ~brief /\ NeedsNoAdoption(i, t) /\ UNCHANGED store
             /\ Continue(a, Holding(job, "clear", i, rows[i]))
    <2>1. i # 0 /\ Covers(rows[i])
      BY <1>8 DEF NeedsNoAdoption, Covers, Live
    <2>2. PICK k : k = Holding(job, "clear", i, rows[i])
      OBVIOUS
    <2>3. k.row = i /\ k.sid = job.sid
      <3>1. "clear" \in Steps
        BY DEF Steps
      <3> HIDE DEF i
      <3> QED BY <1>2, <1>3, <2>1, <2>2, <3>1, JobHolding
    <2> HIDE DEF i
    <2>4. JobFine(a, k)
      BY <1>2, <1>3, <1>8, <2>1, <2>2, <2>3, AdoptedJob DEF HasRow
    <2> QED BY <1>1, <1>8, <2>2, <2>4, ReadStep DEF Continue
  <1>9. CASE i # 0 /\ SetRow(i, new) /\ proceed(i, new) /\ UNCHANGED <<holds, txs>>
    <2> DEFINE sale == chain[rows[i].sid].sale
    <2>1. rows' = [rows EXCEPT ![i] = new] /\ holds' = holds /\ txs' = txs /\ i \in DOMAIN rows
      BY <1>3, <1>9 DEF SetRow
    <2>2. RowFine(rows[i], sale)
      BY <2>1 DEF LedgerInv, RowsFine
    <2> HIDE DEF t, rate, i
    <2>3. /\ RowFine(new, sale) /\ new.sid = rows[i].sid /\ Asking(new) <= Asking(rows[i])
          /\ new.st = "reserved"
      BY <1>3, <2>2, AdoptedFine
    <2> HIDE DEF new
    <2>4. new \in Row /\ Covers(new)
      BY <2>3 DEF RowFine, Covers, Live
    <2>5. CASE End(a)
      <3>1. doing' = [doing EXCEPT ![a] = Idle]
        BY <2>5 DEF End
      <3> QED BY <1>1, <1>4, <2>1, <2>3, <3>1, WriteStep
    <2>6. CASE ~brief /\ Continue(a, Holding(job, "clear", i, new))
      <3>1. PICK k : k = Holding(job, "clear", i, new)
        OBVIOUS
      <3>2. k.row = i /\ k.sid = job.sid
        <4>1. "clear" \in Steps
          BY DEF Steps
        <4> QED BY <1>2, <1>3, <1>9, <2>4, <3>1, <4>1, JobHolding
      <3>3. JobFine(a, k)
        BY <1>2, <1>3, <1>9, <2>4, <2>6, <3>1, <3>2, AdoptedJob DEF HasRow
      <3>4. doing' = [doing EXCEPT ![a] = k]
        BY <2>6, <3>1 DEF Continue
      <3> QED BY <1>1, <1>4, <2>1, <2>3, <3>3, <3>4, WriteStep
    <2> QED BY <1>9, <2>5, <2>6
  <1>10. CASE /\ i = 0 /\ Insert(job.sid, t, TRUE)
              /\ proceed(Len(rows) + 1, NewRow(job.sid, t, TRUE)) /\ UNCHANGED holds
    <2> DEFINE r == NewRow(job.sid, t, TRUE)
               n == Len(rows) + 1
               tx == [sid |-> job.sid, st |-> "past", gross |-> t.gross, mint |-> t.mint,
                      for |-> t.for]
               sale == chain[job.sid].sale
    <2>1. rows' = Append(rows, r) /\ txs' = Append(txs, tx) /\ holds' = holds
      BY <1>10 DEF Insert
    <2>2. rates \in [Mints -> Nat]
      BY DEF LedgerInv, ChainFine
    <2> HIDE DEF t, i
    <2>3. tx \in Tx /\ tx.st = "past"
      BY <1>2, <1>3 DEF Tx
    <2>4. RowFine(r, sale) /\ r.sid = job.sid /\ r.st = "reserved" /\ Asking(r) = 0
      BY <1>2, <1>3, <2>2, NewRowFine
    <2> HIDE DEF r, tx
    <2>5. r \in Row /\ Covers(r)
      BY <2>4 DEF RowFine, Covers, Live
    <2>6. n \in Nat /\ n \in DOMAIN rows' /\ rows'[n] = r
      <3>1. Len(rows) \in Nat /\ rows = [x \in 1..Len(rows) |-> rows[x]]
        BY DEF LedgerInv, RowsInv
      <3>2. rows \in Seq({rows[x] : x \in 1..Len(rows)})
        BY <3>1
      <3> QED BY <2>1, <3>1, <3>2
    <2>7. CASE End(a)
      <3>1. doing' = [doing EXCEPT ![a] = Idle]
        BY <2>7 DEF End
      <3> QED BY <1>1, <2>1, <2>3, <2>4, <3>1, InsertStep
    <2>8. CASE ~brief /\ Continue(a, Holding(job, "clear", n, r))
      <3> HIDE DEF n
      <3>1. PICK k : k = Holding(job, "clear", n, r)
        OBVIOUS
      <3>2. k.row = n /\ k.sid = job.sid
        <4>1. "clear" \in Steps
          BY DEF Steps
        <4>2. n \in Nat /\ r \in Row /\ job \in Jobs
          BY <1>2, <2>5, <2>6
        <4> QED BY <3>1, <4>1, <4>2, JobHolding
      <3>3. HasRow(k)'
        BY <2>4, <2>6, <3>2 DEF HasRow
      <3>4. chain' = chain /\ landed' = landed
        BY <1>1 DEF outside
      <3>5. PICK j : j = job
        OBVIOUS
      <3>6. JobFine(a, k)'
        BY <1>2, <2>5, <2>6, <2>8, <3>1, <3>3, <3>4, <3>5, AdoptedJob
      <3>7. doing' = [doing EXCEPT ![a] = k]
        BY <2>8, <3>1 DEF Continue
      <3> QED BY <1>1, <2>1, <2>3, <2>4, <3>6, <3>7, InsertStep
    <2> QED BY <1>10, <2>7, <2>8 DEF r
  <1> QED BY <1>5, <1>6, <1>7, <1>8, <1>9, <1>10

-----------------------------------------------------------------------------
(* Every step keeps the invariant and does what is to be shown of it.        *)
LEMMA NextFine ==
    ASSUME LedgerInv, [Next]_vars
    PROVE  StepFine
  <1>1. RowsInv'
    BY NextIsRowsStep, RowsInvInductive DEF LedgerInv
  <1>2. "worker" \in Agents /\ "admin" \in Agents
    BY DEF Agents
  <1>3. CASE AdminStep
    BY <1>1, <1>2, <1>3, StartReserveFine, StartsFine, ReserveFine, ConfirmLookFine,
       ReleaseLookFine, ReleaseProveFine, ReleaseFinalizedFine, AdoptFine, ConfirmFine,
       ReleaseFine DEF AdminStep
  <1>4. CASE WorkerProceeds
    BY <1>1, <1>2, <1>4, ReconcileLookFine, ApprovalScanFine, SaleLookFine, CloseCoverFine,
       AdoptFine, HoldFine, ClearFine, ConfirmFine, ReleaseFine, ConsumeFine, BookFine
       DEF WorkerProceeds
  <1>5. CASE WorkerStarts
    BY <1>5, StartsFine, StartScansFine DEF WorkerStarts
  <1> QED BY <1>3, <1>4, <1>5, ChainStepFine, SetRateFine, AbortFine, StutterFine DEF Next

(* The ledger begins empty.                                                  *)
LEMMA InitFine ==
    ASSUME Init
    PROVE  LedgerInv /\ CapExceededOnlyByAdoption
  <1>1. rows = <<>> /\ txs = <<>> /\ Len(rows) = 0 /\ DOMAIN rows = {} /\ DOMAIN txs = {}
    BY DEF Init
  <1>2. RowsInv /\ RowsFine
    BY <1>1 DEF RowsInv, RowsFine
  <1>3. Unused \in Account /\ Unused.approval = None /\ Unused.sale = None
    BY DEF Unused, Account
  <1>4. ChainFine
    BY <1>3, SaleCapacityAssumption DEF Init, ChainFine, Behind
  <1>5. TxsFine
    BY <1>1, <1>3 DEF Init, TxsFine
  <1>6. JobsFine
    BY DEF Init, JobsFine
  <1>7. CapExceededOnlyByAdoption
    <2>1. IsFiniteSet({}) /\ Asks \in [{} -> Int] /\ \A i \in {} : Asks[i] = 0
      BY <1>1, FS_EmptySet DEF Asks
    <2>2. SumOf(Asks, {}) = 0
      BY <2>1, ZeroSum
    <2> QED BY <1>1, <2>2, CapIsOfAsks, SaleCapacityAssumption
  <1> QED BY <1>2, <1>4, <1>5, <1>6, <1>7 DEF LedgerInv

(* The inductive invariant of the whole ledger: whatever is sent, read and   *)
(* written in whichever order, what a handler holds stays true of the chain  *)
(* and the rows until it writes.                                             *)
THEOREM LedgerInvariance == Spec => []LedgerInv
  <1>1. Init => LedgerInv
    BY InitFine
  <1>2. LedgerInv /\ [Next]_vars => LedgerInv'
    BY NextFine DEF StepFine
  <1> QED BY <1>1, <1>2, PTL DEF Spec

(* FollowsItsSale, for every instance: a consumed row counts at least its    *)
(* sale's size and a booked one exactly what the closed sale sold, although  *)
(* the worker writes what it read of the sale some steps before.             *)
THEOREM FollowsSaleSafe == Spec => []FollowsItsSale
  <1>1. LedgerInv => FollowsItsSale
    BY DEF LedgerInv, RowsFine, RowFine, Follows, FollowsItsSale
  <1> QED BY <1>1, LedgerInvariance, PTL

(* CapExceededOnlyByAdoption, for every instance: the amounts the cap was    *)
(* asked for add up to no more than the cap; a sale of another size, a       *)
(* booking and an adoption only ever lower that sum.                         *)
THEOREM CapSafe == Spec => []CapExceededOnlyByAdoption
  <1>1. Init => CapExceededOnlyByAdoption
    BY InitFine
  <1>2. LedgerInv /\ CapExceededOnlyByAdoption /\ [Next]_vars => CapExceededOnlyByAdoption'
    BY NextFine DEF StepFine, CapKept
  <1> QED BY <1>1, <1>2, LedgerInvariance, PTL DEF Spec

(* ReleaseIsJustified, for every instance: at the moment the release is      *)
(* written the chain has nothing of the id that could take capacity, unless  *)
(* an approval landed after the handler's look.                              *)
THEOREM ReleasesAreJustified == Spec => ReleaseIsJustified
  <1>1. LedgerInv /\ [Next]_vars => ReleasesJustified
    BY NextFine DEF StepFine
  <1>2. ReleasesJustified <=>
           \A i \in DOMAIN rows, a \in Agents :
              (rows[i].st = "reserved" /\ rows'[i].st = "released"
                  /\ At(a, "release") /\ doing'[a] = Idle)
              => LET job == doing[a]
                     now == chain[rows[i].sid]
                 IN  /\ \/ now.sale = None /\ (now.approval = None \/ now.approval.lapsed)
                        \/ landed[rows[i].sid] > job.landings
                     /\ (job.kind = "release" /\ ~job.read.conf) =>
                          /\ txs[i].st \in {"failed", "past"}
                          /\ now.approval = None \/ now.approval.for # i
    BY DEF ReleasesJustified, LetGo, Justified
  <1> QED BY <1>1, <1>2, LedgerInvariance, PTL DEF Spec, ReleaseIsJustified

(* HoldsEndCounted, for every instance: the subject of an uncounted sale is  *)
(* open for reservations again only once a row was seen to count that sale.  *)
THEOREM HoldsEnd == Spec => HoldsEndCounted
  <1>1. LedgerInv /\ [Next]_vars => HoldsCounted
    BY NextFine DEF StepFine
  <1> QED BY <1>1, LedgerInvariance, PTL DEF Spec, HoldsEndCounted, HoldsCounted
=============================================================================
