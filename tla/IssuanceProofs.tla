---------------------------- MODULE IssuanceProofs ----------------------------
(***************************************************************************)
(* Proofs about the two ways units of a class come to their holders: a     *)
(* vesting series (VestingSeries), for any wallets, schedules,             *)
(* allocations, amounts and windows, and a primary sale (PrimarySale), for *)
(* every share class, every set of sale ids, Admins, terms and amounts.    *)
(***************************************************************************)
EXTENDS VestingSeries, PrimarySale, SumTheorems

-----------------------------------------------------------------------------
(* What holds of a series between two instructions.                          *)
AllocationsOf(ps) == [p \in DOMAIN ps |-> ps[p].allocation]
ReleasedOf(ps)    == [p \in DOMAIN ps |-> ps[p].released]

Begins ==
    /\ series = NoSeries => positions = <<>>
    /\ terms # NoSeries => terms.pre_cliff_bps <= 10000

(* The two totals of a series are those of its positions.                    *)
Booked ==
    series # NoSeries =>
        /\ series.total_allocated = Total(AllocationsOf(positions))
        /\ series.total_released = Total(ReleasedOf(positions))

(* Nothing leaves the escrow of a draft.                                     *)
DraftUntouched ==
    StatusIn({"Draft"}) =>
        /\ escrow >= series.deposited
        /\ \A p \in DOMAIN positions : positions[p].released = 0

(* What a running or cancelled series promises has been allocated.           *)
PromiseFits ==
    /\ StatusIn({"Active"}) => IsCommitted
    /\ StatusIn({"Cancelled"}) => series.final_cumulative <= series.total_allocated

(* No position has received more than what it owns by now.                   *)
NothingEarly ==
    StatusIn({"Active", "Cancelled"}) =>
        \A p \in DOMAIN positions : positions[p].released <= Owned(p)

(* What was deposited towards the promise is in the escrow or delivered.     *)
EscrowCovers ==
    series # NoSeries =>
        escrow + series.total_released >= Min({series.deposited, Promised})

(* The inductive invariant.                                                  *)
VestingInv ==
    /\ VestingTypeOK /\ Begins /\ Booked /\ DraftUntouched /\ PromiseFits
    /\ NothingEarly /\ EscrowCovers
    /\ unvetted <= identity.own_refunded

-----------------------------------------------------------------------------
(* Integers.                                                                 *)
LEMMA MinOfTwo ==
    ASSUME NEW x \in Int, NEW y \in Int
    PROVE  Min({x, y}) = IF x <= y THEN x ELSE y
  BY DEF Min

(* AtLeastZero cuts a negative number off.                                   *)
LEMMA MaxOfTwo ==
    ASSUME NEW x \in Int
    PROVE  AtLeastZero(x) = IF x <= 0 THEN 0 ELSE x
  BY DEF Max, AtLeastZero

(* A position's share of an amount.                                          *)
Share(allocation, amount, total) ==
    IF total = 0 THEN 0 ELSE (allocation * amount) \div total

(* What a position is entitled to is its share of the amount.                *)
LEMMA EntitlementIsShare ==
    ASSUME NEW p, NEW c
    PROVE  vesting_position_entitlement(p, c)
               = Share(positions[p].allocation, c, series.total_allocated)
  BY DEF vesting_position_entitlement, Share

(* A product of natural numbers grows with either.                           *)
LEMMA ProductMonotone ==
    ASSUME NEW x \in Nat, NEW y \in Nat, NEW z \in Nat, x <= y
    PROVE  z * x \in Nat /\ z * y \in Nat /\ z * x <= z * y
  <1>1. PICK d \in Nat : y = x + d
    <2>1. y - x \in Nat /\ y = x + (y - x)
      OBVIOUS
    <2> QED BY <2>1
  <1>2. z * (x + d) = z * x + z * d /\ z * x \in Nat /\ z * d \in Nat
    OBVIOUS
  <1> QED BY <1>1, <1>2

(* A larger amount makes no share smaller.                                   *)
LEMMA ShareMonotone ==
    ASSUME NEW a \in Nat, NEW c \in Nat, NEW d \in Nat, NEW t \in Nat, c <= d
    PROVE  /\ Share(a, c, t) \in Nat /\ Share(a, d, t) \in Nat
           /\ Share(a, c, t) <= Share(a, d, t)
  <1>1. CASE t = 0
    BY <1>1 DEF Share
  <1>2. CASE t # 0
    <2> DEFINE m == a * c
               n == a * d
    <2>1. m \in Nat /\ n \in Nat /\ m <= n
      BY ProductMonotone
    <2>2. Share(a, c, t) = m \div t /\ Share(a, d, t) = n \div t
      BY <1>2 DEF Share
    <2> HIDE DEF m, n
    <2>3. \A k \in Nat : k \div t \in Nat /\ t * (k \div t) <= k /\ k < t * ((k \div t) + 1)
      BY <1>2
    <2>4. PICK x \in Nat, y \in Nat : x = m \div t /\ y = n \div t
      BY <2>1, <2>3
    <2>5. t * x <= m /\ n < t * (y + 1)
      BY <2>1, <2>3, <2>4
    <2>6. y + 1 <= x => t * (y + 1) <= t * x
      BY ProductMonotone
    <2>7. t * x \in Nat /\ t * (y + 1) \in Nat
      OBVIOUS
    <2>8. x <= y
      BY <2>1, <2>5, <2>6, <2>7
    <2> QED BY <2>2, <2>4, <2>8
  <1> QED BY <1>1, <1>2

(* A share in basis points is no more than the whole.                        *)
LEMMA PreCliffFits ==
    ASSUME NEW total \in Nat, NEW bps \in Nat, bps <= 10000
    PROVE  (total * bps) \div 10000 \in Nat /\ (total * bps) \div 10000 <= total
  <1> DEFINE n == total * bps
  <1>1. n \in Nat /\ n <= total * 10000
    BY ProductMonotone
  <1> HIDE DEF n
  <1>2. n \div 10000 \in Nat /\ n \div 10000 <= total
    BY <1>1
  <1> QED BY <1>2 DEF n

(* An element of a sequence.                                                 *)
LEMMA Element ==
    ASSUME NEW S, NEW s \in Seq(S)
    PROVE  /\ Len(s) \in Nat /\ DOMAIN s = 1..Len(s) /\ IsFiniteSet(DOMAIN s)
           /\ \A i \in DOMAIN s : s[i] \in S
  <1>1. Len(s) \in Nat /\ DOMAIN s = 1..Len(s) /\ \A i \in DOMAIN s : s[i] \in S
    OBVIOUS
  <1>2. IsFiniteSet(1..Len(s))
    BY <1>1, FS_Interval
  <1> QED BY <1>1, <1>2

-----------------------------------------------------------------------------
(* Sums.                                                                     *)
(* A total is a sum over the domain.                                         *)
LEMMA TotalIsSum == \A f : Total(f) = SumOf(f, DOMAIN f)
  BY Zenon DEF Total, SumOf

(* A total of natural numbers is one.                                        *)
LEMMA TotalType ==
    ASSUME NEW S, IsFiniteSet(S), NEW f \in [S -> Nat]
    PROVE  Total(f) \in Nat /\ Total(f) = SumOf(f, S)
  <1>1. DOMAIN f = S /\ f \in [S -> Int]
    OBVIOUS
  <1>2. Total(f) = SumOf(f, S)
    BY <1>1, TotalIsSum
  <1> QED BY <1>1, <1>2, SumType

(* Some of the terms add up to no more than all of them.                     *)
LEMMA PartOfTotal ==
    ASSUME NEW S, IsFiniteSet(S), NEW R \in SUBSET S,
           NEW f \in [S -> Nat], NEW g \in [R -> Nat], \A i \in R : g[i] = f[i]
    PROVE  Total(g) \in Nat /\ Total(f) \in Nat /\ Total(g) <= Total(f)
  <1> DEFINE h == [i \in S |-> IF i \in R THEN g[i] ELSE 0]
  <1>1. IsFiniteSet(R)
    BY FS_Subset
  <1>2. /\ f \in [S -> Int] /\ g \in [R -> Int] /\ h \in [S -> Int]
        /\ \A i \in S : h[i] = IF i \in R THEN g[i] ELSE 0
        /\ \A i \in S : h[i] <= f[i]
    OBVIOUS
  <1> HIDE DEF h
  <1>3. SumOf(h, S) = SumOf(g, R)
    BY <1>2, SumOverSubset
  <1>4. SumOf(h, S) <= SumOf(f, S)
    BY <1>2, SumMonotone
  <1>5. Total(g) \in Nat /\ Total(g) = SumOf(g, R)
    BY <1>1, TotalType
  <1>6. Total(f) \in Nat /\ Total(f) = SumOf(f, S)
    BY TotalType
  <1> QED BY <1>3, <1>4, <1>5, <1>6

-----------------------------------------------------------------------------
(* What a schedule adds up to.                                               *)
UnlockedBy(t, time) == {i \in DOMAIN t.tranches : t.tranches[i].unlock_ts <= time}
Sums(t, S) == Total([i \in S |-> t.tranches[i].amount])

(* The schedule as sums over the tranches of the terms.                      *)
LEMMA ScheduleSums ==
    terms # NoSeries =>
        /\ vesting_schedule_total = Sums(terms, DOMAIN terms.tranches)
        /\ vesting_cumulative = Sums(terms, UnlockedBy(terms, now))
  BY Zenon DEF vesting_schedule_total, vesting_cumulative, SumOfTranches, Tranches,
               Sums, UnlockedBy

(* Fewer tranches add up to no more.                                         *)
LEMMA FewerTranches ==
    ASSUME NEW t \in SeriesTerms, NEW Q \in SUBSET DOMAIN t.tranches, NEW R \in SUBSET Q
    PROVE  Sums(t, R) \in Nat /\ Sums(t, Q) \in Nat /\ Sums(t, R) <= Sums(t, Q)
  <1> DEFINE f == [i \in Q |-> t.tranches[i].amount]
             g == [i \in R |-> t.tranches[i].amount]
  <1>1. t.tranches \in Seq([unlock_ts : Nat, amount : Nat])
    BY VestingAssumption
  <1>2. /\ IsFiniteSet(DOMAIN t.tranches)
        /\ \A i \in DOMAIN t.tranches : t.tranches[i] \in [unlock_ts : Nat, amount : Nat]
    BY <1>1, Element
  <1>3. IsFiniteSet(Q)
    BY <1>2, FS_Subset
  <1>4. \A i \in Q : t.tranches[i].amount \in Nat
    BY <1>2
  <1>5. f \in [Q -> Nat] /\ g \in [R -> Nat] /\ \A i \in R : g[i] = f[i]
    BY <1>4
  <1>6. Sums(t, Q) = Total(f) /\ Sums(t, R) = Total(g)
    BY DEF Sums
  <1> HIDE DEF f, g
  <1> QED BY <1>3, <1>5, <1>6, PartOfTotal

-----------------------------------------------------------------------------
(* What the positions own is their share of this.                            *)
Basis == IF series.status = "Cancelled" THEN series.final_cumulative ELSE vesting_cumulative

(* What a position owns is its share of the promised amount,                 *)
LEMMA OwnedIsShare ==
    ASSUME NEW p
    PROVE  Owned(p) = Share(positions[p].allocation, Basis, series.total_allocated)
  BY EntitlementIsShare DEF Owned, Basis

(* also after a step.                                                        *)
LEMMA OwnedIsShareNext ==
    ASSUME NEW p
    PROVE  Owned(p)' = Share(positions'[p].allocation, Basis', series'.total_allocated)
  BY DEF Owned, Basis, vesting_position_entitlement, Share

(* The fields of the accounts.                                               *)
LEMMA Fields ==
    ASSUME VestingTypeOK
    PROVE  /\ positions \in Seq([wallet : Wallets, allocation : Nat, released : Nat])
           /\ Len(positions) \in Nat /\ DOMAIN positions = 1..Len(positions)
           /\ IsFiniteSet(DOMAIN positions)
           /\ \A p \in DOMAIN positions :
                positions[p] \in [wallet : Wallets, allocation : Nat, released : Nat]
           /\ series # NoSeries =>
                /\ series \in SeriesState /\ series.status \in Statuses
                /\ series.total_allocated \in Nat /\ series.deposited \in Nat
                /\ series.total_released \in Nat /\ series.final_cumulative \in Nat
                /\ terms \in SeriesTerms /\ terms # NoSeries
           /\ identity.own_deposited \in Nat /\ identity.own_refunded \in Nat
           /\ escrow \in Nat /\ unvetted \in Nat
  <1>1. positions \in Seq([wallet : Wallets, allocation : Nat, released : Nat])
    BY DEF VestingTypeOK
  <1>2. series # NoSeries =>
           /\ series \in SeriesState /\ terms \in SeriesTerms /\ terms # NoSeries
    BY DEF VestingTypeOK
  <1>3. series # NoSeries =>
           /\ series.status \in Statuses
           /\ series.total_allocated \in Nat /\ series.deposited \in Nat
           /\ series.total_released \in Nat /\ series.final_cumulative \in Nat
    BY <1>2 DEF SeriesState
  <1>4. identity.own_deposited \in Nat /\ identity.own_refunded \in Nat
        /\ escrow \in Nat /\ unvetted \in Nat
    BY DEF VestingTypeOK
  <1> QED BY <1>1, <1>2, <1>3, <1>4, Element

(* What has unlocked is part of the schedule, what may be delivered part of  *)
(* what is owned.                                                            *)
AmountsFit ==
    /\ vesting_schedule_total \in Nat /\ vesting_cumulative \in Nat
    /\ vesting_cumulative <= vesting_schedule_total
    /\ Basis \in Nat
    /\ vesting_deliverable_cumulative \in Nat
    /\ vesting_deliverable_cumulative <= Basis

(* Types make the amounts of a series fit.                                   *)
LEMMA AmountsFine == VestingTypeOK /\ series # NoSeries => AmountsFit
  <1> SUFFICES ASSUME VestingTypeOK, series # NoSeries PROVE AmountsFit
    OBVIOUS
  <1>1. /\ terms \in SeriesTerms /\ terms # NoSeries /\ series.final_cumulative \in Nat
        /\ Tranches = DOMAIN terms.tranches
    BY Fields DEF Tranches
  <1>2. UnlockedBy(terms, now) \in SUBSET DOMAIN terms.tranches
    BY DEF UnlockedBy
  <1>3. /\ Sums(terms, UnlockedBy(terms, now)) \in Nat
        /\ Sums(terms, DOMAIN terms.tranches) \in Nat
        /\ Sums(terms, UnlockedBy(terms, now)) <= Sums(terms, DOMAIN terms.tranches)
    BY <1>1, <1>2, FewerTranches
  <1>4. /\ vesting_schedule_total \in Nat /\ vesting_cumulative \in Nat
        /\ vesting_cumulative <= vesting_schedule_total
    BY <1>1, <1>3, ScheduleSums
  <1> DEFINE ripe == {i \in Tranches : terms.tranches[i].unlock_ts <= now /\ Ripe(i)}
  <1>5. SumOfTranches(ripe) \in Nat /\ SumOfTranches(ripe) <= vesting_cumulative
    <2>1. ripe \in SUBSET UnlockedBy(terms, now)
      BY <1>1 DEF UnlockedBy
    <2>2. SumOfTranches(ripe) = Sums(terms, ripe)
      BY Zenon DEF SumOfTranches, Sums
    <2> HIDE DEF ripe
    <2> QED BY <1>1, <1>2, <2>1, <2>2, ScheduleSums, FewerTranches
  <1>6. \/ series.status = "Cancelled"
           /\ vesting_deliverable_cumulative = series.final_cumulative
        \/ series.status # "Cancelled"
           /\ vesting_deliverable_cumulative \in {0, vesting_cumulative, SumOfTranches(ripe)}
    BY DEF vesting_deliverable_cumulative
  <1> HIDE DEF ripe
  <1> QED BY <1>1, <1>4, <1>5, <1>6 DEF Basis, AmountsFit

(* A position owns no less when more has unlocked.                           *)
LEMMA OwnedFine ==
    ASSUME VestingTypeOK, series # NoSeries, NEW p \in DOMAIN positions
    PROVE  /\ Owned(p) \in Nat
           /\ vesting_position_entitlement(p, vesting_deliverable_cumulative) \in Nat
           /\ vesting_position_entitlement(p, vesting_deliverable_cumulative) <= Owned(p)
  <1> USE AmountsFine DEF AmountsFit
  <1>1. positions[p].allocation \in Nat /\ series.total_allocated \in Nat
    BY Fields
  <1> QED BY <1>1, OwnedIsShare, EntitlementIsShare, ShareMonotone

-----------------------------------------------------------------------------
(* What the positions can claim in the end adds up to no more than what is   *)
(* promised and not delivered.                                               *)
ToClaim == [p \in DOMAIN positions |->
               vesting_position_entitlement(p, Promised) - positions[p].released]

(* An active or cancelled series promises enough.                            *)
LEMMA PromiseIsEnough ==
    ASSUME VestingInv, StatusIn({"Active", "Cancelled"})
    PROVE  /\ Promised \in Nat /\ Promised <= series.total_allocated
           /\ series.total_released <= Promised
           /\ Total(ToClaim) \in Int
           /\ Total(ToClaim) <= Promised - series.total_released
  <1>1. /\ VestingTypeOK /\ series # NoSeries /\ series.status \in {"Active", "Cancelled"}
        /\ Booked /\ PromiseFits /\ NothingEarly
    BY DEF VestingInv, StatusIn
  <1>2. /\ series.total_allocated \in Nat /\ series.total_released \in Nat
        /\ series.final_cumulative \in Nat /\ IsFiniteSet(DOMAIN positions)
        /\ \A p \in DOMAIN positions :
             positions[p].allocation \in Nat /\ positions[p].released \in Nat
    BY <1>1, Fields
  <1>3. Promised \in Nat /\ Promised <= series.total_allocated /\ Basis <= Promised
    BY <1>1, <1>2, AmountsFine DEF AmountsFit, Promised, Basis, PromiseFits, StatusIn,
                                   IsCommitted
  <1> DEFINE S == DOMAIN positions
             t == series.total_allocated
             w == AllocationsOf(positions)
             r == ReleasedOf(positions)
             e == [p \in S |-> Share(positions[p].allocation, Promised, t)]
             c == ToClaim
  <1>4. w \in [S -> Nat] /\ r \in [S -> Nat] /\ \A p \in S : r[p] = positions[p].released
    BY <1>2 DEF AllocationsOf, ReleasedOf
  <1>5. ASSUME NEW p \in S
        PROVE  e[p] \in Nat /\ r[p] <= e[p] /\ c[p] = e[p] - r[p]
    <2>1. positions[p].released <= Owned(p)
      BY <1>1 DEF NothingEarly, StatusIn
    <2>2. /\ Share(positions[p].allocation, Promised, t) \in Nat
          /\ Owned(p) \in Nat
          /\ Owned(p) <= Share(positions[p].allocation, Promised, t)
      BY <1>1, <1>2, <1>3, AmountsFine, OwnedIsShare, ShareMonotone DEF AmountsFit
    <2>3. c[p] = Share(positions[p].allocation, Promised, t) - positions[p].released
      BY EntitlementIsShare DEF ToClaim
    <2> QED BY <1>2, <1>4, <2>1, <2>2, <2>3
  <1>6. SumOf(w, S) = t /\ SumOf(r, S) = series.total_released
    BY <1>1, <1>2, <1>4, TotalType DEF Booked
  <1>7. e \in [S -> Nat] /\ c \in [S -> Int] /\ DOMAIN c = S
    <2>1. DOMAIN c = S
      BY DEF ToClaim
    <2>2. c = [p \in S |-> c[p]]
      BY DEF ToClaim
    <2>3. \A p \in S : e[p] \in Nat /\ c[p] \in Int
      BY <1>4, <1>5
    <2> QED BY <2>1, <2>2, <2>3
  <1>8. SumOf(e, S) \in Nat /\ SumOf(e, S) <= Promised
    <2>1. CASE t = 0
      <3>1. e \in [S -> Int] /\ \A p \in S : e[p] = 0
        BY <1>7, <2>1 DEF Share
      <3>2. SumOf(e, S) = 0
        BY <1>2, <3>1, ZeroSum
      <3> QED BY <1>3, <3>2
    <2>2. CASE t # 0
      <3>1. e = [p \in S |-> (w[p] * Promised) \div t]
        BY <2>2 DEF Share, AllocationsOf
      <3>2. t \in Nat \ {0} /\ SumOf(w, S) <= t
        BY <1>2, <1>6, <2>2
      <3> HIDE DEF S, t, w, e
      <3> QED BY <1>2, <1>3, <1>4, <3>1, <3>2, SharesFit DEF S
    <2> QED BY <2>1, <2>2
  <1> HIDE DEF w, r, e, c
  <1>9. r \in [S -> Int] /\ e \in [S -> Int] /\ (\A p \in S : r[p] <= e[p])
        /\ (\A p \in S : c[p] = e[p] - r[p])
    BY <1>4, <1>5, <1>7
  <1>10. SumOf(r, S) <= SumOf(e, S)
    BY <1>2, <1>9, SumMonotone
  <1>11. SumOf(c, S) = SumOf(e, S) - SumOf(r, S)
    BY <1>2, <1>7, <1>9, SumOfDifferences
  <1>12. Total(c) = SumOf(c, S)
    BY <1>7, TotalIsSum
  <1>13. /\ series.total_released <= Promised
         /\ Total(c) \in Int /\ Total(c) <= Promised - series.total_released
    BY <1>2, <1>3, <1>6, <1>8, <1>10, <1>11, <1>12
  <1> QED BY <1>3, <1>13 DEF c

(* Both conjuncts of RecipientsBacked follow.                                *)
LEMMA InvBacks == VestingInv => RecipientsBacked
  <1> SUFFICES ASSUME VestingInv PROVE RecipientsBacked
    OBVIOUS
  <1>1. VestingTypeOK /\ EscrowCovers
    BY DEF VestingInv
  <1>2. ASSUME StatusIn({"Active", "Cancelled"})
        PROVE  /\ escrow >= Min({series.deposited, Promised}) - series.total_released
               /\ series.deposited >= Promised => escrow >= Total(ToClaim)
    <2>1. series # NoSeries /\ escrow \in Nat /\ series.deposited \in Nat
          /\ series.total_released \in Nat
      BY <1>1, <1>2, Fields DEF StatusIn
    <2>2. /\ Promised \in Nat /\ Total(ToClaim) \in Int
          /\ Total(ToClaim) <= Promised - series.total_released
      BY <1>2, PromiseIsEnough
    <2>3. /\ escrow + series.total_released >= Min({series.deposited, Promised})
          /\ Min({series.deposited, Promised})
                = IF series.deposited <= Promised THEN series.deposited ELSE Promised
      BY <1>1, <2>1, <2>2, MinOfTwo DEF EscrowCovers
    <2> QED BY <2>1, <2>2, <2>3
  <1> QED BY <1>1, <1>2, Zenon DEF RecipientsBacked, ToClaim

(* Before the first instruction there is no series.                          *)
LEMMA InitInv == VestingInit => VestingInv
  <1> SUFFICES ASSUME VestingInit PROVE VestingInv
    OBVIOUS
  <1>1. terms = NoSeries /\ series = NoSeries /\ positions = <<>>
    BY DEF VestingInit
  <1>2. /\ now = 0 /\ paused = FALSE /\ eligible = {} /\ blocked = {}
        /\ escrow = 0 /\ unvetted = 0
        /\ identity = [own_deposited |-> 0, own_refunded |-> 0]
    BY DEF VestingInit
  <1>3. VestingTypeOK
    <2>1. paused \in BOOLEAN
      BY <1>2, Zenon
    <2>2. positions \in Seq([wallet : Wallets, allocation : Nat, released : Nat])
      BY <1>1
    <2> QED BY <1>1, <1>2, <2>1, <2>2 DEF VestingTypeOK
  <1>4. ~StatusIn({"Draft"}) /\ ~StatusIn({"Active"}) /\ ~StatusIn({"Cancelled"})
        /\ ~StatusIn({"Active", "Cancelled"})
    BY <1>1 DEF StatusIn
  <1> QED
    BY <1>1, <1>2, <1>3, <1>4
    DEF VestingInv, Begins, Booked, DraftUntouched, PromiseFits, NothingEarly, EscrowCovers

-----------------------------------------------------------------------------
(* As time passes, more of the same schedule has unlocked.                   *)
LEMMA CumulativeGrows ==
    ASSUME VestingTypeOK, VestingTypeOK', terms # NoSeries, terms' = terms, now <= now'
    PROVE  /\ vesting_cumulative <= vesting_cumulative'
           /\ vesting_schedule_total' = vesting_schedule_total
  <1>1. (terms # NoSeries =>
            /\ vesting_schedule_total = Sums(terms, DOMAIN terms.tranches)
            /\ vesting_cumulative = Sums(terms, UnlockedBy(terms, now)))'
    BY ScheduleSums, PTL
  <1>2. /\ vesting_schedule_total' = Sums(terms, DOMAIN terms.tranches)
        /\ vesting_cumulative' = Sums(terms, UnlockedBy(terms, now'))
    BY <1>1
  <1>3. terms \in SeriesTerms /\ now \in Nat /\ now' \in Nat
    BY DEF VestingTypeOK
  <1>4. UnlockedBy(terms, now) \in SUBSET UnlockedBy(terms, now')
    <2>1. terms.tranches \in Seq([unlock_ts : Nat, amount : Nat])
      BY <1>3, VestingAssumption
    <2>2. \A i \in DOMAIN terms.tranches :
              terms.tranches[i] \in [unlock_ts : Nat, amount : Nat]
      BY <2>1, Element
    <2>3. \A i \in DOMAIN terms.tranches : terms.tranches[i].unlock_ts \in Nat
      BY <2>2
    <2> QED BY <1>3, <2>3 DEF UnlockedBy
  <1>5. UnlockedBy(terms, now') \in SUBSET DOMAIN terms.tranches
    BY DEF UnlockedBy
  <1>6. Sums(terms, UnlockedBy(terms, now)) <= Sums(terms, UnlockedBy(terms, now'))
    BY <1>3, <1>4, <1>5, FewerTranches
  <1> QED BY <1>2, <1>6, ScheduleSums

(* A position whose share is taken of no less owns no less.                  *)
LEMMA OwnedGrows ==
    ASSUME VestingTypeOK, VestingTypeOK', series # NoSeries, series' # NoSeries,
           Basis <= Basis',
           series'.total_allocated = series.total_allocated,
           NEW p \in DOMAIN positions, p \in DOMAIN positions',
           positions'[p].allocation = positions[p].allocation
    PROVE  Owned(p) \in Nat /\ Owned(p)' \in Nat /\ Owned(p) <= Owned(p)'
  <1>1. Owned(p)' = Share(positions'[p].allocation, Basis', series'.total_allocated)
    BY OwnedIsShareNext
  <1>2. AmountsFit /\ AmountsFit'
    <2>1. (VestingTypeOK /\ series # NoSeries => AmountsFit)'
      BY AmountsFine, PTL
    <2> QED BY <2>1, AmountsFine
  <1>3. positions[p].allocation \in Nat /\ series.total_allocated \in Nat
    BY Fields
  <1> DEFINE a == positions[p].allocation
             t == series.total_allocated
             b == Basis
             c == Basis'
  <1>4. Owned(p) = Share(a, b, t) /\ Owned(p)' = Share(a, c, t)
    BY <1>1, OwnedIsShare
  <1>5. a \in Nat /\ t \in Nat /\ b \in Nat /\ c \in Nat /\ b <= c
    BY <1>2, <1>3 DEF AmountsFit
  <1> HIDE DEF a, t, b, c
  <1>6. Share(a, b, t) \in Nat /\ Share(a, c, t) \in Nat /\ Share(a, b, t) <= Share(a, c, t)
    BY <1>5, ShareMonotone
  <1> QED BY <1>4, <1>6

-----------------------------------------------------------------------------
(* A step that leaves the client's terms, the positions and the totals       *)
(* alone.                                                                    *)
LEMMA TotalsKept ==
    ASSUME VestingInv, series # NoSeries, UNCHANGED <<environment, terms, positions>>,
           series' \in SeriesState, series'.approved_mask \subseteq Tranches,
           series'.total_allocated = series.total_allocated,
           series'.total_released = series.total_released,
           identity' \in [own_deposited : Nat, own_refunded : Nat],
           escrow' \in Nat, unvetted' \in Nat
    PROVE  /\ VestingTypeOK' /\ Begins' /\ Booked' /\ series' # NoSeries
           /\ vesting_cumulative' = vesting_cumulative
           /\ vesting_schedule_total' = vesting_schedule_total
           /\ IsCommitted' <=> IsCommitted
  <1>1. /\ now' = now /\ paused' = paused /\ eligible' = eligible /\ blocked' = blocked
        /\ terms' = terms /\ positions' = positions
    BY DEF environment
  <1>2. series' # NoSeries
    BY VestingAssumption
  <1>3. Tranches' = Tranches
    BY <1>1 DEF Tranches
  <1>4. VestingTypeOK'
    BY <1>1, <1>2, <1>3 DEF VestingInv, VestingTypeOK
  <1>5. Begins' /\ Booked'
    BY <1>1, <1>2 DEF VestingInv, Begins, Booked
  <1>6. /\ vesting_cumulative' = vesting_cumulative
        /\ vesting_schedule_total' = vesting_schedule_total
    <2>1. vesting_schedule_total' = vesting_schedule_total
      BY <1>1, <1>3, Zenon DEF vesting_schedule_total, SumOfTranches
    <2>2. vesting_cumulative' = vesting_cumulative
      BY <1>1, <1>3, Zenon DEF vesting_cumulative, SumOfTranches
    <2> QED BY <2>1, <2>2
  <1>7. IsCommitted' <=> IsCommitted
    BY <1>6 DEF IsCommitted
  <1> QED BY <1>2, <1>4, <1>5, <1>6, <1>7

(* When the status stays too, so do the promise and what is owned.           *)
LEMMA StatusKept ==
    ASSUME VestingInv, series # NoSeries, UNCHANGED <<environment, terms, positions>>,
           series' \in SeriesState, series'.approved_mask \subseteq Tranches,
           series'.total_allocated = series.total_allocated,
           series'.total_released = series.total_released,
           identity' \in [own_deposited : Nat, own_refunded : Nat],
           escrow' \in Nat, unvetted' \in Nat,
           series'.status = series.status,
           series'.final_cumulative = series.final_cumulative
    PROVE  /\ VestingTypeOK' /\ Begins' /\ Booked' /\ PromiseFits' /\ NothingEarly'
           /\ series' # NoSeries /\ Promised' = Promised
           /\ \A S : StatusIn(S)' <=> StatusIn(S)
  <1>1. /\ VestingTypeOK' /\ Begins' /\ Booked' /\ series' # NoSeries
        /\ vesting_cumulative' = vesting_cumulative
        /\ IsCommitted' <=> IsCommitted
    BY TotalsKept
  <1>2. \A S : StatusIn(S)' <=> StatusIn(S)
    BY <1>1 DEF StatusIn
  <1>3. Promised' = Promised
    BY DEF Promised
  <1>4. PromiseFits'
    BY <1>1, <1>2 DEF VestingInv, PromiseFits
  <1>5. NothingEarly'
    <2>1. positions' = positions
      BY DEF environment
    <2>2. Basis' = Basis
      BY <1>1 DEF Basis
    <2>3. \A p : Owned(p)' = Owned(p)
      BY <2>1, <2>2, OwnedIsShare, OwnedIsShareNext
    <2> QED BY <1>2, <2>1, <2>3 DEF VestingInv, NothingEarly
  <1> QED BY <1>1, <1>2, <1>3, <1>4, <1>5

-----------------------------------------------------------------------------
(* The environment leaves the series alone, time only unlocks more of it.    *)
LEMMA SurroundingsKeep ==
    ASSUME VestingInv,
           UNCHANGED <<terms, series, positions, identity, escrow, unvetted>>,
           now' \in Nat, now <= now', paused' \in BOOLEAN,
           eligible' \subseteq Wallets, blocked' \subseteq Wallets
    PROVE  VestingInv'
  <1>1. /\ terms' = terms /\ series' = series /\ positions' = positions
        /\ identity' = identity /\ escrow' = escrow /\ unvetted' = unvetted
    OBVIOUS
  <1>2. VestingTypeOK
    BY DEF VestingInv
  <1>3. Tranches' = Tranches
    BY <1>1 DEF Tranches
  <1>4. VestingTypeOK'
    BY <1>1, <1>2, <1>3 DEF VestingTypeOK
  <1>5. \A S : StatusIn(S)' <=> StatusIn(S)
    BY <1>1 DEF StatusIn
  <1>6. ASSUME series # NoSeries
        PROVE  /\ Promised' = Promised /\ (IsCommitted' <=> IsCommitted)
               /\ \A p \in DOMAIN positions : /\ Owned(p) \in Nat /\ Owned(p)' \in Nat
                                             /\ Owned(p) <= Owned(p)'
    <2>1. terms # NoSeries
      BY <1>2, <1>6, Fields
    <2>2. /\ vesting_cumulative <= vesting_cumulative'
          /\ vesting_schedule_total' = vesting_schedule_total
      BY <1>1, <1>2, <1>4, <2>1, CumulativeGrows
    <2>3. series.final_cumulative \in Nat /\ series' # NoSeries
      BY <1>1, <1>2, <1>6, Fields
    <2>4. Basis <= Basis'
      BY <1>1, <2>2, <2>3 DEF Basis
    <2>5. \A p \in DOMAIN positions : /\ Owned(p) \in Nat /\ Owned(p)' \in Nat
                                       /\ Owned(p) <= Owned(p)'
      BY <1>1, <1>2, <1>4, <1>6, <2>3, <2>4, OwnedGrows
    <2>6. Promised' = Promised
      BY <1>1 DEF Promised
    <2>7. IsCommitted' <=> IsCommitted
      BY <1>1, <2>2 DEF IsCommitted
    <2> QED BY <2>5, <2>6, <2>7
  <1>7. Begins' /\ Booked' /\ DraftUntouched'
    BY <1>1, <1>5 DEF VestingInv, Begins, Booked, DraftUntouched
  <1>8. PromiseFits'
    BY <1>1, <1>5, <1>6 DEF VestingInv, PromiseFits, StatusIn
  <1>9. EscrowCovers'
    BY <1>1, <1>6 DEF VestingInv, EscrowCovers
  <1>10. NothingEarly'
    <2> SUFFICES ASSUME StatusIn({"Active", "Cancelled"}), NEW p \in DOMAIN positions
                 PROVE  positions[p].released <= Owned(p)'
      BY <1>1, <1>5 DEF NothingEarly
    <2>1. series # NoSeries
      BY DEF StatusIn
    <2>2. positions[p].released \in Nat
      BY <1>2, Fields
    <2>3. positions[p].released <= Owned(p)
      BY DEF VestingInv, NothingEarly
    <2> QED BY <1>6, <2>1, <2>2, <2>3
  <1> QED BY <1>1, <1>4, <1>7, <1>8, <1>9, <1>10 DEF VestingInv

(* EscrowCovers without its minimum.                                         *)
LEMMA Covered ==
    ASSUME EscrowCovers, series # NoSeries, series.deposited \in Nat, Promised \in Nat
    PROVE  \/ series.deposited <= escrow + series.total_released
           \/ Promised <= escrow + series.total_released
  <1> DEFINE d == series.deposited
             m == Promised
  <1>1. d \in Nat /\ m \in Nat /\ escrow + series.total_released >= Min({d, m})
    BY DEF EscrowCovers
  <1> HIDE DEF d, m
  <1>2. Min({d, m}) = IF d <= m THEN d ELSE m
    BY <1>1, MinOfTwo
  <1>3. d <= escrow + series.total_released \/ m <= escrow + series.total_released
    BY <1>1, <1>2
  <1> QED BY <1>3 DEF d, m

(* Any of the three ways a step can leave the escrow covering the series.    *)
LEMMA CoversNext ==
    ASSUME series'.deposited \in Nat, Promised' \in Nat,
           escrow' \in Nat, series'.total_released \in Nat,
           \/ series'.deposited <= escrow' + series'.total_released
           \/ Promised' <= escrow' + series'.total_released
           \/ series'.deposited = 0
    PROVE  EscrowCovers'
  <1> DEFINE d == series'.deposited
             m == Promised'
             e == escrow' + series'.total_released
  <1>1. d \in Nat /\ m \in Nat /\ e \in Nat /\ (d <= e \/ m <= e \/ d = 0)
    OBVIOUS
  <1> HIDE DEF d, m, e
  <1>2. Min({d, m}) = IF d <= m THEN d ELSE m
    BY <1>1, MinOfTwo
  <1>3. e >= Min({d, m})
    BY <1>1, <1>2
  <1> QED BY <1>3 DEF EscrowCovers, d, m, e

(* create_vesting_series begins with nothing allocated.                      *)
LEMMA CreateKeeps ==
    ASSUME VestingInv, NEW t \in SeriesTerms, CreateVestingSeries(t)
    PROVE  VestingInv'
  <1>1. /\ terms' = t /\ t.pre_cliff_bps <= 10000 /\ series = NoSeries
        /\ series' = [status |-> "Draft", total_allocated |-> 0, deposited |-> 0,
                      total_released |-> 0, approved_mask |-> {}, final_cumulative |-> 0,
                      cancellation_enabled |-> t.cancellation_enabled]
        /\ now' = now /\ paused' = paused /\ eligible' = eligible /\ blocked' = blocked
        /\ positions' = positions /\ identity' = identity
        /\ escrow' = escrow /\ unvetted' = unvetted
    BY DEF CreateVestingSeries, environment
  <1>2. positions = <<>> /\ VestingTypeOK /\ unvetted <= identity.own_refunded
    BY <1>1 DEF VestingInv, Begins
  <1>3. /\ series' \in SeriesState /\ series'.approved_mask = {}
        /\ series'.status = "Draft" /\ series'.total_allocated = 0
        /\ series'.deposited = 0 /\ series'.total_released = 0
    <2>1. t.cancellation_enabled \in BOOLEAN
      BY VestingAssumption
    <2>2. "Draft" \in Statuses
      BY DEF Statuses
    <2> QED BY <1>1, <2>1, <2>2 DEF SeriesState
  <1>4. t # NoSeries /\ series' # NoSeries
    BY <1>3, VestingAssumption
  <1>5. VestingTypeOK'
    BY <1>1, <1>2, <1>3, <1>4 DEF VestingTypeOK
  <1>6. Begins'
    BY <1>1, <1>4 DEF Begins
  <1>7. Booked'
    <2> DEFINE a == AllocationsOf(positions')
               r == ReleasedOf(positions')
    <2>1. a \in [{} -> Int] /\ r \in [{} -> Int]
      BY <1>1, <1>2 DEF AllocationsOf, ReleasedOf
    <2>2. DOMAIN a = {} /\ DOMAIN r = {}
      BY <2>1
    <2> HIDE DEF a, r
    <2>3. SumOf(a, {}) = 0 /\ SumOf(r, {}) = 0
      BY <2>1, ZeroSum, FS_EmptySet
    <2>4. Total(a) = 0 /\ Total(r) = 0
      BY <2>2, <2>3, TotalIsSum
    <2> QED BY <1>3, <2>4 DEF Booked, a, r
  <1>8. /\ ~StatusIn({"Active"})' /\ ~StatusIn({"Cancelled"})'
        /\ ~StatusIn({"Active", "Cancelled"})' /\ Promised' = 0
    BY <1>3 DEF StatusIn, Promised
  <1>9. escrow' \in Nat
    BY <1>5 DEF VestingTypeOK
  <1>10. DraftUntouched'
    BY <1>1, <1>2, <1>3, <1>9 DEF DraftUntouched
  <1>11. EscrowCovers'
    <2>1. series'.deposited = 0 /\ series'.total_released = 0 /\ Promised' = 0
      BY <1>3, <1>8
    <2> QED BY <1>9, <2>1, CoversNext
  <1> QED BY <1>1, <1>2, <1>5, <1>6, <1>7, <1>8, <1>10, <1>11
          DEF VestingInv, PromiseFits, NothingEarly

(* add_vesting_position: the new allocation is added to the total.           *)
LEMMA AddKeeps ==
    ASSUME VestingInv, NEW w \in Wallets, NEW n \in Allocations, AddVestingPosition(w, n)
    PROVE  VestingInv'
  <1> DEFINE new == [wallet |-> w, allocation |-> n, released |-> 0]
             k == Len(positions)
             total == series.total_allocated + n
             moved == [series EXCEPT !.total_allocated = total]
  <1>1. /\ series # NoSeries /\ series.status = "Draft"
        /\ positions' = Append(positions, new) /\ series' = moved
        /\ now' = now /\ paused' = paused /\ eligible' = eligible /\ blocked' = blocked
        /\ terms' = terms /\ identity' = identity
        /\ escrow' = escrow /\ unvetted' = unvetted
    BY DEF AddVestingPosition, environment, StatusIn
  <1>2. /\ n \in Nat /\ VestingTypeOK /\ Booked /\ DraftUntouched
    BY VestingAssumption DEF VestingInv
  <1>3. /\ series \in SeriesState /\ series.total_allocated \in Nat
        /\ series.deposited \in Nat /\ series.total_released \in Nat
        /\ k \in Nat /\ DOMAIN positions = 1..k /\ escrow \in Nat
        /\ positions \in Seq([wallet : Wallets, allocation : Nat, released : Nat])
        /\ \A p \in DOMAIN positions :
             positions[p] \in [wallet : Wallets, allocation : Nat, released : Nat]
    BY <1>1, <1>2, Fields
  <1>4. new \in [wallet : Wallets, allocation : Nat, released : Nat] /\ total \in Nat
    BY <1>2, <1>3
  <1>5. /\ positions' \in Seq([wallet : Wallets, allocation : Nat, released : Nat])
        /\ DOMAIN positions' = 1..(k + 1) /\ positions'[k + 1] = new
        /\ \A p \in 1..k : positions'[p] = positions[p]
    <2> HIDE DEF new
    <2> QED BY <1>1, <1>3, <1>4
  <1>6. /\ moved \in SeriesState /\ moved.total_allocated = total
        /\ moved.total_released = series.total_released
        /\ moved.status = series.status /\ moved.deposited = series.deposited
        /\ moved.approved_mask = series.approved_mask
    <2> HIDE DEF total
    <2> QED BY <1>3, <1>4 DEF SeriesState
  <1> HIDE DEF moved
  <1>7. series' # NoSeries
    BY <1>1, <1>6, VestingAssumption
  <1>8. VestingTypeOK'
    <2>1. Tranches' = Tranches
      BY <1>1 DEF Tranches
    <2> QED BY <1>1, <1>2, <1>5, <1>6, <1>7, <2>1 DEF VestingTypeOK
  <1>9. Begins'
    BY <1>1, <1>7 DEF VestingInv, Begins
  <1>10. Booked'
    <2> DEFINE a == AllocationsOf(positions)
               r == ReleasedOf(positions)
               b == AllocationsOf(positions')
               q == ReleasedOf(positions')
    <2>1. /\ a \in [1..k -> Int] /\ r \in [1..k -> Int]
          /\ b \in [1..(k + 1) -> Int] /\ q \in [1..(k + 1) -> Int]
          /\ \A p \in 1..k : b[p] = a[p] /\ q[p] = r[p]
          /\ b[k + 1] = n /\ q[k + 1] = 0
      <3>1. \A p \in 1..k : positions[p].allocation \in Int /\ positions[p].released \in Int
        BY <1>3
      <3>2. new.allocation = n /\ new.released = 0 /\ n \in Int
        BY <1>2
      <3>3. a \in [1..k -> Int] /\ r \in [1..k -> Int]
        BY <1>3, <3>1 DEF AllocationsOf, ReleasedOf
      <3> HIDE DEF new
      <3>4. \A p \in 1..(k + 1) : p \in 1..k \/ p = k + 1
        BY <1>3
      <3>5. \A p \in 1..(k + 1) :
                positions'[p].allocation \in Int /\ positions'[p].released \in Int
        BY <1>5, <3>1, <3>2, <3>4
      <3>6. b \in [1..(k + 1) -> Int] /\ q \in [1..(k + 1) -> Int]
        BY <1>5, <3>5 DEF AllocationsOf, ReleasedOf
      <3>7. /\ \A p \in 1..k : b[p] = a[p] /\ q[p] = r[p]
            /\ b[k + 1] = n /\ q[k + 1] = 0
        BY <1>3, <1>5, <3>2 DEF AllocationsOf, ReleasedOf
      <3> QED BY <3>3, <3>6, <3>7
    <2>2. Total(a) = series.total_allocated /\ Total(r) = series.total_released
      BY <1>1, <1>2 DEF Booked
    <2> HIDE DEF a, r, b, q, k
    <2>3. /\ Total(a) = SumOf(a, 1..k) /\ Total(r) = SumOf(r, 1..k)
          /\ Total(b) = SumOf(b, 1..(k + 1)) /\ Total(q) = SumOf(q, 1..(k + 1))
      <3>1. /\ DOMAIN a = 1..k /\ DOMAIN r = 1..k
            /\ DOMAIN b = 1..(k + 1) /\ DOMAIN q = 1..(k + 1)
        BY <2>1
      <3> QED BY <3>1, TotalIsSum
    <2>4. SumOf(b, 1..(k + 1)) = SumOf(a, 1..k) + n
      BY <1>3, <2>1, SumOfOneMore
    <2>5. SumOf(q, 1..(k + 1)) = SumOf(r, 1..k) + 0
      BY <1>3, <2>1, SumOfOneMore
    <2>6. Total(b) = total /\ Total(q) = series.total_released
      BY <1>3, <2>2, <2>3, <2>4, <2>5
    <2> QED BY <1>1, <1>6, <2>6 DEF Booked, b, q
  <1>11. /\ ~StatusIn({"Active"})' /\ ~StatusIn({"Cancelled"})'
         /\ ~StatusIn({"Active", "Cancelled"})' /\ Promised' = total
    BY <1>1, <1>6 DEF StatusIn, Promised
  <1>12. escrow >= series.deposited /\ \A p \in DOMAIN positions : positions[p].released = 0
    BY <1>1, <1>2 DEF DraftUntouched, StatusIn
  <1>13. DraftUntouched'
    <2>1. \A p \in 1..(k + 1) : p \in 1..k \/ p = k + 1
      BY <1>3
    <2>2. positions'[k + 1].released = 0
      BY <1>5
    <2>3. \A p \in 1..k : positions'[p].released = 0
      BY <1>3, <1>5, <1>12
    <2> HIDE DEF k
    <2>4. \A p \in DOMAIN positions' : positions'[p].released = 0
      BY <1>5, <2>1, <2>2, <2>3
    <2> QED BY <1>1, <1>6, <1>12, <2>4 DEF DraftUntouched
  <1>14. EscrowCovers'
    <2>1. /\ series'.deposited = series.deposited /\ Promised' \in Nat /\ escrow' = escrow
          /\ series'.total_released = series.total_released
      BY <1>1, <1>4, <1>6, <1>11
    <2>2. series.deposited <= escrow + series.total_released
      BY <1>3, <1>12
    <2> QED BY <1>3, <2>1, <2>2, CoversNext
  <1> QED BY <1>1, <1>8, <1>9, <1>10, <1>11, <1>13, <1>14
          DEF VestingInv, PromiseFits, NothingEarly

(* finalize_vesting_series changes the status only.                          *)
LEMMA FinalizeKeeps ==
    ASSUME VestingInv, FinalizeVestingSeries
    PROVE  VestingInv'
  <1> DEFINE moved == [series EXCEPT !.status = "Active"]
  <1>1. /\ series # NoSeries /\ series.status = "Draft" /\ IsCommitted
        /\ series' = moved /\ UNCHANGED <<environment, terms, positions>>
        /\ positions' = positions
        /\ identity' = identity /\ escrow' = escrow /\ unvetted' = unvetted
    BY DEF FinalizeVestingSeries, environment, StatusIn
  <1>2. VestingTypeOK /\ EscrowCovers /\ DraftUntouched /\ unvetted <= identity.own_refunded
    BY DEF VestingInv
  <1>3. /\ series \in SeriesState /\ series.total_allocated \in Nat
        /\ series.deposited \in Nat /\ series.total_released \in Nat
        /\ escrow \in Nat /\ series.approved_mask \subseteq Tranches
        /\ \A p \in DOMAIN positions :
             positions[p] \in [wallet : Wallets, allocation : Nat, released : Nat]
    BY <1>1, <1>2, Fields DEF VestingTypeOK
  <1>4. /\ moved \in SeriesState /\ moved.total_allocated = series.total_allocated
        /\ moved.total_released = series.total_released
        /\ moved.status = "Active" /\ moved.deposited = series.deposited
        /\ moved.approved_mask = series.approved_mask
    <2>1. "Active" \in Statuses
      BY DEF Statuses
    <2> QED BY <1>3, <2>1 DEF SeriesState
  <1> HIDE DEF moved
  <1>5. identity' \in [own_deposited : Nat, own_refunded : Nat]
        /\ escrow' \in Nat /\ unvetted' \in Nat
    BY <1>1, <1>2 DEF VestingTypeOK
  <1>6. /\ VestingTypeOK' /\ Begins' /\ Booked' /\ series' # NoSeries
        /\ IsCommitted' <=> IsCommitted
    BY <1>1, <1>3, <1>4, <1>5, TotalsKept
  <1>7. ~StatusIn({"Draft"})' /\ ~StatusIn({"Cancelled"})' /\ Promised' = Promised
    BY <1>1, <1>4 DEF StatusIn, Promised
  <1>8. PromiseFits'
    BY <1>1, <1>6, <1>7 DEF PromiseFits
  <1>9. NothingEarly'
    <2>1. ASSUME NEW p \in DOMAIN positions'
          PROVE  positions'[p].released <= Owned(p)'
      <3>1. (VestingTypeOK /\ series # NoSeries => AmountsFit)'
        BY AmountsFine, PTL
      <3>2. Basis' \in Nat
        BY <1>6, <3>1 DEF AmountsFit
      <3>3. /\ positions'[p].allocation \in Nat /\ series'.total_allocated \in Nat
            /\ positions'[p].released = 0
        BY <1>1, <1>2, <1>3, <1>4 DEF DraftUntouched, StatusIn
      <3>4. Owned(p)' \in Nat
        BY <3>2, <3>3, OwnedIsShareNext, ShareMonotone
      <3> QED BY <3>3, <3>4
    <2> QED BY <2>1 DEF NothingEarly
  <1>10. EscrowCovers'
    <2>1. Promised \in Nat
      BY <1>1, <1>3 DEF Promised
    <2>2. \/ series.deposited <= escrow + series.total_released
          \/ Promised <= escrow + series.total_released
      BY <1>1, <1>2, <1>3, <2>1, Covered
    <2>3. /\ series'.deposited = series.deposited /\ Promised' = Promised
          /\ escrow' = escrow /\ series'.total_released = series.total_released
      BY <1>1, <1>4, <1>7
    <2> QED BY <1>3, <2>1, <2>2, <2>3, CoversNext
  <1> QED BY <1>1, <1>2, <1>6, <1>7, <1>8, <1>9, <1>10 DEF VestingInv, DraftUntouched

-----------------------------------------------------------------------------
(* Steps that move units into or out of the escrow, or change an approval.   *)
LEMMA EscrowMoves ==
    ASSUME VestingInv, series # NoSeries, UNCHANGED <<environment, terms, positions>>,
           series' \in SeriesState, series'.approved_mask \subseteq Tranches,
           series'.total_allocated = series.total_allocated,
           series'.total_released = series.total_released,
           series'.status = series.status,
           series'.final_cumulative = series.final_cumulative,
           identity' \in [own_deposited : Nat, own_refunded : Nat],
           escrow' \in Nat, unvetted' \in Nat, unvetted' <= identity'.own_refunded,
           StatusIn({"Draft"}) => escrow' >= series'.deposited,
           \/ series'.deposited <= escrow' + series.total_released
           \/ Promised <= escrow' + series.total_released
    PROVE  VestingInv'
  <1>1. /\ VestingTypeOK' /\ Begins' /\ Booked' /\ PromiseFits' /\ NothingEarly'
        /\ series' # NoSeries /\ Promised' = Promised
        /\ \A S : StatusIn(S)' <=> StatusIn(S)
    BY StatusKept
  <1>2. positions' = positions
    BY DEF environment
  <1>3. DraftUntouched'
    BY <1>1, <1>2 DEF VestingInv, DraftUntouched
  <1>4. EscrowCovers'
    <2>1. /\ series'.deposited \in Nat /\ series'.total_released \in Nat
          /\ series.total_allocated \in Nat /\ series.final_cumulative \in Nat
      BY Fields DEF VestingInv, SeriesState
    <2>2. Promised' \in Nat
      BY <1>1, <2>1 DEF Promised
    <2> QED BY <1>1, <2>1, <2>2, CoversNext
  <1> QED BY <1>1, <1>3, <1>4 DEF VestingInv

(* approve_vesting_tranche and disable_vesting_cancellation move nothing.    *)
LEMMA SwitchesKeep ==
    ASSUME VestingInv,
           (\E i \in Tranches : ApproveVestingTranche(i)) \/ DisableVestingCancellation
    PROVE  VestingInv'
  <1>1. /\ series # NoSeries /\ UNCHANGED <<environment, terms, positions>>
        /\ identity' = identity /\ escrow' = escrow /\ unvetted' = unvetted
    BY DEF ApproveVestingTranche, DisableVestingCancellation, StatusIn
  <1>2. VestingTypeOK /\ EscrowCovers /\ DraftUntouched /\ unvetted <= identity.own_refunded
    BY DEF VestingInv
  <1>3. /\ series \in SeriesState /\ series.total_allocated \in Nat
        /\ series.deposited \in Nat /\ series.final_cumulative \in Nat
        /\ terms \in SeriesTerms /\ terms # NoSeries
        /\ series.approved_mask \subseteq Tranches
    BY <1>1, <1>2, Fields DEF VestingTypeOK
  <1>4. Tranches \subseteq Nat
    <2>1. terms.tranches \in Seq([unlock_ts : Nat, amount : Nat])
      BY <1>3, VestingAssumption
    <2>2. DOMAIN terms.tranches \subseteq Nat
      BY <2>1, Element
    <2> QED BY <1>3, <2>2 DEF Tranches
  <1> DEFINE Kept ==
        /\ series' \in SeriesState /\ series'.approved_mask \subseteq Tranches
        /\ series'.total_allocated = series.total_allocated
        /\ series'.total_released = series.total_released
        /\ series'.status = series.status /\ series'.deposited = series.deposited
        /\ series'.final_cumulative = series.final_cumulative
  <1>5. Kept
    <2>1. ASSUME DisableVestingCancellation
          PROVE  Kept
      BY <1>3, <2>1 DEF DisableVestingCancellation, SeriesState
    <2>2. ASSUME NEW i \in Tranches, ApproveVestingTranche(i)
          PROVE  Kept
      BY <1>3, <1>4, <2>2 DEF ApproveVestingTranche, SeriesState
    <2> HIDE DEF Kept
    <2> QED BY <2>1, <2>2
  <1>6. /\ identity' \in [own_deposited : Nat, own_refunded : Nat]
        /\ escrow' \in Nat /\ unvetted' \in Nat /\ unvetted' <= identity'.own_refunded
    BY <1>1, <1>2 DEF VestingTypeOK
  <1>7. StatusIn({"Draft"}) => escrow' >= series'.deposited
    BY <1>1, <1>2, <1>5 DEF DraftUntouched
  <1>8. \/ series'.deposited <= escrow' + series.total_released
        \/ Promised <= escrow' + series.total_released
    <2>1. Promised \in Nat
      BY <1>3 DEF Promised
    <2> QED BY <1>1, <1>2, <1>3, <1>5, <2>1, Covered
  <1> QED BY <1>1, <1>5, <1>6, <1>7, <1>8, EscrowMoves

(* A deposit and a push add to the escrow at least what is entered.          *)
LEMMA PaidInKeeps ==
    ASSUME VestingInv, NEW n \in Lots,
           (\E w \in Wallets : DepositToVestingEscrow(w, n)) \/ Push(n)
    PROVE  VestingInv'
  <1>1. n \in Nat /\ VestingTypeOK /\ EscrowCovers /\ DraftUntouched
        /\ unvetted <= identity.own_refunded
    BY VestingAssumption DEF VestingInv
  <1>2. /\ series # NoSeries /\ UNCHANGED <<environment, terms, positions>>
        /\ escrow' = escrow + n /\ unvetted' = unvetted
    BY DEF DepositToVestingEscrow, Push, StatusIn
  <1>3. /\ series \in SeriesState /\ series.total_allocated \in Nat
        /\ series.deposited \in Nat /\ series.final_cumulative \in Nat
        /\ series.total_released \in Nat
        /\ series.approved_mask \subseteq Tranches /\ escrow \in Nat /\ unvetted \in Nat
        /\ identity \in [own_deposited : Nat, own_refunded : Nat]
    BY <1>1, <1>2, Fields DEF VestingTypeOK
  <1>4. /\ series' \in SeriesState /\ series'.approved_mask = series.approved_mask
        /\ series'.total_allocated = series.total_allocated
        /\ series'.total_released = series.total_released
        /\ series'.status = series.status
        /\ series'.deposited \in {series.deposited, series.deposited + n}
        /\ series'.final_cumulative = series.final_cumulative
    <2> DEFINE d == series.deposited + n
               moved == [series EXCEPT !.deposited = d]
    <2>1. series' = series \/ series' = moved
      BY DEF DepositToVestingEscrow, Push
    <2>2. d \in Nat
      BY <1>1, <1>3
    <2> HIDE DEF d
    <2>3. /\ moved \in SeriesState /\ moved.approved_mask = series.approved_mask
          /\ moved.total_allocated = series.total_allocated
          /\ moved.total_released = series.total_released
          /\ moved.status = series.status /\ moved.deposited = d
          /\ moved.final_cumulative = series.final_cumulative
      BY <1>3, <2>2 DEF SeriesState
    <2> HIDE DEF moved
    <2> QED BY <1>3, <2>1, <2>3 DEF d
  <1>5. /\ identity' \in [own_deposited : Nat, own_refunded : Nat]
        /\ identity'.own_refunded = identity.own_refunded
    <2>1. identity.own_deposited + n \in Nat
      BY <1>1, <1>3
    <2>2. \/ identity' = identity
          \/ identity' = [identity EXCEPT !.own_deposited = identity.own_deposited + n]
      BY DEF DepositToVestingEscrow, Push
    <2> QED BY <1>3, <2>1, <2>2
  <1>6. escrow' \in Nat /\ unvetted' \in Nat /\ unvetted' <= identity'.own_refunded
    BY <1>1, <1>2, <1>3, <1>5
  <1>7. StatusIn({"Draft"}) => escrow' >= series'.deposited
    BY <1>1, <1>2, <1>3, <1>4 DEF DraftUntouched
  <1>8. \/ series'.deposited <= escrow' + series.total_released
        \/ Promised <= escrow' + series.total_released
    <2>1. Promised \in Nat
      BY <1>3 DEF Promised
    <2>2. \/ series.deposited <= escrow + series.total_released
          \/ Promised <= escrow + series.total_released
      BY <1>1, <1>2, <1>3, <2>1, Covered
    <2> QED BY <1>1, <1>2, <1>3, <1>4, <2>1, <2>2
  <1> QED BY <1>2, <1>3, <1>4, <1>5, <1>6, <1>7, <1>8, EscrowMoves

-----------------------------------------------------------------------------
(* withdraw_available leaves what is reserved, and pays the client no more   *)
(* than what it is paid back of its own while its KYC fails.                 *)
LEMMA WithdrawnFits ==
    ASSUME VestingTypeOK, NEW reserved \in Nat, NEW consumed \in Nat,
           WithdrawAvailable(reserved, consumed), unvetted <= identity.own_refunded
    PROVE  /\ escrow' \in Nat /\ reserved <= escrow'
           /\ identity' \in [own_deposited : Nat, own_refunded : Nat]
           /\ unvetted' \in Nat /\ unvetted' <= identity'.own_refunded
           /\ unvetted' > unvetted => unvetted' + consumed <= identity.own_deposited
           /\ UNCHANGED <<environment, terms, series, positions>>
  <1> DEFINE free   == AtLeastZero(escrow - reserved)
             paid   == AtLeastZero(identity.own_deposited - consumed)
             own    == AtLeastZero(paid - identity.own_refunded)
             back   == Min({free, own})
             amount == FreeForClient(free, own)
  <1>1. /\ escrow \in Nat /\ unvetted \in Nat
        /\ identity \in [own_deposited : Nat, own_refunded : Nat]
        /\ identity.own_deposited \in Nat /\ identity.own_refunded \in Nat
    BY DEF VestingTypeOK
  <1>2. free \in Nat /\ free = IF escrow - reserved <= 0 THEN 0 ELSE escrow - reserved
    BY <1>1, MaxOfTwo
  <1>3. paid \in Nat /\ paid = IF identity.own_deposited - consumed <= 0 THEN 0
                               ELSE identity.own_deposited - consumed
    BY <1>1, MaxOfTwo
  <1> HIDE DEF paid
  <1>4. own \in Nat /\ own = IF paid - identity.own_refunded <= 0 THEN 0
                             ELSE paid - identity.own_refunded
    BY <1>1, <1>3, MaxOfTwo
  <1> HIDE DEF free, own
  <1>5. back \in Nat /\ back <= free /\ back <= own
    BY <1>2, <1>4, MinOfTwo
  <1>6. amount = IF Client \in eligible THEN free ELSE back
    BY DEF FreeForClient
  <1>7. /\ amount > 0 /\ escrow' = escrow - amount
        /\ identity' = [identity EXCEPT !.own_refunded = identity.own_refunded + back]
        /\ unvetted' = IF Client \in eligible THEN unvetted ELSE unvetted + amount
        /\ UNCHANGED <<environment, terms, series, positions>>
    BY DEF WithdrawAvailable, free, paid, own
  <1> HIDE DEF back, amount
  <1> DEFINE refunded == identity.own_refunded + back
  <1>8. refunded \in Nat
    BY <1>1, <1>5
  <1>9. /\ identity' \in [own_deposited : Nat, own_refunded : Nat]
        /\ identity'.own_refunded = refunded
    <2> HIDE DEF refunded
    <2> QED BY <1>1, <1>7, <1>8 DEF refunded
  <1>10. amount \in Nat /\ amount <= free
    BY <1>2, <1>5, <1>6
  <1>11. escrow' \in Nat /\ reserved <= escrow'
    BY <1>1, <1>2, <1>7, <1>10
  <1>12. unvetted' \in Nat /\ unvetted' <= identity'.own_refunded
    BY <1>1, <1>5, <1>6, <1>7, <1>9
  <1>13. unvetted' > unvetted => unvetted' + consumed <= identity.own_deposited
    <2>1. unvetted' > unvetted => unvetted' = unvetted + back /\ back > 0
      BY <1>1, <1>5, <1>6, <1>7
    <2> QED BY <1>1, <1>3, <1>4, <1>5, <2>1
  <1> QED BY <1>7, <1>9, <1>11, <1>12, <1>13

(* The two withdrawals leave what the positions can still claim.             *)
LEMMA WithdrawalKeeps ==
    ASSUME VestingInv, WithdrawUnvested \/ WithdrawVestingSurplus
    PROVE  /\ VestingInv'
           /\ unvetted' > unvetted =>
                unvetted' + (IF series.status = "Active" THEN series.total_allocated
                                                         ELSE series.total_released)
                  <= identity.own_deposited
  <1>1. VestingTypeOK /\ unvetted <= identity.own_refunded
    BY DEF VestingInv
  <1>2. /\ series # NoSeries /\ series.status \in {"Active", "Cancelled"}
        /\ StatusIn({"Active", "Cancelled"})
    BY DEF WithdrawUnvested, WithdrawVestingSurplus, StatusIn
  <1>3. /\ series \in SeriesState /\ series.approved_mask \subseteq Tranches
        /\ series.total_allocated \in Nat /\ series.total_released \in Nat
        /\ series.final_cumulative \in Nat
    BY <1>1, <1>2, Fields DEF VestingTypeOK
  <1>4. Promised \in Nat /\ series.total_released <= Promised
    BY <1>2, PromiseIsEnough
  <1> DEFINE reserved == Promised - series.total_released
             consumed == IF series.status = "Active" THEN series.total_allocated
                                                     ELSE series.total_released
  <1>5. reserved \in Nat /\ consumed \in Nat
    BY <1>3, <1>4
  <1>6. WithdrawAvailable(reserved, consumed)
    <2>1. CASE WithdrawVestingSurplus
      <3>1. series.status = "Active"
        BY <2>1 DEF WithdrawVestingSurplus, StatusIn
      <3>2. /\ reserved = series.total_allocated - series.total_released
            /\ consumed = series.total_allocated
        BY <3>1 DEF Promised
      <3> HIDE DEF reserved, consumed
      <3> QED BY <2>1, <3>2 DEF WithdrawVestingSurplus
    <2>2. CASE WithdrawUnvested
      <3>1. series.status = "Cancelled"
        BY <2>2 DEF WithdrawUnvested, StatusIn
      <3>2. reserved = series.final_cumulative - series.total_released
        BY <3>1 DEF Promised
      <3>3. Reserved = reserved /\ consumed = series.total_released
        BY <1>5, <3>1, <3>2, MaxOfTwo DEF Reserved
      <3> HIDE DEF reserved, consumed
      <3> QED BY <2>2, <3>3 DEF WithdrawUnvested
    <2> QED BY <2>1, <2>2
  <1> HIDE DEF reserved, consumed
  <1>7. /\ escrow' \in Nat /\ reserved <= escrow'
        /\ identity' \in [own_deposited : Nat, own_refunded : Nat]
        /\ unvetted' \in Nat /\ unvetted' <= identity'.own_refunded
        /\ unvetted' > unvetted => unvetted' + consumed <= identity.own_deposited
        /\ UNCHANGED <<environment, terms, series, positions>>
    BY <1>1, <1>5, <1>6, WithdrawnFits
  <1>8. ~StatusIn({"Draft"})
    BY <1>2 DEF StatusIn
  <1>9. Promised <= escrow' + series.total_released
    BY <1>3, <1>4, <1>7 DEF reserved
  <1>10. series' = series /\ UNCHANGED <<environment, terms, positions>>
    BY <1>7
  <1>11. VestingInv'
    BY <1>2, <1>3, <1>7, <1>8, <1>9, <1>10, EscrowMoves
  <1> QED BY <1>7, <1>11 DEF consumed

-----------------------------------------------------------------------------
(* cancel_vesting_series freezes no less than what has vested, and no more   *)
(* than what is allocated.                                                   *)
LEMMA CancelFreezes ==
    ASSUME VestingInv, CancelVestingSeries
    PROVE  /\ series # NoSeries /\ series.status \in {"Draft", "Active"}
           /\ series'.status = "Cancelled" /\ series'.final_cumulative \in Nat
           /\ series'.final_cumulative <= series.total_allocated
           /\ series.status = "Active" => vesting_cumulative <= series'.final_cumulative
           /\ series' \in SeriesState /\ series'.approved_mask = series.approved_mask
           /\ series'.total_allocated = series.total_allocated
           /\ series'.total_released = series.total_released
           /\ series'.deposited = series.deposited
  <1> DEFINE bps == (series.total_allocated * terms.pre_cliff_bps) \div 10000
             f == IF series.status = "Draft" THEN 0 ELSE IF Earned > 0 THEN Earned ELSE bps
             moved == [series EXCEPT !.status = "Cancelled", !.final_cumulative = f]
  <1>1. /\ series # NoSeries /\ series.status \in {"Draft", "Active"}
        /\ series.status = "Active" => IsCommitted
        /\ series' = moved
    BY DEF CancelVestingSeries, StatusIn
  <1>2. /\ series \in SeriesState /\ series.total_allocated \in Nat
        /\ terms \in SeriesTerms /\ terms # NoSeries
    BY <1>1, Fields DEF VestingInv
  <1>3. terms.pre_cliff_bps \in Nat /\ terms.pre_cliff_bps <= 10000
    BY <1>2, VestingAssumption DEF VestingInv, Begins
  <1>4. bps \in Nat /\ bps <= series.total_allocated
    BY <1>2, <1>3, PreCliffFits
  <1> HIDE DEF bps
  <1>5. /\ vesting_cumulative \in Nat /\ vesting_schedule_total \in Nat
        /\ vesting_cumulative <= vesting_schedule_total
    BY <1>1, AmountsFine DEF VestingInv, AmountsFit
  <1>6. series.status = "Active" => vesting_cumulative <= series.total_allocated
    BY <1>1, <1>5 DEF IsCommitted
  <1>7. /\ f \in Nat /\ f <= series.total_allocated
        /\ series.status = "Active" => vesting_cumulative <= f
    BY <1>1, <1>2, <1>4, <1>5, <1>6 DEF Earned
  <1> HIDE DEF f
  <1>8. "Cancelled" \in Statuses
    BY DEF Statuses
  <1>9. /\ moved.status = "Cancelled" /\ moved.final_cumulative = f
        /\ moved \in SeriesState /\ moved.approved_mask = series.approved_mask
        /\ moved.total_allocated = series.total_allocated
        /\ moved.total_released = series.total_released
        /\ moved.deposited = series.deposited
    BY <1>2, <1>7, <1>8 DEF SeriesState
  <1> QED BY <1>1, <1>7, <1>9

(* cancel_vesting_series freezes what is owned and keeps the rest in escrow. *)
LEMMA CancelKeeps ==
    ASSUME VestingInv, CancelVestingSeries
    PROVE  VestingInv'
  <1>1. /\ series # NoSeries /\ series.status \in {"Draft", "Active"}
        /\ series'.status = "Cancelled" /\ series'.final_cumulative \in Nat
        /\ series'.final_cumulative <= series.total_allocated
        /\ series.status = "Active" => vesting_cumulative <= series'.final_cumulative
        /\ series' \in SeriesState /\ series'.approved_mask = series.approved_mask
        /\ series'.total_allocated = series.total_allocated
        /\ series'.total_released = series.total_released
        /\ series'.deposited = series.deposited
    BY CancelFreezes
  <1>2. /\ UNCHANGED <<environment, terms, positions>> /\ positions' = positions
        /\ identity' = identity /\ escrow' = escrow /\ unvetted' = unvetted
    BY DEF CancelVestingSeries, environment
  <1>3. /\ VestingTypeOK /\ EscrowCovers /\ DraftUntouched /\ NothingEarly
        /\ unvetted <= identity.own_refunded
    BY DEF VestingInv
  <1>4. /\ series.total_allocated \in Nat /\ series.deposited \in Nat
        /\ series.total_released \in Nat /\ escrow \in Nat
        /\ series.approved_mask \subseteq Tranches
        /\ \A p \in DOMAIN positions :
             positions[p] \in [wallet : Wallets, allocation : Nat, released : Nat]
    BY <1>1, <1>3, Fields DEF VestingTypeOK
  <1>5. /\ identity' \in [own_deposited : Nat, own_refunded : Nat]
        /\ escrow' \in Nat /\ unvetted' \in Nat
    BY <1>2, <1>3 DEF VestingTypeOK
  <1>6. VestingTypeOK' /\ Begins' /\ Booked' /\ series' # NoSeries
    BY <1>1, <1>2, <1>4, <1>5, TotalsKept
  <1>7. /\ ~StatusIn({"Draft"})' /\ ~StatusIn({"Active"})'
        /\ Promised' = series'.final_cumulative /\ Basis' = series'.final_cumulative
    BY <1>1 DEF StatusIn, Promised, Basis
  <1>8. PromiseFits'
    BY <1>1, <1>7 DEF PromiseFits
  <1>9. NothingEarly'
    <2>1. ASSUME NEW p \in DOMAIN positions
          PROVE  positions[p].released <= Owned(p)'
      <3>1. /\ positions[p].allocation \in Nat /\ positions[p].released \in Nat
        BY <1>4
      <3>2. CASE series.status = "Draft"
        <4>1. positions[p].released = 0
          BY <1>1, <1>3, <3>2 DEF DraftUntouched, StatusIn
        <4>2. Owned(p)' \in Nat
          BY <1>1, <1>2, <1>4, <1>7, <3>1, OwnedIsShareNext, ShareMonotone
        <4> QED BY <4>1, <4>2
      <3>3. CASE series.status = "Active"
        <4>1. Basis = vesting_cumulative
          BY <3>3 DEF Basis
        <4>2. Basis <= Basis'
          BY <1>1, <1>7, <3>3, <4>1
        <4>3. Owned(p) \in Nat /\ Owned(p)' \in Nat /\ Owned(p) <= Owned(p)'
          BY <1>1, <1>2, <1>3, <1>6, <4>2, OwnedGrows
        <4>4. positions[p].released <= Owned(p)
          BY <1>1, <1>3, <3>3 DEF NothingEarly, StatusIn
        <4> QED BY <3>1, <4>3, <4>4
      <3> QED BY <1>1, <3>2, <3>3
    <2> QED BY <1>2, <2>1 DEF NothingEarly
  <1>10. EscrowCovers'
    <2>1. Promised = series.total_allocated
      BY <1>1 DEF Promised
    <2>2. \/ series.deposited <= escrow + series.total_released
          \/ Promised <= escrow + series.total_released
      BY <1>1, <1>3, <1>4, <2>1, Covered
    <2>3. \/ series'.deposited <= escrow' + series'.total_released
          \/ Promised' <= escrow' + series'.total_released
      BY <1>1, <1>2, <1>4, <1>7, <2>1, <2>2
    <2> QED BY <1>1, <1>4, <1>5, <1>7, <2>3, CoversNext
  <1> QED BY <1>2, <1>3, <1>6, <1>7, <1>8, <1>9, <1>10 DEF VestingInv, DraftUntouched

-----------------------------------------------------------------------------
(* recover_vesting_position changes who may claim, not what.                 *)
LEMMA RecoverKeeps ==
    ASSUME VestingInv, NEW p \in Indices, NEW w \in Wallets, RecoverVestingPosition(p, w)
    PROVE  VestingInv'
  <1> DEFINE moved == [positions[p] EXCEPT !.wallet = w]
  <1>1. /\ series # NoSeries /\ series.status \in {"Active", "Cancelled"}
        /\ p \in DOMAIN positions /\ positions' = [positions EXCEPT ![p] = moved]
        /\ now' = now /\ paused' = paused /\ eligible' = eligible /\ blocked' = blocked
        /\ terms' = terms /\ series' = series /\ identity' = identity
        /\ escrow' = escrow /\ unvetted' = unvetted
    BY DEF RecoverVestingPosition, environment, StatusIn
  <1>2. VestingTypeOK
    BY DEF VestingInv
  <1>3. /\ positions \in Seq([wallet : Wallets, allocation : Nat, released : Nat])
        /\ \A q \in DOMAIN positions :
             positions[q] \in [wallet : Wallets, allocation : Nat, released : Nat]
    BY <1>2, Fields
  <1>4. /\ moved \in [wallet : Wallets, allocation : Nat, released : Nat]
        /\ moved.allocation = positions[p].allocation
        /\ moved.released = positions[p].released
    BY <1>1, <1>3
  <1> HIDE DEF moved
  <1>5. /\ positions' \in Seq([wallet : Wallets, allocation : Nat, released : Nat])
        /\ DOMAIN positions' = DOMAIN positions
        /\ \A q \in DOMAIN positions : /\ positions'[q].allocation = positions[q].allocation
                                      /\ positions'[q].released = positions[q].released
    BY <1>1, <1>3, <1>4
  <1>6. Tranches' = Tranches /\ (\A S : StatusIn(S)' <=> StatusIn(S)) /\ Promised' = Promised
    BY <1>1 DEF Tranches, StatusIn, Promised
  <1>7. VestingTypeOK'
    BY <1>1, <1>2, <1>5, <1>6 DEF VestingTypeOK
  <1>8. Begins' /\ DraftUntouched'
    BY <1>1, <1>5, <1>6 DEF VestingInv, Begins, DraftUntouched, StatusIn
  <1>9. Booked'
    <2>1. /\ AllocationsOf(positions') = AllocationsOf(positions)
          /\ ReleasedOf(positions') = ReleasedOf(positions)
      BY <1>5 DEF AllocationsOf, ReleasedOf
    <2> QED BY <1>1, <2>1 DEF VestingInv, Booked
  <1>10. Basis' = Basis /\ (IsCommitted' <=> IsCommitted)
    <2>1. vesting_cumulative' = vesting_cumulative
      BY <1>1, <1>6, Zenon DEF vesting_cumulative, SumOfTranches
    <2>2. vesting_schedule_total' = vesting_schedule_total
      BY <1>1, <1>6, Zenon DEF vesting_schedule_total, SumOfTranches
    <2>3. Basis' = Basis
      BY <1>1, <2>1 DEF Basis
    <2>4. IsCommitted' <=> IsCommitted
      BY <1>1, <2>2 DEF IsCommitted
    <2> QED BY <2>3, <2>4
  <1>11. NothingEarly'
    <2>1. \A q \in DOMAIN positions : Owned(q)' = Owned(q)
      BY <1>1, <1>5, <1>10, OwnedIsShare, OwnedIsShareNext
    <2> QED BY <1>5, <1>6, <2>1 DEF VestingInv, NothingEarly
  <1>12. PromiseFits' /\ EscrowCovers'
    BY <1>1, <1>6, <1>10 DEF VestingInv, PromiseFits, EscrowCovers
  <1> QED BY <1>1, <1>7, <1>8, <1>9, <1>11, <1>12 DEF VestingInv

(* A delivery is of what the position owns, and out of the escrow.           *)
LEMMA ReleaseFits ==
    ASSUME VestingInv, NEW p, ReleaseVested(p)
    PROVE  /\ StatusIn({"Active", "Cancelled"}) /\ p \in DOMAIN positions
           /\ \E amount \in Nat :
                /\ amount <= escrow
                /\ positions[p].released + amount <= Owned(p)
                /\ escrow' = escrow - amount
                /\ positions' = [positions EXCEPT ![p].released = @ + amount]
                /\ series' = [series EXCEPT !.total_released = @ + amount]
                /\ UNCHANGED <<environment, terms, identity, unvetted>>
  <1> DEFINE e == vesting_position_entitlement(p, vesting_deliverable_cumulative)
             r == positions[p].released
             due == e - r
             amount == WithinEscrow(Due(p))
  <1>1. /\ StatusIn({"Active", "Cancelled"}) /\ p \in DOMAIN positions /\ amount > 0
        /\ escrow' = escrow - amount
        /\ positions' = [positions EXCEPT ![p].released = @ + amount]
        /\ series' = [series EXCEPT !.total_released = @ + amount]
        /\ UNCHANGED <<environment, terms, identity, unvetted>>
    BY DEF ReleaseVested
  <1>2. VestingTypeOK /\ series # NoSeries
    BY <1>1 DEF VestingInv, StatusIn
  <1>3. escrow \in Nat /\ r \in Nat /\ e \in Nat /\ Owned(p) \in Nat /\ e <= Owned(p)
    BY <1>1, <1>2, Fields, OwnedFine
  <1>4. amount = Min({due, escrow})
    BY DEF WithinEscrow, Due
  <1> HIDE DEF e, r, amount
  <1>5. due \in Int
    BY <1>3
  <1> HIDE DEF due
  <1>6. amount \in Int /\ amount <= due /\ amount <= escrow
    BY <1>3, <1>4, <1>5, MinOfTwo
  <1>7. amount \in Nat /\ r + amount <= Owned(p)
    BY <1>1, <1>3, <1>6 DEF due
  <1> QED BY <1>1, <1>6, <1>7 DEF r

(* release_vested books what it delivers with the position and the series.   *)
LEMMA ReleaseKeeps ==
    ASSUME VestingInv, NEW p, ReleaseVested(p)
    PROVE  VestingInv'
  <1>1. /\ series # NoSeries /\ series.status \in {"Active", "Cancelled"}
        /\ StatusIn({"Active", "Cancelled"}) /\ p \in DOMAIN positions
    BY ReleaseFits DEF StatusIn
  <1>2. PICK amount \in Nat :
          /\ amount <= escrow
          /\ positions[p].released + amount <= Owned(p)
          /\ escrow' = escrow - amount
          /\ positions' = [positions EXCEPT ![p].released = @ + amount]
          /\ series' = [series EXCEPT !.total_released = @ + amount]
          /\ UNCHANGED <<environment, terms, identity, unvetted>>
    BY ReleaseFits
  <1>3. /\ VestingTypeOK /\ Booked /\ NothingEarly /\ EscrowCovers
        /\ unvetted <= identity.own_refunded
    BY DEF VestingInv
  <1>4. /\ series \in SeriesState /\ series.total_allocated \in Nat
        /\ series.deposited \in Nat /\ series.total_released \in Nat
        /\ series.final_cumulative \in Nat
        /\ escrow \in Nat /\ IsFiniteSet(DOMAIN positions)
        /\ positions \in Seq([wallet : Wallets, allocation : Nat, released : Nat])
        /\ \A q \in DOMAIN positions :
             positions[q] \in [wallet : Wallets, allocation : Nat, released : Nat]
    BY <1>1, <1>3, Fields
  <1> DEFINE out == positions[p].released + amount
             total == series.total_released + amount
             moved == [positions[p] EXCEPT !.released = out]
             after == [series EXCEPT !.total_released = total]
  <1>5. out \in Nat /\ total \in Nat
    <2>1. positions[p].released \in Nat /\ series.total_released \in Nat /\ amount \in Nat
      BY <1>1, <1>4
    <2> QED BY <2>1
  <1>6. /\ positions' = [positions EXCEPT ![p] = moved] /\ series' = after
        /\ now' = now /\ paused' = paused /\ eligible' = eligible /\ blocked' = blocked
        /\ terms' = terms /\ identity' = identity /\ unvetted' = unvetted
    BY <1>2 DEF environment
  <1>7. /\ moved \in [wallet : Wallets, allocation : Nat, released : Nat]
        /\ moved.allocation = positions[p].allocation /\ moved.released = out
    <2> HIDE DEF out
    <2> QED BY <1>1, <1>4, <1>5
  <1>8. /\ after \in SeriesState /\ after.approved_mask = series.approved_mask
        /\ after.total_allocated = series.total_allocated
        /\ after.total_released = total /\ after.deposited = series.deposited
        /\ after.status = series.status
        /\ after.final_cumulative = series.final_cumulative
    <2> HIDE DEF total
    <2> QED BY <1>4, <1>5 DEF SeriesState
  <1> HIDE DEF moved, after
  <1>9. series' # NoSeries
    BY <1>6, <1>8, VestingAssumption
  <1>10. /\ positions' \in Seq([wallet : Wallets, allocation : Nat, released : Nat])
         /\ DOMAIN positions' = DOMAIN positions
         /\ positions'[p].released = out
         /\ \A q \in DOMAIN positions \ {p} : positions'[q] = positions[q]
         /\ \A q \in DOMAIN positions : positions'[q].allocation = positions[q].allocation
    BY <1>1, <1>4, <1>6, <1>7
  <1>11. /\ Tranches' = Tranches /\ Promised' = Promised
         /\ \A S : StatusIn(S)' <=> StatusIn(S)
    BY <1>1, <1>6, <1>8, <1>9 DEF Tranches, StatusIn, Promised
  <1>12. escrow' \in Nat
    BY <1>2, <1>4
  <1>13. VestingTypeOK'
    <2>1. /\ now' \in Nat /\ paused' \in BOOLEAN
          /\ eligible' \subseteq Wallets /\ blocked' \subseteq Wallets
          /\ terms' \in SeriesTerms \cup {NoSeries}
          /\ (terms' = NoSeries <=> series' = NoSeries)
          /\ identity' \in [own_deposited : Nat, own_refunded : Nat] /\ unvetted' \in Nat
      BY <1>1, <1>3, <1>6, <1>9 DEF VestingTypeOK
    <2>2. series' \in SeriesState /\ series'.approved_mask \subseteq Tranches'
      BY <1>1, <1>3, <1>6, <1>8, <1>11 DEF VestingTypeOK
    <2> QED BY <1>10, <1>12, <2>1, <2>2 DEF VestingTypeOK
  <1>14. Begins'
    BY <1>6, <1>9 DEF VestingInv, Begins
  <1>15. Basis' = Basis /\ (IsCommitted' <=> IsCommitted)
    <2>1. vesting_cumulative' = vesting_cumulative
      BY <1>6, <1>11, Zenon DEF vesting_cumulative, SumOfTranches
    <2>2. vesting_schedule_total' = vesting_schedule_total
      BY <1>6, <1>11, Zenon DEF vesting_schedule_total, SumOfTranches
    <2>3. Basis' = Basis
      BY <1>6, <1>8, <2>1 DEF Basis
    <2>4. IsCommitted' <=> IsCommitted
      BY <1>6, <1>8, <2>2 DEF IsCommitted
    <2> QED BY <2>3, <2>4
  <1>16. NothingEarly'
    <2> HIDE DEF out
    <2>1. \A q \in DOMAIN positions : Owned(q)' = Owned(q)
      BY <1>6, <1>8, <1>10, <1>15, OwnedIsShare, OwnedIsShareNext
    <2>2. \A q \in DOMAIN positions : positions[q].released <= Owned(q)
      BY <1>1, <1>3 DEF NothingEarly
    <2>3. out <= Owned(p)
      BY <1>2 DEF out
    <2> QED BY <1>1, <1>10, <2>1, <2>2, <2>3 DEF NothingEarly
  <1>17. PromiseFits' /\ DraftUntouched'
    <2>1. ~StatusIn({"Draft"})'
      BY <1>1, <1>6, <1>8 DEF StatusIn
    <2> QED BY <1>6, <1>8, <1>11, <1>15, <2>1 DEF VestingInv, PromiseFits, DraftUntouched
  <1>18. Booked'
    <2> DEFINE S == DOMAIN positions
               f == ReleasedOf(positions)
               g == ReleasedOf(positions')
    <2>1. AllocationsOf(positions') = AllocationsOf(positions)
      BY <1>10 DEF AllocationsOf
    <2>2. f \in [S -> Nat] /\ f[p] = positions[p].released
      BY <1>1, <1>4 DEF ReleasedOf
    <2>3. g \in [S -> Nat] /\ g[p] = out /\ \A q \in S \ {p} : g[q] = f[q]
      <3>1. ASSUME NEW q \in S PROVE positions'[q].released \in Nat
        <4> HIDE DEF out
        <4>1. CASE q = p BY <1>5, <1>10, <4>1
        <4>2. CASE q # p BY <1>4, <1>10, <4>2
        <4> QED BY <4>1, <4>2
      <3> HIDE DEF out
      <3> QED BY <1>1, <1>10, <3>1 DEF ReleasedOf
    <2> HIDE DEF f, g
    <2>4. Total(f) = SumOf(f, S) /\ Total(g) = SumOf(g, S)
      BY <1>4, <2>2, <2>3, TotalType
    <2>5. SumOf(f, S) \in Nat /\ f[p] \in Nat /\ SumOf(g, S) = SumOf(f, S) - f[p] + g[p]
      <3>1. IsFiniteSet(S) /\ p \in S
        BY <1>1, <1>4
      <3> HIDE DEF S
      <3>2. f \in [S -> Nat] /\ g \in [S -> Nat] /\ \A q \in S \ {p} : g[q] = f[q]
        BY <2>2, <2>3
      <3> QED BY <3>1, <3>2, NatSumChange
    <2>6. Total(f) = series.total_released
      BY <1>1, <1>3 DEF Booked, f
    <2>7. Total(g) = total
      BY <2>2, <2>3, <2>4, <2>5, <2>6
    <2> HIDE DEF total, out
    <2> QED BY <1>1, <1>3, <1>6, <1>8, <2>1, <2>7 DEF Booked, g
  <1>19. EscrowCovers'
    <2>1. Promised \in Nat
      BY <1>4 DEF Promised
    <2>2. \/ series.deposited <= escrow + series.total_released
          \/ Promised <= escrow + series.total_released
      BY <1>1, <1>3, <1>4, <2>1, Covered
    <2>3. escrow' + total = escrow + series.total_released
      BY <1>2, <1>4
    <2> HIDE DEF total
    <2> QED BY <1>4, <1>5, <1>6, <1>8, <1>11, <1>12, <2>1, <2>2, <2>3, CoversNext
  <1> QED BY <1>3, <1>6, <1>13, <1>14, <1>16, <1>17, <1>18, <1>19 DEF VestingInv

-----------------------------------------------------------------------------
(* Every instruction keeps the invariant.                                    *)
LEMMA NextKeeps == VestingInv /\ [VestingNext]_vestingVars => VestingInv'
  <1> SUFFICES ASSUME VestingInv, [VestingNext]_vestingVars PROVE VestingInv'
    OBVIOUS
  <1>1. VestingTypeOK
    BY DEF VestingInv
  <1>2. CASE UNCHANGED vestingVars
    <2>1. /\ UNCHANGED <<terms, series, positions, identity, escrow, unvetted>>
          /\ now' = now /\ paused' = paused /\ eligible' = eligible /\ blocked' = blocked
      BY <1>2 DEF vestingVars, environment
    <2>2. /\ now' \in Nat /\ now <= now' /\ paused' \in BOOLEAN
          /\ eligible' \subseteq Wallets /\ blocked' \subseteq Wallets
      BY <1>1, <2>1 DEF VestingTypeOK
    <2> QED BY <2>1, <2>2, SurroundingsKeep
  <1>3. CASE Surroundings
    <2>1. UNCHANGED <<terms, series, positions, identity, escrow, unvetted>>
      BY <1>3 DEF Surroundings, SetEligible, SetBlocked, SetPaused, VestingTick, ClockTicks
    <2>2. now' \in Nat /\ now <= now'
      BY <1>1, <1>3 DEF Surroundings, SetEligible, SetBlocked, SetPaused, VestingTick,
                        ClockTicks, VestingTypeOK
    <2>3. paused' \in BOOLEAN
      BY <1>1, <1>3, Zenon
      DEF Surroundings, SetEligible, SetBlocked, SetPaused, VestingTick, ClockTicks,
          VestingTypeOK
    <2>4. eligible' \subseteq Wallets /\ blocked' \subseteq Wallets
      BY <1>1, <1>3
      DEF Surroundings, SetEligible, SetBlocked, SetPaused, VestingTick, ClockTicks,
          Toggled, VestingTypeOK
    <2> QED BY <2>1, <2>2, <2>3, <2>4, SurroundingsKeep
  <1>4. CASE \E p \in Indices : ClaimVested(p) \/ PushVested(p)
    BY <1>4, ReleaseKeeps DEF ClaimVested, PushVested
  <1>5. CASE WithdrawUnvested \/ WithdrawVestingSurplus
    BY <1>5, WithdrawalKeeps
  <1>6. CASE Instructions
    BY <1>4, <1>5, <1>6, CreateKeeps, AddKeeps, FinalizeKeeps, PaidInKeeps, SwitchesKeep,
       RecoverKeeps, CancelKeeps DEF Instructions
  <1> QED BY <1>2, <1>3, <1>6 DEF VestingNext

(* VestingSeries, its positions, its escrow and its EscrowIdentity keep      *)
(* their types, the totals of the series are those of its positions, and the *)
(* escrow keeps what it is for: for any wallets, schedules and amounts.      *)
THEOREM VestingInvariance == VestingSpec => []VestingInv
  BY InitInv, NextKeeps, PTL DEF VestingSpec

(* withdraw_unvested: "recipients are always made whole".  However deposits, *)
(* pushes, deliveries, a cancellation and withdrawals follow each other, the *)
(* escrow of a funded series covers all that its positions can ever claim.   *)
THEOREM RecipientsAreBacked == VestingSpec => []RecipientsBacked
  BY VestingInvariance, InvBacks, PTL

-----------------------------------------------------------------------------
(* What a step of a finalized series does to what its positions own.         *)
LEMMA NothingTakenBack ==
    ASSUME VestingInv, VestingInv', StatusIn({"Active", "Cancelled"}),
           terms' = terms, now <= now', series' # NoSeries,
           series'.total_allocated = series.total_allocated,
           \/ /\ series'.status = series.status
              /\ series'.final_cumulative = series.final_cumulative
           \/ /\ series'.status = "Cancelled" /\ series.status = "Active"
              /\ vesting_cumulative <= series'.final_cumulative,
           DOMAIN positions' = DOMAIN positions,
           \A q \in DOMAIN positions : positions'[q].allocation = positions[q].allocation,
           NEW p \in DOMAIN positions
    PROVE  Owned(p)' >= Owned(p) /\ positions'[p].released <= Owned(p)'
  <1>1. /\ VestingTypeOK /\ VestingTypeOK' /\ series # NoSeries
        /\ series.status \in {"Active", "Cancelled"} /\ StatusIn({"Active", "Cancelled"})'
    BY DEF VestingInv, StatusIn
  <1>2. terms # NoSeries /\ series.final_cumulative \in Nat
    BY <1>1, Fields
  <1>3. vesting_cumulative <= vesting_cumulative'
    BY <1>1, <1>2, CumulativeGrows
  <1>4. Basis <= Basis'
    BY <1>1, <1>2, <1>3 DEF Basis
  <1>5. Owned(p) \in Nat /\ Owned(p)' \in Nat /\ Owned(p) <= Owned(p)'
    BY <1>1, <1>4, OwnedGrows
  <1>6. positions'[p].released <= Owned(p)'
    BY <1>1 DEF VestingInv, NothingEarly
  <1> QED BY <1>5, <1>6

(* A step neither lowers what a position owns nor pays beyond it.            *)
LEMMA StepTakesNothingBack ==
    ASSUME VestingInv, VestingInv', VestingNext, StatusIn({"Active", "Cancelled"}),
           NEW p \in DOMAIN positions
    PROVE  Owned(p)' >= Owned(p) /\ positions'[p].released <= Owned(p)'
  <1>1. /\ series # NoSeries /\ series.status \in {"Active", "Cancelled"} /\ VestingTypeOK
        /\ now \in Nat /\ series \in SeriesState
    BY Fields DEF VestingInv, StatusIn, VestingTypeOK
  <1> DEFINE Moves ==
        /\ terms' = terms /\ now <= now' /\ series' # NoSeries
        /\ series'.total_allocated = series.total_allocated
        /\ \/ /\ series'.status = series.status
              /\ series'.final_cumulative = series.final_cumulative
           \/ /\ series'.status = "Cancelled" /\ series.status = "Active"
              /\ vesting_cumulative <= series'.final_cumulative
        /\ DOMAIN positions' = DOMAIN positions
        /\ \A q \in DOMAIN positions : positions'[q].allocation = positions[q].allocation
  <1>2. SUFFICES Moves
    BY NothingTakenBack, Zenon
  <1>3. CASE Surroundings
    BY <1>1, <1>3 DEF Surroundings, SetEligible, SetBlocked, SetPaused, VestingTick,
                      ClockTicks
  <1>4. ASSUME NEW q \in Indices, ClaimVested(q) \/ PushVested(q)
        PROVE  Moves
    <2>1. PICK amount \in Nat :
            /\ positions' = [positions EXCEPT ![q].released = @ + amount]
            /\ series' = [series EXCEPT !.total_released = @ + amount]
            /\ UNCHANGED <<environment, terms>>
      BY <1>4, ReleaseFits DEF ClaimVested, PushVested
    <2>2. /\ series'.total_allocated = series.total_allocated
          /\ series'.status = series.status
          /\ series'.final_cumulative = series.final_cumulative
      BY <1>1, <2>1 DEF SeriesState
    <2>3. terms' = terms /\ now' = now /\ series' # NoSeries
      <3>1. terms' = terms /\ now' = now
        BY <2>1 DEF environment
      <3> QED BY <1>1, <3>1 DEF VestingInv, VestingTypeOK
    <2>4. \A r \in DOMAIN positions : positions[r] \in [wallet : Wallets, allocation : Nat,
                                                        released : Nat]
      BY <1>1, Fields
    <2>5. /\ DOMAIN positions' = DOMAIN positions
          /\ \A r \in DOMAIN positions : positions'[r].allocation = positions[r].allocation
      BY <2>1, <2>4
    <2> QED BY <1>1, <2>2, <2>3, <2>5
  <1>5. ASSUME NEW q \in Indices, NEW w \in Wallets, RecoverVestingPosition(q, w)
        PROVE  Moves
    <2>1. /\ positions' = [positions EXCEPT ![q].wallet = w]
          /\ series' = series /\ terms' = terms /\ now' = now
      BY <1>5 DEF RecoverVestingPosition, environment
    <2>2. \A r \in DOMAIN positions : positions[r] \in [wallet : Wallets, allocation : Nat,
                                                        released : Nat]
      BY <1>1, Fields
    <2>3. /\ DOMAIN positions' = DOMAIN positions
          /\ \A r \in DOMAIN positions : positions'[r].allocation = positions[r].allocation
      BY <2>1, <2>2
    <2> QED BY <1>1, <2>1, <2>3
  <1>6. CASE CancelVestingSeries
    <2>1. /\ series'.status = "Cancelled" /\ series' \in SeriesState
          /\ series.status = "Active" => vesting_cumulative <= series'.final_cumulative
          /\ series'.total_allocated = series.total_allocated
          /\ series.status \in {"Draft", "Active"}
      BY <1>6, CancelFreezes
    <2>2. terms' = terms /\ now' = now /\ positions' = positions
      BY <1>6 DEF CancelVestingSeries, environment
    <2> QED BY <1>1, <2>1, <2>2, VestingAssumption
  <1>7. ~(\E t \in SeriesTerms : CreateVestingSeries(t)) /\ ~FinalizeVestingSeries
        /\ ~(\E w \in Wallets, n \in Allocations : AddVestingPosition(w, n))
    <2>1. ~StatusIn({"Draft"})
      BY <1>1 DEF StatusIn
    <2>2. \A t : ~CreateVestingSeries(t)
      BY <1>1 DEF CreateVestingSeries
    <2>3. ~FinalizeVestingSeries
      BY <2>1 DEF FinalizeVestingSeries
    <2>4. \A w, n : ~AddVestingPosition(w, n)
      BY <2>1 DEF AddVestingPosition
    <2> QED BY <2>2, <2>3, <2>4
  <1>8. ASSUME \/ \E w \in Wallets, n \in Lots : DepositToVestingEscrow(w, n)
               \/ \E i \in Tranches : ApproveVestingTranche(i)
               \/ DisableVestingCancellation
               \/ WithdrawUnvested \/ WithdrawVestingSurplus
               \/ \E n \in Lots : Push(n)
        PROVE  Moves
    <2>1. terms' = terms /\ now' = now /\ positions' = positions
      BY <1>8 DEF DepositToVestingEscrow, ApproveVestingTranche, DisableVestingCancellation,
                  WithdrawUnvested, WithdrawVestingSurplus, WithdrawAvailable, Push,
                  environment
    <2>2. \/ series' = series
          \/ \E n : series' = [series EXCEPT !.deposited = n]
          \/ \E m : series' = [series EXCEPT !.approved_mask = m]
          \/ series' = [series EXCEPT !.cancellation_enabled = FALSE]
      BY <1>8 DEF DepositToVestingEscrow, ApproveVestingTranche, DisableVestingCancellation,
                  WithdrawUnvested, WithdrawVestingSurplus, WithdrawAvailable, Push
    <2>3. /\ series'.total_allocated = series.total_allocated
          /\ series'.status = series.status
          /\ series'.final_cumulative = series.final_cumulative
      BY <1>1, <2>2 DEF SeriesState
    <2>4. series' # NoSeries
      BY <1>1, <2>1 DEF VestingInv, VestingTypeOK
    <2> QED BY <1>1, <2>1, <2>3, <2>4
  <1> HIDE DEF Moves
  <1>9. CASE Instructions
    BY <1>4, <1>5, <1>6, <1>7, <1>8, <1>9 DEF Instructions
  <1> QED BY <1>3, <1>9 DEF VestingNext

(* approve_vesting_tranche: "Approval gates TIMING, never ownership".  From  *)
(* finalization on, no approval, pause, cancellation or recovery takes back  *)
(* what has vested, and nothing is delivered before it has.                  *)
THEOREM VestedStaysOwned == VestingSpec => VestedIsOwned
  <1>1. VestingInv /\ VestingInv' /\ [VestingNext]_vestingVars =>
          [StatusIn({"Active", "Cancelled"}) =>
             \A p \in DOMAIN positions :
               Owned(p)' >= Owned(p) /\ positions'[p].released <= Owned(p)']_vestingVars
    BY StepTakesNothingBack
  <1> QED BY <1>1, VestingInvariance, PTL DEF VestingSpec, VestedIsOwned

(* Only a withdrawal adds to what the client took while its KYC failed.      *)
LEMMA UnvettedStep ==
    ASSUME VestingInv, [VestingNext]_vestingVars
    PROVE  unvetted' > unvetted =>
             unvetted' + (IF series.status = "Active" THEN series.total_allocated
                                                      ELSE series.total_released)
               <= identity.own_deposited
  <1>1. CASE WithdrawUnvested \/ WithdrawVestingSurplus
    BY <1>1, WithdrawalKeeps
  <1>2. ASSUME ~(WithdrawUnvested \/ WithdrawVestingSurplus)
        PROVE  unvetted' = unvetted
    <2>1. CASE UNCHANGED vestingVars
      BY <2>1 DEF vestingVars
    <2>2. CASE Surroundings
      BY <2>2 DEF Surroundings, SetEligible, SetBlocked, SetPaused, VestingTick, ClockTicks
    <2>3. CASE Instructions
      <3>1. \A t : CreateVestingSeries(t) => unvetted' = unvetted
        BY DEF CreateVestingSeries
      <3>2. \A w, n : AddVestingPosition(w, n) \/ DepositToVestingEscrow(w, n) \/ Push(n)
                        => unvetted' = unvetted
        BY DEF AddVestingPosition, DepositToVestingEscrow, Push
      <3>3. \A i : ApproveVestingTranche(i) => unvetted' = unvetted
        BY DEF ApproveVestingTranche
      <3>4. \A p : ClaimVested(p) \/ PushVested(p) => unvetted' = unvetted
        BY DEF ClaimVested, PushVested, ReleaseVested
      <3>5. \A p, w : RecoverVestingPosition(p, w) => unvetted' = unvetted
        BY DEF RecoverVestingPosition
      <3>6. FinalizeVestingSeries \/ DisableVestingCancellation \/ CancelVestingSeries
                => unvetted' = unvetted
        BY DEF FinalizeVestingSeries, DisableVestingCancellation, CancelVestingSeries
      <3> QED BY <1>2, <2>3, <3>1, <3>2, <3>3, <3>4, <3>5, <3>6 DEF Instructions
    <2> QED BY <2>1, <2>2, <2>3 DEF VestingNext
  <1>3. unvetted \in Nat
    BY DEF VestingInv, VestingTypeOK
  <1> QED BY <1>1, <1>2, <1>3

(* withdraw_available: a client whose KYC fails takes only units it supplied *)
(* itself, after those have paid for what the recipients are to get.         *)
THEOREM UnvettedWithinOwn == VestingSpec => UnvettedClientTakesItsOwn
  <1>1. VestingInv /\ [VestingNext]_vestingVars =>
          [unvetted' > unvetted =>
             unvetted' + (IF series.status = "Active" THEN series.total_allocated
                                                      ELSE series.total_released)
               <= identity.own_deposited]_vestingVars
    BY UnvettedStep
  <1> QED BY <1>1, VestingInvariance, PTL DEF VestingSpec, UnvettedClientTakesItsOwn

-----------------------------------------------------------------------------
(* The primary sale.                                                         *)

(* What SaleWithinReview leaves out and its preservation needs: the whole    *)
(* offer, not only what has been sold, fits the reviewed gross.              *)
OfferReviewed(s) ==
    LET sale == sales[s] review == reviewed[s]
    IN /\ review # NoApproval /\ approvals[s] = NoApproval
       /\ sale.raise_type = review.raise_type
       /\ sale.cliff = review.cliff /\ sale.vesting = review.vesting
       /\ sale.price >= review.min_price /\ sale.price <= review.max_price
       /\ sale.start_ts <= review.expires_at
       /\ sale.sold <= sale.total
       /\ sale.price * sale.total <= review.max_gross

OffersReviewed == \A s \in SaleIds : sales[s] # NoSale => OfferReviewed(s)

\* What MoneyTrail says of one sale.
Trail(s) ==
    LET paid == IF sales[s] = NoSale THEN 0 ELSE sales[s].price * sales[s].sold
        inEscrow == sales[s] # NoSale /\ sales[s].status = "Open"
        mature == sales[s] # NoSale /\ sales[s].raise_type = "Mature"
    IN /\ proceeds[s] = IF inEscrow THEN paid ELSE 0
       /\ paidOut[s] = IF ~inEscrow /\ mature THEN paid ELSE 0
       /\ vaulted[s] = IF ~inEscrow /\ ~mature THEN paid ELSE 0

SaleInv == TypeOK /\ SupplyCapped /\ MoneyTrail /\ OffersReviewed

\* A step that leaves every sale id but s as it was.
Touches(s) ==
    \A r \in SaleIds \ {s} :
        /\ sales'[r] = sales[r] /\ approvals'[r] = approvals[r]
        /\ reviewed'[r] = reviewed[r] /\ proceeds'[r] = proceeds[r]
        /\ paidOut'[r] = paidOut[r] /\ vaulted'[r] = vaulted[r]

-----------------------------------------------------------------------------
(* Integer arithmetic of the gross.                                          *)

(* What has been sold is worth no more than the offer.                       *)
LEMMA SoldWithinOffer ==
    ASSUME NEW price \in Nat, NEW sold \in Nat, NEW total \in Nat, sold <= total
    PROVE  price * sold <= price * total
  BY SMT

(* A purchase adds its own price to what has been paid.                      *)
LEMMA PaidAdds ==
    ASSUME NEW price \in Nat, NEW sold \in Nat, NEW amount \in Nat
    PROVE  /\ price * (sold + amount) = price * sold + price * amount
           /\ price * amount \in Nat
  BY SMT

-----------------------------------------------------------------------------
(* Before the first instruction there is no sale and no unit.                *)
LEMMA SaleBegins == Init => SaleInv
  <1> SUFFICES ASSUME Init PROVE SaleInv
    OBVIOUS
  <1>1. class.max_supply \in Nat
    BY ConstantsAssumption DEF Init
  <1>2. TypeOK
    <2>1. supply_locked \in BOOLEAN /\ brakes \in BrakeSets
      BY ConstantsAssumption, Zenon DEF Init
    <2> QED BY <2>1 DEF Init, TypeOK, SaleIdsTo
  <1>3. SupplyCapped
    BY <1>1, SMT DEF Init, SupplyCapped
  <1>4. MoneyTrail /\ OffersReviewed
    BY DEF Init, MoneyTrail, OffersReviewed
  <1> QED BY <1>2, <1>3, <1>4 DEF SaleInv

(* The environment and the Admins' roles leave sales, units and money alone. *)
LEMMA EnvironmentKeeps ==
    ASSUME SaleInv,
           Tick \/ SetBrakes \/ \E a \in Admins : RemoveAdmin(a) \/ AddAdmin(a)
    PROVE  SaleInv'
  <1>1. /\ now' \in Int /\ brakes' \in BrakeSets /\ admins' \subseteq Admins
        /\ UNCHANGED <<supply, approvals, sales, reviewed, money>>
    BY ConstantsAssumption DEF SaleInv, TypeOK, Tick, ClockTicks, SetBrakes,
                               RemoveAdmin, AddAdmin
  <1> QED
    BY <1>1
    DEF SaleInv, TypeOK, SupplyCapped, MoneyTrail, OffersReviewed, OfferReviewed,
        supply, money

(* An issuance stays within the cap.                                         *)
LEMMA IssueWithinCap ==
    ASSUME SaleInv, NEW n \in Nat, Issue(n), UNCHANGED <<class, burned>>
    PROVE  SupplyCapped' /\ circulating_supply' \in Nat /\ lifetime_minted' \in Nat
  <1>1. class.max_supply \in Nat /\ class.cumulative_cap \in BOOLEAN
    BY ConstantsAssumption DEF SaleInv, TypeOK
  <1> QED
    BY <1>1 DEF SaleInv, TypeOK, SupplyCapped, Issue, WithinCap, LifetimeAfter

(* A step that touches one sale id keeps what holds of the others.           *)
LEMMA OneSaleAtATime ==
    ASSUME SaleInv, NEW s \in SaleIds, Touches(s),
           TypeOK', SupplyCapped', Trail(s)', sales'[s] # NoSale => OfferReviewed(s)'
    PROVE  SaleInv'
  <1>1. ASSUME NEW r \in SaleIds PROVE Trail(r)'
    <2>1. CASE r = s BY <2>1
    <2>2. CASE r # s BY <2>2 DEF SaleInv, MoneyTrail, Trail, Touches
    <2> QED BY <2>1, <2>2
  <1>2. ASSUME NEW r \in SaleIds, sales'[r] # NoSale PROVE OfferReviewed(r)'
    <2>1. CASE r = s BY <1>2, <2>1
    <2>2. CASE r # s
      BY <1>2, <2>2 DEF SaleInv, OffersReviewed, OfferReviewed, Touches
    <2> QED BY <2>1, <2>2
  <1> QED BY <1>1, <1>2 DEF SaleInv, MoneyTrail, Trail, OffersReviewed

(* approve_sale only writes the approval of a free sale id, and              *)
(* revoke_sale_approval only takes an approval away.                         *)
LEMMA ApprovalsKeep ==
    ASSUME SaleInv, NEW a \in Admins, NEW s \in SaleIds,
           (\E t \in ApprovalTerms : ApproveSale(a, s, t)) \/ RevokeSaleApproval(a, s)
    PROVE  SaleInv'
  <1>1. PICK x \in SaleApproval \cup {NoApproval} :
           /\ approvals' = [approvals EXCEPT ![s] = x]
           /\ x = NoApproval \/ sales[s] = NoSale
    <2>1. CASE RevokeSaleApproval(a, s)
      BY <2>1 DEF RevokeSaleApproval
    <2>2. ASSUME NEW t \in ApprovalTerms, ApproveSale(a, s, t)
          PROVE  \E x \in SaleApproval \cup {NoApproval} :
                   /\ approvals' = [approvals EXCEPT ![s] = x]
                   /\ x = NoApproval \/ sales[s] = NoSale
      <3> DEFINE x == [raise_type |-> t.raise_type, max_gross |-> t.max_gross,
             min_price |-> t.min_price, max_price |-> t.max_price,
             expires_at |-> now + t.ttl, cliff |-> t.cliff, vesting |-> t.vesting,
             approved_by |-> a]
      <3>1. t \in ApprovalTerm
        BY ConstantsAssumption
      <3>2. x \in SaleApproval
        BY <3>1 DEF SaleInv, TypeOK, ApprovalTerm, SaleApproval
      <3> QED
        BY <2>2, <3>2 DEF ApproveSale, IsFree
    <2> QED BY <2>1, <2>2
  <1>2. UNCHANGED <<env, supply, sales, reviewed, money>>
    BY DEF ApproveSale, RevokeSaleApproval
  <1>3. TypeOK'
    BY <1>1, <1>2 DEF SaleInv, TypeOK, SaleIdsTo, env, supply, money
  <1>4. SupplyCapped' /\ Trail(s)'
    BY <1>2 DEF SaleInv, SupplyCapped, MoneyTrail, Trail, supply, money
  <1>5. Touches(s)
    BY <1>1, <1>2 DEF SaleInv, TypeOK, SaleIdsTo, Touches, money
  <1>6. sales'[s] # NoSale => OfferReviewed(s)'
    BY <1>1, <1>2 DEF SaleInv, TypeOK, SaleIdsTo, OffersReviewed, OfferReviewed
  <1> QED BY <1>3, <1>4, <1>5, <1>6, OneSaleAtATime

(* open_sale checks the terms it writes against the approval it consumes.    *)
LEMMA OpenSaleKeeps ==
    ASSUME SaleInv, NEW s \in SaleIds, NEW t \in SaleTerms, OpenSale(s, t)
    PROVE  SaleInv'
  <1> DEFINE sale == [status |-> "Open", raise_type |-> t.raise_type, price |-> t.price,
                      total |-> t.total, sold |-> 0, start_ts |-> now + t.start_in,
                      end_ts |-> now + t.start_in + t.duration,
                      cliff |-> t.cliff, vesting |-> t.vesting]
  <1>1. t \in SaleTerm
    BY ConstantsAssumption
  <1>2. sale \in Sale
    BY <1>1 DEF SaleInv, TypeOK, SaleTerm, Sale
  <1>3. /\ sales' = [sales EXCEPT ![s] = sale]
        /\ approvals' = [approvals EXCEPT ![s] = NoApproval]
        /\ reviewed' = [reviewed EXCEPT ![s] = approvals[s]]
        /\ sales[s] = NoSale /\ approvals[s] # NoApproval
        /\ WithinApproval(t, approvals[s])
        /\ UNCHANGED <<env, supply, money>>
    BY DEF OpenSale, IsFree
  <1>4. approvals[s] \in SaleApproval
    BY <1>3 DEF SaleInv, TypeOK, SaleIdsTo
  <1>5. TypeOK'
    BY <1>2, <1>3, <1>4 DEF SaleInv, TypeOK, SaleIdsTo, env, supply, money
  <1>6. SupplyCapped'
    BY <1>3 DEF SaleInv, SupplyCapped, supply
  <1>7. sales'[s] = sale /\ approvals'[s] = NoApproval /\ reviewed'[s] = approvals[s]
    BY <1>3 DEF SaleInv, TypeOK, SaleIdsTo
  <1>8. Trail(s)'
    <2>1. proceeds'[s] = 0 /\ paidOut'[s] = 0 /\ vaulted'[s] = 0
      BY <1>3 DEF SaleInv, MoneyTrail, money
    <2>2. sale.price * sale.sold = 0
      BY <1>1 DEF SaleTerm
    <2> QED BY <1>7, <2>1, <2>2 DEF Trail
  <1>9. OfferReviewed(s)'
    BY <1>1, <1>3, <1>4, <1>7
    DEF OfferReviewed, WithinApproval, WithinGross, SaleTerm, SaleApproval
  <1>10. Touches(s)
    BY <1>3 DEF SaleInv, TypeOK, SaleIdsTo, Touches, money
  <1> QED BY <1>5, <1>6, <1>8, <1>9, <1>10, OneSaleAtATime

(* buy takes the price of what it mints, within the offer and the cap.       *)
LEMMA BuyKeeps ==
    ASSUME SaleInv, NEW s \in SaleIds, NEW n \in Amounts, Buy(s, n)
    PROVE  SaleInv'
  <1>1. sales[s] \in Sale /\ sales[s] # NoSale /\ sales[s].status = "Open" /\ n \in Nat
    BY ConstantsAssumption DEF SaleInv, TypeOK, SaleIdsTo, Buy, IsOpen
  <1> DEFINE sale == [sales[s] EXCEPT !.sold = sales[s].sold + n]
  <1>2. /\ sale \in Sale /\ sale # NoSale
        /\ sale.sold = sales[s].sold + n /\ sale.sold <= sale.total
        /\ sale.status = "Open"
        /\ sale.price = sales[s].price /\ sale.total = sales[s].total
        /\ sale.raise_type = sales[s].raise_type
        /\ sale.cliff = sales[s].cliff /\ sale.vesting = sales[s].vesting
        /\ sale.start_ts = sales[s].start_ts
    BY <1>1, NoSaleAssumption DEF Sale, Buy
  <1>3. /\ sales' = [sales EXCEPT ![s] = sale]
        /\ proceeds' = [proceeds EXCEPT ![s] = proceeds[s] + sales[s].price * n]
        /\ Issue(n)
        /\ UNCHANGED <<env, class, supply_locked, treasuryMinted, burned,
                       approvals, reviewed, paidOut, vaulted>>
    BY DEF Buy
  <1>4. /\ sales[s].price * (sales[s].sold + n)
             = sales[s].price * sales[s].sold + sales[s].price * n
        /\ sales[s].price * n \in Nat
    BY <1>1, PaidAdds DEF Sale
  <1>5. SupplyCapped' /\ circulating_supply' \in Nat /\ lifetime_minted' \in Nat
    BY <1>1, <1>3, IssueWithinCap
  <1>6. TypeOK'
    BY <1>2, <1>3, <1>4, <1>5 DEF SaleInv, TypeOK, SaleIdsTo, env
  <1>7. /\ sales'[s] = sale /\ approvals'[s] = approvals[s] /\ reviewed'[s] = reviewed[s]
        /\ proceeds'[s] = proceeds[s] + sales[s].price * n
        /\ paidOut'[s] = paidOut[s] /\ vaulted'[s] = vaulted[s]
    BY <1>3 DEF SaleInv, TypeOK, SaleIdsTo
  <1>8. Trail(s)'
    BY <1>1, <1>2, <1>4, <1>7 DEF SaleInv, MoneyTrail, Trail
  <1>9. OfferReviewed(s)'
    BY <1>1, <1>2, <1>7 DEF SaleInv, OffersReviewed, OfferReviewed
  <1>10. Touches(s)
    BY <1>3 DEF SaleInv, TypeOK, SaleIdsTo, Touches
  <1> QED BY <1>5, <1>6, <1>8, <1>9, <1>10, OneSaleAtATime

(* close_sale and open_payout_vault move the whole balance of the escrow to  *)
(* where the kind of raise says.                                             *)
LEMMA ClosingKeeps ==
    ASSUME SaleInv, NEW s \in SaleIds, CloseSale(s) \/ OpenPayoutVault(s)
    PROVE  SaleInv'
  <1>1. sales[s] \in Sale /\ sales[s] # NoSale /\ sales[s].status = "Open"
    BY DEF SaleInv, TypeOK, SaleIdsTo, CloseSale, OpenPayoutVault, IsOpen
  <1> DEFINE sale == [sales[s] EXCEPT !.status = "Closed"]
  <1>2. /\ sale \in Sale /\ sale # NoSale /\ sale.status = "Closed"
        /\ sale.sold = sales[s].sold
        /\ sale.price = sales[s].price /\ sale.total = sales[s].total
        /\ sale.raise_type = sales[s].raise_type
        /\ sale.cliff = sales[s].cliff /\ sale.vesting = sales[s].vesting
        /\ sale.start_ts = sales[s].start_ts
    BY <1>1, NoSaleAssumption DEF Sale
  <1>3. /\ sales' = [sales EXCEPT ![s] = sale]
        /\ proceeds' = [proceeds EXCEPT ![s] = 0]
        /\ UNCHANGED <<env, supply, approvals, reviewed>>
    BY DEF CloseSale, OpenPayoutVault, Close
  <1>4. \/ /\ sales[s].raise_type = "Mature" /\ vaulted' = vaulted
           /\ paidOut' = [paidOut EXCEPT ![s] = paidOut[s] + proceeds[s]]
        \/ /\ sales[s].raise_type = "Startup" /\ paidOut' = paidOut
           /\ vaulted' = [vaulted EXCEPT ![s] = vaulted[s] + proceeds[s]]
    BY DEF CloseSale, OpenPayoutVault, SweptToIssuer
  <1>5. proceeds[s] \in Nat /\ paidOut[s] \in Nat /\ vaulted[s] \in Nat
    BY DEF SaleInv, TypeOK, SaleIdsTo
  <1>6. TypeOK'
    BY <1>2, <1>3, <1>4, <1>5 DEF SaleInv, TypeOK, SaleIdsTo, env, supply
  <1>7. SupplyCapped'
    BY <1>3 DEF SaleInv, SupplyCapped, supply
  <1>8. /\ sales'[s] = sale /\ approvals'[s] = approvals[s] /\ reviewed'[s] = reviewed[s]
        /\ proceeds'[s] = 0
    BY <1>3 DEF SaleInv, TypeOK, SaleIdsTo
  <1>9. Trail(s)'
    <2>1. /\ proceeds[s] = sales[s].price * sales[s].sold
          /\ paidOut[s] = 0 /\ vaulted[s] = 0
      BY <1>1 DEF SaleInv, MoneyTrail
    <2>2. \/ /\ sale.raise_type = "Mature" /\ vaulted'[s] = 0
             /\ paidOut'[s] = sale.price * sale.sold
          \/ /\ sale.raise_type = "Startup" /\ paidOut'[s] = 0
             /\ vaulted'[s] = sale.price * sale.sold
      BY <1>2, <1>4, <1>5, <2>1 DEF SaleInv, TypeOK, SaleIdsTo
    <2> QED BY <1>2, <1>8, <2>2 DEF Trail
  <1>10. OfferReviewed(s)'
    BY <1>1, <1>2, <1>8 DEF SaleInv, OffersReviewed, OfferReviewed
  <1>11. Touches(s)
    BY <1>3, <1>4 DEF SaleInv, TypeOK, SaleIdsTo, Touches
  <1> QED BY <1>6, <1>7, <1>9, <1>10, <1>11, OneSaleAtATime

(* lock_supply touches no counter.                                           *)
LEMMA LockKeeps ==
    ASSUME SaleInv, NEW a \in Admins, LockSupply(a)
    PROVE  SaleInv'
  BY DEF LockSupply, SaleInv, TypeOK, SupplyCapped, MoneyTrail, OffersReviewed,
         OfferReviewed, env, money

(* mint_to_treasury and the burns of a custody vault change the class only.  *)
LEMMA SupplyKeeps ==
    ASSUME SaleInv, NEW n \in Amounts,
           (\E d \in {"treasury", "escrow"} : MintToTreasury(n, d)) \/ BurnFromCustody(n)
    PROVE  SaleInv'
  <1>1. UNCHANGED <<env, class, approvals, sales, reviewed, money>>
    BY DEF MintToTreasury, BurnFromCustody
  <1>2. n \in Nat /\ class.max_supply \in Nat
    BY ConstantsAssumption DEF SaleInv, TypeOK
  <1> DEFINE ClassKept == /\ SupplyCapped' /\ supply_locked' \in BOOLEAN
                          /\ circulating_supply' \in Nat /\ lifetime_minted' \in Nat
                          /\ treasuryMinted' \in Nat /\ burned' \in Nat
  <1>3. ClassKept
    <2>1. ASSUME NEW d \in {"treasury", "escrow"}, MintToTreasury(n, d) PROVE ClassKept
      BY <1>2, <2>1, IssueWithinCap DEF MintToTreasury, SaleInv, TypeOK
    <2>2. ASSUME BurnFromCustody(n) PROVE ClassKept
      BY <1>2, <2>2 DEF BurnFromCustody, Burnable, SaleInv, TypeOK, SupplyCapped
    <2> QED BY <2>1, <2>2
  <1>4. TypeOK'
    BY <1>1, <1>3 DEF SaleInv, TypeOK, env, money
  <1> QED
    BY <1>1, <1>3, <1>4
    DEF SaleInv, MoneyTrail, OffersReviewed, OfferReviewed, money

(* Every instruction keeps the invariant.                                    *)
LEMMA SaleNextKeeps == SaleInv /\ [Next]_vars => SaleInv'
  <1> SUFFICES ASSUME SaleInv, [Next]_vars PROVE SaleInv'
    OBVIOUS
  <1>1. CASE UNCHANGED vars
    BY <1>1
    DEF SaleInv, TypeOK, SupplyCapped, MoneyTrail, OffersReviewed, OfferReviewed,
        vars, env, supply, money
  <1>2. ASSUME NEW a \in Admins, LockSupply(a) PROVE SaleInv'
    BY <1>2, LockKeeps
  <1>3. CASE Next
    BY <1>2, <1>3, EnvironmentKeeps, ApprovalsKeep, OpenSaleKeeps, BuyKeeps,
       ClosingKeeps, SupplyKeeps DEF Next
  <1> QED BY <1>1, <1>3

(* ShareClass, Sale and SaleApproval keep their types, for any share class,  *)
(* sale ids, Admins, terms, amounts and brakes.                              *)
THEOREM SaleInvariance == Spec => []SaleInv
  BY SaleBegins, SaleNextKeeps, PTL DEF Spec

(* next_issuance_supply: however many sales, treasury mints and burns share  *)
(* the class, the supply never exceeds its cap.                              *)
THEOREM SupplyCapSafe == Spec => []SupplyCapped
  BY SaleInvariance, PTL DEF SaleInv

(* buy, close_sale and open_payout_vault: the money of every unit sold is in *)
(* the one place the kind of raise says, for any number of sales.            *)
THEOREM MoneyTrailSafe == Spec => []MoneyTrail
  BY SaleInvariance, PTL DEF SaleInv

(* open_sale against SaleApproval: whatever the issuer, the Admins and the   *)
(* buyers do, a sale stays within the terms of one review.                   *)
THEOREM ReviewBinds == Spec => []SaleWithinReview
  <1>1. SaleInv => SaleWithinReview
    <2> SUFFICES ASSUME SaleInv, NEW s \in SaleIds, sales[s] # NoSale
                 PROVE  /\ OfferReviewed(s)
                        /\ proceeds[s] + paidOut[s] + vaulted[s] <= reviewed[s].max_gross
      BY DEF SaleWithinReview, OfferReviewed
    <2>1. OfferReviewed(s)
      BY DEF SaleInv, OffersReviewed
    <2>2. sales[s] \in Sale /\ reviewed[s] \in SaleApproval
      BY <2>1 DEF SaleInv, TypeOK, SaleIdsTo, OfferReviewed
    <2>3. proceeds[s] + paidOut[s] + vaulted[s] = sales[s].price * sales[s].sold
      <3>1. sales[s].price * sales[s].sold \in Nat
        BY <2>2, PaidAdds DEF Sale
      <3>2. sales[s].raise_type \in {"Mature", "Startup"}
        BY <2>2 DEF Sale, RaiseTypes
      <3> QED BY <3>1, <3>2 DEF SaleInv, MoneyTrail
    <2>4. sales[s].price * sales[s].sold <= sales[s].price * sales[s].total
      BY <2>1, <2>2, SoldWithinOffer DEF Sale, OfferReviewed
    <2>5. sales[s].price * sales[s].total \in Nat /\ reviewed[s].max_gross \in Nat
      BY <2>2, PaidAdds DEF Sale, SaleApproval
    <2> QED BY <2>1, <2>2, <2>3, <2>4, <2>5, PaidAdds DEF OfferReviewed, Sale
  <1> QED BY <1>1, SaleInvariance, PTL

(* lock_supply: a locked class stays locked and is never issued again,       *)
(* unless post-launch minting was declared.                                  *)
THEOREM LockFinal == Spec => LockIsFinal
  <1>1. [Next]_vars => (supply_locked =>
            /\ supply_locked'
            /\ ~class.mintable_post_launch => lifetime_minted' = lifetime_minted)
    BY DEF Next, vars, supply, Tick, ClockTicks, SetBrakes, RemoveAdmin, AddAdmin,
           ApproveSale,
           RevokeSaleApproval, OpenSale, Buy, MintToTreasury, BurnFromCustody,
           LockSupply, CloseSale, OpenPayoutVault, Issue, MayMint
  <1> QED BY <1>1, PTL DEF Spec, LockIsFinal
=============================================================================
