-------------------------- MODULE CustodyVaultProofs --------------------------
(***************************************************************************)
(* Proofs about CustodyVault, for any finite sets of holders and vaults,   *)
(* any deadlines, lots and windows: every unit is accounted for, what a    *)
(* quarantine holds is only burned, nobody's holding grows without a       *)
(* passport, and nobody's shrinks without a reason.                        *)
(***************************************************************************)
EXTENDS MCCustodyVault, SumTheorems

Live      == {"Active", "Triggered"}
Entries == {NoEntry} \cup [status : {"Approved", "Revoked"}, expiry : Nat]
Vaults ==
    [state : Live \cup Terminal, type : VaultTypes, authority : Keys, deadline : Nat,
     beneficiary : Holders \cup {NoBeneficiary}, deposited : Nat, escrow : Nat]
Accounts == {Absent, Tombstone} \cup Vaults

\* A vault's account.  Its escrow covers its ledger and is empty in the end.
\* Only a delivery escrow has a beneficiary, and only it takes deposits.
VaultFine(x) ==
    /\ x \in Accounts
    /\ x.state \in Live => x.deposited <= x.escrow
    /\ x.state \in Terminal => x.escrow = 0
    /\ x \in Vaults => IF x.type = "DeliveryEscrow" THEN x.beneficiary \in Holders
                                                    ELSE x.deposited = 0

Around ==
    /\ now \in 0 .. MaxTime /\ paused \in BOOLEAN /\ blocked \subseteq Blockable
    /\ kyc \in [Holders -> Entries]
    /\ admin \in admins /\ admins \subseteq Keys
    /\ transfers \in [VaultIds -> {NoProposal} \cup Proposals]

VaultsFine ==
    /\ vaults \in [VaultIds -> Accounts]
    /\ \A v \in VaultIds : VaultFine(vaults[v])

Stored == SumOf([v \in VaultIds |-> Held(v)], VaultIds)

Accounted ==
    /\ units \in [Holders -> Nat]
    /\ circulating_supply = SumOf(units, Holders) + Stored

CustodyInv == Around /\ VaultsFine /\ Accounted

\* What an account holds, and what of it is h's.
HeldIn(x) == IF x.state \in Live \cup Terminal THEN x.escrow ELSE 0
OwnIn(x, h) == IF x.state \in Live /\ x.beneficiary = h THEN x.deposited ELSE 0

-----------------------------------------------------------------------------
(* Total is the sum that SumTheorems is about.                               *)
LEMMA TotalIsSumOf == \A f, S : Total(f, S) = SumOf(f, S)
  BY Zenon DEF Total, SumOf

(* An account with a state of a vault has all the fields of one.             *)
LEMMA AccountIs ==
    ASSUME NEW x \in Accounts
    PROVE  /\ x.state \in Live \cup Terminal <=> x \in Vaults
           /\ x \in Vaults <=> x \notin {Absent, Tombstone}
           /\ x \in Vaults =>
                /\ x.escrow \in Nat /\ x.deposited \in Nat /\ x.authority \in Keys
                /\ x.deadline \in Nat /\ x.type \in VaultTypes
                /\ x.state \in Live \cup Terminal
                /\ x.beneficiary \in Holders \cup {NoBeneficiary}
           /\ HeldIn(x) \in Nat
           /\ \A h : OwnIn(x, h) \in Nat
           /\ x.state # "Active" \/ x.state # "Triggered"
  <1>1. x.state \in Live \cup Terminal <=> x \in Vaults
    BY DEF Accounts, Vaults, Absent, Tombstone, Live, Terminal
  <1>2. x \in Vaults <=> x \notin {Absent, Tombstone}
    BY <1>1 DEF Accounts, Absent, Tombstone, Live, Terminal
  <1>3. x \in Vaults =>
                /\ x.escrow \in Nat /\ x.deposited \in Nat /\ x.authority \in Keys
                /\ x.deadline \in Nat /\ x.type \in VaultTypes
                /\ x.state \in Live \cup Terminal
                /\ x.beneficiary \in Holders \cup {NoBeneficiary}
    BY DEF Vaults
  <1> QED BY <1>1, <1>2, <1>3 DEF HeldIn, OwnIn, Live

(* Held and OwnDeposits by account.                                          *)
LEMMA SumsByAccount ==
    ASSUME VaultsFine
    PROVE  /\ \A v \in VaultIds : Held(v) = HeldIn(vaults[v])
           /\ [v \in VaultIds |-> Held(v)] = [v \in VaultIds |-> HeldIn(vaults[v])]
           /\ Stored = SumOf([v \in VaultIds |-> HeldIn(vaults[v])], VaultIds)
           /\ \A h : OwnDeposits(h) = SumOf([v \in VaultIds |-> OwnIn(vaults[v], h)], VaultIds)
  <1>1. \A v \in VaultIds : Held(v) = HeldIn(vaults[v])
    BY AccountIs DEF VaultsFine, Held, Exists, HeldIn
  <1>2. [v \in VaultIds |-> Held(v)] = [v \in VaultIds |-> HeldIn(vaults[v])]
    BY <1>1
  <1>3. ASSUME NEW h
        PROVE  OwnDeposits(h) = SumOf([v \in VaultIds |-> OwnIn(vaults[v], h)], VaultIds)
    BY TotalIsSumOf, Zenon DEF OwnDeposits, IsLive, OwnIn, Live
  <1> QED BY <1>1, <1>2, <1>3 DEF Stored

(* One vault changes.                                                        *)
LEMMA OneVault ==
    ASSUME CustodyInv, NEW v \in VaultIds, NEW y, VaultFine(y),
           vaults' = [vaults EXCEPT ![v] = y]
    PROVE  /\ VaultsFine' /\ vaults'[v] = y
           /\ \A u \in VaultIds : Held(u)' = IF u = v THEN HeldIn(y) ELSE Held(u)
           /\ Stored \in Nat /\ Held(v) \in Nat /\ HeldIn(y) \in Nat
           /\ Stored' = Stored - Held(v) + HeldIn(y)
           /\ \A h : /\ OwnDeposits(h) \in Nat
                     /\ OwnIn(vaults[v], h) \in Nat /\ OwnIn(y, h) \in Nat
                     /\ OwnDeposits(h)' = OwnDeposits(h) - OwnIn(vaults[v], h) + OwnIn(y, h)
  <1>1. VaultsFine /\ y \in Accounts
    BY DEF CustodyInv, VaultFine
  <1>2. VaultsFine' /\ vaults'[v] = y /\ \A u \in VaultIds \ {v} : vaults'[u] = vaults[u]
    BY <1>1 DEF VaultsFine
  <1>3. \A u \in VaultIds : Held(u)' = HeldIn(vaults'[u])
    BY <1>2, AccountIs DEF VaultsFine, Held, Exists, HeldIn
  <1>4. \A u \in VaultIds : Held(u)' = IF u = v THEN HeldIn(y) ELSE Held(u)
    BY <1>1, <1>2, <1>3, SumsByAccount
  <1> DEFINE f == [u \in VaultIds |-> Held(u)]
             g == [u \in VaultIds |-> Held(u)']
  <1>5. f \in [VaultIds -> Nat] /\ g \in [VaultIds -> Nat]
    BY <1>1, <1>2, <1>3, SumsByAccount, AccountIs DEF VaultsFine
  <1>6. \A u \in VaultIds \ {v} : g[u] = f[u]
    BY <1>4
  <1>7. f[v] = Held(v) /\ g[v] = HeldIn(y)
    BY <1>4
  <1>8. Stored = SumOf(f, VaultIds) /\ Stored' = SumOf(g, VaultIds)
    BY DEF Stored
  <1>9. Stored \in Nat /\ Held(v) \in Nat /\ HeldIn(y) \in Nat
        /\ Stored' = Stored - Held(v) + HeldIn(y)
    <2> HIDE DEF f, g
    <2>1. f \in [VaultIds -> Int] /\ g \in [VaultIds -> Int] /\ IsFiniteSet(VaultIds)
      BY <1>5, CustodyAssumption
    <2>2. SumOf(g, VaultIds) = SumOf(f, VaultIds) - f[v] + g[v]
      BY <1>6, <2>1, SumChange
    <2>3. SumOf(f, VaultIds) \in Nat
      BY <1>5, <2>1, SumType
    <2> QED BY <1>5, <1>7, <1>8, <2>2, <2>3
  <1>10. ASSUME NEW h
         PROVE  /\ OwnDeposits(h) \in Nat
                /\ OwnIn(vaults[v], h) \in Nat /\ OwnIn(y, h) \in Nat
                /\ OwnDeposits(h)' = OwnDeposits(h) - OwnIn(vaults[v], h) + OwnIn(y, h)
    <2> DEFINE p == [u \in VaultIds |-> OwnIn(vaults[u], h)]
               q == [u \in VaultIds |-> OwnIn(vaults'[u], h)]
    <2>1. OwnDeposits(h) = SumOf(p, VaultIds)
      BY <1>1, SumsByAccount
    <2>2. OwnDeposits(h)' = SumOf(q, VaultIds)
      BY TotalIsSumOf, Zenon DEF OwnDeposits, IsLive, OwnIn, Live
    <2>3. p \in [VaultIds -> Nat] /\ q \in [VaultIds -> Nat]
      BY <1>1, <1>2, AccountIs DEF VaultsFine
    <2>4. p[v] = OwnIn(vaults[v], h) /\ q[v] = OwnIn(y, h)
      BY <1>2
    <2>5. \A u \in VaultIds \ {v} : q[u] = p[u]
      BY <1>2
    <2> HIDE DEF p, q
    <2>6. p \in [VaultIds -> Int] /\ q \in [VaultIds -> Int] /\ IsFiniteSet(VaultIds)
      BY <2>3, CustodyAssumption
    <2>7. SumOf(q, VaultIds) = SumOf(p, VaultIds) - p[v] + q[v]
      BY <2>5, <2>6, SumChange
    <2>8. SumOf(p, VaultIds) \in Nat
      BY <2>3, <2>6, SumType
    <2>9. p[v] \in Nat /\ q[v] \in Nat
      BY <2>3
    <2> QED BY <2>1, <2>2, <2>4, <2>7, <2>8, <2>9
  <1> QED BY <1>2, <1>4, <1>9, <1>10

-----------------------------------------------------------------------------
(* What a step may do: the three properties, step by step.                   *)
QuarantineKept ==
    \A v \in VaultIds :
        Exists(v) /\ ~IsDelivery(v) /\ Held(v)' < Held(v) =>
            circulating_supply' = circulating_supply - (Held(v) - Held(v)')

Vetted == \A h \in Holders : Holding(h)' > Holding(h) => Eligible(h)

SeizedFor(h) == Seized(h) /\ (h \in blocked \/ (kyc[h] # NoEntry /\ Seizable(h)))
\* `who' signs the step for itself, if anybody does.
Explained(h, who) == h = who \/ SeizedFor(h) \/ (Realized(h) /\ Eligible(h))
LossesExplained(who) ==
    \A h \in Holders : Holding(h)' < Holding(h) => Explained(h, who)

StepFine(who) == CustodyInv' /\ QuarantineKept /\ Vetted /\ LossesExplained(who)

(* A step of one vault, with what it brings into or takes out of             *)
(* circulation.                                                              *)
LEMMA VaultAlone ==
    ASSUME CustodyInv, NEW who, NEW v \in VaultIds, NEW y, VaultFine(y),
           vaults' = [vaults EXCEPT ![v] = y], units' = units, Around',
           circulating_supply' = circulating_supply - Held(v) + HeldIn(y),
           \A h \in Holders :
              /\ OwnIn(y, h) <= OwnIn(vaults[v], h)
              /\ OwnIn(y, h) < OwnIn(vaults[v], h) => Explained(h, who)
    PROVE  StepFine(who)
  <1>1. /\ VaultsFine'
        /\ \A u \in VaultIds : Held(u)' = IF u = v THEN HeldIn(y) ELSE Held(u)
        /\ Stored \in Nat /\ Held(v) \in Nat /\ HeldIn(y) \in Nat
        /\ Stored' = Stored - Held(v) + HeldIn(y)
    BY OneVault
  <1>2. units \in [Holders -> Nat] /\ circulating_supply = SumOf(units, Holders) + Stored
    BY DEF CustodyInv, Accounted
  <1>3. SumOf(units, Holders) \in Nat
    BY <1>2, CustodyAssumption, SumType
  <1>4. CustodyInv'
    BY <1>1, <1>2, <1>3 DEF CustodyInv, Accounted
  <1>5. QuarantineKept
    <2>1. \A u \in VaultIds : Held(u)' < Held(u) => u = v
      <3>1. \A u \in VaultIds : Held(u) \in Nat
        BY SumsByAccount, AccountIs DEF CustodyInv, VaultsFine
      <3> QED BY <1>1, <3>1
    <2>2. circulating_supply \in Nat
      BY <1>1, <1>2, <1>3
    <2> QED BY <1>1, <2>1, <2>2 DEF QuarantineKept
  <1>6. ASSUME NEW h \in Holders
        PROVE  /\ Holding(h)' > Holding(h) => Eligible(h)
               /\ Holding(h)' < Holding(h) => Explained(h, who)
    <2>1. /\ OwnDeposits(h) \in Nat
          /\ OwnIn(vaults[v], h) \in Nat /\ OwnIn(y, h) \in Nat
          /\ OwnDeposits(h)' = OwnDeposits(h) - OwnIn(vaults[v], h) + OwnIn(y, h)
      BY OneVault
    <2>2. units[h] \in Nat /\ Holding(h) = units[h] + OwnDeposits(h)
          /\ Holding(h)' = units[h] + OwnDeposits(h)'
      BY <1>2 DEF Holding
    <2>3. /\ OwnIn(y, h) <= OwnIn(vaults[v], h)
          /\ OwnIn(y, h) < OwnIn(vaults[v], h) => Explained(h, who)
      OBVIOUS
    <2> QED BY <2>1, <2>2, <2>3
  <1> QED BY <1>4, <1>5, <1>6 DEF StepFine, Vetted, LossesExplained

(* Units move between one wallet and one vault.                              *)
LEMMA WalletAndVault ==
    ASSUME CustodyInv, NEW who, NEW v \in VaultIds, NEW y, VaultFine(y),
           vaults' = [vaults EXCEPT ![v] = y], NEW i \in Holders, NEW k \in Nat,
           units' = [units EXCEPT ![i] = k], UNCHANGED <<environment, circulating_supply>>,
           HeldIn(y) - Held(v) = units[i] - k,
           HeldIn(y) < Held(v) => IsDelivery(v),
           \A h \in Holders \ {i} : OwnIn(y, h) = OwnIn(vaults[v], h),
           k + OwnIn(y, i) > units[i] + OwnIn(vaults[v], i) => Eligible(i),
           k + OwnIn(y, i) < units[i] + OwnIn(vaults[v], i) =>
              \/ i = who
              \/ /\ OwnIn(y, i) = OwnIn(vaults[v], i)
                 /\ i \in blocked \/ (kyc[i] # NoEntry /\ Seizable(i))
    PROVE  StepFine(who)
  <1>1. /\ VaultsFine'
        /\ \A u \in VaultIds : Held(u)' = IF u = v THEN HeldIn(y) ELSE Held(u)
        /\ Stored \in Nat /\ Held(v) \in Nat /\ HeldIn(y) \in Nat
        /\ Stored' = Stored - Held(v) + HeldIn(y)
    BY OneVault
  <1>2. units \in [Holders -> Nat] /\ circulating_supply = SumOf(units, Holders) + Stored
    BY DEF CustodyInv, Accounted
  <1>3. /\ units' \in [Holders -> Nat] /\ units'[i] = k /\ units[i] \in Nat
        /\ \A h \in Holders \ {i} : units'[h] = units[h]
        /\ SumOf(units, Holders) \in Nat
        /\ SumOf(units', Holders) = SumOf(units, Holders) - units[i] + k
    <2> DEFINE f == units
               g == units'
    <2>1. /\ f \in [Holders -> Nat] /\ g \in [Holders -> Nat] /\ g[i] = k
          /\ \A h \in Holders \ {i} : g[h] = f[h]
      BY <1>2
    <2> HIDE DEF f, g
    <2>2. f \in [Holders -> Int] /\ g \in [Holders -> Int] /\ IsFiniteSet(Holders)
      BY <2>1, CustodyAssumption
    <2>3. SumOf(f, Holders) \in Nat
      BY <2>1, <2>2, SumType
    <2>4. SumOf(g, Holders) = SumOf(f, Holders) - f[i] + g[i]
      BY <2>1, <2>2, SumChange
    <2>5. f[i] \in Nat
      BY <2>1
    <2> QED BY <2>1, <2>3, <2>4, <2>5 DEF f, g
  <1>4. Around'
    BY DEF CustodyInv, Around, environment, roles
  <1>5. CustodyInv'
    BY <1>1, <1>2, <1>3, <1>4 DEF CustodyInv, Accounted
  <1>6. QuarantineKept
    <2>1. \A u \in VaultIds : Held(u)' < Held(u) => u = v
      <3>1. \A u \in VaultIds : Held(u) \in Nat
        BY SumsByAccount, AccountIs DEF CustodyInv, VaultsFine
      <3> QED BY <1>1, <3>1
    <2> QED BY <1>1, <2>1 DEF QuarantineKept
  <1>7. ASSUME NEW h \in Holders
        PROVE  /\ OwnDeposits(h) \in Nat
               /\ OwnIn(vaults[v], h) \in Nat /\ OwnIn(y, h) \in Nat
               /\ OwnDeposits(h)' = OwnDeposits(h) - OwnIn(vaults[v], h) + OwnIn(y, h)
    BY OneVault
  <1>8. ASSUME NEW h \in Holders \ {i}
        PROVE  Holding(h)' = Holding(h) /\ Holding(h) \in Nat
    BY <1>2, <1>3, <1>7, <1>8 DEF Holding
  <1>9. /\ Holding(i) \in Nat
        /\ Holding(i)' - Holding(i) = (k + OwnIn(y, i)) - (units[i] + OwnIn(vaults[v], i))
        /\ Holding(i)' \in Int
    BY <1>2, <1>3, <1>7 DEF Holding
  <1>10. Vetted
    <2>1. OwnIn(vaults[v], i) \in Nat /\ OwnIn(y, i) \in Nat
      BY <1>7
    <2> QED BY <1>3, <1>8, <1>9, <2>1 DEF Vetted
  <1>11. LossesExplained(who)
    <2>1. SUFFICES ASSUME Holding(i)' < Holding(i) PROVE Explained(i, who)
      BY <1>8 DEF LossesExplained
    <2>2. OwnIn(vaults[v], i) \in Nat /\ OwnIn(y, i) \in Nat
      BY <1>7
    <2>3. k + OwnIn(y, i) < units[i] + OwnIn(vaults[v], i)
      BY <1>3, <1>9, <2>1, <2>2
    <2>4. OwnIn(y, i) = OwnIn(vaults[v], i) => Held(v)' - Held(v) = Holding(i) - Holding(i)'
      BY <1>1, <1>3, <1>9, <2>2
    <2> QED BY <2>3, <2>4 DEF Explained, SeizedFor, Seized
  <1> QED BY <1>5, <1>6, <1>10, <1>11 DEF StepFine

-----------------------------------------------------------------------------
(* A vault with other amounts in it.                                         *)
LEMMA Refilled ==
    ASSUME NEW x \in Vaults, x.state \in Live, NEW a \in Nat, NEW b \in Nat, a <= b,
           x.type = "DeliveryEscrow" => x.beneficiary \in Holders,
           x.type # "DeliveryEscrow" => a = 0
    PROVE  LET y == [x EXCEPT !.deposited = a, !.escrow = b]
           IN  /\ VaultFine(y) /\ HeldIn(y) = b
               /\ \A h : OwnIn(y, h) = IF x.beneficiary = h THEN a ELSE 0
  <1> DEFINE y == [x EXCEPT !.deposited = a, !.escrow = b]
  <1>1. /\ y \in Vaults /\ y.state = x.state /\ y.deposited = a /\ y.escrow = b
        /\ y.type = x.type /\ y.beneficiary = x.beneficiary
    BY DEF Vaults
  <1> HIDE DEF y
  <1>2. x.state \notin Terminal
    BY DEF Live, Terminal
  <1>3. VaultFine(y)
    BY <1>1, <1>2 DEF VaultFine, Accounts
  <1> QED BY <1>1, <1>3 DEF y, HeldIn, OwnIn

(* A vault that is over holds nothing.                                       *)
LEMMA Emptied ==
    ASSUME NEW x \in Vaults, VaultFine(x), NEW a \in Nat, NEW st \in Terminal,
           x.type # "DeliveryEscrow" => a = 0
    PROVE  LET y == [x EXCEPT !.deposited = a, !.escrow = 0, !.state = st]
           IN  /\ VaultFine(y) /\ HeldIn(y) = 0
               /\ \A h : OwnIn(y, h) = 0
  <1> DEFINE y == [x EXCEPT !.deposited = a, !.escrow = 0, !.state = st]
  <1>1. /\ y \in Vaults /\ y.state = st /\ y.deposited = a /\ y.escrow = 0
        /\ y.type = x.type /\ y.beneficiary = x.beneficiary
    BY DEF Vaults
  <1> HIDE DEF y
  <1>2. st \notin Live
    BY DEF Live, Terminal
  <1>3. VaultFine(y)
    BY <1>1, <1>2 DEF VaultFine, Accounts
  <1> QED BY <1>1, <1>2, <1>3 DEF y, HeldIn, OwnIn

(* What a live vault's account holds.                                        *)
LEMMA LiveVault ==
    ASSUME CustodyInv, NEW v \in VaultIds, IsLive(v)
    PROVE  LET x == vaults[v]
           IN  /\ x \in Vaults /\ VaultFine(x) /\ x.state \in Live
               /\ x.escrow \in Nat /\ x.deposited \in Nat /\ x.deposited <= x.escrow
               /\ Held(v) = x.escrow /\ HeldIn(x) = x.escrow
               /\ \A h : OwnIn(x, h) = IF x.beneficiary = h THEN x.deposited ELSE 0
               /\ IsDelivery(v) => x.beneficiary \in Holders
               /\ ~IsDelivery(v) => x.deposited = 0
  <1> DEFINE x == vaults[v]
  <1>1. x \in Accounts /\ VaultFine(x) /\ x.state \in Live
    BY DEF CustodyInv, VaultsFine, IsLive, Live
  <1>2. x \in Vaults /\ x.escrow \in Nat /\ x.deposited \in Nat
    BY <1>1, AccountIs
  <1>3. Held(v) = HeldIn(x)
    BY SumsByAccount DEF CustodyInv
  <1> HIDE DEF x
  <1>4. HeldIn(x) = x.escrow /\ \A h : OwnIn(x, h) = IF x.beneficiary = h THEN x.deposited ELSE 0
    BY <1>1 DEF HeldIn, OwnIn
  <1>5. x.deposited <= x.escrow
    BY <1>1, <1>2 DEF VaultFine
  <1>6. IF x.type = "DeliveryEscrow" THEN x.beneficiary \in Holders ELSE x.deposited = 0
    BY <1>1, <1>2 DEF VaultFine
  <1>7. IsDelivery(v) <=> x.type = "DeliveryEscrow"
    BY DEF IsDelivery, x
  <1> QED BY <1>1, <1>2, <1>3, <1>4, <1>5, <1>6, <1>7 DEF x

-----------------------------------------------------------------------------
(* open_custody_vault.                                                       *)
LEMMA OpenFine ==
    ASSUME CustodyInv, NEW who, NEW v \in VaultIds, NEW by \in Keys, NEW type \in OpenTypes[v],
           NEW deadline \in Deadlines, NEW b \in Holders \cup {NoBeneficiary},
           OpenCustodyVault(by, v, type, deadline, b)
    PROVE  StepFine(who)
  <1> DEFINE y == [state |-> "Active", type |-> type, authority |-> by, deadline |-> deadline,
                   beneficiary |-> b, deposited |-> 0, escrow |-> 0]
  <1>1. /\ vaults' = [vaults EXCEPT ![v] = y] /\ vaults[v] = Absent
        /\ environment' = environment /\ units' = units
        /\ circulating_supply' = circulating_supply
    BY DEF OpenCustodyVault
  <1>2. type \in VaultTypes /\ deadline \in Nat
        /\ (type = "DeliveryEscrow" => b \in Holders)
    BY CustodyAssumption DEF OpenCustodyVault, VaultTypes
  <1>3. y \in Vaults
    BY <1>2 DEF Vaults, Live
  <1>4. /\ y.state = "Active" /\ y.type = type /\ y.beneficiary = b
        /\ y.deposited = 0 /\ y.escrow = 0
    OBVIOUS
  <1> HIDE DEF y
  <1>5. VaultFine(y)
    BY <1>2, <1>3, <1>4 DEF VaultFine, Accounts, Terminal
  <1>6. HeldIn(y) = 0 /\ \A h : OwnIn(y, h) = 0
    BY <1>4 DEF HeldIn, OwnIn, Live
  <1>7. Held(v) = 0 /\ \A h : OwnIn(vaults[v], h) = 0
    BY <1>1 DEF Held, Exists, OwnIn, Absent, Live
  <1>8. circulating_supply \in Nat
    <2>1. Stored \in Nat
      BY <1>1, <1>5, OneVault
    <2>2. SumOf(units, Holders) \in Nat
      BY CustodyAssumption, SumType DEF CustodyInv, Accounted
    <2> QED BY <2>1, <2>2 DEF CustodyInv, Accounted
  <1>9. Around'
    BY <1>1 DEF CustodyInv, Around, environment, roles
  <1>10. circulating_supply' = circulating_supply - Held(v) + HeldIn(y)
    BY <1>1, <1>6, <1>7, <1>8
  <1>11. \A h \in Holders :
            /\ OwnIn(y, h) <= OwnIn(vaults[v], h)
            /\ OwnIn(y, h) < OwnIn(vaults[v], h) => Explained(h, who)
    BY <1>6, <1>7
  <1> QED BY <1>1, <1>5, <1>9, <1>10, <1>11, VaultAlone

(* deposit_to_custody_vault: the beneficiary's own units, under its          *)
(* signature.                                                                *)
LEMMA DepositFine ==
    ASSUME CustodyInv, NEW who, NEW v \in VaultIds, NEW n \in Lots, NEW i \in Holders,
           Exists(v), vaults[v].beneficiary = i, DepositToCustodyVault(v, n)
    PROVE  StepFine(who)
  <1> DEFINE x == vaults[v]
             a == x.deposited + n
             b == x.escrow + n
             y == [x EXCEPT !.deposited = a, !.escrow = b]
             k == units[i] - n
  <1>1. /\ IsLive(v) /\ IsDelivery(v) /\ n \in Nat
        /\ units[i] \in Nat /\ units[i] >= n
    BY CustodyAssumption DEF DepositToCustodyVault, IsActive, IsLive, CustodyInv, Accounted
  <1>2. /\ x \in Vaults /\ VaultFine(x) /\ x.state \in Live
        /\ x.escrow \in Nat /\ x.deposited \in Nat /\ x.deposited <= x.escrow
        /\ Held(v) = x.escrow /\ HeldIn(x) = x.escrow
        /\ \A h : OwnIn(x, h) = IF x.beneficiary = h THEN x.deposited ELSE 0
        /\ x.beneficiary = i
    BY <1>1, LiveVault
  <1>3. vaults' = [vaults EXCEPT ![v] = y] /\ units' = [units EXCEPT ![i] = k]
        /\ UNCHANGED <<environment, circulating_supply>>
    BY DEF DepositToCustodyVault
  <1>4. a \in Nat /\ b \in Nat /\ a <= b /\ k \in Nat
    BY <1>1, <1>2
  <1>5. x.type = "DeliveryEscrow"
    BY <1>1 DEF IsDelivery
  <1>6. /\ VaultFine(y) /\ HeldIn(y) = b
        /\ \A h : OwnIn(y, h) = IF i = h THEN a ELSE 0
    <2>1. LET z == [x EXCEPT !.deposited = a, !.escrow = b]
          IN  /\ VaultFine(z) /\ HeldIn(z) = b
              /\ \A h : OwnIn(z, h) = IF x.beneficiary = h THEN a ELSE 0
      <3>1. x \in Vaults /\ x.state \in Live /\ a \in Nat /\ b \in Nat /\ a <= b
        BY <1>2, <1>4
      <3>2. x.type = "DeliveryEscrow" => x.beneficiary \in Holders
        BY <1>2
      <3>3. x.type # "DeliveryEscrow" => a = 0
        BY <1>5
      <3> HIDE DEF a, b, x
      <3> QED BY <3>1, <3>2, <3>3, Refilled
    <2> QED BY <1>2, <2>1
  <1>7. /\ HeldIn(y) - Held(v) = units[i] - k
        /\ k + OwnIn(y, i) = units[i] + OwnIn(x, i)
        /\ ~(HeldIn(y) < Held(v))
        /\ \A h \in Holders \ {i} : OwnIn(y, h) = OwnIn(x, h)
    <2> HIDE DEF y
    <2> QED BY <1>1, <1>2, <1>4, <1>6
  <1>8. k + OwnIn(y, i) \in Int
    <2> HIDE DEF y
    <2> QED BY <1>1, <1>2, <1>4, <1>6
  <1> DEFINE before == units[i] + OwnIn(vaults[v], i)
             after  == k + OwnIn(y, i)
  <1>9. ~(after < before) /\ ~(after > before)
    <2> HIDE DEF k, y
    <2> QED BY <1>7, <1>8
  <1> HIDE DEF k, y
  <1> QED BY <1>1, <1>3, <1>4, <1>6, <1>7, <1>9, WalletAndVault

(* What is in circulation.                                                   *)
LEMMA CirculatingIsNat ==
    ASSUME CustodyInv
    PROVE  circulating_supply \in Nat
  <1> DEFINE f == [v \in VaultIds |-> Held(v)]
  <1>1. f \in [VaultIds -> Nat]
    BY SumsByAccount, AccountIs DEF CustodyInv, VaultsFine
  <1>2. SumOf(f, VaultIds) \in Nat
    <2> HIDE DEF f
    <2>1. f \in [VaultIds -> Int]
      BY <1>1
    <2> QED BY <1>1, <2>1, CustodyAssumption, SumType
  <1>3. SumOf(units, Holders) \in Nat
    <2>1. units \in [Holders -> Nat] /\ units \in [Holders -> Int]
      BY DEF CustodyInv, Accounted
    <2> QED BY <2>1, CustodyAssumption, SumType
  <1> QED BY <1>2, <1>3 DEF CustodyInv, Accounted, Stored

(* mint_to_vault: into a vault that is no delivery escrow.                   *)
LEMMA MintFine ==
    ASSUME CustodyInv, NEW who, NEW v \in VaultIds, NEW n \in Lots, MintToVault(v, n)
    PROVE  StepFine(who)
  <1> DEFINE x == vaults[v]
             a == x.deposited
             b == x.escrow + n
             y == [x EXCEPT !.escrow = b]
  <1>1. IsLive(v) /\ ~IsDelivery(v) /\ n \in Nat
    BY CustodyAssumption DEF MintToVault, IsActive, IsLive
  <1>2. /\ x \in Vaults /\ VaultFine(x) /\ x.state \in Live
        /\ x.escrow \in Nat /\ a = 0 /\ Held(v) = x.escrow
        /\ \A h : OwnIn(x, h) = IF x.beneficiary = h THEN x.deposited ELSE 0
    BY <1>1, LiveVault
  <1>3. b \in Nat /\ a \in Nat /\ a <= b /\ x.type # "DeliveryEscrow"
    BY <1>1, <1>2 DEF IsDelivery
  <1>4. y = [x EXCEPT !.deposited = a, !.escrow = b]
    <2> HIDE DEF b, x
    <2> QED BY <1>2 DEF Vaults
  <1>5. VaultFine(y) /\ HeldIn(y) = b /\ \A h : OwnIn(y, h) = OwnIn(x, h)
    <2>1. LET z == [x EXCEPT !.deposited = a, !.escrow = b]
          IN  /\ VaultFine(z) /\ HeldIn(z) = b
              /\ \A h : OwnIn(z, h) = IF x.beneficiary = h THEN a ELSE 0
      <3> HIDE DEF a, b, x
      <3> QED BY <1>2, <1>3, Refilled
    <2> QED BY <1>2, <1>4, <2>1
  <1>6. /\ vaults' = [vaults EXCEPT ![v] = y] /\ units' = units
        /\ circulating_supply' = circulating_supply + n /\ environment' = environment
    BY DEF MintToVault
  <1> HIDE DEF y
  <1>7. circulating_supply' = circulating_supply - Held(v) + HeldIn(y)
    BY <1>1, <1>2, <1>5, <1>6, CirculatingIsNat
  <1>8. Around'
    BY <1>6 DEF CustodyInv, Around, environment, roles
  <1>9. \A h \in Holders :
            /\ OwnIn(y, h) <= OwnIn(vaults[v], h)
            /\ OwnIn(y, h) < OwnIn(vaults[v], h) => Explained(h, who)
    <2>1. \A h : OwnIn(x, h) \in Nat
      BY <1>2, <1>3
    <2> QED BY <1>5, <2>1
  <1> QED BY <1>5, <1>6, <1>7, <1>8, <1>9, VaultAlone

(* trigger_custody_vault, and accept_custody_authority's new operator: the   *)
(* escrow, the ledger and the beneficiary stay.                              *)
LEMMA SameContent ==
    ASSUME CustodyInv, NEW who, NEW v \in VaultIds, NEW y \in Vaults, IsLive(v),
           y.state \in Live, y.type = vaults[v].type, y.escrow = vaults[v].escrow,
           y.beneficiary = vaults[v].beneficiary, y.deposited = vaults[v].deposited,
           vaults' = [vaults EXCEPT ![v] = y], units' = units,
           circulating_supply' = circulating_supply, Around'
    PROVE  StepFine(who)
  <1>1. /\ vaults[v] \in Vaults /\ VaultFine(vaults[v]) /\ vaults[v].state \in Live
        /\ Held(v) = vaults[v].escrow /\ vaults[v].escrow \in Nat
        /\ vaults[v].deposited \in Nat
    BY LiveVault
  <1>2. VaultFine(y) /\ HeldIn(y) = Held(v) /\ \A h : OwnIn(y, h) = OwnIn(vaults[v], h)
    BY <1>1 DEF VaultFine, Accounts, HeldIn, OwnIn, Live, Terminal
  <1>3. \A h : OwnIn(vaults[v], h) \in Nat
    BY <1>1 DEF OwnIn
  <1>4. circulating_supply' = circulating_supply - Held(v) + HeldIn(y)
    BY <1>1, <1>2, CirculatingIsNat
  <1>5. \A h \in Holders :
            /\ OwnIn(y, h) <= OwnIn(vaults[v], h)
            /\ OwnIn(y, h) < OwnIn(vaults[v], h) => Explained(h, who)
    BY <1>2, <1>3
  <1> QED BY <1>2, <1>4, <1>5, VaultAlone

LEMMA TriggerFine ==
    ASSUME CustodyInv, NEW who, NEW v \in VaultIds, TriggerCustodyVault(v)
    PROVE  StepFine(who)
  <1> DEFINE x == vaults[v]
             y == [x EXCEPT !.state = "Triggered"]
  <1>1. IsLive(v) /\ x \in Vaults
    BY LiveVault DEF TriggerCustodyVault, IsActive, IsLive
  <1>2. /\ vaults' = [vaults EXCEPT ![v] = y] /\ units' = units
        /\ circulating_supply' = circulating_supply /\ environment' = environment
    BY DEF TriggerCustodyVault
  <1>3. /\ y \in Vaults /\ y.state \in Live /\ y.type = x.type /\ y.escrow = x.escrow
        /\ y.beneficiary = x.beneficiary /\ y.deposited = x.deposited
    <2> HIDE DEF x
    <2> QED BY <1>1 DEF Vaults, Live
  <1>4. Around'
    BY <1>2 DEF CustodyInv, Around, environment, roles
  <1> HIDE DEF y
  <1> QED BY <1>1, <1>2, <1>3, <1>4, SameContent

LEMMA AcceptFine ==
    ASSUME CustodyInv, NEW who, NEW v \in VaultIds, AcceptCustodyAuthority(v)
    PROVE  StepFine(who)
  <1> DEFINE x == vaults[v]
             k == transfers[v].new
             y == [x EXCEPT !.authority = k]
  <1>1. IsLive(v) /\ x \in Vaults /\ x.state \in Live
    BY LiveVault DEF AcceptCustodyAuthority
  <1>2. /\ vaults' = [vaults EXCEPT ![v] = y] /\ units' = units
        /\ circulating_supply' = circulating_supply
        /\ transfers' = [transfers EXCEPT ![v] = NoProposal]
        /\ UNCHANGED <<now, paused, kyc, blocked, admin, admins>>
    BY DEF AcceptCustodyAuthority
  <1>3. k \in Keys
    BY DEF AcceptCustodyAuthority, CustodyInv, Around
  <1>4. /\ y \in Vaults /\ y.state \in Live /\ y.type = x.type /\ y.escrow = x.escrow
        /\ y.beneficiary = x.beneficiary /\ y.deposited = x.deposited
    <2> HIDE DEF x, k
    <2> QED BY <1>1, <1>3 DEF Vaults, Live
  <1>5. Around'
    BY <1>2 DEF CustodyInv, Around
  <1> HIDE DEF y
  <1> QED BY <1>1, <1>2, <1>4, <1>5, SameContent

-----------------------------------------------------------------------------
(* realize_custody_vault and revert_custody_vault burn the whole escrow.     *)
LEMMA BurnFine ==
    ASSUME CustodyInv, NEW who, NEW v \in VaultIds, IsLive(v), NEW st \in {"Realized", "Reverted"},
           BurnEscrow(v, st),
           \/ ~IsDelivery(v)
           \/ st = "Realized" /\ Eligible(vaults[v].beneficiary)
    PROVE  StepFine(who)
  <1> DEFINE x == vaults[v]
             a == x.deposited
             y == [x EXCEPT !.escrow = 0, !.state = st]
  <1>1. /\ x \in Vaults /\ VaultFine(x) /\ x.state \in Live
        /\ x.escrow \in Nat /\ x.deposited \in Nat /\ Held(v) = x.escrow
        /\ \A h : OwnIn(x, h) = IF x.beneficiary = h THEN x.deposited ELSE 0
        /\ ~IsDelivery(v) => x.deposited = 0
    BY LiveVault
  <1>2. /\ vaults' = [vaults EXCEPT ![v] = y] /\ units' = units
        /\ circulating_supply' = circulating_supply - x.escrow
        /\ environment' = environment
    BY DEF BurnEscrow, Burned
  <1>3. VaultFine(y) /\ HeldIn(y) = 0 /\ \A h : OwnIn(y, h) = 0
    <2>1. x.type # "DeliveryEscrow" => a = 0
      BY <1>1 DEF IsDelivery
    <2>2. LET z == [x EXCEPT !.deposited = a, !.escrow = 0, !.state = st]
          IN  VaultFine(z) /\ HeldIn(z) = 0 /\ \A h : OwnIn(z, h) = 0
      <3>1. st \in Terminal /\ a \in Nat /\ x \in Vaults /\ VaultFine(x)
        BY <1>1 DEF Terminal
      <3> HIDE DEF a, x
      <3> QED BY <2>1, <3>1, Emptied
    <2>3. y = [x EXCEPT !.deposited = a, !.escrow = 0, !.state = st]
      <3>1. x \in Vaults
        BY <1>1
      <3> HIDE DEF x
      <3> QED BY <3>1 DEF Vaults
    <2> QED BY <2>2, <2>3
  <1>4. y.state = st
    <2>1. x \in Vaults
      BY <1>1
    <2> HIDE DEF x
    <2> QED BY <2>1 DEF Vaults
  <1>5. vaults'[v].state = st
    BY <1>2, <1>4 DEF CustodyInv, VaultsFine
  <1> HIDE DEF y
  <1>6. circulating_supply' = circulating_supply - Held(v) + HeldIn(y)
    BY <1>1, <1>2, <1>3, CirculatingIsNat
  <1>7. Around'
    BY <1>2 DEF CustodyInv, Around, environment, roles
  <1>8. ASSUME NEW h \in Holders
        PROVE  /\ OwnIn(y, h) <= OwnIn(vaults[v], h)
               /\ OwnIn(y, h) < OwnIn(vaults[v], h) => Explained(h, who)
    <2>1. OwnIn(x, h) \in Nat /\ OwnIn(y, h) = 0
      BY <1>1, <1>3
    <2>2. ASSUME OwnIn(x, h) > 0
          PROVE  Explained(h, who)
      <3>1. x.beneficiary = h /\ IsDelivery(v)
        BY <1>1, <2>2
      <3>2. Exists(v)
        BY <1>1, AccountIs DEF Exists, VaultFine
      <3> QED BY <1>5, <3>1, <3>2 DEF Explained, Realized
    <2> QED BY <2>1, <2>2
  <1> QED BY <1>2, <1>3, <1>6, <1>7, <1>8, VaultAlone

LEMMA RealizeFine ==
    ASSUME CustodyInv, NEW who, NEW v \in VaultIds, RealizeCustodyVault(v)
    PROVE  StepFine(who)
  BY BurnFine DEF RealizeCustodyVault, IsLive

LEMMA RevertFine ==
    ASSUME CustodyInv, NEW who, NEW v \in VaultIds, RevertCustodyVault(v)
    PROVE  StepFine(who)
  BY BurnFine DEF RevertCustodyVault, IsActive, IsLive

(* reclaim_rent on a vault that is over.                                     *)
LEMMA ReclaimFine ==
    ASSUME CustodyInv, NEW who, NEW v \in VaultIds, ReclaimVault(v)
    PROVE  StepFine(who)
  <1> DEFINE y == Tombstone
  <1>1. /\ vaults' = [vaults EXCEPT ![v] = y] /\ units' = units
        /\ circulating_supply' = circulating_supply /\ environment' = environment
        /\ vaults[v].escrow = 0 /\ vaults[v].state \in Terminal
    BY DEF ReclaimVault
  <1>2. VaultFine(y) /\ HeldIn(y) = 0 /\ \A h : OwnIn(y, h) = 0
    <2>1. Tombstone \notin Vaults /\ Tombstone \in Accounts
      BY DEF Vaults, Tombstone, Live, Terminal, Accounts
    <2> QED BY <2>1 DEF VaultFine, HeldIn, OwnIn, Tombstone, Live, Terminal
  <1>3. Held(v) = 0 /\ \A h : OwnIn(vaults[v], h) = 0
    BY <1>1 DEF Held, OwnIn, Live, Terminal
  <1> HIDE DEF y
  <1>4. circulating_supply' = circulating_supply - Held(v) + HeldIn(y)
    BY <1>1, <1>2, <1>3, CirculatingIsNat
  <1>5. Around'
    BY <1>1 DEF CustodyInv, Around, environment, roles
  <1>6. \A h \in Holders :
            /\ OwnIn(y, h) <= OwnIn(vaults[v], h)
            /\ OwnIn(y, h) < OwnIn(vaults[v], h) => Explained(h, who)
    BY <1>2, <1>3
  <1> QED BY <1>1, <1>2, <1>4, <1>5, <1>6, VaultAlone

-----------------------------------------------------------------------------
(* Units from a wallet into a live vault's escrow, not booked as a deposit.  *)
LEMMA IntoEscrowFine ==
    ASSUME CustodyInv, NEW who, NEW v \in VaultIds, IsLive(v), NEW i \in Holders, NEW n \in Nat,
           IntoEscrow(i, v, n),
           i = who \/ i \in blocked \/ (kyc[i] # NoEntry /\ Seizable(i))
    PROVE  StepFine(who)
  <1> DEFINE x == vaults[v]
             a == x.deposited
             b == x.escrow + n
             y == [x EXCEPT !.escrow = b]
             k == units[i] - n
  <1>1. /\ x \in Vaults /\ VaultFine(x) /\ x.state \in Live
        /\ x.escrow \in Nat /\ x.deposited \in Nat /\ x.deposited <= x.escrow
        /\ Held(v) = x.escrow
        /\ \A h : OwnIn(x, h) = IF x.beneficiary = h THEN x.deposited ELSE 0
        /\ IsDelivery(v) => x.beneficiary \in Holders
        /\ ~IsDelivery(v) => x.deposited = 0
    BY LiveVault
  <1>2. /\ vaults' = [vaults EXCEPT ![v] = y] /\ units' = [units EXCEPT ![i] = k]
        /\ UNCHANGED <<environment, circulating_supply>> /\ units[i] >= n
    BY DEF IntoEscrow
  <1>3. b \in Nat /\ a \in Nat /\ a <= b /\ k \in Nat /\ units[i] \in Nat
    BY <1>1, <1>2 DEF CustodyInv, Accounted
  <1>4. VaultFine(y) /\ HeldIn(y) = b /\ \A h : OwnIn(y, h) = OwnIn(x, h)
    <2>1. LET z == [x EXCEPT !.deposited = a, !.escrow = b]
          IN  /\ VaultFine(z) /\ HeldIn(z) = b
              /\ \A h : OwnIn(z, h) = IF x.beneficiary = h THEN a ELSE 0
      <3>1. x \in Vaults /\ x.state \in Live
        BY <1>1
      <3>2. x.type = "DeliveryEscrow" => x.beneficiary \in Holders
        BY <1>1 DEF IsDelivery
      <3>3. x.type # "DeliveryEscrow" => a = 0
        BY <1>1 DEF IsDelivery
      <3> HIDE DEF a, b, x
      <3> QED BY <1>3, <3>1, <3>2, <3>3, Refilled
    <2>2. y = [x EXCEPT !.deposited = a, !.escrow = b]
      <3>1. x \in Vaults
        BY <1>1
      <3> HIDE DEF b, x
      <3> QED BY <3>1 DEF Vaults, a
    <2> QED BY <1>1, <2>1, <2>2
  <1>5. OwnIn(x, i) \in Nat
    BY <1>1
  <1>6. /\ HeldIn(y) - Held(v) = units[i] - k
        /\ ~(HeldIn(y) < Held(v))
        /\ \A h \in Holders : OwnIn(y, h) = OwnIn(x, h)
        /\ ~(k + OwnIn(y, i) > units[i] + OwnIn(x, i))
    <2> HIDE DEF y
    <2> QED BY <1>1, <1>2, <1>3, <1>4, <1>5
  <1> HIDE DEF k, y
  <1> QED BY <1>2, <1>3, <1>4, <1>6, WalletAndVault

(* A push into any live vault, and a seizure into a redemption queue.        *)
LEMMA PushFine ==
    ASSUME CustodyInv, NEW i \in Holders, NEW v \in VaultIds, NEW n \in Lots, Push(i, v, n)
    PROVE  StepFine(i)
  <1>1. IsLive(v) /\ n \in Nat /\ IntoEscrow(i, v, n)
    BY CustodyAssumption DEF Push, IsMarked
  <1> QED BY <1>1, IntoEscrowFine

LEMMA SeizureFine ==
    ASSUME CustodyInv, NEW who, NEW i \in Holders, SeizureStep(i)
    PROVE  StepFine(who)
  <1>1. PICK v \in VaultIds, n \in Seizures(i) :
            ClawbackFromHolder(i, v, n) \/ ClawbackBlocklistedHolder(i, v, n)
    BY DEF SeizureStep
  <1>2. n \in Nat
    BY CustodyAssumption DEF Seizures, CustodyInv, Accounted
  <1>3. IsLive(v) /\ IntoEscrow(i, v, n)
    BY <1>1 DEF ClawbackFromHolder, ClawbackBlocklistedHolder, SeizeIntoQuarantine,
                IsActive, IsLive
  <1>4. i \in blocked \/ (kyc[i] # NoEntry /\ Seizable(i))
    BY <1>1 DEF ClawbackFromHolder, ClawbackBlocklistedHolder
  <1> QED BY <1>2, <1>3, <1>4, IntoEscrowFine

(* split_escrow_release gives back the ledger at least and the balance at    *)
(* most; more than the ledger only to an eligible payee.                     *)
LEMMA ReleaseFits ==
    ASSUME NEW balance \in Nat, NEW ledger \in Nat, NEW h, ledger <= balance
    PROVE  LET payout == Release(balance, ledger, h)
           IN  /\ payout \in Nat /\ ledger <= payout /\ payout <= balance
               /\ payout > ledger => Eligible(h)
               /\ Spent(balance, ledger, payout) = ledger
  <1>1. Min({balance, ledger}) = ledger
    BY DEF Min
  <1> QED BY <1>1 DEF Release, Spent

(* return_custody_vault, by the operator or by anybody past the deadline.    *)
LEMMA ReturnFine ==
    ASSUME CustodyInv, NEW who, NEW v \in VaultIds, ReturnCustodyVault(v)
    PROVE  StepFine(who)
  <1> DEFINE x == vaults[v]
             i == x.beneficiary
             payout == Release(x.escrow, x.deposited, i)
             b == x.escrow - payout
             k == units[i] + payout
             st == IF payout = x.escrow THEN "Returned" ELSE x.state
             y == [x EXCEPT !.escrow = b,
                            !.deposited = @ - Spent(x.escrow, @, payout), !.state = st]
  <1>1. IsLive(v) /\ IsDelivery(v)
    BY DEF ReturnCustodyVault
  <1>2. /\ x \in Vaults /\ VaultFine(x) /\ x.state \in Live
        /\ x.escrow \in Nat /\ x.deposited \in Nat /\ x.deposited <= x.escrow
        /\ Held(v) = x.escrow /\ i \in Holders
        /\ \A h : OwnIn(x, h) = IF i = h THEN x.deposited ELSE 0
    BY <1>1, LiveVault
  <1>3. /\ vaults' = [vaults EXCEPT ![v] = y] /\ units' = [units EXCEPT ![i] = k]
        /\ UNCHANGED <<environment, circulating_supply>>
    BY DEF ReturnCustodyVault
  <1>4. /\ payout \in Nat /\ x.deposited <= payout /\ payout <= x.escrow
        /\ payout > x.deposited => Eligible(i)
        /\ Spent(x.escrow, x.deposited, payout) = x.deposited
    BY <1>2, ReleaseFits
  <1>5. y = [x EXCEPT !.deposited = 0, !.escrow = b, !.state = st]
    <2>1. x.deposited - Spent(x.escrow, x.deposited, payout) = 0
      BY <1>2, <1>4
    <2>2. x \in Vaults
      BY <1>2
    <2> HIDE DEF x, payout, b, st
    <2> QED BY <2>1, <2>2 DEF Vaults
  <1>6. units[i] \in Nat /\ k \in Nat /\ b \in Nat
    <2> HIDE DEF payout
    <2> QED BY <1>2, <1>4 DEF CustodyInv, Accounted
  <1>7. VaultFine(y) /\ HeldIn(y) = b /\ \A h : OwnIn(y, h) = 0
    <2>1. CASE payout = x.escrow
      <3>1. b = 0 /\ st = "Returned" /\ st \in Terminal
        BY <1>2, <2>1 DEF Terminal
      <3>2. LET z == [x EXCEPT !.deposited = 0, !.escrow = 0, !.state = st]
            IN  VaultFine(z) /\ HeldIn(z) = 0 /\ \A h : OwnIn(z, h) = 0
        <4>1. x \in Vaults /\ VaultFine(x) /\ st \in Terminal
          BY <1>2, <3>1
        <4> DEFINE a == 0
        <4>2. a \in Nat /\ (x.type # "DeliveryEscrow" => a = 0)
          OBVIOUS
        <4>3. LET z == [x EXCEPT !.deposited = a, !.escrow = 0, !.state = st]
              IN  VaultFine(z) /\ HeldIn(z) = 0 /\ \A h : OwnIn(z, h) = 0
          <5> HIDE DEF x, st, a
          <5> QED BY <4>1, <4>2, Emptied
        <4> QED BY <4>3
      <3> HIDE DEF y, b, st
      <3> QED BY <1>5, <3>1, <3>2
    <2>2. CASE payout # x.escrow
      <3>1. LET z == [x EXCEPT !.deposited = 0, !.escrow = b]
            IN  VaultFine(z) /\ HeldIn(z) = b /\ \A h : OwnIn(z, h) = 0
        <4>1. x \in Vaults /\ x.state \in Live /\ b \in Nat /\ 0 <= b
          BY <1>2, <1>6
        <4>2. x.type = "DeliveryEscrow" => x.beneficiary \in Holders
          BY <1>2
        <4>3. LET z == [x EXCEPT !.deposited = 0, !.escrow = b]
              IN  VaultFine(z) /\ HeldIn(z) = b
                  /\ \A h : OwnIn(z, h) = IF x.beneficiary = h THEN 0 ELSE 0
          <5> HIDE DEF x, b, st, i
          <5> QED BY <4>1, <4>2, Refilled
        <4> HIDE DEF x, b, st, i
        <4> QED BY <4>3
      <3>2. y = [x EXCEPT !.deposited = 0, !.escrow = b]
        <4>1. x \in Vaults /\ st = x.state
          BY <1>2, <2>2
        <4> HIDE DEF x, b, st, y
        <4> QED BY <1>5, <4>1 DEF Vaults
      <3> HIDE DEF y
      <3> QED BY <3>1, <3>2
    <2> QED BY <2>1, <2>2
  <1>8. OwnIn(x, i) = x.deposited
    BY <1>2
  <1>9. /\ HeldIn(y) - Held(v) = units[i] - k
        /\ \A h \in Holders \ {i} : OwnIn(y, h) = OwnIn(x, h)
        /\ k + OwnIn(y, i) > units[i] + OwnIn(x, i) => Eligible(i)
        /\ ~(k + OwnIn(y, i) < units[i] + OwnIn(x, i))
    <2> HIDE DEF y, payout
    <2> QED BY <1>2, <1>4, <1>6, <1>7, <1>8
  <1>10. i \in Holders
    BY <1>2
  <1> HIDE DEF y, k, i
  <1> QED BY <1>1, <1>3, <1>6, <1>7, <1>9, <1>10, WalletAndVault

-----------------------------------------------------------------------------
(* A step that moves no units.                                               *)
LEMMA NothingMoves ==
    ASSUME CustodyInv, NEW who, Around', UNCHANGED <<units, circulating_supply, vaults>>
    PROVE  StepFine(who)
  <1>1. CustodyInv'
    BY DEF CustodyInv, VaultsFine, Accounted, Stored, Held, Exists
  <1>2. \A v \in VaultIds : Held(v)' = Held(v) /\ Held(v) \in Nat
    BY SumsByAccount, AccountIs DEF CustodyInv, VaultsFine, Held, Exists
  <1>3. ASSUME NEW h \in Holders
        PROVE  Holding(h)' = Holding(h) /\ Holding(h) \in Int
    <2>1. OwnDeposits(h)' = OwnDeposits(h)
      BY DEF OwnDeposits, IsLive
    <2>2. OwnDeposits(h) \in Int
      <3> DEFINE f == [v \in VaultIds |-> OwnIn(vaults[v], h)]
      <3>1. OwnDeposits(h) = SumOf(f, VaultIds) /\ f \in [VaultIds -> Int]
        BY SumsByAccount, AccountIs DEF CustodyInv, VaultsFine
      <3> HIDE DEF f
      <3> QED BY <3>1, CustodyAssumption, SumType
    <2> QED BY <2>1, <2>2 DEF Holding, CustodyInv, Accounted
  <1>4. Vetted /\ LossesExplained(who)
    BY <1>3 DEF Vetted, LossesExplained
  <1> QED BY <1>1, <1>2, <1>4 DEF StepFine, QuarantineKept

(* transfer_checked between two wallets.                                     *)
LEMMA TransferFine ==
    ASSUME CustodyInv, NEW i \in Holders, NEW j \in Holders, NEW n \in Lots,
           Transfer(i, j, n)
    PROVE  StepFine(i)
  <1>1. n \in Nat /\ i # j /\ units[i] >= n /\ units \in [Holders -> Nat]
    BY CustodyAssumption DEF Transfer, CustodyInv, Accounted
  <1>2. Eligible(j)
    BY CustodyAssumption DEF Transfer, HookPasses, IsMarked
  <1>3. /\ units' = [units EXCEPT ![i] = @ - n, ![j] = @ + n]
        /\ vaults' = vaults /\ circulating_supply' = circulating_supply
        /\ environment' = environment
    BY DEF Transfer
  <1> DEFINE f == units
             m == [units EXCEPT ![i] = units[i] - n]
             g == units'
  <1>4. /\ f \in [Holders -> Nat] /\ m \in [Holders -> Nat] /\ g \in [Holders -> Nat]
        /\ \A h \in Holders \ {i} : m[h] = f[h]
        /\ \A h \in Holders \ {j} : g[h] = m[h]
        /\ m[i] = f[i] - n /\ g[j] = m[j] + n
    BY <1>1, <1>3
  <1>5. SumOf(g, Holders) = SumOf(f, Holders)
    <2> HIDE DEF f, m, g
    <2>1. /\ f \in [Holders -> Int] /\ m \in [Holders -> Int] /\ g \in [Holders -> Int]
          /\ IsFiniteSet(Holders)
      BY <1>4, CustodyAssumption
    <2>2. SumOf(m, Holders) = SumOf(f, Holders) - f[i] + m[i]
      BY <1>4, <2>1, SumChange
    <2>3. SumOf(g, Holders) = SumOf(m, Holders) - m[j] + g[j]
      BY <1>4, <2>1, SumChange
    <2>4. SumOf(f, Holders) \in Int
      BY <2>1, SumType
    <2>5. f[i] \in Nat /\ m[j] \in Nat
      BY <1>4
    <2> QED BY <1>1, <1>4, <2>2, <2>3, <2>4, <2>5
  <1>6. Around'
    BY <1>3 DEF CustodyInv, Around, environment, roles
  <1>7. Stored' = Stored /\ VaultsFine'
    BY <1>3 DEF Stored, Held, Exists, CustodyInv, VaultsFine
  <1>8. CustodyInv'
    BY <1>4, <1>3, <1>5, <1>6, <1>7 DEF CustodyInv, Accounted
  <1>9. \A v \in VaultIds : Held(v)' = Held(v) /\ Held(v) \in Nat
    BY <1>3, SumsByAccount, AccountIs DEF CustodyInv, VaultsFine, Held, Exists
  <1>10. ASSUME NEW h \in Holders
         PROVE  /\ Holding(h)' > Holding(h) => h = j
                /\ Holding(h)' < Holding(h) => h = i
    <2>1. OwnDeposits(h)' = OwnDeposits(h)
      BY <1>3 DEF OwnDeposits, IsLive
    <2>2. OwnDeposits(h) \in Int
      <3> DEFINE p == [v \in VaultIds |-> OwnIn(vaults[v], h)]
      <3>1. OwnDeposits(h) = SumOf(p, VaultIds) /\ p \in [VaultIds -> Int]
        BY SumsByAccount, AccountIs DEF CustodyInv, VaultsFine
      <3> HIDE DEF p
      <3> QED BY <3>1, CustodyAssumption, SumType
    <2>3. units[h] \in Nat /\ units'[h] \in Nat
      BY <1>4
    <2>4. units'[h] > units[h] => h = j
      BY <1>1, <1>4
    <2>5. units'[h] < units[h] => h = i
      BY <1>1, <1>4
    <2> QED BY <2>1, <2>2, <2>3, <2>4, <2>5 DEF Holding
  <1> QED BY <1>2, <1>8, <1>9, <1>10 DEF StepFine, QuarantineKept, Vetted, LossesExplained, Explained

-----------------------------------------------------------------------------
(* What happens around the vaults: passports, blocks, roles, proposals, the  *)
(* pause and time.                                                           *)
LEMMA PassportFine ==
    ASSUME CustodyInv, NEW who, NEW h \in Holders, PassportStep(h)
    PROVE  StepFine(who)
  <1>1. /\ UNCHANGED <<units, circulating_supply, vaults>>
        /\ UNCHANGED <<now, paused, blocked, admin, admins, transfers>>
    BY DEF PassportStep, ApproveHolder, RevokeHolder, ReclaimKycEntry, roles
  <1>2. kyc' \in [Holders -> Entries]
    <2>1. ASSUME NEW expiry \in 0 .. MaxTime + MAX_KYC_VALIDITY_SECS, ApproveHolder(h, expiry)
          PROVE  kyc' \in [Holders -> Entries]
      <3>1. [status |-> "Approved", expiry |-> expiry] \in Entries
        BY CustodyAssumption DEF Entries
      <3> QED BY <2>1, <3>1 DEF ApproveHolder, CustodyInv, Around
    <2>2. CASE RevokeHolder(h)
      <3> DEFINE e == [kyc[h] EXCEPT !.status = "Revoked"]
      <3>1. e \in Entries
        BY <2>2 DEF RevokeHolder, CustodyInv, Around, Entries
      <3>2. kyc' = [kyc EXCEPT ![h] = e]
        BY <2>2 DEF RevokeHolder
      <3> HIDE DEF e
      <3> QED BY <3>1, <3>2 DEF CustodyInv, Around
    <2>3. CASE ReclaimKycEntry(h)
      BY <2>3 DEF ReclaimKycEntry, CustodyInv, Around, Entries
    <2> QED BY <2>1, <2>2, <2>3 DEF PassportStep
  <1>3. Around'
    BY <1>1, <1>2 DEF CustodyInv, Around
  <1> QED BY <1>1, <1>3, NothingMoves

LEMMA ProposalFine ==
    ASSUME CustodyInv, NEW who, NEW v \in VaultIds,
           \/ \E k \in Keys : ProposeCustodyAuthority(v, k)
           \/ CancelCustodyAuthorityTransfer(v)
    PROVE  StepFine(who)
  <1>1. /\ UNCHANGED <<units, circulating_supply, vaults>>
        /\ UNCHANGED <<now, paused, kyc, blocked, admin, admins>>
    BY DEF ProposeCustodyAuthority, CancelCustodyAuthorityTransfer
  <1>2. ASSUME NEW k \in Keys, ProposeCustodyAuthority(v, k)
        PROVE  transfers' \in [VaultIds -> {NoProposal} \cup Proposals]
    <2> DEFINE p == [current |-> vaults[v].authority, new |-> k, proposed_by |-> admin,
                     expires_at |-> now + PROPOSAL_WINDOW_SECS]
    <2>1. vaults[v].authority \in Keys
      BY <1>2, LiveVault DEF ProposeCustodyAuthority, Vaults
    <2>2. p \in Proposals
      BY <2>1, CustodyAssumption DEF Proposals, CustodyInv, Around
    <2> HIDE DEF p
    <2> QED BY <1>2, <2>2 DEF ProposeCustodyAuthority, CustodyInv, Around, p
  <1>3. transfers' \in [VaultIds -> {NoProposal} \cup Proposals]
    BY <1>2 DEF CancelCustodyAuthorityTransfer, CustodyInv, Around
  <1>4. Around'
    BY <1>1, <1>3 DEF CustodyInv, Around
  <1> QED BY <1>1, <1>4, NothingMoves

LEMMA SurroundingsFine ==
    ASSUME CustodyInv, NEW who,
           (\E x \in Blockable : SetBlocked(x)) \/ RoleStep \/ SetPaused \/ Tick
    PROVE  StepFine(who)
  <1>1. UNCHANGED <<units, circulating_supply, vaults>>
    BY DEF SetBlocked, RoleStep, AddAdmin, RemoveAdmin, InstallAdmin, SetPaused, Tick
  <1>2. Around'
    <2>1. ASSUME NEW x \in Blockable, SetBlocked(x)
          PROVE  Around'
      BY <2>1 DEF SetBlocked, CustodyInv, Around, roles
    <2>2. CASE RoleStep
      BY <2>2 DEF RoleStep, AddAdmin, RemoveAdmin, InstallAdmin, CustodyInv, Around
    <2>3. CASE SetPaused
      <3>1. paused' \in BOOLEAN
        BY <2>3, Zenon DEF SetPaused
      <3> QED BY <2>3, <3>1 DEF SetPaused, CustodyInv, Around, roles
    <2>4. CASE Tick
      BY <2>4, CustodyAssumption DEF Tick, CustodyInv, Around, roles
    <2> QED BY <2>1, <2>2, <2>3, <2>4
  <1> QED BY <1>1, <1>2, NothingMoves

-----------------------------------------------------------------------------
(* At first there is no vault, and every unit is in a wallet.                *)
LEMMA InitInv == Init => CustodyInv
  <1> SUFFICES ASSUME Init PROVE CustodyInv
    OBVIOUS
  <1>1. Around
    <2>1. /\ now \in 0 .. MaxTime /\ blocked \subseteq Blockable
          /\ admin \in admins /\ admins \subseteq Keys
      BY CustodyAssumption DEF Init
    <2>2. kyc \in [Holders -> Entries]
      BY DEF Init, Entries
    <2>3. transfers \in [VaultIds -> {NoProposal} \cup Proposals]
      BY DEF Init
    <2>4. paused \in BOOLEAN
      BY DEF Init
    <2> QED BY <2>1, <2>2, <2>3, <2>4 DEF Around
  <1>2. VaultsFine
    <2>1. VaultFine(Absent)
      BY DEF VaultFine, Accounts, Vaults, Absent, Live, Terminal
    <2>2. vaults \in [VaultIds -> Accounts]
      BY DEF Init, Accounts
    <2> QED BY <2>1, <2>2 DEF Init, VaultsFine
  <1>3. Stored = 0
    <2> DEFINE f == [v \in VaultIds |-> Held(v)]
               g == [v \in VaultIds |-> 0]
    <2>1. f = g
      BY DEF Init, Held, Exists
    <2>2. g \in [VaultIds -> Int] /\ \A v \in VaultIds : g[v] = g[v] - g[v]
      OBVIOUS
    <2>3. SumOf(g, VaultIds) = 0
      <3> HIDE DEF g
      <3>1. SumOf(g, VaultIds) = SumOf(g, VaultIds) - SumOf(g, VaultIds)
        BY <2>2, CustodyAssumption, SumOfDifferences
      <3>2. SumOf(g, VaultIds) \in Int
        BY <2>2, CustodyAssumption, SumType
      <3> QED BY <3>1, <3>2
    <2> QED BY <2>1, <2>3 DEF Stored
  <1>4. circulating_supply = SumOf(units, Holders) /\ units \in [Holders -> Nat]
    BY TotalIsSumOf, CustodyAssumption DEF Init
  <1>5. SumOf(units, Holders) \in Nat
    <2>1. units \in [Holders -> Int]
      BY <1>4
    <2> QED BY <1>4, <2>1, CustodyAssumption, SumType
  <1> QED BY <1>1, <1>2, <1>3, <1>4, <1>5 DEF CustodyInv, Accounted

(* What a holder signs for itself.                                           *)
LEMMA HolderFine ==
    ASSUME CustodyInv, NEW h \in Holders, HolderStep(h)
    PROVE  StepFine(h)
  BY TransferFine, PushFine, DepositFine DEF HolderStep

(* What somebody else signs.                                                 *)
LEMMA VaultStepFine ==
    ASSUME CustodyInv, NEW who, NEW v \in VaultIds, VaultStep(v) \/ RotationStep(v)
    PROVE  StepFine(who)
  <1>1. CASE VaultStep(v)
    BY <1>1, OpenFine, MintFine, TriggerFine, RealizeFine, RevertFine, ReturnFine, ReclaimFine
    DEF VaultStep
  <1>2. CASE RotationStep(v)
    BY <1>2, ProposalFine, AcceptFine DEF RotationStep
  <1> QED BY <1>1, <1>2

LEMMA NextFine ==
    ASSUME CustodyInv, [Next]_vars
    PROVE  \E who : StepFine(who)
  <1>1. CASE UNCHANGED vars
    <2>1. Around'
      BY <1>1 DEF vars, CustodyInv, Around
    <2>2. UNCHANGED <<units, circulating_supply, vaults>>
      BY <1>1 DEF vars
    <2>3. StepFine(0)
      BY <2>1, <2>2, NothingMoves
    <2> QED BY <2>3
  <1>2. ASSUME NEW h \in Holders, HolderStep(h)
        PROVE  \E who : StepFine(who)
    BY <1>2, HolderFine
  <1>3. ASSUME NEW h \in Holders, PassportStep(h) \/ SeizureStep(h)
        PROVE  StepFine(0)
    BY <1>3, PassportFine, SeizureFine
  <1>4. ASSUME NEW v \in VaultIds, VaultStep(v) \/ RotationStep(v)
        PROVE  StepFine(0)
    BY <1>4, VaultStepFine
  <1>5. CASE (\E x \in Blockable : SetBlocked(x)) \/ RoleStep \/ SetPaused \/ Tick
    <2>1. StepFine(0)
      BY <1>5, SurroundingsFine
    <2> QED BY <2>1
  <1> QED BY <1>1, <1>2, <1>3, <1>4, <1>5 DEF Next

(* Types, covered ledgers and the count of the units: the invariant behind   *)
(* the results below.                                                        *)
THEOREM CustodyInvariance == Spec => []CustodyInv
  <1>1. CustodyInv /\ [Next]_vars => CustodyInv'
    BY NextFine DEF StepFine
  <1> QED BY <1>1, InitInv, PTL DEF Spec

(* deposit, mint_to_vault, push, seizure, realize, revert and return: every  *)
(* unit in circulation is in a wallet or in the escrow of a live vault, and  *)
(* every ledger is covered.                                                  *)
THEOREM CustodyAccounted == Spec => []UnitsAccounted
  <1>1. ASSUME CustodyInv
        PROVE  UnitsAccounted
    <2>1. circulating_supply =
              Total(units, Holders) + Total([v \in VaultIds |-> Held(v)], VaultIds)
      BY <1>1, TotalIsSumOf DEF CustodyInv, Accounted, Stored
    <2>2. TypeOK
      BY <1>1, CirculatingIsNat
      DEF CustodyInv, Around, VaultsFine, Accounted, TypeOK, Entries, Accounts, Vaults, Live
    <2>3. ASSUME NEW v \in VaultIds
          PROVE  /\ ~IsLive(v) => Held(v) = 0
                 /\ IsLive(v) => vaults[v].deposited <= vaults[v].escrow
      <3>1. CASE IsLive(v)
        BY <1>1, <3>1, LiveVault
      <3>2. CASE ~IsLive(v)
        <4>1. vaults[v] \in Accounts /\ VaultFine(vaults[v]) /\ Held(v) = HeldIn(vaults[v])
          BY <1>1, SumsByAccount DEF CustodyInv, VaultsFine
        <4> QED BY <3>2, <4>1 DEF VaultFine, HeldIn, IsLive, Live
      <3> QED BY <3>1, <3>2
    <2> QED BY <2>1, <2>2, <2>3 DEF UnitsAccounted
  <1> QED BY <1>1, CustodyInvariance, PTL

(* "Every exit burns": realize_custody_vault and revert_custody_vault are    *)
(* the only ways out of a vault that is no delivery escrow.                  *)
THEOREM QuarantineBurns == Spec => QuarantineOnlyBurns
  <1>1. CustodyInv /\ [Next]_vars =>
            [\A v \in VaultIds :
                Exists(v) /\ ~IsDelivery(v) /\ Held(v)' < Held(v) =>
                   circulating_supply' = circulating_supply - (Held(v) - Held(v)')]_vars
    BY NextFine DEF StepFine, QuarantineKept
  <1> QED BY <1>1, CustodyInvariance, PTL DEF Spec, QuarantineOnlyBurns

(* split_escrow_release and the hook: no sequence of mints, pushes into      *)
(* somebody's delivery escrow and returns adds to a holding without a        *)
(* passport.                                                                 *)
THEOREM OnlyVettedHold == Spec => OnlyVettedHoldMore
  <1>1. CustodyInv /\ [Next]_vars =>
            [\A h \in Holders : Holding(h)' > Holding(h) => Eligible(h)]_vars
    BY NextFine DEF StepFine, Vetted
  <1> QED BY <1>1, CustodyInvariance, PTL DEF Spec, OnlyVettedHoldMore

-----------------------------------------------------------------------------
(* A revoked entry, a valid one, or one that the step leaves as it is.       *)
LEMMA EntrySteps ==
    ASSUME CustodyInv, [Next]_vars, NEW h \in Holders
    PROVE  /\ now' = now \/ now' = now + 1
           /\ \/ kyc'[h] = kyc[h]
              \/ now' = now /\ (kyc'[h] = NoEntry \/ kyc'[h].status = "Revoked" \/ Eligible(h)')
  <1>1. CASE \E i \in Holders : PassportStep(i)
    <2>1. PICK i \in Holders : PassportStep(i)
      BY <1>1
    <2>2. now' = now
      BY <2>1 DEF PassportStep, ApproveHolder, RevokeHolder, ReclaimKycEntry
    <2>3. kyc \in [Holders -> Entries]
      BY DEF CustodyInv, Around
    <2>4. ASSUME i # h
          PROVE  kyc'[h] = kyc[h]
      BY <2>1, <2>3, <2>4 DEF PassportStep, ApproveHolder, RevokeHolder, ReclaimKycEntry
    <2>5. ASSUME NEW expiry, ApproveHolder(h, expiry)
          PROVE  Eligible(h)'
      BY <2>2, <2>3, <2>5 DEF ApproveHolder, Eligible
    <2>6. ASSUME RevokeHolder(h)
          PROVE  kyc'[h].status = "Revoked"
      <3>1. kyc'[h] = [kyc[h] EXCEPT !.status = "Revoked"]
        BY <2>3, <2>6 DEF RevokeHolder
      <3>2. kyc[h] \in [status : {"Approved", "Revoked"}, expiry : Nat]
        BY <2>3, <2>6 DEF RevokeHolder, Entries
      <3> QED BY <3>1, <3>2
    <2>7. ASSUME ReclaimKycEntry(h)
          PROVE  kyc'[h] = NoEntry
      BY <2>3, <2>7 DEF ReclaimKycEntry
    <2> QED BY <2>1, <2>2, <2>4, <2>5, <2>6, <2>7 DEF PassportStep
  <1>2. ASSUME NEW i \in Holders, HolderStep(i) \/ SeizureStep(i)
        PROVE  UNCHANGED <<now, kyc>>
    BY <1>2
    DEF HolderStep, SeizureStep, Transfer, Push, IntoEscrow, DepositToCustodyVault,
        ClawbackFromHolder, ClawbackBlocklistedHolder, SeizeIntoQuarantine, environment
  <1>3. ASSUME NEW v \in VaultIds, VaultStep(v) \/ RotationStep(v)
        PROVE  UNCHANGED <<now, kyc>>
    BY <1>3
    DEF VaultStep, RotationStep, OpenCustodyVault, MintToVault, TriggerCustodyVault,
        RealizeCustodyVault, RevertCustodyVault, BurnEscrow, ReturnCustodyVault, ReclaimVault,
        ProposeCustodyAuthority, AcceptCustodyAuthority, CancelCustodyAuthorityTransfer,
        environment
  <1>4. CASE (\E x \in Blockable : SetBlocked(x)) \/ RoleStep \/ SetPaused \/ Tick
    BY <1>4 DEF SetBlocked, RoleStep, AddAdmin, RemoveAdmin, InstallAdmin, SetPaused, Tick
  <1>5. CASE UNCHANGED vars
    BY <1>5 DEF vars
  <1> QED BY <1>1, <1>2, <1>3, <1>4, <1>5 DEF Next

(* The steps of the checked instance are steps of the specification.         *)
LEMMA ServiceFine ==
    ASSUME CustodyInv, scene \in Scenes, ServiceStep
    PROVE  Next /\ \A who : StepFine(who)
  <1>1. now + MAX_KYC_VALIDITY_SECS \in 0 .. MaxTime + MAX_KYC_VALIDITY_SECS
    BY CustodyAssumption DEF CustodyInv, Around
  <1>2. CASE scene = Passports /\ PassportsStep
    <2>1. CASE \E h \in Holders : PassportStep(h) \/ SeizureStep(h)
      BY <2>1, PassportFine, SeizureFine DEF Next
    <2>2. CASE \E v \in VaultIds : VaultStep(v)
      BY <2>2, VaultStepFine DEF Next
    <2>3. CASE \E x \in Blockable : SetBlocked(x)
      BY <2>3, SurroundingsFine DEF Next
    <2> QED BY <1>2, <2>1, <2>2, <2>3 DEF PassportsStep
  <1>3. CASE scene # Passports /\ RolesStep
    <2>1. scene \in VaultIds
      BY <1>3 DEF Scenes
    <2>2. CASE ApproveHolder(investor, now + MAX_KYC_VALIDITY_SECS)
      <3>1. PassportStep(investor)
        BY <1>1, <2>2 DEF PassportStep
      <3> QED BY <3>1, InvestorHolds, PassportFine DEF Next
    <2>3. CASE VaultStep(scene) \/ RotationStep(scene)
      BY <2>1, <2>3, VaultStepFine DEF Next
    <2>4. CASE RoleStep \/ SetPaused
      BY <2>4, SurroundingsFine DEF Next
    <2> QED BY <1>3, <2>2, <2>3, <2>4 DEF RolesStep
  <1>4. CASE Tick
    BY <1>4, SurroundingsFine DEF Next
  <1> QED BY <1>2, <1>3, <1>4 DEF ServiceStep

(* They lose nobody anything without a reason.                               *)
LEMMA CustodySteps ==
    ASSUME CustodyInv, scene \in Scenes, CustodyNext
    PROVE  /\ Next /\ CustodyInv'
           /\ \A h \in Holders : Holding(h)' < Holding(h) => Explained(h, signer')
  <1>1. CASE ServiceStep /\ signer' = "none"
    <2>1. Next /\ StepFine("none")
      BY <1>1, ServiceFine
    <2>2. \A h \in Holders : Holding(h)' < Holding(h) => Explained(h, "none")
      BY <2>1 DEF StepFine, LossesExplained
    <2> QED BY <1>1, <2>1, <2>2 DEF StepFine
  <1>2. CASE \E g \in Actors : HolderStep(g) /\ signer' = g
    <2>1. PICK g \in Actors : HolderStep(g) /\ signer' = g
      BY <1>2
    <2>2. g \in Holders
      BY InvestorHolds DEF Actors
    <2>3. Next /\ StepFine(g)
      BY <2>1, <2>2, HolderFine DEF Next
    <2>4. \A h \in Holders : Holding(h)' < Holding(h) => Explained(h, g)
      BY <2>3 DEF StepFine, LossesExplained
    <2> QED BY <2>1, <2>3, <2>4 DEF StepFine
  <1> QED BY <1>1, <1>2 DEF CustodyNext

\* The history of an expired passport: it has been counted since it expired.
LapseCounted ==
    /\ scene \in Scenes
    /\ lapsed \in [Holders -> Nat]
    /\ \A h \in Holders :
          kyc[h] # NoEntry /\ kyc[h].status = "Approved" /\ kyc[h].expiry <= now =>
             \/ lapsed[h] > KYC_EXPIRY_CLAWBACK_GRACE_SECS
             \/ lapsed[h] > now - kyc[h].expiry

(* The count keeps up with the clock.                                        *)
LEMMA LapseCounts ==
    ASSUME CustodyInv, LapseCounted, CustodyNext
    PROVE  LapseCounted'
  <1> DEFINE G == KYC_EXPIRY_CLAWBACK_GRACE_SECS
  <1>1. G \in Nat /\ now \in Nat /\ kyc \in [Holders -> Entries] /\ scene \in Scenes
    BY CustodyAssumption DEF CustodyInv, Around, LapseCounted
  <1>2. [Next]_vars /\ CustodyInv'
    BY <1>1, CustodySteps
  <1>3. kyc' \in [Holders -> Entries]
    BY <1>2 DEF CustodyInv, Around
  <1>4. lapsed' = [h \in Holders |-> Lapsing(h)] /\ scene' = scene
    BY DEF CustodyNext
  <1>5. ASSUME NEW h \in Holders
        PROVE  /\ Lapsing(h) \in Nat
               /\ kyc'[h] # NoEntry /\ kyc'[h].status = "Approved" /\ kyc'[h].expiry <= now' =>
                     Lapsing(h) > G \/ Lapsing(h) > now' - kyc'[h].expiry
    <2> DEFINE count == lapsed[h] + now' - now
    <2>1. /\ now' = now \/ now' = now + 1
          /\ \/ kyc'[h] = kyc[h]
             \/ now' = now
                /\ (kyc'[h] = NoEntry \/ kyc'[h].status = "Revoked" \/ Eligible(h)')
      BY <1>2, EntrySteps
    <2>2. lapsed[h] \in Nat /\ count \in Nat /\ now' \in Nat
      BY <1>1, <2>1 DEF LapseCounted
    <2>3. Min({count, G + 1}) = IF count <= G + 1 THEN count ELSE G + 1
      <3> HIDE DEF count, G
      <3> QED BY <1>1, <2>2 DEF Min
    <2>4. Lapsing(h) \in Nat
      <3> HIDE DEF count
      <3> QED BY <1>1, <2>2, <2>3 DEF Lapsing, count
    <2>5. ASSUME kyc'[h] # NoEntry, kyc'[h].status = "Approved", kyc'[h].expiry <= now'
          PROVE  Lapsing(h) > G \/ Lapsing(h) > now' - kyc'[h].expiry
      <3>1. kyc'[h].expiry \in Nat
        BY <1>3, <2>5 DEF Entries
      <3>2. ~Eligible(h)'
        BY <2>2, <2>5, <3>1 DEF Eligible
      <3>3. Lapsing(h) = IF count <= G + 1 THEN count ELSE G + 1
        BY <2>3, <2>5, <3>2 DEF Lapsing
      <3>4. kyc'[h] = kyc[h]
        BY <2>1, <2>5, <3>2
      <3>5. CASE kyc[h].expiry <= now
        <4>1. lapsed[h] > G \/ lapsed[h] > now - kyc[h].expiry
          BY <2>5, <3>4, <3>5 DEF LapseCounted
        <4> QED BY <1>1, <2>1, <2>2, <3>1, <3>3, <3>4, <4>1
      <3>6. CASE ~(kyc[h].expiry <= now)
        <4>1. now' = now + 1 /\ kyc[h].expiry = now'
          BY <1>1, <2>1, <2>5, <3>1, <3>4, <3>6
        <4> QED BY <1>1, <2>2, <3>3, <3>4, <4>1
      <3> QED BY <3>5, <3>6
    <2> QED BY <2>4, <2>5
  <1>6. lapsed' \in [Holders -> Nat]
    BY <1>4, <1>5
  <1> QED BY <1>1, <1>4, <1>5, <1>6 DEF LapseCounted

(* clawback_from_holder, clawback_blocklisted_holder, realize_custody_vault  *)
(* and the hook: what a holder has only shrinks by its own signature, by a   *)
(* seizure that its passport or a block justifies, or by a conversion while  *)
(* it is eligible.                                                           *)
THEOREM LossesJustified == CustodySpec => NobodyLosesUnawares
  <1> DEFINE Justified(h) ==
                \/ signer' = h
                \/ Seized(h) /\ (\/ h \in blocked \/ kyc[h].status = "Revoked"
                                 \/ lapsed[h] > KYC_EXPIRY_CLAWBACK_GRACE_SECS)
                \/ Realized(h) /\ Eligible(h)
             NoLoss == \A h \in Holders : Holding(h)' < Holding(h) => Justified(h)
             Inv == CustodyInv /\ LapseCounted
  <1>1. CustodyInit => Inv
    BY InitInv DEF CustodyInit, LapseCounted, Init
  <1>2. Inv /\ [CustodyNext]_mcVars => Inv'
    <2>1. CASE UNCHANGED mcVars
      <3>1. ASSUME Inv
            PROVE  CustodyInv'
        <4>1. [Next]_vars
          BY <2>1 DEF mcVars
        <4> QED BY <3>1, <4>1, NextFine DEF StepFine
      <3> QED BY <2>1, <3>1 DEF mcVars, vars, LapseCounted
    <2>2. CASE CustodyNext
      BY <2>2, CustodySteps, LapseCounts DEF LapseCounted
    <2> QED BY <2>1, <2>2
  <1>3. Inv /\ [CustodyNext]_mcVars => [NoLoss]_mcVars
    <2> SUFFICES ASSUME Inv, CustodyNext, NEW h \in Holders, Holding(h)' < Holding(h)
                 PROVE  Justified(h)
      OBVIOUS
    <2>1. Explained(h, signer')
      BY CustodySteps DEF LapseCounted
    <2>2. kyc[h] \in Entries /\ now \in Nat /\ KYC_EXPIRY_CLAWBACK_GRACE_SECS \in Nat
      BY CustodyAssumption DEF CustodyInv, Around
    <2>3. ASSUME kyc[h] # NoEntry, Seizable(h)
          PROVE  \/ kyc[h].status = "Revoked"
                 \/ lapsed[h] > KYC_EXPIRY_CLAWBACK_GRACE_SECS
      <3>1. kyc[h].expiry \in Nat /\ kyc[h].status \in {"Approved", "Revoked"}
        BY <2>2, <2>3 DEF Entries
      <3>2. lapsed[h] \in Nat
        BY DEF LapseCounted
      <3> QED BY <2>2, <2>3, <3>1, <3>2 DEF Seizable, LapseCounted
    <2> QED BY <2>1, <2>3 DEF Explained, SeizedFor
  <1> QED BY <1>1, <1>2, <1>3, PTL DEF CustodySpec, NobodyLosesUnawares
=============================================================================
