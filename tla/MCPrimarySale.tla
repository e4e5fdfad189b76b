---------------------------- MODULE MCPrimarySale ----------------------------
(***************************************************************************)
(* A small instance of PrimarySale for TLC, in two scenarios told apart by *)
(* the share class of the initial state.                                   *)
(*   Review: one sale id under every combination of approval and sale      *)
(*     terms, two Admins who come and go, every brake off or on.           *)
(*   Supply: two sales of one class compete for its supply with treasury   *)
(*     mints, burns and the lock, under every kind of class.               *)
(***************************************************************************)
EXTENDS PrimarySale

CONSTANTS alice, bob

SupplyClasses == [max_supply : {3}, cumulative_cap : BOOLEAN,
                  mintable_post_launch : BOOLEAN]
ReviewClass == [max_supply |-> 4, cumulative_cap |-> FALSE,
                mintable_post_launch |-> FALSE]
MCClasses == SupplyClasses \cup {ReviewClass}

Mature  == [raise_type |-> "Mature", cliff |-> 0, vesting |-> 0]
Startup == [raise_type |-> "Startup", cliff |-> 1, vesting |-> 3]
With(kind, terms) == [f \in DOMAIN kind \cup DOMAIN terms |->
                        IF f \in DOMAIN kind THEN kind[f] ELSE terms[f]]
MCApprovalTerms ==
    {With(kind, [max_gross |-> 6, min_price |-> 2, max_price |-> 3, ttl |-> 2])
        : kind \in {Mature, Startup}}
MCSaleTerms ==
    {With(kind, t) : kind \in {Mature, Startup}, t \in
       {[price |-> 2, total |-> 2, start_in |-> 1, duration |-> 2],
        [price |-> 3, total |-> 2, start_in |-> 0, duration |-> 1],
        [price |-> 2, total |-> 1, start_in |-> -1, duration |-> 3],
        \* outside the review: too dear in all, too cheap, too late
        [price |-> 3, total |-> 3, start_in |-> 0, duration |-> 1],
        [price |-> 1, total |-> 2, start_in |-> 0, duration |-> 1],
        [price |-> 2, total |-> 2, start_in |-> 3, duration |-> 1]}}
MCBrakeSets == {{}, {"IssuerFreeze"}, BrakeNames}

(* What a scenario leaves out, and its bounds on time and on units issued.   *)
ReviewScenario == approvals'[2] = NoApproval /\ lifetime_minted' <= 3

OneApproval(a) == a.raise_type = "Mature" /\ a.approved_by = bob
OneSale(sale, isNew) ==
    /\ sale.raise_type = "Mature" /\ sale.price = 3 /\ sale.total = 2
    /\ isNew => sale.start_ts = now

SupplyScenario ==
    /\ now' <= 2 /\ brakes' = {} /\ admins' = Admins
    /\ \A s \in SaleIds : /\ approvals'[s] = NoApproval \/ OneApproval(approvals'[s])
                          /\ sales'[s] = NoSale \/ OneSale(sales'[s], sales[s] = NoSale)

Scenario == IF class = ReviewClass THEN ReviewScenario ELSE SupplyScenario
=============================================================================
