------------------------------ MODULE Placement ------------------------------
(***************************************************************************)
(* The pure VIP placement algorithm of raft/store/vip_logic.rs as a        *)
(* function of its inputs.  Node ids and VIP addresses are naturals, their *)
(* order is the BTreeMap order the code relies on.  A holder map is a      *)
(* total function on Vips whose value NoNode stands for an absent key.     *)
(***************************************************************************)
EXTENDS Ids, FiniteSetsExt

VipsOf(h, n) == {v \in Vips : h[v] = n}

Load(h, n) == Cardinality(VipsOf(h, n))

\* extreme_loaded_node: the map is scanned in id order and a tie keeps the
\* node met first, the lowest id.
LeastLoaded(h, S) ==
    CHOOSE n \in S : \A m \in S :
        Load(h, n) < Load(h, m) \/ (Load(h, n) = Load(h, m) /\ n <= m)

MostLoaded(h, S) ==
    CHOOSE n \in S : \A m \in S :
        Load(h, n) > Load(h, m) \/ (Load(h, n) = Load(h, m) /\ n <= m)

\* Pass 1: a VIP stays on a holder that is still eligible.
KeepEligible(eligible, current) ==
    [v \in Vips |-> IF current[v] \in eligible THEN current[v] ELSE NoNode]

\* Pass 2: each orphan, in address order, goes to the least-loaded node.
PlaceOrphans(eligible, kept) ==
    LET place[h \in Holders(eligible)] ==
            LET orphans == VipsOf(h, NoNode)
            IN IF orphans = {} THEN h
               ELSE place[[h EXCEPT ![Min(orphans)] = LeastLoaded(h, eligible)]]
    IN place[kept]

HighestVip(h, n) == CHOOSE v \in VipsOf(h, n) : \A w \in VipsOf(h, n) : w <= v

\* The loop test of pass 3; only rebalance receivers may take a VIP.
Unbalanced(eligible, receivers, h) ==
    /\ receivers # {}
    /\ Load(h, MostLoaded(h, eligible)) > Load(h, LeastLoaded(h, receivers)) + 1

Rebalance(eligible, receivers, placed) ==
    LET settle[h \in Holders(eligible)] ==
            IF Unbalanced(eligible, receivers, h)
            THEN settle[[h EXCEPT ![HighestVip(h, MostLoaded(h, eligible))]
                                      = LeastLoaded(h, receivers)]]
            ELSE h
    IN settle[placed]

\* assign_vips_minimal_movement_with_receivers
AssignVips(eligible, receivers, current) ==
    IF eligible = {}
    THEN [v \in Vips |-> NoNode]
    ELSE Rebalance(eligible, receivers,
                   PlaceOrphans(eligible, KeepEligible(eligible, current)))

=============================================================================
